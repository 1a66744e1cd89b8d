-------------------------- MODULE NetworkResolver --------------------------
(***************************************************************************)
(* src/main/network_resolver.c: cancellable DNS lookups shared by the HTTP *)
(* transport and the Diagnostics worker.                                   *)
(*                                                                         *)
(* A caller publishes a lookup object that lives on its own stack in one   *)
(* of the `active' slots, posts the lookup's id to the lwIP thread, and    *)
(* polls every 10 ms until the lookup is done, cancelled or out of time.   *)
(* It then detaches the slot and returns, whether or not lwIP still holds  *)
(* the id.  lwIP therefore answers ids, never pointers: the mailbox entry, *)
(* the dispatch in progress and every outstanding query may all outlive    *)
(* the caller that started them.                                           *)
(*                                                                         *)
(* Time is abstracted to one flag per call: expired[c] says that           *)
(* esp_timer_get_time() has reached the call's deadline.                   *)
(***************************************************************************)
EXTENDS Integers, Sequences, FiniteSets

CONSTANTS
    Callers,         \* the tasks that resolve names
    Slots,           \* indices of active[] (0..1 in the code)
    Hosts,           \* host names a caller may ask for
    NumericHosts,    \* those that ipaddr_aton() parses
    InvalidHosts,    \* those the argument checks refuse
    MaxId,           \* ids are 1..MaxId (2^32 - 1 in the code)
    MaxAddresses,    \* NETWORK_RESOLVER_MAX_ADDRESSES
    Capacity,        \* Capacity[c]: the size of c's address array
    MailboxSize,     \* entries of the tcpip thread's mailbox
    QueryTableSize,  \* outstanding requests of lwIP's DNS client
    NoCaller, NoQuery, NoAnswer, NoHost

ASSUME ConstantsOK ==
    /\ Slots \subseteq Nat
    /\ NumericHosts \subseteq Hosts /\ InvalidHosts \subseteq Hosts
    /\ MaxId \in Nat \ {0} /\ MaxAddresses \in Nat \ {0}
    /\ Capacity \in [Callers -> 1..MaxAddresses]
    /\ MailboxSize \in Nat /\ QueryTableSize \in Nat
    /\ NoCaller \notin Callers /\ NoHost \notin Hosts
    /\ NoAnswer \notin [host : Hosts, count : 1..MaxAddresses]
    /\ NoQuery \notin [id : 1..MaxId, host : Hosts]

VARIABLES
    pc,           \* where each caller is inside network_resolve_host
    lookup,       \* each caller's stack object
    slot,         \* the caller's local `slot'
    result,       \* each caller's return value and output array
    cancelled,    \* what the caller's cancel callback answers
    expired,      \* the call's deadline has passed
    active,       \* the published lookups, by slot
    nextId,       \* the last id handed out
    mailbox,      \* ids posted to the lwIP thread and not yet dispatched
    dispatching,  \* the query lookup_dispatch copied and is about to issue
    queries       \* queries lwIP will answer through lookup_found

callerVars == <<pc, slot, result, cancelled, expired>>
lwipVars == <<mailbox, dispatching, queries>>
vars == <<pc, lookup, slot, result, cancelled, expired, active, nextId,
          mailbox, dispatching, queries>>

Ids == 1..MaxId
Answers == [host : Hosts, count : 1..MaxAddresses]
Errors == {"ok", "EINVAL", "ECANCELED", "ETIMEDOUT", "EBUSY", "ENOMEM", "EHOSTUNREACH"}
Outcomes == [error : Errors, answer : Answers \cup {NoAnswer}]
Lookups == [id : 0..MaxId, host : Hosts \cup {NoHost}, done : BOOLEAN,
            error : Errors, answer : Answers \cup {NoAnswer}]
Queries == [id : Ids, host : Hosts]

\* The part of network_resolve_host during which the slot is held.
InLookup == {"submit", "poll", "read", "detach"}

TypeOK ==
    /\ pc \in [Callers -> {"idle", "attach", "return"} \cup InLookup]
    /\ lookup \in [Callers -> Lookups]
    /\ slot \in [Callers -> Slots \cup {0}]
    /\ result \in [Callers -> Outcomes]
    /\ cancelled \in [Callers -> BOOLEAN]
    /\ expired \in [Callers -> BOOLEAN]
    /\ active \in [Slots -> Callers \cup {NoCaller}]
    /\ nextId \in 0..MaxId
    /\ mailbox \in Seq(Ids)
    /\ dispatching \in Queries \cup {NoQuery}
    /\ queries \subseteq Queries

Failure(e) == [error |-> e, answer |-> NoAnswer]

\* A popped frame and the zeroed lookup of a new one look alike.
NoLookup == [id |-> 0, host |-> NoHost, done |-> FALSE, error |-> "ok", answer |-> NoAnswer]

Init ==
    /\ pc = [c \in Callers |-> "idle"]
    /\ lookup = [c \in Callers |-> NoLookup]
    /\ slot = [c \in Callers |-> 0]
    /\ result = [c \in Callers |-> Failure("ok")]
    /\ cancelled = [c \in Callers |-> FALSE]
    /\ expired = [c \in Callers |-> FALSE]
    /\ active = [s \in Slots |-> NoCaller]
    /\ nextId = 0
    /\ mailbox = <<>>
    /\ dispatching = NoQuery
    /\ queries = {}

-----------------------------------------------------------------------------
\* The caller's side: network_resolve_host.

\* stop_error(): a cancelled call reports the cancellation, even out of time.
StopError(isCancelled, isExpired) ==
    IF isCancelled THEN "ECANCELED" ELSE IF isExpired THEN "ETIMEDOUT" ELSE "ok"

\* Entry: argument checks, the first stop check and the numeric shortcut.  The
\* cancel flag and the deadline are the caller's own and may have passed.
Call(c, h, isCancelled, isExpired) ==
    LET error == IF h \in InvalidHosts THEN "EINVAL"
                 ELSE StopError(isCancelled, isExpired)
    IN  /\ pc[c] = "idle"
        /\ cancelled' = [cancelled EXCEPT ![c] = isCancelled]
        /\ expired' = [expired EXCEPT ![c] = isExpired]
        /\ \/ /\ error # "ok"
              /\ result' = [result EXCEPT ![c] = Failure(error)]
              /\ pc' = [pc EXCEPT ![c] = "return"]
              /\ UNCHANGED lookup
           \/ /\ error = "ok" /\ h \in NumericHosts
              /\ result' = [result EXCEPT ![c] =
                              [error |-> "ok", answer |-> [host |-> h, count |-> 1]]]
              /\ pc' = [pc EXCEPT ![c] = "return"]
              /\ UNCHANGED lookup
           \/ /\ error = "ok" /\ h \notin NumericHosts
              /\ lookup' = [lookup EXCEPT ![c].host = h]
              /\ pc' = [pc EXCEPT ![c] = "attach"]
              /\ UNCHANGED result
        /\ UNCHANGED <<slot, active, nextId, lwipVars>>

\* ++next_id skips 0 when the 32-bit counter wraps.
NextId(id) == IF id = MaxId THEN 1 ELSE id + 1

IdsInLwip == {mailbox[i] : i \in 1..Len(mailbox)}
             \cup (IF dispatching = NoQuery THEN {} ELSE {dispatching.id})
             \cup {q.id : q \in queries}
IdsAttached == {lookup[c].id : c \in {d \in Callers : pc[d] \in InLookup}}

\* Bound on the id space: 2^32 - 1 lookups do not pass while one is in flight.
IdNotReused(id) == id \notin IdsInLwip \cup IdsAttached

FirstFree(s) == active[s] = NoCaller /\ \A t \in Slots : t < s => active[t] # NoCaller

TakeSlot(c) ==
    /\ \E s \in Slots :
        /\ FirstFree(s)
        /\ IdNotReused(NextId(nextId))
        /\ nextId' = NextId(nextId)
        /\ lookup' = [lookup EXCEPT ![c].id = NextId(nextId)]
        /\ active' = [active EXCEPT ![s] = c]
        /\ slot' = [slot EXCEPT ![c] = s]
    /\ pc' = [pc EXCEPT ![c] = "submit"]
    /\ UNCHANGED <<result, cancelled, expired, lwipVars>>

AllSlotsTaken(c) ==
    /\ \A s \in Slots : active[s] # NoCaller
    /\ result' = [result EXCEPT ![c] = Failure("EBUSY")]
    /\ pc' = [pc EXCEPT ![c] = "return"]
    /\ UNCHANGED <<lookup, slot, cancelled, expired, active, nextId, lwipVars>>

\* Under lookup_lock: take the first free slot and publish the lookup, or give up.
Attach(c) ==
    /\ pc[c] = "attach"
    /\ TakeSlot(c) \/ AllSlotsTaken(c)

\* Faulty failure path for mutation: a full mailbox returns without detaching.
SubmitReturnsAtOnce(c) ==
    /\ pc[c] = "submit"
    /\ \/ /\ Len(mailbox) < MailboxSize
          /\ mailbox' = Append(mailbox, lookup[c].id)
          /\ pc' = [pc EXCEPT ![c] = "poll"]
          /\ UNCHANGED result
       \/ /\ Len(mailbox) >= MailboxSize
          /\ result' = [result EXCEPT ![c] = Failure("ENOMEM")]
          /\ pc' = [pc EXCEPT ![c] = "return"]
          /\ UNCHANGED mailbox
    /\ UNCHANGED <<lookup, slot, cancelled, expired, active, nextId, dispatching, queries>>

\* tcpip_try_callback() never blocks: a full mailbox fails the call.
Submit(c) ==
    /\ pc[c] = "submit"
    /\ \/ /\ Len(mailbox) < MailboxSize
          /\ mailbox' = Append(mailbox, lookup[c].id)
          /\ pc' = [pc EXCEPT ![c] = "poll"]
          /\ UNCHANGED result
       \/ /\ Len(mailbox) >= MailboxSize
          /\ result' = [result EXCEPT ![c] = Failure("ENOMEM")]
          /\ pc' = [pc EXCEPT ![c] = "detach"]
          /\ UNCHANGED mailbox
    /\ UNCHANGED <<lookup, slot, cancelled, expired, active, nextId, dispatching, queries>>

\* The stop check at the head of the polling loop, outside the lock.
Poll(c) ==
    LET error == StopError(cancelled[c], expired[c])
    IN  /\ pc[c] = "poll"
        /\ \/ /\ error # "ok"
              /\ result' = [result EXCEPT ![c] = Failure(error)]
              /\ pc' = [pc EXCEPT ![c] = "detach"]
           \/ /\ error = "ok"
              /\ pc' = [pc EXCEPT ![c] = "read"]
              /\ UNCHANGED result
        /\ UNCHANGED <<lookup, slot, cancelled, expired, active, nextId, lwipVars>>

SmallerOf(m, n) == IF m < n THEN m ELSE n

\* Under the lock: copy a finished lookup out, or sleep and poll again.
Read(c) ==
    LET l == lookup[c]
    IN  /\ pc[c] = "read"
        /\ \/ /\ ~l.done
              /\ pc' = [pc EXCEPT ![c] = "poll"]
              /\ UNCHANGED result
           \/ /\ l.done /\ l.error # "ok"
              /\ result' = [result EXCEPT ![c] = Failure(l.error)]
              /\ pc' = [pc EXCEPT ![c] = "detach"]
           \/ /\ l.done /\ l.error = "ok"
              /\ result' = [result EXCEPT ![c] =
                    [error |-> "ok",
                     answer |-> [l.answer EXCEPT !.count = SmallerOf(@, Capacity[c])]]]
              /\ pc' = [pc EXCEPT ![c] = "detach"]
        /\ UNCHANGED <<lookup, slot, cancelled, expired, active, nextId, lwipVars>>

\* Every path that attached ends here: the slot is freed, then the call returns.
Detach(c) ==
    /\ pc[c] = "detach"
    /\ active' = [active EXCEPT ![slot[c]] = NoCaller]
    /\ pc' = [pc EXCEPT ![c] = "return"]
    /\ UNCHANGED <<lookup, slot, result, cancelled, expired, nextId, lwipVars>>

\* The frame is popped: nothing of the call is left but what lwIP still holds.
Return(c) ==
    /\ pc[c] = "return"
    /\ pc' = [pc EXCEPT ![c] = "idle"]
    /\ lookup' = [lookup EXCEPT ![c] = NoLookup]
    /\ slot' = [slot EXCEPT ![c] = 0]
    /\ result' = [result EXCEPT ![c] = Failure("ok")]
    /\ cancelled' = [cancelled EXCEPT ![c] = FALSE]
    /\ expired' = [expired EXCEPT ![c] = FALSE]
    /\ UNCHANGED <<active, nextId, lwipVars>>

\* Another task raises the caller's cancel flag, or the deadline passes.
Cancel(c) ==
    /\ pc[c] \notin {"idle", "detach", "return"} /\ ~cancelled[c]
    /\ cancelled' = [cancelled EXCEPT ![c] = TRUE]
    /\ UNCHANGED <<pc, lookup, slot, result, expired, active, nextId, lwipVars>>

Expire(c) ==
    /\ pc[c] \notin {"idle", "detach", "return"} /\ ~expired[c]
    /\ expired' = [expired EXCEPT ![c] = TRUE]
    /\ UNCHANGED <<pc, lookup, slot, result, cancelled, active, nextId, lwipVars>>

-----------------------------------------------------------------------------
\* The lwIP thread's side: lookup_dispatch, lookup_found, lookup_result.

\* Faulty searches for mutation: any published lookup matches, or a lookup that
\* is no longer published still does.
FindAnyLookup(id) == {c \in Callers : \E s \in Slots : active[s] = c}
FindStaleLookup(id) == {c \in Callers : lookup[c].id = id}

\* find_lookup(): the published lookups that carry the id.
FindLookup(id) == {c \in Callers : /\ \E s \in Slots : active[s] = c
                                   /\ lookup[c].id = id}

\* lookup_result(): write a published, unfinished lookup; otherwise drop the answer.
LookupResult(id, error, answer) ==
    lookup' = [c \in Callers |->
                 IF c \in FindLookup(id) /\ ~lookup[c].done
                 THEN [lookup[c] EXCEPT !.done = TRUE, !.error = error, !.answer = answer]
                 ELSE lookup[c]]

\* lookup_dispatch() up to the unlock: drop a detached id, time out an expired
\* one without a query, copy the host of any other.
Dispatch ==
    /\ dispatching = NoQuery /\ mailbox # <<>>
    /\ mailbox' = Tail(mailbox)
    /\ \/ /\ FindLookup(Head(mailbox)) = {}
          /\ UNCHANGED <<lookup, dispatching>>
       \/ \E c \in FindLookup(Head(mailbox)) :
            \/ /\ expired[c]
               /\ lookup' = [lookup EXCEPT ![c].done = TRUE, ![c].error = "ETIMEDOUT"]
               /\ UNCHANGED dispatching
            \/ /\ ~expired[c]
               /\ dispatching' = [id |-> Head(mailbox), host |-> lookup[c].host]
               /\ UNCHANGED lookup
    /\ UNCHANGED <<callerVars, active, nextId, queries>>

\* dns_gethostbyname_addrtype(): a cached answer, a refusal, or a query in
\* progress.  The caller may have detached since the host was copied.
QueryCached ==
    /\ dispatching # NoQuery
    /\ \E n \in 1..MaxAddresses :
         LookupResult(dispatching.id, "ok", [host |-> dispatching.host, count |-> n])
    /\ dispatching' = NoQuery
    /\ UNCHANGED <<callerVars, active, nextId, mailbox, queries>>

QueryRefused ==
    /\ dispatching # NoQuery
    /\ \/ /\ Cardinality(queries) >= QueryTableSize      \* ERR_MEM
          /\ LookupResult(dispatching.id, "ENOMEM", NoAnswer)
       \/ LookupResult(dispatching.id, "EHOSTUNREACH", NoAnswer)
    /\ dispatching' = NoQuery
    /\ UNCHANGED <<callerVars, active, nextId, mailbox, queries>>

QueryInProgress ==
    /\ dispatching # NoQuery
    /\ Cardinality(queries) < QueryTableSize
    /\ queries' = queries \cup {dispatching}
    /\ dispatching' = NoQuery
    /\ UNCHANGED <<callerVars, lookup, active, nextId, mailbox>>

\* lookup_found(): lwIP answers or gives up on a query, in any order, on the
\* same thread as the dispatches.
LookupFound(q) ==
    /\ dispatching = NoQuery
    /\ queries' = queries \ {q}
    /\ \/ \E n \in 1..MaxAddresses :
            LookupResult(q.id, "ok", [host |-> q.host, count |-> n])
       \/ LookupResult(q.id, "EHOSTUNREACH", NoAnswer)
    /\ UNCHANGED <<callerVars, active, nextId, mailbox, dispatching>>

-----------------------------------------------------------------------------
Next ==
    \/ \E c \in Callers :
         \/ \E h \in Hosts, b, e \in BOOLEAN : Call(c, h, b, e)
         \/ Attach(c) \/ Submit(c) \/ Poll(c) \/ Read(c)
         \/ Detach(c) \/ Return(c)
         \/ Cancel(c) \/ Expire(c)
    \/ Dispatch \/ QueryCached \/ QueryRefused \/ QueryInProgress
    \/ \E q \in queries : LookupFound(q)

Spec == Init /\ [][Next]_vars

-----------------------------------------------------------------------------
\* A slot is held by exactly the callers between attach and detach, each in its
\* own slot, and no two of them carry the same id (active[], lookup.id): the
\* property that lets a bare id stand for a pointer into another task's stack.
SlotOwnership ==
    /\ \A s \in Slots : active[s] # NoCaller =>
         /\ pc[active[s]] \in InLookup
         /\ slot[active[s]] = s
    /\ \A c \in Callers : pc[c] \in InLookup => active[slot[c]] = c
    /\ \A c, d \in Callers :
         pc[c] \in InLookup /\ pc[d] \in InLookup /\ lookup[c].id = lookup[d].id => c = d

\* A lookup that ends in success hands over addresses of the very host it asked
\* for, at least one and no more than the caller's array holds, whatever older
\* lookups lwIP is still answering.
AnswerMatchesRequest ==
    \A c \in Callers :
      pc[c] = "detach" /\ result[c].error = "ok" =>
        /\ result[c].answer # NoAnswer
        /\ result[c].answer.host = lookup[c].host
        /\ result[c].answer.count \in 1..Capacity[c]

\* lwIP never writes into the stack frame of a call that has not published its
\* lookup yet or no longer does: there, no step of another task changes it.
NoWriteAfterReturn ==
    [][\A c \in Callers :
         pc[c] \notin InLookup /\ pc'[c] = pc[c] => lookup'[c] = lookup[c]]_vars

\* What a lookup in progress holds: a name, an id, a slot, and, once it is done
\* without error, an answer for its own name.
LiveLookups ==
    \A c \in Callers :
      /\ pc[c] = "idle" => lookup[c] = NoLookup
      /\ pc[c] = "attach" => ~lookup[c].done /\ lookup[c].host \in Hosts
      /\ pc[c] \in InLookup =>
           /\ lookup[c].host \in Hosts /\ lookup[c].id \in Ids /\ slot[c] \in Slots
           /\ lookup[c].done /\ lookup[c].error = "ok" =>
                lookup[c].answer \in Answers /\ lookup[c].answer.host = lookup[c].host

\* What lwIP still holds under the id of a live lookup is a query for its name.
OneNamePerId ==
    \A c \in Callers : pc[c] \in InLookup =>
      /\ dispatching # NoQuery /\ dispatching.id = lookup[c].id =>
           dispatching.host = lookup[c].host
      /\ \A q \in queries : q.id = lookup[c].id => q.host = lookup[c].host

\* The inductive invariant behind SlotOwnership and AnswerMatchesRequest.
IInv == TypeOK /\ SlotOwnership /\ LiveLookups /\ OneNamePerId /\ AnswerMatchesRequest

=============================================================================
