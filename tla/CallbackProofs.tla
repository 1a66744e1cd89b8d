---------------------------- MODULE CallbackProofs ----------------------------
(***************************************************************************)
(* Two components that a library calls back on a task of its own.          *)
(*                                                                         *)
(* NetworkResolver: for every number of callers, slots, ids and names, a   *)
(* published lookup belongs to exactly one waiting caller, and a           *)
(* successful call returns addresses of the name it asked for.             *)
(*                                                                         *)
(* MqttSession: for every number of sessions, actions and entries, no task *)
(* uses a client that is gone, the worker does not sleep on work, every    *)
(* accepted entry is accounted for and a storage error is reported once.   *)
(***************************************************************************)
EXTENDS NetworkResolver, MqttSession, SequenceTheorems, TLAPS

\* What a lookup holds after lookup_result(), whichever lookups it writes.
LEMMA LookupResultEffect ==
    ASSUME IInv, NEW id \in Ids, NEW error \in Errors, NEW answer \in Answers \cup {NoAnswer},
           LookupResult(id, error, answer)
    PROVE  /\ lookup' \in [Callers -> Lookups]
           /\ \A c \in Callers :
                /\ lookup'[c].id = lookup[c].id /\ lookup'[c].host = lookup[c].host
                /\ \/ lookup'[c] = lookup[c]
                   \/ /\ pc[c] \in InLookup /\ lookup[c].id = id
                      /\ lookup'[c].done
                      /\ lookup'[c].error = error /\ lookup'[c].answer = answer
<1>1. TypeOK /\ SlotOwnership
  BY DEF IInv
<1>2. \A c \in FindLookup(id) : pc[c] \in InLookup /\ lookup[c].id = id
  BY <1>1, ConstantsOK DEF TypeOK, SlotOwnership, FindLookup
<1>3. lookup' \in [Callers -> Lookups]
  <2> DEFINE written(c) == [lookup[c] EXCEPT !.done = TRUE, !.error = error, !.answer = answer]
  <2>1. \A c \in Callers : lookup[c] \in Lookups
    BY <1>1 DEF TypeOK
  <2>2. ASSUME NEW c \in Callers PROVE written(c) \in Lookups
    BY <2>1 DEF Lookups
  <2>3. lookup' = [c \in Callers |-> IF c \in FindLookup(id) /\ ~lookup[c].done
                                     THEN written(c) ELSE lookup[c]]
    BY DEF LookupResult
  <2> HIDE DEF written
  <2> QED
    BY <2>1, <2>2, <2>3
<1>4. \A c \in Callers :
        /\ lookup'[c].id = lookup[c].id /\ lookup'[c].host = lookup[c].host
        /\ \/ lookup'[c] = lookup[c]
           \/ /\ c \in FindLookup(id)
              /\ lookup'[c].done
              /\ lookup'[c].error = error /\ lookup'[c].answer = answer
  <2> SUFFICES ASSUME NEW c \in Callers
               PROVE  /\ lookup'[c].id = lookup[c].id /\ lookup'[c].host = lookup[c].host
                      /\ \/ lookup'[c] = lookup[c]
                         \/ /\ c \in FindLookup(id)
                            /\ lookup'[c].done
                            /\ lookup'[c].error = error /\ lookup'[c].answer = answer
    OBVIOUS
  <2>1. lookup[c] \in Lookups
    BY <1>1 DEF TypeOK
  <2>2. lookup'[c] = IF c \in FindLookup(id) /\ ~lookup[c].done
                     THEN [lookup[c] EXCEPT !.done = TRUE, !.error = error, !.answer = answer]
                     ELSE lookup[c]
    BY DEF LookupResult
  <2> QED
    BY <2>1, <2>2 DEF Lookups
<1> QED
  BY <1>2, <1>3, <1>4

\* A result delivered for a query of the right name keeps the whole invariant.
LEMMA LookupResultKeepsIInv ==
    ASSUME IInv, NEW q \in Queries, NEW error \in Errors, NEW answer \in Answers \cup {NoAnswer},
           LookupResult(q.id, error, answer),
           error = "ok" => answer \in Answers /\ answer.host = q.host,
           \A c \in Callers : pc[c] \in InLookup /\ lookup[c].id = q.id => lookup[c].host = q.host,
           UNCHANGED <<callerVars, active, nextId, mailbox>>,
           dispatching' \in {dispatching, NoQuery}, queries' \subseteq queries
    PROVE  IInv'
<1> USE DEF callerVars
<1>1. q.id \in Ids
  BY DEF Queries
<1>2. /\ lookup' \in [Callers -> Lookups]
      /\ \A c \in Callers :
           /\ lookup'[c].id = lookup[c].id /\ lookup'[c].host = lookup[c].host
           /\ \/ lookup'[c] = lookup[c]
              \/ /\ pc[c] \in InLookup /\ lookup[c].id = q.id
                 /\ lookup'[c].done
                 /\ lookup'[c].error = error /\ lookup'[c].answer = answer
  BY <1>1, LookupResultEffect
<1>3. TypeOK'
  BY <1>2 DEF IInv, TypeOK
<1>4. SlotOwnership'
  BY <1>2 DEF IInv, SlotOwnership
<1>5. LiveLookups'
  BY <1>2 DEF IInv, LiveLookups, InLookup
<1>6. OneNamePerId'
  BY <1>2 DEF IInv, OneNamePerId
<1>7. AnswerMatchesRequest'
  BY <1>2 DEF IInv, AnswerMatchesRequest
<1> QED
  BY <1>3, <1>4, <1>5, <1>6, <1>7 DEF IInv

\* The empty lookup table satisfies the invariant.
LEMMA InitIInv == Init => IInv
<1> SUFFICES ASSUME Init PROVE IInv
  OBVIOUS
<1>1. TypeOK
  BY ConstantsOK DEF Init, TypeOK, NoLookup, Failure, Lookups, Outcomes, Errors, Ids, Queries
<1>2. SlotOwnership /\ LiveLookups /\ OneNamePerId /\ AnswerMatchesRequest
  BY DEF Init, SlotOwnership, LiveLookups, OneNamePerId, AnswerMatchesRequest, InLookup
<1> QED
  BY <1>1, <1>2 DEF IInv

\* One step per action: the entry and exit of a call, attach, detach, the
\* polling loop, and lwIP's three ways to finish a lookup.
LEMMA NextIInv == IInv /\ [Next]_vars => IInv'
<1> SUFFICES ASSUME IInv, [Next]_vars PROVE IInv'
  OBVIOUS
<1> USE DEF callerVars, lwipVars
<1>0. TypeOK /\ SlotOwnership /\ LiveLookups /\ OneNamePerId /\ AnswerMatchesRequest
  BY DEF IInv
<1>1. ASSUME NEW c \in Callers, NEW h \in Hosts, NEW b \in BOOLEAN, NEW e \in BOOLEAN,
             Call(c, h, b, e)
      PROVE  IInv'
  <2> DEFINE named == [lookup[c] EXCEPT !.host = h]
  <2>1. /\ pc[c] = "idle" /\ lookup[c] = NoLookup
        /\ UNCHANGED <<slot, active, nextId, mailbox, dispatching, queries>>
    BY <1>0, <1>1 DEF Call, LiveLookups
  <2>2. named \in Lookups /\ named.host = h /\ ~named.done
    <3>1. lookup[c] \in Lookups
      BY <1>0 DEF TypeOK
    <3>2. lookup[c].done = FALSE
      BY <2>1 DEF NoLookup
    <3>3. named \in Lookups /\ named.host = h /\ named.done = lookup[c].done
      BY <3>1 DEF Lookups
    <3> QED
      BY <3>2, <3>3
  <2>3. \/ pc' = [pc EXCEPT ![c] = "return"] /\ lookup' = lookup
        \/ pc' = [pc EXCEPT ![c] = "attach"] /\ lookup' = [lookup EXCEPT ![c] = named]
    BY <1>0, <1>1 DEF Call, TypeOK
  <2>4. \A d \in Callers \ {c} : result'[d] = result[d]
    BY <1>0, <1>1 DEF Call, TypeOK
  <2>5. result' \in [Callers -> Outcomes]
    <3>1. PICK o \in Outcomes : result' \in {result, [result EXCEPT ![c] = o]}
      <4>1. \A x \in Errors : Failure(x) \in Outcomes
        BY DEF Failure, Outcomes
      <4>2. StopError(b, e) \in Errors /\ "EINVAL" \in Errors
        BY DEF StopError, Errors
      <4>3. [error |-> "ok", answer |-> [host |-> h, count |-> 1]] \in Outcomes
        BY ConstantsOK DEF Outcomes, Errors, Answers
      <4> QED
        BY <1>1, <4>1, <4>2, <4>3 DEF Call
    <3> QED
      BY <1>0, <3>1 DEF TypeOK
  <2>6. cancelled' \in [Callers -> BOOLEAN] /\ expired' \in [Callers -> BOOLEAN]
    BY <1>0, <1>1 DEF Call, TypeOK
  <2> HIDE DEF named
  <2>7. TypeOK'
    BY <1>0, <2>1, <2>2, <2>3, <2>5, <2>6 DEF TypeOK, InLookup
  <2>8. SlotOwnership' /\ OneNamePerId' /\ AnswerMatchesRequest'
    BY <1>0, <2>1, <2>2, <2>3, <2>4
    DEF TypeOK, SlotOwnership, OneNamePerId, AnswerMatchesRequest, InLookup
  <2>9. LiveLookups'
    BY <1>0, <2>1, <2>2, <2>3 DEF TypeOK, LiveLookups, InLookup
  <2> QED
    BY <2>7, <2>8, <2>9 DEF IInv
<1>2. ASSUME NEW c \in Callers, pc[c] = "attach", TakeSlot(c) PROVE IInv'
  <2>1. PICK s \in Slots :
          /\ active[s] = NoCaller
          /\ IdNotReused(NextId(nextId))
          /\ nextId' = NextId(nextId)
          /\ lookup' = [lookup EXCEPT ![c].id = NextId(nextId)]
          /\ active' = [active EXCEPT ![s] = c]
          /\ slot' = [slot EXCEPT ![c] = s]
    BY <1>2 DEF TakeSlot, FirstFree
  <2>2. /\ pc[c] = "attach" /\ pc' = [pc EXCEPT ![c] = "submit"]
        /\ UNCHANGED <<result, cancelled, expired, mailbox, dispatching, queries>>
    BY <1>2 DEF TakeSlot
  <2>3. NextId(nextId) \in Ids
    BY <1>0, ConstantsOK DEF TypeOK, NextId, Ids
  <2>4. /\ \A d \in Callers : pc[d] \in InLookup => lookup[d].id # NextId(nextId)
        /\ dispatching # NoQuery => dispatching.id # NextId(nextId)
        /\ \A q \in queries : q.id # NextId(nextId)
    BY <2>1 DEF IdNotReused, IdsAttached, IdsInLwip
  <2>5. /\ lookup' \in [Callers -> Lookups]
        /\ lookup'[c].id = NextId(nextId)
        /\ lookup'[c].host = lookup[c].host /\ lookup'[c].done = lookup[c].done
        /\ \A d \in Callers \ {c} : lookup'[d] = lookup[d]
    <3> DEFINE numbered == [lookup[c] EXCEPT !.id = NextId(nextId)]
    <3>1. /\ numbered \in Lookups /\ numbered.id = NextId(nextId)
          /\ numbered.host = lookup[c].host /\ numbered.done = lookup[c].done
      <4>1. lookup[c] \in Lookups /\ NextId(nextId) \in 0..MaxId
        BY <1>0, <2>3 DEF TypeOK, Ids
      <4> QED
        BY <4>1 DEF Lookups
    <3>2. lookup' = [lookup EXCEPT ![c] = numbered]
      BY <1>0, <2>1 DEF TypeOK
    <3> HIDE DEF numbered
    <3> QED
      BY <1>0, <3>1, <3>2 DEF TypeOK
  <2>6. TypeOK'
    BY <1>0, <2>1, <2>2, <2>3, <2>5 DEF TypeOK, InLookup, Ids
  <2>7. SlotOwnership'
    BY <1>0, <2>1, <2>2, <2>4, <2>5, ConstantsOK DEF TypeOK, SlotOwnership, InLookup
  <2>8. LiveLookups'
    BY <1>0, <2>1, <2>2, <2>3, <2>5 DEF TypeOK, LiveLookups, InLookup
  <2>9. OneNamePerId'
    BY <1>0, <2>1, <2>2, <2>4, <2>5 DEF TypeOK, OneNamePerId, InLookup
  <2>10. AnswerMatchesRequest'
    BY <1>0, <2>2, <2>5 DEF TypeOK, AnswerMatchesRequest
  <2> QED
    BY <2>6, <2>7, <2>8, <2>9, <2>10 DEF IInv
<1>3. ASSUME NEW c \in Callers, pc[c] = "attach", AllSlotsTaken(c) PROVE IInv'
  <2>1. TypeOK'
    BY <1>0, <1>3 DEF TypeOK, AllSlotsTaken, Failure, Outcomes, Errors
  <2>2. SlotOwnership' /\ LiveLookups' /\ OneNamePerId' /\ AnswerMatchesRequest'
    BY <1>0, <1>3
    DEF AllSlotsTaken, TypeOK, SlotOwnership, LiveLookups, OneNamePerId, AnswerMatchesRequest, InLookup
  <2> QED
    BY <2>1, <2>2 DEF IInv
<1>4. ASSUME NEW c \in Callers, Submit(c) \/ Poll(c) \/ Read(c) PROVE IInv'
  <2>1. /\ pc[c] \in {"submit", "poll", "read"}
        /\ pc' \in {[pc EXCEPT ![c] = p] : p \in {"poll", "read", "detach"}}
        /\ UNCHANGED <<lookup, slot, cancelled, expired, active, nextId, dispatching, queries>>
    BY <1>4 DEF Submit, Poll, Read
  <2>2. mailbox' \in Seq(Ids)
    BY <1>0, <1>4 DEF Submit, Poll, Read, TypeOK, LiveLookups, InLookup
  <2>3. /\ result' \in [Callers -> Outcomes]
        /\ \A d \in Callers \ {c} : result'[d] = result[d]
        /\ result'[c].error = "ok" => \/ pc'[c] # "detach"
                                      \/ /\ result'[c].answer # NoAnswer
                                         /\ result'[c].answer.host = lookup[c].host
                                         /\ result'[c].answer.count \in 1..Capacity[c]
    <3>1. CASE Submit(c)
      <4>1. Failure("ENOMEM") \in Outcomes /\ Failure("ENOMEM").error = "ENOMEM"
        BY DEF Failure, Outcomes, Errors
      <4>2. \/ pc'[c] = "poll" /\ result' = result
            \/ result' = [result EXCEPT ![c] = Failure("ENOMEM")]
        BY <1>0, <3>1 DEF Submit, TypeOK
      <4> QED
        BY <1>0, <4>1, <4>2 DEF TypeOK
    <3>2. CASE Poll(c)
      <4>1. Failure(StopError(cancelled[c], expired[c])) \in Outcomes
        BY DEF Failure, StopError, Outcomes, Errors
      <4>2. \/ pc'[c] = "read" /\ result' = result
            \/ /\ StopError(cancelled[c], expired[c]) # "ok"
               /\ result' = [result EXCEPT ![c] = Failure(StopError(cancelled[c], expired[c]))]
        BY <1>0, <3>2 DEF Poll, TypeOK
      <4>3. Failure(StopError(cancelled[c], expired[c])).error
            = StopError(cancelled[c], expired[c])
        BY DEF Failure
      <4> QED
        BY <1>0, <4>1, <4>2, <4>3 DEF TypeOK
    <3>3. CASE Read(c)
      <4>1. CASE ~lookup[c].done
        BY <1>0, <3>3, <4>1 DEF Read, TypeOK
      <4>2. CASE lookup[c].done /\ lookup[c].error # "ok"
        <5>1. Failure(lookup[c].error) \in Outcomes
          BY <1>0 DEF TypeOK, Failure, Outcomes, Lookups
        <5>2. Failure(lookup[c].error).error # "ok"
          BY <4>2 DEF Failure
        <5>3. result' = [result EXCEPT ![c] = Failure(lookup[c].error)]
          BY <3>3, <4>2 DEF Read
        <5> QED
          BY <1>0, <5>1, <5>2, <5>3 DEF TypeOK
      <4>3. CASE lookup[c].done /\ lookup[c].error = "ok"
        <5> DEFINE clamped == [lookup[c].answer EXCEPT !.count = SmallerOf(@, Capacity[c])]
        <5>1. lookup[c].answer \in Answers /\ lookup[c].answer.host = lookup[c].host
          BY <1>0, <3>3, <4>3 DEF Read, LiveLookups, InLookup
        <5>2. clamped \in Answers /\ clamped.host = lookup[c].host
              /\ clamped.count \in 1..Capacity[c]
          BY <5>1, ConstantsOK DEF Answers, SmallerOf
        <5>3. result' = [result EXCEPT ![c] = [error |-> "ok", answer |-> clamped]]
          BY <3>3, <4>3 DEF Read
        <5>4. clamped # NoAnswer
          BY <5>2, ConstantsOK DEF Answers
        <5> HIDE DEF clamped
        <5>5. [error |-> "ok", answer |-> clamped] \in Outcomes
          BY <5>2 DEF Outcomes, Errors
        <5>6. result \in [Callers -> Outcomes]
          BY <1>0 DEF TypeOK
        <5>7. result'[c].answer = clamped
          BY <5>3, <5>6
        <5>8. /\ result' \in [Callers -> Outcomes]
              /\ \A d \in Callers \ {c} : result'[d] = result[d]
          BY <5>3, <5>5, <5>6
        <5> QED
          BY <5>2, <5>4, <5>7, <5>8
      <4> QED
        BY <4>1, <4>2, <4>3
    <3> QED
      BY <1>4, <3>1, <3>2, <3>3
  <2>4. TypeOK'
    BY <1>0, <2>1, <2>2, <2>3 DEF TypeOK, InLookup
  <2>5. \A d \in Callers : /\ pc'[d] \in InLookup <=> pc[d] \in InLookup
                           /\ pc'[d] = "idle" <=> pc[d] = "idle"
                           /\ pc'[d] = "attach" <=> pc[d] = "attach"
    BY <1>0, <2>1 DEF TypeOK, InLookup
  <2>6. SlotOwnership'
    BY <1>0, <2>1, <2>5 DEF TypeOK, SlotOwnership
  <2>7. LiveLookups'
    BY <1>0, <2>1, <2>5 DEF LiveLookups
  <2>8. OneNamePerId'
    BY <1>0, <2>1, <2>5 DEF OneNamePerId
  <2>9. AnswerMatchesRequest'
    <3>1. \A d \in Callers \ {c} : pc'[d] = pc[d]
      BY <1>0, <2>1 DEF TypeOK
    <3>2. lookup' = lookup
      BY <2>1
    <3> QED
      BY <1>0, <2>3, <3>1, <3>2 DEF AnswerMatchesRequest
  <2> QED
    BY <2>4, <2>6, <2>7, <2>8, <2>9 DEF IInv
<1>5. ASSUME NEW c \in Callers, Detach(c) PROVE IInv'
  <2>1. TypeOK'
    BY <1>0, <1>5 DEF TypeOK, Detach
  <2>2. SlotOwnership'
    BY <1>0, <1>5, ConstantsOK DEF TypeOK, Detach, SlotOwnership, LiveLookups, InLookup
  <2>3. LiveLookups' /\ OneNamePerId' /\ AnswerMatchesRequest'
    BY <1>0, <1>5
    DEF TypeOK, Detach, LiveLookups, OneNamePerId, AnswerMatchesRequest, InLookup
  <2> QED
    BY <2>1, <2>2, <2>3 DEF IInv
<1>6. ASSUME NEW c \in Callers, Return(c) PROVE IInv'
  <2>1. NoLookup \in Lookups
    BY ConstantsOK DEF NoLookup, Lookups, Errors
  <2>2. TypeOK'
    BY <1>0, <1>6, <2>1 DEF TypeOK, Return, Failure, Outcomes, Errors
  <2>3. SlotOwnership' /\ LiveLookups' /\ OneNamePerId' /\ AnswerMatchesRequest'
    BY <1>0, <1>6
    DEF TypeOK, Return, SlotOwnership, LiveLookups, OneNamePerId, AnswerMatchesRequest, InLookup
  <2> QED
    BY <2>2, <2>3 DEF IInv
<1>7. ASSUME NEW c \in Callers, Cancel(c) \/ Expire(c) PROVE IInv'
  <2>1. /\ UNCHANGED <<pc, lookup, slot, result, active, nextId, mailbox, dispatching, queries>>
        /\ cancelled' \in [Callers -> BOOLEAN] /\ expired' \in [Callers -> BOOLEAN]
    BY <1>0, <1>7 DEF Cancel, Expire, TypeOK
  <2>2. TypeOK'
    BY <1>0, <2>1 DEF TypeOK
  <2>3. SlotOwnership' /\ LiveLookups' /\ OneNamePerId' /\ AnswerMatchesRequest'
    BY <1>0, <2>1 DEF SlotOwnership, LiveLookups, OneNamePerId, AnswerMatchesRequest
  <2> QED
    BY <2>2, <2>3 DEF IInv
<1>8. CASE Dispatch
  <2> DEFINE id == Head(mailbox)
  <2>1. /\ mailbox # <<>> /\ mailbox' = Tail(mailbox) /\ dispatching = NoQuery
        /\ UNCHANGED <<pc, slot, result, cancelled, expired, active, nextId, queries>>
    BY <1>8 DEF Dispatch
  <2>2. id \in Ids /\ mailbox' \in Seq(Ids)
    BY <1>0, <2>1 DEF TypeOK
  <2>3. CASE UNCHANGED <<lookup, dispatching>>
    BY <1>0, <2>1, <2>2, <2>3
    DEF IInv, TypeOK, SlotOwnership, LiveLookups, OneNamePerId, AnswerMatchesRequest
  <2>4. ASSUME NEW c \in FindLookup(id),
               lookup' = [lookup EXCEPT ![c].done = TRUE, ![c].error = "ETIMEDOUT"],
               UNCHANGED dispatching
        PROVE  IInv'
    <3>1. /\ lookup' \in [Callers -> Lookups]
          /\ \A d \in Callers :
               /\ lookup'[d].id = lookup[d].id /\ lookup'[d].host = lookup[d].host
               /\ lookup'[d] = lookup[d] \/ (d = c /\ lookup'[d].error # "ok")
      <4> DEFINE late == [lookup[c] EXCEPT !.done = TRUE, !.error = "ETIMEDOUT"]
      <4>1. c \in Callers
        BY DEF FindLookup
      <4>2. /\ late \in Lookups /\ late.error # "ok"
            /\ late.id = lookup[c].id /\ late.host = lookup[c].host
        BY <1>0, <4>1, ZenonT(60) DEF TypeOK, Lookups, Errors
      <4>3. lookup' = [lookup EXCEPT ![c] = late]
        BY <1>0, <2>4, <4>1 DEF TypeOK
      <4> HIDE DEF late
      <4> QED
        BY <1>0, <4>1, <4>2, <4>3 DEF TypeOK
    <3>2. pc[c] \in InLookup
      BY <1>0, <2>4, ConstantsOK DEF SlotOwnership, FindLookup
    <3>3. TypeOK'
      BY <1>0, <2>1, <2>2, <2>4, <3>1 DEF TypeOK
    <3>4. SlotOwnership' /\ OneNamePerId' /\ AnswerMatchesRequest'
      BY <1>0, <2>1, <2>4, <3>1 DEF SlotOwnership, OneNamePerId, AnswerMatchesRequest
    <3>5. LiveLookups'
      BY <1>0, <2>1, <3>1, <3>2 DEF LiveLookups, InLookup
    <3> QED
      BY <3>3, <3>4, <3>5 DEF IInv
  <2>5. ASSUME NEW c \in FindLookup(id), UNCHANGED lookup,
               dispatching' = [id |-> id, host |-> lookup[c].host]
        PROVE  IInv'
    <3>1. c \in Callers /\ pc[c] \in InLookup /\ lookup[c].id = id
      BY <1>0, <2>5, ConstantsOK DEF SlotOwnership, FindLookup
    <3>2. dispatching' \in Queries
      BY <1>0, <2>2, <2>5, <3>1 DEF Queries, LiveLookups
    <3>3. TypeOK'
      BY <1>0, <2>1, <2>2, <2>5, <3>2 DEF TypeOK
    <3>4. SlotOwnership' /\ LiveLookups' /\ AnswerMatchesRequest'
      BY <1>0, <2>1, <2>5 DEF SlotOwnership, LiveLookups, AnswerMatchesRequest
    <3>5. OneNamePerId'
      BY <1>0, <2>1, <2>5, <3>1 DEF OneNamePerId, SlotOwnership
    <3> QED
      BY <3>3, <3>4, <3>5 DEF IInv
  <2> QED
    BY <1>8, <2>3, <2>4, <2>5 DEF Dispatch
<1>9. CASE QueryCached
  <2>1. dispatching \in Queries
    BY <1>0, <1>9 DEF QueryCached, TypeOK
  <2>2. PICK n \in 1..MaxAddresses :
          LookupResult(dispatching.id, "ok", [host |-> dispatching.host, count |-> n])
    BY <1>9 DEF QueryCached
  <2>3. /\ [host |-> dispatching.host, count |-> n] \in Answers
        /\ [host |-> dispatching.host, count |-> n].host = dispatching.host
    BY <2>1 DEF Queries, Answers
  <2>4. \A c \in Callers : pc[c] \in InLookup /\ lookup[c].id = dispatching.id =>
          lookup[c].host = dispatching.host
    BY <1>0, <1>9 DEF OneNamePerId, QueryCached
  <2>5. /\ UNCHANGED <<callerVars, active, nextId, mailbox>>
        /\ dispatching' \in {dispatching, NoQuery} /\ queries' \subseteq queries
    BY <1>9 DEF QueryCached
  <2>6. "ok" \in Errors
    BY DEF Errors
  <2> HIDE DEF callerVars
  <2> QED
    BY <2>1, <2>2, <2>3, <2>4, <2>5, <2>6, LookupResultKeepsIInv
<1>10. CASE QueryRefused
  <2>1. dispatching \in Queries
    BY <1>0, <1>10 DEF QueryRefused, TypeOK
  <2>2. PICK e \in {"ENOMEM", "EHOSTUNREACH"} : LookupResult(dispatching.id, e, NoAnswer)
    BY <1>10 DEF QueryRefused
  <2>3. \A c \in Callers : pc[c] \in InLookup /\ lookup[c].id = dispatching.id =>
          lookup[c].host = dispatching.host
    BY <1>0, <1>10 DEF OneNamePerId, QueryRefused
  <2>4. /\ UNCHANGED <<callerVars, active, nextId, mailbox>>
        /\ dispatching' \in {dispatching, NoQuery} /\ queries' \subseteq queries
    BY <1>10 DEF QueryRefused
  <2>5. e \in Errors /\ e # "ok"
    BY DEF Errors
  <2> HIDE DEF callerVars
  <2> QED
    BY <2>1, <2>2, <2>3, <2>4, <2>5, LookupResultKeepsIInv
<1>11. CASE QueryInProgress
  <2>1. TypeOK'
    BY <1>0, <1>11 DEF TypeOK, QueryInProgress
  <2>2. SlotOwnership' /\ LiveLookups' /\ OneNamePerId' /\ AnswerMatchesRequest'
    BY <1>0, <1>11
    DEF QueryInProgress, SlotOwnership, LiveLookups, OneNamePerId, AnswerMatchesRequest
  <2> QED
    BY <2>1, <2>2 DEF IInv
<1>12. ASSUME NEW q \in queries, LookupFound(q) PROVE IInv'
  <2>1. q \in Queries
    BY <1>0 DEF TypeOK
  <2>2. \A c \in Callers : pc[c] \in InLookup /\ lookup[c].id = q.id => lookup[c].host = q.host
    BY <1>0 DEF OneNamePerId
  <2>3. /\ UNCHANGED <<callerVars, active, nextId, mailbox>>
        /\ dispatching' \in {dispatching, NoQuery} /\ queries' \subseteq queries
    BY <1>12 DEF LookupFound
  <2>4. PICK e \in {"ok", "EHOSTUNREACH"}, a \in Answers \cup {NoAnswer} :
          /\ LookupResult(q.id, e, a)
          /\ e = "ok" => a \in Answers /\ a.host = q.host
    <3>1. ASSUME NEW n \in 1..MaxAddresses,
                 LookupResult(q.id, "ok", [host |-> q.host, count |-> n])
          PROVE  \E a \in Answers : LookupResult(q.id, "ok", a) /\ a.host = q.host
      <4>1. [host |-> q.host, count |-> n] \in Answers
        BY <2>1 DEF Queries, Answers
      <4> QED
        BY <3>1, <4>1
    <3>2. CASE LookupResult(q.id, "EHOSTUNREACH", NoAnswer)
      BY <3>2
    <3> QED
      BY <1>12, <3>1, <3>2 DEF LookupFound
  <2>5. e \in Errors
    BY DEF Errors
  <2> HIDE DEF callerVars
  <2> QED
    BY <2>1, <2>2, <2>3, <2>4, <2>5, LookupResultKeepsIInv
<1>13. CASE UNCHANGED vars
  BY <1>0, <1>13
  DEF vars, IInv, TypeOK, SlotOwnership, LiveLookups, OneNamePerId, AnswerMatchesRequest
<1> QED
  BY <1>1, <1>2, <1>3, <1>4, <1>5, <1>6, <1>7, <1>8, <1>9, <1>10, <1>11, <1>12, <1>13 DEF Next, Attach

\* The inductive invariant holds in every reachable state.
THEOREM AlwaysIInv == Spec => []IInv
BY InitIInv, NextIInv, PTL DEF Spec

\* Every variable of the resolver keeps its type, for all values of the constants.
THEOREM TypeCorrect == Spec => []TypeOK
<1>1. IInv => TypeOK
  BY DEF IInv
<1> QED
  BY <1>1, AlwaysIInv, PTL

\* The slots of active[] and the ids of the published lookups identify exactly
\* the callers that are waiting, however many callers and slots there are.
THEOREM SlotsAreOwned == Spec => []SlotOwnership
<1>1. IInv => SlotOwnership
  BY DEF IInv
<1> QED
  BY <1>1, AlwaysIInv, PTL

\* No answer reaches a caller that did not ask for its name.
THEOREM AnswersMatch == Spec => []AnswerMatchesRequest
<1>1. IInv => AnswerMatchesRequest
  BY DEF IInv
<1> QED
  BY <1>1, AlwaysIInv, PTL

\* A step of the lwIP thread changes only lookups that are published.
LEMMA LwipWritesPublished ==
    ASSUME IInv, Dispatch \/ QueryCached \/ QueryRefused \/ QueryInProgress
                 \/ \E q \in queries : LookupFound(q)
    PROVE  \A c \in Callers : pc[c] \notin InLookup => lookup'[c] = lookup[c]
<1>0. /\ lookup \in [Callers -> Lookups]
      /\ \A id : \A c \in FindLookup(id) : c \in Callers /\ pc[c] \in InLookup
  BY ConstantsOK DEF IInv, TypeOK, SlotOwnership, FindLookup
<1>1. ASSUME NEW id, NEW error, NEW answer, LookupResult(id, error, answer)
      PROVE  \A c \in Callers : pc[c] \notin InLookup => lookup'[c] = lookup[c]
  BY <1>0, <1>1 DEF LookupResult
<1>2. CASE Dispatch
  <2>1. \/ lookup' = lookup
        \/ \E c \in FindLookup(Head(mailbox)) :
             lookup' = [lookup EXCEPT ![c].done = TRUE, ![c].error = "ETIMEDOUT"]
    BY <1>2 DEF Dispatch
  <2> QED
    BY <1>0, <2>1
<1>3. CASE QueryCached
  BY <1>1, <1>3 DEF QueryCached
<1>4. CASE QueryRefused
  BY <1>1, <1>4 DEF QueryRefused
<1>5. CASE QueryInProgress
  BY <1>5 DEF QueryInProgress
<1>6. ASSUME NEW q \in queries, LookupFound(q)
      PROVE  \A c \in Callers : pc[c] \notin InLookup => lookup'[c] = lookup[c]
  BY <1>1, <1>6 DEF LookupFound
<1> QED
  BY <1>2, <1>3, <1>4, <1>5, <1>6

\* lookup_result() never writes into a stack frame that has returned, or has not
\* published its lookup yet: a frame outside network_resolve_host's locked part is
\* changed by its own task alone.
THEOREM NoStrayWrite == Spec => NoWriteAfterReturn
<1>1. IInv /\ [Next]_vars
        => [\A c \in Callers :
              pc[c] \notin InLookup /\ pc'[c] = pc[c] => lookup'[c] = lookup[c]]_vars
  <2> SUFFICES ASSUME IInv, Next, NEW c \in Callers, pc[c] \notin InLookup, pc'[c] = pc[c]
               PROVE  lookup'[c] = lookup[c]
    OBVIOUS
  <2>0. pc \in [Callers -> {"idle", "attach", "return"} \cup InLookup] /\ lookup \in [Callers -> Lookups]
    BY DEF IInv, TypeOK
  <2>1. ASSUME NEW d \in Callers, NEW h \in Hosts, NEW b \in BOOLEAN, NEW e \in BOOLEAN,
               Call(d, h, b, e)
        PROVE  lookup'[c] = lookup[c]
    BY <2>0, <2>1 DEF Call
  <2>2. ASSUME NEW d \in Callers, Attach(d) PROVE lookup'[c] = lookup[c]
    BY <2>0, <2>2 DEF Attach, TakeSlot, AllSlotsTaken
  <2>3. ASSUME NEW d \in Callers, Return(d) PROVE lookup'[c] = lookup[c]
    BY <2>0, <2>3 DEF Return
  <2>4. ASSUME NEW d \in Callers,
               Submit(d) \/ Poll(d) \/ Read(d) \/ Detach(d) \/ Cancel(d) \/ Expire(d)
        PROVE  lookup'[c] = lookup[c]
    BY <2>4 DEF Submit, Poll, Read, Detach, Cancel, Expire
  <2>5. CASE Dispatch \/ QueryCached \/ QueryRefused \/ QueryInProgress
             \/ \E q \in queries : LookupFound(q)
    BY <2>5, LwipWritesPublished
  <2> QED
    BY <2>1, <2>2, <2>3, <2>4, <2>5 DEF Next
<1> QED
  BY <1>1, AlwaysIInv, PTL DEF Spec, NoWriteAfterReturn

-----------------------------------------------------------------------------
(* The inductive invariant of the MQTT session.                            *)

\* Where the worker is: at an action, in its call, past the client's destruction,
\* in the cleanup; and the statuses of a session's end.
Acting == {"act", "call", "push", "accepted", "refused", "release"}
Called == {"call", "push", "accepted", "refused"}
Destroyed == {"take", "drain", "free", "finalReport", "finish"}
Ending == {"stop"} \cup Destroyed
EndedKinds == {"ended", "ended omitted", "ended unsaved"}

\* The domains of the variables, but for those the parts below confine.
PageFlags ==
    /\ ui \in {"idle", "notify", "show", "homeStop", "homeNotify", "detach", "clear"}
    /\ screen \in BOOLEAN /\ sd \in BOOLEAN /\ storageCb \in BOOLEAN /\ logging \in BOOLEAN
    /\ buffers \in {"none", "session", "taken"} /\ dirty \in BOOLEAN /\ sameRevision \in BOOLEAN
SessionFlags ==
    /\ running \in BOOLEAN /\ stopping \in BOOLEAN /\ connected \in BOOLEAN /\ failed \in BOOLEAN
    /\ actionBusy \in BOOLEAN /\ cleanupLog \in BOOLEAN /\ cleanupCb \in BOOLEAN
    /\ sdk \in {"idle", "notify", "connected", "disconnected", "received"}
    /\ net \in {"none", "connecting", "up", "lost", "over"} /\ alive \in BOOLEAN
WorkerFlags ==
    /\ worker \in {"wait", "append", "appendFailed", "decide", "report", "recheck"} \cup Acting \cup Ending
    /\ notified \in BOOLEAN /\ entryCb \in BOOLEAN /\ firstError \in BOOLEAN
    /\ logError \in BOOLEAN /\ reported \in BOOLEAN /\ appendFailed \in BOOLEAN
MqttFlags == PageFlags /\ SessionFlags /\ WorkerFlags
MqttCounts ==
    /\ session \in 0..MaxSessions /\ actions \in 0..MaxActions
    /\ accepted \in Nat /\ dropped \in Nat /\ reports \in Nat
MqttActions ==
    /\ pending \in Actions \cup {NoAction} /\ action \in Actions \cup {NoAction}
    /\ outstanding \cup acked \subseteq 1..actions
Statuses == [kind : StatusKinds, session : 0..MaxSessions, action : 0..MaxActions]
MqttQueues ==
    /\ entry \in Entries \cup {0}
    /\ oldRing \in Seq(Entries) /\ saved \in Seq(Entries)
    /\ logRing \in Seq(Entries) /\ Len(logRing) <= LogLimit

\* One session at a time, from CONNECT to the end of its cleanup: its client is the
\* page's until it is stopped and then the worker's.
OneSession ==
    /\ stopping => running
    /\ running => 0 < session
    /\ client = IF running /\ ~stopping THEN session ELSE NoClient
    /\ cleanup = IF stopping THEN session ELSE NoClient
    /\ worker \in Ending => stopping
    /\ ~running => worker = "wait"
    /\ alive <=> running /\ worker \notin Destroyed
    /\ sdk # "idle" => alive
    /\ ~running => logRing = <<>>

\* The session runs unstopped only while its page is on the screen, or is being left,
\* and so there is a callback to report errors to.
PageOfSession ==
    /\ ui \in {"show", "homeStop", "homeNotify", "detach"} => ~screen
    /\ screen \/ ui = "show" => storageCb
    /\ ui = "homeStop" => running /\ ~stopping
    /\ running /\ ~stopping => storageCb /\ (screen \/ ui = "homeStop")
    /\ stopping => cleanupCb
    /\ worker \in Ending \cup {"append", "appendFailed", "decide", "report"} => entryCb

\* One action at a time, the last one accepted, and of this session; acknowledgments
\* are of actions that were called, and replace their result.
OneAction ==
    /\ pending # NoAction =>
         /\ actionBusy /\ running /\ worker \notin Acting \cup Ending
         /\ pending.number = actions /\ pending.client = session
    /\ worker \in Acting =>
         /\ actionBusy
         /\ action # NoAction /\ action.number = actions /\ action.client = session
    /\ pending # NoAction \/ worker \in {"act", "call"} => actions \notin outstanding \cup acked
    /\ worker \in Called /\ sameRevision /\ actions \in acked =>
         stopping \/ (failed /\ net # "connecting")

\* There are numbers for the entries still to come.
NumbersLeft ==
    /\ accepted + (IF pending # NoAction \/ worker \in {"act", "call", "push"} THEN 1 ELSE 0)
         <= MaxEntries + actions
    /\ dropped <= accepted

\* Where the accepted entries are.
EntriesPlaced ==
    /\ worker \notin {"drain", "free"} \/ (worker = "free" /\ ~firstError) => oldRing = <<>>
    /\ worker \in Destroyed \ {"take"} => logRing = <<>> /\ buffers # "session"
    /\ running /\ ~appendFailed =>
         accepted = Len(saved) + InWork + Len(logRing) + Len(oldRing) + dropped

\* They are saved, worked on and queued in their order.
UpTo(s, n) == \A i \in 1..Len(s) : s[i] <= n
Beyond(s, n) == \A i \in 1..Len(s) : n < s[i]
Rising(s) == \A i, j \in 1..Len(s) : i < j => s[i] < s[j]
Before(s, t) == \A i \in 1..Len(s), j \in 1..Len(t) : s[i] < t[j]
EntriesInOrder ==
    /\ UpTo(saved, accepted) /\ UpTo(logRing, accepted) /\ UpTo(oldRing, accepted)
    /\ Rising(saved) /\ Rising(logRing) /\ Rising(oldRing)
    /\ Before(saved, logRing) /\ Before(saved, oldRing)
    /\ worker = "append" =>
         entry \in Entries /\ UpTo(saved, entry - 1) /\ entry <= accepted /\ Beyond(logRing, entry)

\* What is known of a failed append, and whether it was reported.
ErrorsKnown ==
    /\ logError \/ firstError => appendFailed
    /\ firstError => worker \in Destroyed \ {"take"}
    /\ worker \in {"appendFailed", "decide", "report", "finalReport"} => appendFailed
    /\ running /\ appendFailed => logError \/ worker = "appendFailed"
    /\ worker \in Destroyed \ {"take"} /\ appendFailed => firstError
    /\ worker \in {"report", "finalReport"} => reported
    /\ worker \in {"finalReport", "finish"} /\ firstError => reported
    /\ running => reports = IF reported /\ worker \notin {"report", "finalReport"} THEN 1 ELSE 0

\* What the page is told of the connection, the session and its end.
StatusAgrees ==
    /\ failed => running /\ status.kind = "error"
    /\ connected => running /\ ~stopping
    /\ running /\ ~stopping /\ dirty => status.session = session
    /\ running => status.kind \notin EndedKinds

MqttIInv ==
    /\ MqttFlags /\ MqttCounts /\ MqttActions /\ status \in Statuses /\ MqttQueues
    /\ OneSession /\ PageOfSession /\ NoLostWakeup /\ OneAction /\ StatusAgrees
    /\ ErrorsKnown /\ ErrorReportedOnce /\ NumbersLeft /\ EntriesPlaced /\ EntriesInOrder
    /\ CleanEndMeansSaved

LEMMA MqttFacts ==
    /\ LogLimit \in Nat /\ 0 < LogLimit /\ MaxSessions \in Nat /\ MaxActions \in Nat
    /\ MaxEntries \in Nat /\ NoClient = 0 /\ 0 \in 0..MaxActions /\ 0 \in 0..MaxSessions
    /\ \A a \in Actions : a # NoAction /\ a.number \in 1..MaxActions /\ a.client \in 1..MaxSessions
BY MqttConstants DEF NoClient, NoAction, Actions

\* What a new status says.
LEMMA NewStatus ==
    /\ \A kind, number : /\ StatusOf(kind, number).kind = kind
                         /\ StatusOf(kind, number).session = session
                         /\ StatusOf(kind, number).action = number
    /\ \A kind \in StatusKinds, number \in 0..MaxActions :
           session \in 0..MaxSessions => StatusOf(kind, number) \in Statuses
    /\ NoStatus.kind = "none" /\ NoStatus.session = 0 /\ NoStatus \in Statuses
BY MqttFacts DEF StatusOf, NoStatus, Statuses, StatusKinds

\* What the events and the worker's result tell the page: a status of this session,
\* only while it is neither stopped nor failed.
Tells == EventAcknowledged \/ EventInvalid \/ EventStatus \/ EventError \/ ActionResult
LEMMA StatusTold ==
    ASSUME MqttFlags, MqttCounts, MqttActions, OneAction, Tells
    PROVE  \/ UNCHANGED <<status, dirty>> /\ (failed' => failed)
           \/ /\ ~stopping /\ status'.session = session /\ status' \in Statuses
              /\ status'.kind \notin EndedKinds
              /\ failed' => status'.kind = "error"
              /\ status'.kind = "queued" =>
                   /\ worker = "accepted" /\ sameRevision /\ ~failed
                   /\ status'.action = action.number /\ UNCHANGED acked
<1>0. /\ session \in 0..MaxSessions /\ stopping \in BOOLEAN /\ failed \in BOOLEAN
      /\ sdk \in {"idle", "notify", "connected", "disconnected", "received"}
      /\ 0 \in 0..MaxActions
      /\ {"connected", "disconnected", "received", "invalid", "acknowledged", "error", "queued", "refused"}
            \subseteq StatusKinds
  BY MqttFacts DEF MqttFlags, SessionFlags, MqttCounts, StatusKinds
<1> USE DEF EndedKinds, SetAsyncStatus, PublishStatus, SdkUnchanged, WorkerUnchanged, shown, link
<1>1. CASE EventAcknowledged
  <2>1. PICK number \in outstanding : SetAsyncStatus("acknowledged", number) /\ failed' = failed
    BY <1>1 DEF EventAcknowledged
  <2>2. number \in 0..MaxActions
    BY <2>1, MqttFacts DEF MqttActions, MqttCounts
  <2>3. LET s == StatusOf("acknowledged", number)
        IN  s.kind = "acknowledged" /\ s.session = session /\ s \in Statuses
    BY <1>0, <2>2, NewStatus
  <2> QED
    BY <2>1, <2>3, <1>0
<1>2. CASE EventInvalid
  <2>1. LET s == StatusOf("invalid", 0) IN s.kind = "invalid" /\ s.session = session /\ s \in Statuses
    BY <1>0, NewStatus
  <2> QED
    BY <1>2, <2>1, <1>0 DEF EventInvalid
<1>3. CASE EventStatus
  <2>1. LET s == StatusOf(sdk, 0) IN s.kind = sdk /\ s.session = session /\ s \in Statuses
    BY <1>0, <1>3, NewStatus DEF EventStatus
  <2> QED
    BY <1>3, <2>1, <1>0 DEF EventStatus
<1>4. CASE EventError
  <2>1. LET s == StatusOf("error", 0) IN s.kind = "error" /\ s.session = session /\ s \in Statuses
    BY <1>0, NewStatus
  <2> QED
    BY <1>4, <2>1, <1>0 DEF EventError
<1>5. CASE ActionResult
  <2>1. worker \in {"accepted", "refused"} /\ failed' = failed /\ acked' = acked
    BY <1>5 DEF ActionResult, library
  <2>2. action.number \in 0..MaxActions
    BY <2>1, MqttFacts DEF OneAction, Acting, MqttActions
  <2>3. \A kind \in {"queued", "refused"} :
          LET s == StatusOf(kind, action.number)
          IN  /\ s.kind = kind /\ s.session = session /\ s.action = action.number
              /\ s \in Statuses
    BY <1>0, <2>2, NewStatus
  <2>4. CASE worker = "accepted"
    <3>1. ~UNCHANGED <<status, dirty>> =>
            ~stopping /\ ~failed /\ sameRevision /\ status' = StatusOf("queued", action.number)
      BY <1>5, <2>4 DEF ActionResult
    <3> QED
      BY <2>1, <2>3, <2>4, <3>1, <1>0
  <2>5. CASE worker = "refused"
    <3>1. ~UNCHANGED <<status, dirty>> =>
            ~stopping /\ ~failed /\ status' = StatusOf("refused", action.number)
      BY <1>5, <2>5 DEF ActionResult
    <3> QED
      BY <2>1, <2>3, <2>5, <3>1, <1>0
  <2> QED
    BY <2>1, <2>4, <2>5
<1> QED
  BY <1>1, <1>2, <1>3, <1>4, <1>5 DEF Tells

-----------------------------------------------------------------------------
(* The queues of log entries.                                              *)

LEMMA EntrySeqs ==
    /\ Entries \subseteq Nat
    /\ \A s \in Seq(Entries) : Len(s) \in Nat /\ \A i \in 1..Len(s) : s[i] \in Entries /\ s[i] \in Nat
BY MqttFacts, ElementOfSeq, LenProperties DEF Entries

LEMMA EntryRemoved ==
    ASSUME NEW s \in Seq(Entries), s # <<>>
    PROVE  /\ 1 \in 1..Len(s) /\ Head(s) = s[1] /\ Head(s) \in Entries
           /\ Tail(s) \in Seq(Entries) /\ Len(Tail(s)) = Len(s) - 1
           /\ \A j \in 1..Len(Tail(s)) : j + 1 \in 1..Len(s) /\ Tail(s)[j] = s[j + 1]
<1>1. Len(s) \in Nat /\ Len(s) # 0
  BY EmptySeq, EntrySeqs
<1>2. Head(s) = s[1]
  BY DEF Head
<1> QED
  BY <1>1, <1>2, HeadTailProperties, ElementOfSeq

LEMMA EntryAdded ==
    ASSUME NEW s \in Seq(Entries), NEW n \in Entries
    PROVE  /\ Append(s, n) \in Seq(Entries) /\ Len(Append(s, n)) = Len(s) + 1
           /\ Append(s, n)[Len(s) + 1] = n
           /\ \A j \in 1..Len(s) : Append(s, n)[j] = s[j]
<1>1. Len(s) \in Nat
  BY EntrySeqs
<1> QED
  BY <1>1, AppendProperties

LEMMA InOrderEmpty ==
    ASSUME NEW s, NEW n
    PROVE  /\ UpTo(<<>>, n) /\ Beyond(<<>>, n) /\ Rising(<<>>)
           /\ Before(s, <<>>) /\ Before(<<>>, s)
BY DEF UpTo, Beyond, Rising, Before

LEMMA InOrderAdded ==
    ASSUME NEW s \in Seq(Entries), NEW n \in Entries
    PROVE  /\ \A m \in Nat : UpTo(s, m) /\ n <= m => UpTo(Append(s, n), m)
           /\ \A m \in Nat : Beyond(s, m) /\ m < n => Beyond(Append(s, n), m)
           /\ UpTo(s, n - 1) /\ Rising(s) => Rising(Append(s, n))
           /\ \A t \in Seq(Entries) : UpTo(t, n - 1) /\ Before(t, s) => Before(t, Append(s, n))
           /\ \A t \in Seq(Entries) : Beyond(t, n) /\ Before(s, t) => Before(Append(s, n), t)
<1>1. Len(s) \in Nat /\ n \in Nat /\ \A i \in 1..Len(s) : s[i] \in Nat
  BY EntrySeqs
<1> DEFINE a == Append(s, n)
<1>2. Len(a) = Len(s) + 1 /\ a[Len(s) + 1] = n /\ \A j \in 1..Len(s) : a[j] = s[j]
  BY EntryAdded
<1> HIDE DEF a
<1>3. \A i \in 1..Len(a) : \/ i = Len(s) + 1 /\ a[i] = n
                           \/ i \in 1..Len(s) /\ a[i] = s[i]
  BY <1>1, <1>2
<1>4. \A m \in Nat : UpTo(s, m) /\ n <= m => UpTo(a, m)
  BY <1>3 DEF UpTo
<1>5. \A m \in Nat : Beyond(s, m) /\ m < n => Beyond(a, m)
  BY <1>3 DEF Beyond
<1>6. UpTo(s, n - 1) /\ Rising(s) => Rising(a)
  <2> SUFFICES ASSUME UpTo(s, n - 1), Rising(s), NEW i \in 1..Len(a), NEW j \in 1..Len(a), i < j
               PROVE  a[i] < a[j]
    BY DEF Rising
  <2>1. i \in 1..Len(s) /\ a[i] = s[i]
    BY <1>1, <1>2
  <2>2. s[i] < n
    BY <1>1, <2>1 DEF UpTo
  <2> QED
    BY <1>3, <2>1, <2>2 DEF Rising
<1>7. \A t \in Seq(Entries) : UpTo(t, n - 1) /\ Before(t, s) => Before(t, a)
  <2> SUFFICES ASSUME NEW t \in Seq(Entries), UpTo(t, n - 1), Before(t, s),
                      NEW i \in 1..Len(t), NEW j \in 1..Len(a)
               PROVE  t[i] < a[j]
    BY DEF Before
  <2>1. t[i] < n
    BY <1>1, EntrySeqs DEF UpTo
  <2> QED
    BY <1>3, <2>1 DEF Before
<1>8. \A t \in Seq(Entries) : Beyond(t, n) /\ Before(s, t) => Before(a, t)
  BY <1>3 DEF Beyond, Before
<1> QED
  BY <1>4, <1>5, <1>6, <1>7, <1>8 DEF a

LEMMA InOrderRemoved ==
    ASSUME NEW s \in Seq(Entries), s # <<>>
    PROVE  /\ \A m \in Nat : UpTo(s, m) => UpTo(Tail(s), m) /\ Head(s) <= m
           /\ \A m \in Nat : Beyond(s, m) => Beyond(Tail(s), m) /\ m < Head(s)
           /\ Rising(s) => Rising(Tail(s)) /\ Beyond(Tail(s), Head(s))
           /\ \A t \in Seq(Entries) : Before(t, s) => Before(t, Tail(s)) /\ UpTo(t, Head(s) - 1)
<1> DEFINE h == Head(s) t == Tail(s)
<1>1. /\ Len(s) \in Nat /\ 1 \in 1..Len(s) /\ h = s[1] /\ h \in Nat /\ Len(t) = Len(s) - 1
      /\ \A j \in 1..Len(t) : j + 1 \in 1..Len(s) /\ t[j] = s[j + 1]
  BY EntryRemoved, EntrySeqs
<1> HIDE DEF h, t
<1>2. \A m \in Nat : UpTo(s, m) => UpTo(t, m) /\ h <= m
  BY <1>1 DEF UpTo
<1>3. \A m \in Nat : Beyond(s, m) => Beyond(t, m) /\ m < h
  BY <1>1 DEF Beyond
<1>4. Rising(s) => Rising(t)
  <2> SUFFICES ASSUME Rising(s), NEW i \in 1..Len(t), NEW j \in 1..Len(t), i < j PROVE t[i] < t[j]
    BY DEF Rising
  <2>1. i + 1 \in 1..Len(s) /\ j + 1 \in 1..Len(s) /\ i + 1 < j + 1
    BY <1>1
  <2>2. s[i + 1] < s[j + 1]
    BY <2>1 DEF Rising
  <2> QED
    BY <1>1, <2>2
<1>5. Rising(s) => Beyond(t, h)
  <2> SUFFICES ASSUME Rising(s), NEW j \in 1..Len(t) PROVE h < t[j]
    BY DEF Beyond
  <2>1. j + 1 \in 1..Len(s) /\ 1 < j + 1
    BY <1>1
  <2>2. s[1] < s[j + 1]
    BY <1>1, <2>1 DEF Rising
  <2> QED
    BY <1>1, <2>2
<1>6. \A r \in Seq(Entries) : Before(r, s) => Before(r, t) /\ UpTo(r, h - 1)
  <2> SUFFICES ASSUME NEW r \in Seq(Entries), Before(r, s), NEW i \in 1..Len(r)
               PROVE  r[i] <= h - 1 /\ \A j \in 1..Len(t) : r[i] < t[j]
    BY DEF UpTo, Before
  <2>1. r[i] \in Nat
    BY EntrySeqs
  <2>2. r[i] < s[1]
    BY <1>1 DEF Before
  <2>3. \A j \in 1..Len(t) : r[i] < t[j]
    BY <1>1 DEF Before
  <2> QED
    BY <1>1, <2>1, <2>2, <2>3
<1> QED
  BY <1>2, <1>3, <1>4, <1>5, <1>6 DEF h, t

\* push_message_locked(): the next number goes to the end of the queue, and a full
\* queue loses its oldest entry for it.
Pushed ==
    /\ buffers = "session" /\ UNCHANGED buffers
    /\ accepted' = accepted + 1 /\ accepted' \in Entries
    /\ \E kept \in Seq(Entries) :
         /\ logRing' = Append(kept, accepted') /\ Len(kept) < LogLimit
         /\ \/ kept = logRing /\ dropped' = dropped
            \/ logRing # <<>> /\ kept = Tail(logRing) /\ dropped' = dropped + 1
LEMMA EntryPushed ==
    ASSUME MqttIInv, EventData \/ ActionLogs
    PROVE  UNCHANGED log \/ Pushed
<1>0. MqttCounts /\ MqttQueues /\ OneAction /\ NumbersLeft /\ MqttActions
  BY DEF MqttIInv
<1>1. CASE PushEntry /\ buffers = "session" /\ accepted + 1 \in Entries
  <2> DEFINE full == Len(logRing) = LogLimit
             kept == IF full THEN Tail(logRing) ELSE logRing
  <2>1. /\ accepted' = accepted + 1 /\ logRing' = Append(kept, accepted + 1)
        /\ dropped' = IF full THEN dropped + 1 ELSE dropped
        /\ UNCHANGED buffers
    BY <1>1 DEF PushEntry
  <2>2. logRing \in Seq(Entries) /\ Len(logRing) \in Nat /\ Len(logRing) <= LogLimit
        /\ LogLimit \in Nat /\ 0 < LogLimit
    BY <1>0, EntrySeqs, MqttFacts DEF MqttQueues
  <2>3. full => logRing # <<>>
    BY <2>2, EmptySeq
  <2>4. kept \in Seq(Entries) /\ Len(kept) < LogLimit
    BY <2>2, <2>3, EntryRemoved
  <2> QED
    BY <1>1, <2>1, <2>3, <2>4 DEF Pushed
<1>2. CASE EventData /\ ~UNCHANGED log
  <2>1. PushEntry /\ buffers = "session" /\ accepted < MaxEntries
    BY <1>2 DEF EventData
  <2>2. accepted + 1 \in Entries
    BY <1>0, <2>1, MqttFacts DEF MqttCounts, Entries
  <2> QED
    BY <1>1, <2>1, <2>2
<1>3. CASE ActionLogs /\ ~UNCHANGED log
  <2>1. PushEntry /\ buffers = "session" /\ worker = "push"
    BY <1>3 DEF ActionLogs, Goes, Queues
  <2>2. accepted + 1 \in Entries
    BY <1>0, <2>1, MqttFacts DEF MqttCounts, NumbersLeft, Entries
  <2> QED
    BY <1>1, <2>1, <2>2
<1> QED
  BY <1>2, <1>3

LEMMA PageFlagsKept == ASSUME MqttIInv, MqttNext PROVE PageFlags'
<1> USE MqttFacts DEF MqttFlags, PageFlags, SessionFlags, WorkerFlags, Acting, Called, Destroyed,
        Ending, EndedKinds, page, clients, link, queue, local, teardown, log, shown, library,
        card, reporting
<1>0. MqttFlags
  BY DEF MqttIInv
<1>1. CASE ShowBegins
  BY <1>0, <1>1 DEF ShowBegins
<1>2. CASE ShowEnds
  BY <1>0, <1>2 DEF ShowEnds, EnsureBuffers
<1>3. CASE Tick
  BY <1>0, <1>3 DEF Tick, EnsureBuffers
<1>4. CASE Connect
  BY <1>0, <1>4 DEF Connect, Connectable, ConnectResets
<1>5. CASE ConnectFails
  BY <1>0, <1>5 DEF ConnectFails, Connectable, ConnectResets
<1>6. CASE Disconnect
  BY <1>0, <1>6 DEF Disconnect, BeginStop, StopUnchanged
<1>7. CASE HomeBegins
  BY <1>0, <1>7 DEF HomeBegins
<1>8. CASE HomeStops
  BY <1>0, <1>8 DEF HomeStops, BeginStop, StopUnchanged
<1>9. CASE HomeEnds
  BY <1>0, <1>9 DEF HomeEnds
<1>10. CASE UiNotifies
  BY <1>0, <1>10 DEF UiNotifies
<1>11. CASE LogClicked
  BY <1>0, <1>11 DEF LogClicked
<1>12. CASE QueueAction
  BY <1>0, <1>12 DEF QueueAction
<1>13. CASE ClearBegins
  BY <1>0, <1>13 DEF ClearBegins
<1>14. CASE ClearEnds
  BY <1>0, <1>14 DEF ClearEnds
<1>15. CASE EventAcknowledged
  BY <1>0, <1>15, ZenonT(60) DEF EventAcknowledged, SdkUnchanged, SetAsyncStatus, PublishStatus
<1>16. CASE EventData
  BY <1>0, <1>16 DEF EventData, SdkUnchanged, Queues, WritesLog, PushEntry
<1>17. CASE EventInvalid
  BY <1>0, <1>17 DEF EventInvalid, SdkUnchanged, SetAsyncStatus, PublishStatus
<1>18. CASE EventStatus
  BY <1>0, <1>18 DEF EventStatus, SdkUnchanged, SetAsyncStatus, PublishStatus
<1>19. CASE EventError
  BY <1>0, <1>19, ZenonT(60) DEF EventError, SdkUnchanged, PublishStatus
<1>20. CASE ActionStarts
  BY <1>0, <1>20, ZenonT(60) DEF ActionStarts, WorkerUnchanged
<1>21. CASE ActionLogs
  BY <1>0, <1>21 DEF ActionLogs, Goes, WorkerUnchanged, Queues, WritesLog, PushEntry
<1>22. CASE ActionResult
  BY <1>0, <1>22 DEF ActionResult, WorkerUnchanged
<1>23. CASE ActionEnds
  BY <1>0, <1>23 DEF ActionEnds, Goes, WorkerUnchanged
<1>24. CASE EntryFails
  BY <1>0, <1>24 DEF EntryFails, Goes, RecordLogError
<1>25. CASE TakeBuffers
  BY <1>0, <1>25 DEF TakeBuffers, Goes, WorkerUnchanged
<1>26. CASE Drain
  BY <1>0, <1>26 DEF Drain, RowSaved, RowFails, RecordLogError
<1>27. CASE ReleaseBuffers
  BY <1>0, <1>27 DEF ReleaseBuffers, WorkerUnchanged
<1>28. CASE FinishCleanup
  BY <1>0, <1>28 DEF FinishCleanup, Goes, WorkerUnchanged, EndedStatus
<1>29. CASE EventConnected \/ EventDisconnected \/ DataNotifies \/ Take \/ ActionCalls \/ Recheck
            \/ AppendEntry \/ DecideReport \/ ReportError \/ DestroyClient
  BY <1>0, <1>29 DEF EventConnected, SdkUnchanged, EventDisconnected, DataNotifies, Take,
     ActionCalls, WorkerUnchanged, Recheck, Goes, AppendEntry, RowSaved, RowFails, DecideReport,
     ReportError, Report, DestroyClient
<1> QED
  BY <1>1, <1>2, <1>3, <1>4, <1>5, <1>6, <1>7, <1>8, <1>9, <1>10, <1>11, <1>12, <1>13, <1>14,
     <1>15, <1>16, <1>17, <1>18, <1>19, <1>20, <1>21, <1>22, <1>23, <1>24, <1>25, <1>26, <1>27,
     <1>28, <1>29 DEF MqttNext, UiStep, SdkStep, WorkerStep

LEMMA SessionFlagsKept == ASSUME MqttIInv, MqttNext PROVE SessionFlags'
<1> USE MqttFacts DEF MqttFlags, PageFlags, SessionFlags, WorkerFlags, Acting, Called, Destroyed,
        Ending, EndedKinds, page, clients, link, queue, local, teardown, log, shown, library,
        card, reporting
<1>0. MqttFlags
  BY DEF MqttIInv
<1>1. CASE Connect
  BY <1>0, <1>1 DEF Connect, Connectable, ConnectResets
<1>2. CASE ConnectFails
  BY <1>0, <1>2 DEF ConnectFails, Connectable, ConnectResets
<1>3. CASE Disconnect
  BY <1>0, <1>3 DEF Disconnect, BeginStop, StopUnchanged
<1>4. CASE HomeStops
  BY <1>0, <1>4 DEF HomeStops, BeginStop, StopUnchanged
<1>5. CASE QueueAction
  BY <1>0, <1>5 DEF QueueAction
<1>6. CASE EventConnected
  BY <1>0, <1>6 DEF EventConnected, SdkUnchanged
<1>7. CASE EventDisconnected
  BY <1>0, <1>7 DEF EventDisconnected, SdkUnchanged
<1>8. CASE EventData
  BY <1>0, <1>8 DEF EventData, SdkUnchanged, Queues, WritesLog, PushEntry
<1>9. CASE DataNotifies
  BY <1>0, <1>9 DEF DataNotifies, SdkUnchanged
<1>10. CASE EventStatus
  BY <1>0, <1>10 DEF EventStatus, SdkUnchanged, SetAsyncStatus, PublishStatus
<1>11. CASE EventError
  BY <1>0, <1>11 DEF EventError, SdkUnchanged, PublishStatus
<1>12. CASE ActionEnds
  BY <1>0, <1>12, ZenonT(60) DEF ActionEnds, Goes, WorkerUnchanged
<1>13. CASE EntryFails
  BY <1>0, <1>13, ZenonT(60) DEF EntryFails, Goes, RecordLogError
<1>14. CASE DestroyClient
  BY <1>0, <1>14 DEF DestroyClient, Goes, WorkerUnchanged
<1>15. CASE Drain
  <2>1. /\ UNCHANGED <<running, stopping, connected, failed, actionBusy, cleanupCb, sdk, net, alive>>
    BY <1>15 DEF Drain, RowSaved, RowFails, RecordLogError
  <2>2. cleanupLog' \in BOOLEAN
    BY <1>0, <1>15 DEF Drain, RecordLogError
  <2> QED
    BY <1>0, <2>1, <2>2
<1>16. CASE FinishCleanup
  BY <1>0, <1>16 DEF FinishCleanup, Goes, WorkerUnchanged, EndedStatus
<1>17. CASE ShowBegins \/ ShowEnds \/ Tick \/ HomeBegins \/ HomeEnds \/ UiNotifies \/ LogClicked
            \/ ClearBegins \/ ClearEnds \/ EventAcknowledged \/ EventInvalid \/ Take
            \/ ActionStarts \/ ActionCalls \/ ActionLogs \/ ActionResult \/ Recheck \/ AppendEntry
            \/ DecideReport \/ ReportError \/ TakeBuffers \/ ReleaseBuffers
  BY <1>0, <1>17 DEF ShowBegins, ShowEnds, EnsureBuffers, Tick, HomeBegins, HomeEnds, UiNotifies,
     LogClicked, ClearBegins, ClearEnds, EventAcknowledged, SdkUnchanged, SetAsyncStatus,
     PublishStatus, EventInvalid, Take, ActionStarts, WorkerUnchanged, ActionCalls, ActionLogs,
     Goes, Queues, WritesLog, PushEntry, ActionResult, Recheck, AppendEntry, RowSaved, RowFails,
     DecideReport, ReportError, Report, TakeBuffers, ReleaseBuffers
<1> QED
  BY <1>1, <1>2, <1>3, <1>4, <1>5, <1>6, <1>7, <1>8, <1>9, <1>10, <1>11, <1>12, <1>13, <1>14,
     <1>15, <1>16, <1>17 DEF MqttNext, UiStep, SdkStep, WorkerStep

LEMMA WorkerFlagsKept == ASSUME MqttIInv, MqttNext PROVE WorkerFlags'
<1> USE MqttFacts DEF MqttFlags, PageFlags, SessionFlags, WorkerFlags, Acting, Called, Destroyed,
        Ending, EndedKinds, page, clients, link, queue, local, teardown, log, shown, library,
        card, reporting
<1>0. MqttFlags
  BY DEF MqttIInv
<1>1. CASE ShowBegins
  BY <1>0, <1>1 DEF ShowBegins
<1>2. CASE Connect
  BY <1>0, <1>2 DEF Connect, Connectable, ConnectResets
<1>3. CASE ConnectFails
  BY <1>0, <1>3 DEF ConnectFails, Connectable, ConnectResets
<1>4. CASE UiNotifies
  BY <1>0, <1>4 DEF UiNotifies
<1>5. CASE EventData
  BY <1>0, <1>5 DEF EventData, SdkUnchanged, Queues, WritesLog, PushEntry
<1>6. CASE DataNotifies
  BY <1>0, <1>6 DEF DataNotifies, SdkUnchanged
<1>7. CASE Take
  BY <1>0, <1>7 DEF Take
<1>8. CASE ActionStarts
  BY <1>0, <1>8 DEF ActionStarts, WorkerUnchanged
<1>9. CASE ActionCalls
  BY <1>0, <1>9 DEF ActionCalls, WorkerUnchanged
<1>10. CASE ActionLogs
  BY <1>0, <1>10 DEF ActionLogs, Goes, WorkerUnchanged, Queues, WritesLog, PushEntry
<1>11. CASE ActionResult
  BY <1>0, <1>11 DEF ActionResult, WorkerUnchanged
<1>12. CASE ActionEnds
  BY <1>0, <1>12 DEF ActionEnds, Goes, WorkerUnchanged
<1>13. CASE Recheck
  BY <1>0, <1>13 DEF Recheck, Goes, WorkerUnchanged
<1>14. CASE AppendEntry
  BY <1>0, <1>14 DEF AppendEntry, RowSaved, RowFails, WorkerUnchanged
<1>15. CASE EntryFails
  BY <1>0, <1>15 DEF EntryFails, Goes, RecordLogError
<1>16. CASE DecideReport
  BY <1>0, <1>16 DEF DecideReport, WorkerUnchanged
<1>17. CASE ReportError
  BY <1>0, <1>17 DEF ReportError, Report, WorkerUnchanged
<1>18. CASE DestroyClient
  BY <1>0, <1>18 DEF DestroyClient, Goes, WorkerUnchanged
<1>19. CASE TakeBuffers
  BY <1>0, <1>19 DEF TakeBuffers, Goes, WorkerUnchanged
<1>20. CASE Drain
  BY <1>0, <1>20 DEF Drain, RowSaved, RowFails, RecordLogError
<1>21. CASE ReleaseBuffers
  BY <1>0, <1>21 DEF ReleaseBuffers, WorkerUnchanged
<1>22. CASE FinishCleanup
  BY <1>0, <1>22 DEF FinishCleanup, Goes, WorkerUnchanged, EndedStatus
<1>23. CASE ShowEnds \/ Tick \/ Disconnect \/ HomeBegins \/ HomeStops \/ HomeEnds \/ LogClicked
            \/ QueueAction \/ ClearBegins \/ ClearEnds \/ EventConnected \/ EventDisconnected
            \/ EventAcknowledged \/ EventInvalid \/ EventStatus \/ EventError
  BY <1>0, <1>23 DEF ShowEnds, EnsureBuffers, Tick, Disconnect, BeginStop, StopUnchanged,
     HomeBegins, HomeStops, HomeEnds, LogClicked, QueueAction, ClearBegins, ClearEnds,
     EventConnected, SdkUnchanged, EventDisconnected, EventAcknowledged, SetAsyncStatus,
     PublishStatus, EventInvalid, EventStatus, EventError
<1> QED
  BY <1>1, <1>2, <1>3, <1>4, <1>5, <1>6, <1>7, <1>8, <1>9, <1>10, <1>11, <1>12, <1>13, <1>14,
     <1>15, <1>16, <1>17, <1>18, <1>19, <1>20, <1>21, <1>22, <1>23 DEF MqttNext, UiStep, SdkStep,
     WorkerStep

LEMMA MqttCountsKept == ASSUME MqttIInv, MqttNext PROVE MqttCounts'
<1> USE MqttFacts DEF MqttCounts, Acting, Called, Destroyed, Ending, EndedKinds, page, clients,
        link, queue, local, teardown, log, shown, library, card, reporting
<1>0. MqttCounts
  BY DEF MqttIInv
<1>1. CASE ShowBegins
  BY <1>0, <1>1 DEF ShowBegins
<1>2. CASE Connect
  BY <1>0, <1>2 DEF Connect, Connectable, ConnectResets
<1>3. CASE ConnectFails
  BY <1>0, <1>3 DEF ConnectFails, Connectable, ConnectResets
<1>4. CASE Disconnect
  BY <1>0, <1>4 DEF Disconnect, BeginStop, StopUnchanged
<1>5. CASE HomeStops
  BY <1>0, <1>5 DEF HomeStops, BeginStop, StopUnchanged
<1>6. CASE QueueAction
  BY <1>0, <1>6 DEF QueueAction
<1>7. CASE EventData
  BY <1>0, <1>7 DEF EventData, SdkUnchanged, Queues, WritesLog, PushEntry
<1>8. CASE ActionLogs
  BY <1>0, <1>8 DEF ActionLogs, Goes, WorkerUnchanged, Queues, WritesLog, PushEntry
<1>9. CASE EntryFails
  BY <1>0, <1>9 DEF EntryFails, Goes, RecordLogError
<1>10. CASE ReportError
  BY <1>0, <1>10 DEF ReportError, Report, WorkerUnchanged
<1>11. CASE Drain
  BY <1>0, <1>11 DEF Drain, RowSaved, RowFails, RecordLogError
<1>12. CASE ShowEnds \/ Tick \/ HomeBegins \/ HomeEnds \/ UiNotifies \/ LogClicked \/ ClearBegins
            \/ ClearEnds \/ EventConnected \/ EventDisconnected \/ EventAcknowledged
            \/ DataNotifies \/ EventInvalid \/ EventStatus \/ EventError \/ Take \/ ActionStarts
            \/ ActionCalls \/ ActionResult \/ ActionEnds \/ Recheck \/ AppendEntry \/ DecideReport
            \/ DestroyClient \/ TakeBuffers \/ ReleaseBuffers \/ FinishCleanup
  BY <1>0, <1>12 DEF ShowEnds, EnsureBuffers, Tick, HomeBegins, HomeEnds, UiNotifies, LogClicked,
     ClearBegins, ClearEnds, EventConnected, SdkUnchanged, EventDisconnected, EventAcknowledged,
     SetAsyncStatus, PublishStatus, DataNotifies, EventInvalid, EventStatus, EventError, Take,
     ActionStarts, WorkerUnchanged, ActionCalls, ActionResult, ActionEnds, Goes, Recheck,
     AppendEntry, RowSaved, RowFails, DecideReport, DestroyClient, TakeBuffers, ReleaseBuffers,
     FinishCleanup, EndedStatus
<1> QED
  BY <1>1, <1>2, <1>3, <1>4, <1>5, <1>6, <1>7, <1>8, <1>9, <1>10, <1>11, <1>12 DEF MqttNext,
     UiStep, SdkStep, WorkerStep

LEMMA MqttActionsKept == ASSUME MqttIInv, MqttNext PROVE MqttActions'
<1> USE MqttFacts DEF MqttFlags, SessionFlags, MqttCounts, MqttActions, OneSession, OneAction,
        Acting, Called, Destroyed, Ending, EndedKinds, page, clients, link, queue, local,
        teardown, log, shown, library, card, reporting
<1>0. MqttFlags /\ MqttCounts /\ MqttActions /\ OneSession /\ OneAction
  BY DEF MqttIInv
<1>1. CASE Connect
  BY <1>0, <1>1 DEF Connect, Connectable, ConnectResets
<1>2. CASE QueueAction
  <2>1. /\ actions' = actions + 1 /\ actions' \in 1..MaxActions /\ client \in 1..MaxSessions
        /\ UNCHANGED <<action, outstanding, acked>>
    BY <1>0, <1>2 DEF QueueAction
  <2>2. pending' \in Actions
    BY <1>2, <2>1 DEF QueueAction, Actions
  <2>3. 1..actions \subseteq 1..actions'
    BY <1>0, <2>1
  <2>4. outstanding' \cup acked' \subseteq 1..actions' /\ action' \in Actions \cup {NoAction}
    BY <1>0, <2>1, <2>3
  <2> QED
    BY <2>2, <2>4
<1>3. CASE EventAcknowledged
  BY <1>0, <1>3 DEF EventAcknowledged, SdkUnchanged, SetAsyncStatus, PublishStatus
<1>4. CASE Take
  BY <1>0, <1>4 DEF Take
<1>5. CASE ActionCalls
  BY <1>0, <1>5 DEF ActionCalls, WorkerUnchanged
<1>6. CASE ActionEnds
  BY <1>0, <1>6 DEF ActionEnds, Goes, WorkerUnchanged
<1>7. CASE ShowBegins \/ ShowEnds \/ Tick \/ ConnectFails \/ Disconnect \/ HomeBegins \/ HomeStops
           \/ HomeEnds \/ UiNotifies \/ LogClicked \/ ClearBegins \/ ClearEnds \/ EventConnected
           \/ EventDisconnected \/ EventData \/ DataNotifies \/ EventInvalid \/ EventStatus
           \/ EventError \/ ActionStarts \/ ActionLogs \/ ActionResult \/ Recheck \/ AppendEntry
           \/ EntryFails \/ DecideReport \/ ReportError \/ DestroyClient \/ TakeBuffers \/ Drain
           \/ ReleaseBuffers \/ FinishCleanup
  BY <1>0, <1>7 DEF ShowBegins, ShowEnds, EnsureBuffers, Tick, ConnectFails, Connectable,
     ConnectResets, Disconnect, BeginStop, StopUnchanged, HomeBegins, HomeStops, HomeEnds,
     UiNotifies, LogClicked, ClearBegins, ClearEnds, EventConnected, SdkUnchanged,
     EventDisconnected, EventData, Queues, WritesLog, PushEntry, DataNotifies, EventInvalid,
     SetAsyncStatus, PublishStatus, EventStatus, EventError, ActionStarts, WorkerUnchanged,
     ActionLogs, Goes, ActionResult, Recheck, AppendEntry, RowSaved, RowFails, EntryFails,
     RecordLogError, DecideReport, ReportError, Report, DestroyClient, TakeBuffers, Drain,
     ReleaseBuffers, FinishCleanup, EndedStatus
<1> QED
  BY <1>1, <1>2, <1>3, <1>4, <1>5, <1>6, <1>7 DEF MqttNext, UiStep, SdkStep, WorkerStep

LEMMA StatusKept == ASSUME MqttIInv, MqttNext PROVE (status \in Statuses)'
<1> USE MqttFacts, NewStatus DEF MqttFlags, SessionFlags, WorkerFlags, MqttCounts, MqttActions,
        StatusKinds, OneAction, Acting, Called, Destroyed, Ending, EndedKinds, page, clients,
        link, queue, local, teardown, log, shown, library, card, reporting
<1>0. MqttFlags /\ MqttCounts /\ MqttActions /\ status \in Statuses /\ OneAction
  BY DEF MqttIInv
<1>1. CASE ShowEnds
  BY <1>0, <1>1 DEF ShowEnds, EnsureBuffers
<1>2. CASE Connect
  BY <1>0, <1>2 DEF Connect, Connectable, ConnectResets
<1>3. CASE ConnectFails
  BY <1>0, <1>3 DEF ConnectFails, Connectable, ConnectResets
<1>4. CASE FinishCleanup
  BY <1>0, <1>4, ZenonT(60) DEF FinishCleanup, Goes, WorkerUnchanged, EndedStatus
<1>5. CASE ShowBegins \/ Tick \/ Disconnect \/ HomeBegins \/ HomeStops \/ HomeEnds \/ UiNotifies
           \/ LogClicked \/ QueueAction \/ ClearBegins \/ ClearEnds \/ EventConnected
           \/ EventDisconnected \/ EventData \/ DataNotifies \/ Take \/ ActionStarts
           \/ ActionCalls \/ ActionLogs \/ ActionEnds \/ Recheck \/ AppendEntry \/ EntryFails
           \/ DecideReport \/ ReportError \/ DestroyClient \/ TakeBuffers \/ Drain
           \/ ReleaseBuffers
  BY <1>0, <1>5 DEF ShowBegins, Tick, EnsureBuffers, Disconnect, BeginStop, StopUnchanged,
     HomeBegins, HomeStops, HomeEnds, UiNotifies, LogClicked, QueueAction, ClearBegins, ClearEnds,
     EventConnected, SdkUnchanged, EventDisconnected, EventData, Queues, WritesLog, PushEntry,
     DataNotifies, Take, ActionStarts, WorkerUnchanged, ActionCalls, ActionLogs, Goes, ActionEnds,
     Recheck, AppendEntry, RowSaved, RowFails, EntryFails, RecordLogError, DecideReport,
     ReportError, Report, DestroyClient, TakeBuffers, Drain, ReleaseBuffers
<1>6. CASE Tells
  <2> QED
    BY <1>0, <1>6, StatusTold
<1> QED
  BY <1>1, <1>2, <1>3, <1>4, <1>5, <1>6 DEF MqttNext, UiStep, SdkStep, WorkerStep, Tells

LEMMA OneSessionKept == ASSUME MqttIInv, MqttNext PROVE OneSession'
<1> USE MqttFacts DEF MqttFlags, PageFlags, SessionFlags, WorkerFlags, MqttCounts, OneSession,
        PageOfSession, OneAction, EntriesPlaced, Acting, Called, Destroyed, Ending, EndedKinds,
        page, clients, link, queue, local, teardown, log, shown, library, card, reporting
<1>0. MqttFlags /\ MqttCounts /\ OneSession /\ PageOfSession /\ OneAction /\ EntriesPlaced
  BY DEF MqttIInv
<1>1. CASE Connect
  BY <1>0, <1>1 DEF Connect, Connectable, ConnectResets
<1>2. CASE Disconnect
  BY <1>0, <1>2 DEF Disconnect, BeginStop, StopUnchanged
<1>3. CASE HomeBegins
  BY <1>0, <1>3 DEF HomeBegins
<1>4. CASE HomeStops
  BY <1>0, <1>4 DEF HomeStops, BeginStop, StopUnchanged
<1>5. CASE EventConnected
  BY <1>0, <1>5 DEF EventConnected, SdkUnchanged
<1>6. CASE EventDisconnected
  BY <1>0, <1>6 DEF EventDisconnected, SdkUnchanged
<1>7. CASE EventData
  BY <1>0, <1>7 DEF EventData, SdkUnchanged, Queues, WritesLog, PushEntry
<1>8. CASE DataNotifies
  BY <1>0, <1>8 DEF DataNotifies, SdkUnchanged
<1>9. CASE EventStatus
  BY <1>0, <1>9 DEF EventStatus, SdkUnchanged, SetAsyncStatus, PublishStatus
<1>10. CASE Take
  BY <1>0, <1>10 DEF Take
<1>11. CASE ActionStarts
  BY <1>0, <1>11 DEF ActionStarts, WorkerUnchanged
<1>12. CASE ActionCalls
  BY <1>0, <1>12 DEF ActionCalls, WorkerUnchanged
<1>13. CASE ActionLogs
  BY <1>0, <1>13 DEF ActionLogs, Goes, WorkerUnchanged, Queues, WritesLog, PushEntry
<1>14. CASE ActionResult
  BY <1>0, <1>14 DEF ActionResult, WorkerUnchanged
<1>15. CASE ActionEnds
  BY <1>0, <1>15 DEF ActionEnds, Goes, WorkerUnchanged
<1>16. CASE Recheck
  BY <1>0, <1>16 DEF Recheck, Goes, WorkerUnchanged
<1>17. CASE AppendEntry
  BY <1>0, <1>17 DEF AppendEntry, RowSaved, RowFails, WorkerUnchanged
<1>18. CASE EntryFails
  BY <1>0, <1>18 DEF EntryFails, Goes, RecordLogError
<1>19. CASE DecideReport
  BY <1>0, <1>19 DEF DecideReport, WorkerUnchanged
<1>20. CASE ReportError
  BY <1>0, <1>20 DEF ReportError, Report, WorkerUnchanged
<1>21. CASE DestroyClient
  BY <1>0, <1>21 DEF DestroyClient, Goes, WorkerUnchanged
<1>22. CASE TakeBuffers
  BY <1>0, <1>22 DEF TakeBuffers, Goes, WorkerUnchanged
<1>23. CASE Drain
  BY <1>0, <1>23 DEF Drain, RowSaved, RowFails, RecordLogError
<1>24. CASE ReleaseBuffers
  BY <1>0, <1>24 DEF ReleaseBuffers, WorkerUnchanged
<1>25. CASE FinishCleanup
  BY <1>0, <1>25 DEF FinishCleanup, Goes, WorkerUnchanged, EndedStatus
<1>26. CASE ShowBegins \/ ShowEnds \/ Tick \/ ConnectFails \/ HomeEnds \/ UiNotifies \/ LogClicked
            \/ QueueAction \/ ClearBegins \/ ClearEnds \/ EventAcknowledged \/ EventInvalid
            \/ EventError
  BY <1>0, <1>26 DEF ShowBegins, ShowEnds, EnsureBuffers, Tick, ConnectFails, Connectable,
     ConnectResets, HomeEnds, UiNotifies, LogClicked, QueueAction, ClearBegins, ClearEnds,
     EventAcknowledged, SdkUnchanged, SetAsyncStatus, PublishStatus, EventInvalid, EventError
<1> QED
  BY <1>1, <1>2, <1>3, <1>4, <1>5, <1>6, <1>7, <1>8, <1>9, <1>10, <1>11, <1>12, <1>13, <1>14,
     <1>15, <1>16, <1>17, <1>18, <1>19, <1>20, <1>21, <1>22, <1>23, <1>24, <1>25, <1>26 DEF
     MqttNext, UiStep, SdkStep, WorkerStep

LEMMA PageOfSessionKept == ASSUME MqttIInv, MqttNext PROVE PageOfSession'
<1> USE MqttFacts DEF MqttFlags, PageFlags, SessionFlags, WorkerFlags, OneSession, PageOfSession,
        Acting, Called, Destroyed, Ending, EndedKinds, page, clients, link, queue, local,
        teardown, log, shown, library, card, reporting
<1>0. MqttFlags /\ OneSession /\ PageOfSession
  BY DEF MqttIInv
<1>1. CASE ShowBegins
  BY <1>0, <1>1 DEF ShowBegins
<1>2. CASE ShowEnds
  BY <1>0, <1>2 DEF ShowEnds, EnsureBuffers
<1>3. CASE Connect
  BY <1>0, <1>3 DEF Connect, Connectable, ConnectResets
<1>4. CASE Disconnect
  BY <1>0, <1>4 DEF Disconnect, BeginStop, StopUnchanged
<1>5. CASE HomeBegins
  BY <1>0, <1>5 DEF HomeBegins
<1>6. CASE HomeStops
  BY <1>0, <1>6 DEF HomeStops, BeginStop, StopUnchanged
<1>7. CASE HomeEnds
  BY <1>0, <1>7 DEF HomeEnds
<1>8. CASE UiNotifies
  BY <1>0, <1>8 DEF UiNotifies
<1>9. CASE QueueAction
  BY <1>0, <1>9 DEF QueueAction
<1>10. CASE ClearBegins
  BY <1>0, <1>10 DEF ClearBegins
<1>11. CASE ClearEnds
  BY <1>0, <1>11 DEF ClearEnds
<1>12. CASE Take
  BY <1>0, <1>12 DEF Take
<1>13. CASE ActionStarts
  BY <1>0, <1>13 DEF ActionStarts, WorkerUnchanged
<1>14. CASE ActionCalls
  BY <1>0, <1>14 DEF ActionCalls, WorkerUnchanged
<1>15. CASE ActionLogs
  BY <1>0, <1>15 DEF ActionLogs, Goes, WorkerUnchanged, Queues, WritesLog, PushEntry
<1>16. CASE ActionResult
  BY <1>0, <1>16 DEF ActionResult, WorkerUnchanged
<1>17. CASE ActionEnds
  BY <1>0, <1>17 DEF ActionEnds, Goes, WorkerUnchanged
<1>18. CASE Recheck
  BY <1>0, <1>18 DEF Recheck, Goes, WorkerUnchanged
<1>19. CASE AppendEntry
  BY <1>0, <1>19 DEF AppendEntry, RowSaved, RowFails, WorkerUnchanged
<1>20. CASE EntryFails
  BY <1>0, <1>20 DEF EntryFails, Goes, RecordLogError
<1>21. CASE DecideReport
  BY <1>0, <1>21 DEF DecideReport, WorkerUnchanged
<1>22. CASE ReportError
  BY <1>0, <1>22 DEF ReportError, Report, WorkerUnchanged
<1>23. CASE DestroyClient
  BY <1>0, <1>23 DEF DestroyClient, Goes, WorkerUnchanged
<1>24. CASE TakeBuffers
  BY <1>0, <1>24 DEF TakeBuffers, Goes, WorkerUnchanged
<1>25. CASE Drain
  BY <1>0, <1>25 DEF Drain, RowSaved, RowFails, RecordLogError
<1>26. CASE ReleaseBuffers
  BY <1>0, <1>26 DEF ReleaseBuffers, WorkerUnchanged
<1>27. CASE FinishCleanup
  BY <1>0, <1>27 DEF FinishCleanup, Goes, WorkerUnchanged, EndedStatus
<1>28. CASE Tick \/ ConnectFails \/ LogClicked \/ EventConnected \/ EventDisconnected
            \/ EventAcknowledged \/ EventData \/ DataNotifies \/ EventInvalid \/ EventStatus
            \/ EventError
  BY <1>0, <1>28 DEF Tick, EnsureBuffers, ConnectFails, Connectable, ConnectResets, LogClicked,
     EventConnected, SdkUnchanged, EventDisconnected, EventAcknowledged, SetAsyncStatus,
     PublishStatus, EventData, Queues, WritesLog, PushEntry, DataNotifies, EventInvalid,
     EventStatus, EventError
<1> QED
  BY <1>1, <1>2, <1>3, <1>4, <1>5, <1>6, <1>7, <1>8, <1>9, <1>10, <1>11, <1>12, <1>13, <1>14,
     <1>15, <1>16, <1>17, <1>18, <1>19, <1>20, <1>21, <1>22, <1>23, <1>24, <1>25, <1>26, <1>27,
     <1>28 DEF MqttNext, UiStep, SdkStep, WorkerStep

LEMMA NoLostWakeupKept == ASSUME MqttIInv, MqttNext PROVE NoLostWakeup'
<1> USE MqttFacts DEF MqttFlags, PageFlags, SessionFlags, WorkerFlags, OneSession, NoLostWakeup,
        EntriesPlaced, OneAction, Acting, Called, Destroyed, Ending, EndedKinds, page, clients,
        link, queue, local, teardown, log, shown, library, card, reporting
<1>0. MqttFlags /\ OneSession /\ NoLostWakeup /\ EntriesPlaced /\ OneAction
  BY DEF MqttIInv
<1>1. CASE ShowBegins
  BY <1>0, <1>1 DEF ShowBegins
<1>2. CASE ShowEnds
  BY <1>0, <1>2 DEF ShowEnds, EnsureBuffers
<1>3. CASE Disconnect
  BY <1>0, <1>3 DEF Disconnect, BeginStop, StopUnchanged
<1>4. CASE HomeBegins
  BY <1>0, <1>4 DEF HomeBegins
<1>5. CASE HomeStops
  BY <1>0, <1>5 DEF HomeStops, BeginStop, StopUnchanged
<1>6. CASE HomeEnds
  BY <1>0, <1>6 DEF HomeEnds
<1>7. CASE UiNotifies
  BY <1>0, <1>7 DEF UiNotifies
<1>8. CASE QueueAction
  BY <1>0, <1>8 DEF QueueAction
<1>9. CASE ClearBegins
  BY <1>0, <1>9 DEF ClearBegins
<1>10. CASE ClearEnds
  BY <1>0, <1>10 DEF ClearEnds
<1>11. CASE EventConnected
  BY <1>0, <1>11 DEF EventConnected, SdkUnchanged
<1>12. CASE EventDisconnected
  BY <1>0, <1>12 DEF EventDisconnected, SdkUnchanged
<1>13. CASE EventData
  BY <1>0, <1>13 DEF EventData, SdkUnchanged, Queues, WritesLog, PushEntry
<1>14. CASE DataNotifies
  BY <1>0, <1>14 DEF DataNotifies, SdkUnchanged
<1>15. CASE EventStatus
  BY <1>0, <1>15 DEF EventStatus, SdkUnchanged, SetAsyncStatus, PublishStatus
<1>16. CASE Take
  BY <1>0, <1>16 DEF Take
<1>17. CASE ActionStarts
  BY <1>0, <1>17 DEF ActionStarts, WorkerUnchanged
<1>18. CASE ActionCalls
  BY <1>0, <1>18 DEF ActionCalls, WorkerUnchanged
<1>19. CASE ActionLogs
  BY <1>0, <1>19 DEF ActionLogs, Goes, WorkerUnchanged, Queues, WritesLog, PushEntry
<1>20. CASE ActionResult
  BY <1>0, <1>20 DEF ActionResult, WorkerUnchanged
<1>21. CASE ActionEnds
  BY <1>0, <1>21 DEF ActionEnds, Goes, WorkerUnchanged
<1>22. CASE Recheck
  BY <1>0, <1>22 DEF Recheck, Goes, WorkerUnchanged
<1>23. CASE AppendEntry
  BY <1>0, <1>23 DEF AppendEntry, RowSaved, RowFails, WorkerUnchanged
<1>24. CASE EntryFails
  BY <1>0, <1>24 DEF EntryFails, Goes, RecordLogError
<1>25. CASE DecideReport
  BY <1>0, <1>25 DEF DecideReport, WorkerUnchanged
<1>26. CASE ReportError
  BY <1>0, <1>26 DEF ReportError, Report, WorkerUnchanged
<1>27. CASE DestroyClient
  BY <1>0, <1>27 DEF DestroyClient, Goes, WorkerUnchanged
<1>28. CASE TakeBuffers
  BY <1>0, <1>28 DEF TakeBuffers, Goes, WorkerUnchanged
<1>29. CASE Drain
  BY <1>0, <1>29 DEF Drain, RowSaved, RowFails, RecordLogError
<1>30. CASE ReleaseBuffers
  BY <1>0, <1>30 DEF ReleaseBuffers, WorkerUnchanged
<1>31. CASE FinishCleanup
  BY <1>0, <1>31 DEF FinishCleanup, Goes, WorkerUnchanged, EndedStatus
<1>32. CASE Tick \/ Connect \/ ConnectFails \/ LogClicked \/ EventAcknowledged \/ EventInvalid
            \/ EventError
  BY <1>0, <1>32 DEF Tick, EnsureBuffers, Connect, Connectable, ConnectResets, ConnectFails,
     LogClicked, EventAcknowledged, SdkUnchanged, SetAsyncStatus, PublishStatus, EventInvalid,
     EventError
<1> QED
  BY <1>1, <1>2, <1>3, <1>4, <1>5, <1>6, <1>7, <1>8, <1>9, <1>10, <1>11, <1>12, <1>13, <1>14,
     <1>15, <1>16, <1>17, <1>18, <1>19, <1>20, <1>21, <1>22, <1>23, <1>24, <1>25, <1>26, <1>27,
     <1>28, <1>29, <1>30, <1>31, <1>32 DEF MqttNext, UiStep, SdkStep, WorkerStep

LEMMA OneActionKept == ASSUME MqttIInv, MqttNext PROVE OneAction'
<1> USE MqttFacts DEF MqttFlags, PageFlags, SessionFlags, WorkerFlags, MqttCounts, MqttActions,
        OneSession, OneAction, Acting, Called, Destroyed, Ending, EndedKinds, page, clients, link,
        queue, local, teardown, log, shown, library, card, reporting
<1>0. MqttFlags /\ MqttCounts /\ OneSession /\ MqttActions /\ OneAction
  BY DEF MqttIInv
<1>1. CASE Connect
  BY <1>0, <1>1 DEF Connect, Connectable, ConnectResets
<1>2. CASE ConnectFails
  BY <1>0, <1>2 DEF ConnectFails, Connectable, ConnectResets
<1>3. CASE Disconnect
  BY <1>0, <1>3 DEF Disconnect, BeginStop, StopUnchanged
<1>4. CASE HomeStops
  BY <1>0, <1>4 DEF HomeStops, BeginStop, StopUnchanged
<1>5. CASE QueueAction
  BY <1>0, <1>5 DEF QueueAction
<1>6. CASE EventConnected
  BY <1>0, <1>6 DEF EventConnected, SdkUnchanged
<1>7. CASE EventDisconnected
  BY <1>0, <1>7 DEF EventDisconnected, SdkUnchanged
<1>8. CASE EventAcknowledged
  BY <1>0, <1>8 DEF EventAcknowledged, SdkUnchanged, SetAsyncStatus, PublishStatus
<1>9. CASE EventInvalid
  BY <1>0, <1>9 DEF EventInvalid, SdkUnchanged, SetAsyncStatus, PublishStatus
<1>10. CASE EventStatus
  BY <1>0, <1>10 DEF EventStatus, SdkUnchanged, SetAsyncStatus, PublishStatus
<1>11. CASE EventError
  BY <1>0, <1>11 DEF EventError, SdkUnchanged, PublishStatus
<1>12. CASE Take
  BY <1>0, <1>12 DEF Take
<1>13. CASE ActionStarts
  BY <1>0, <1>13 DEF ActionStarts, WorkerUnchanged
<1>14. CASE ActionCalls
  BY <1>0, <1>14 DEF ActionCalls, WorkerUnchanged
<1>15. CASE ActionLogs
  BY <1>0, <1>15 DEF ActionLogs, Goes, WorkerUnchanged, Queues, WritesLog, PushEntry
<1>16. CASE ActionResult
  BY <1>0, <1>16 DEF ActionResult, WorkerUnchanged
<1>17. CASE ActionEnds
  BY <1>0, <1>17 DEF ActionEnds, Goes, WorkerUnchanged
<1>18. CASE Recheck
  BY <1>0, <1>18 DEF Recheck, Goes, WorkerUnchanged
<1>19. CASE AppendEntry
  BY <1>0, <1>19 DEF AppendEntry, RowSaved, RowFails, WorkerUnchanged
<1>20. CASE EntryFails
  BY <1>0, <1>20 DEF EntryFails, Goes, RecordLogError
<1>21. CASE DecideReport
  BY <1>0, <1>21 DEF DecideReport, WorkerUnchanged
<1>22. CASE ReportError
  BY <1>0, <1>22 DEF ReportError, Report, WorkerUnchanged
<1>23. CASE DestroyClient
  BY <1>0, <1>23 DEF DestroyClient, Goes, WorkerUnchanged
<1>24. CASE TakeBuffers
  BY <1>0, <1>24 DEF TakeBuffers, Goes, WorkerUnchanged
<1>25. CASE Drain
  BY <1>0, <1>25 DEF Drain, RowSaved, RowFails, RecordLogError
<1>26. CASE ReleaseBuffers
  BY <1>0, <1>26 DEF ReleaseBuffers, WorkerUnchanged
<1>27. CASE FinishCleanup
  BY <1>0, <1>27 DEF FinishCleanup, Goes, WorkerUnchanged, EndedStatus
<1>28. CASE ShowBegins \/ ShowEnds \/ Tick \/ HomeBegins \/ HomeEnds \/ UiNotifies \/ LogClicked
            \/ ClearBegins \/ ClearEnds \/ EventData \/ DataNotifies
  BY <1>0, <1>28, SMTT(60) DEF ShowBegins, ShowEnds, EnsureBuffers, Tick, HomeBegins, HomeEnds, UiNotifies,
     LogClicked, ClearBegins, ClearEnds, EventData, SdkUnchanged, Queues, WritesLog, PushEntry,
     DataNotifies
<1> QED
  BY <1>1, <1>2, <1>3, <1>4, <1>5, <1>6, <1>7, <1>8, <1>9, <1>10, <1>11, <1>12, <1>13, <1>14,
     <1>15, <1>16, <1>17, <1>18, <1>19, <1>20, <1>21, <1>22, <1>23, <1>24, <1>25, <1>26, <1>27,
     <1>28 DEF MqttNext, UiStep, SdkStep, WorkerStep

LEMMA StatusAgreesKept == ASSUME MqttIInv, MqttNext PROVE StatusAgrees'
<1> USE MqttFacts, NewStatus DEF MqttFlags, PageFlags, SessionFlags, WorkerFlags, MqttCounts,
        OneSession, PageOfSession, StatusAgrees, Acting, Called, Destroyed, Ending, EndedKinds,
        page, clients, link, queue, local, teardown, log, shown, library, card, reporting
<1>0. MqttFlags /\ MqttCounts /\ OneSession /\ PageOfSession /\ StatusAgrees
  BY DEF MqttIInv
<1>1. CASE ShowEnds
  BY <1>0, <1>1 DEF ShowEnds, EnsureBuffers
<1>2. CASE Tick
  BY <1>0, <1>2 DEF Tick, EnsureBuffers
<1>3. CASE Connect
  BY <1>0, <1>3 DEF Connect, Connectable, ConnectResets
<1>4. CASE ConnectFails
  BY <1>0, <1>4 DEF ConnectFails, Connectable, ConnectResets
<1>5. CASE Disconnect
  BY <1>0, <1>5 DEF Disconnect, BeginStop, StopUnchanged
<1>6. CASE HomeStops
  BY <1>0, <1>6 DEF HomeStops, BeginStop, StopUnchanged
<1>7. CASE ClearEnds
  BY <1>0, <1>7 DEF ClearEnds
<1>8. CASE EventConnected
  BY <1>0, <1>8 DEF EventConnected, SdkUnchanged
<1>9. CASE EventDisconnected
  BY <1>0, <1>9 DEF EventDisconnected, SdkUnchanged
<1>10. CASE FinishCleanup
  BY <1>0, <1>10 DEF FinishCleanup, Goes, WorkerUnchanged, EndedStatus
<1>11. CASE ShowBegins \/ HomeBegins \/ HomeEnds \/ UiNotifies \/ LogClicked \/ QueueAction
            \/ ClearBegins \/ EventData \/ DataNotifies \/ Take \/ ActionStarts \/ ActionCalls
            \/ ActionLogs \/ ActionEnds \/ Recheck \/ AppendEntry \/ EntryFails \/ DecideReport
            \/ ReportError \/ DestroyClient \/ TakeBuffers \/ Drain \/ ReleaseBuffers
  <2>1. UNCHANGED <<session, running, stopping, connected, failed, status, dirty>>
    BY <1>11 DEF ShowBegins, HomeBegins, HomeEnds, UiNotifies, LogClicked, QueueAction,
       ClearBegins, EventData, SdkUnchanged, DataNotifies, Take, ActionStarts, WorkerUnchanged,
       ActionCalls, ActionLogs, Goes, ActionEnds, Recheck, AppendEntry, EntryFails,
       RecordLogError, DecideReport, ReportError, Report, DestroyClient, TakeBuffers, Drain,
       ReleaseBuffers
  <2> QED
    BY <1>0, <2>1
<1>12. CASE Tells
  <2>1. UNCHANGED <<running, stopping, session>> /\ (connected' => connected)
    BY <1>12 DEF Tells, EventAcknowledged, SdkUnchanged, SetAsyncStatus, PublishStatus,
       EventInvalid, EventStatus, EventError, ActionResult, WorkerUnchanged
  <2>2. failed' => failed \/ alive
    BY <1>12 DEF Tells, EventAcknowledged, SdkUnchanged, SetAsyncStatus, PublishStatus,
       EventInvalid, EventStatus, EventError, ActionResult, WorkerUnchanged
  <2>3. \/ UNCHANGED <<status, dirty>> /\ (failed' => failed)
        \/ /\ status'.session = session /\ status'.kind \notin EndedKinds
           /\ failed' => status'.kind = "error"
    BY <1>12, StatusTold DEF MqttIInv
  <2>4. connected' \in BOOLEAN /\ failed' \in BOOLEAN
    BY SessionFlagsKept
  <2>5. failed' => running'
    BY <1>0, <2>1, <2>2
  <2>6. connected' => running' /\ ~stopping'
    BY <1>0, <2>1
  <2>7. CASE UNCHANGED <<status, dirty>> /\ (failed' => failed)
    BY <1>0, <2>1, <2>5, <2>6, <2>7
  <2>8. CASE /\ status'.session = session /\ status'.kind \notin EndedKinds
             /\ failed' => status'.kind = "error"
    BY <2>1, <2>5, <2>6, <2>8
  <2> QED
    BY <2>3, <2>7, <2>8
<1> QED
  BY <1>1, <1>2, <1>3, <1>4, <1>5, <1>6, <1>7, <1>8, <1>9, <1>10, <1>11, <1>12 DEF MqttNext,
     UiStep, SdkStep, WorkerStep, Tells

LEMMA ErrorsKnownKept == ASSUME MqttIInv, MqttNext PROVE ErrorsKnown'
<1> USE MqttFacts DEF MqttFlags, PageFlags, SessionFlags, WorkerFlags, MqttCounts, OneSession,
        PageOfSession, ErrorsKnown, Acting, Called, Destroyed, Ending, EndedKinds, page, clients,
        link, queue, local, teardown, log, shown, library, card, reporting
<1>0. MqttFlags /\ MqttCounts /\ OneSession /\ PageOfSession /\ ErrorsKnown
  BY DEF MqttIInv
<1>1. CASE ShowBegins
  BY <1>0, <1>1 DEF ShowBegins
<1>2. CASE Connect
  BY <1>0, <1>2 DEF Connect, Connectable, ConnectResets
<1>3. CASE ConnectFails
  BY <1>0, <1>3 DEF ConnectFails, Connectable, ConnectResets
<1>4. CASE Disconnect
  BY <1>0, <1>4 DEF Disconnect, BeginStop, StopUnchanged
<1>5. CASE HomeStops
  BY <1>0, <1>5 DEF HomeStops, BeginStop, StopUnchanged
<1>6. CASE EventData
  BY <1>0, <1>6 DEF EventData, SdkUnchanged, Queues, WritesLog, PushEntry
<1>7. CASE Take
  BY <1>0, <1>7 DEF Take
<1>8. CASE ActionStarts
  BY <1>0, <1>8 DEF ActionStarts, WorkerUnchanged
<1>9. CASE ActionCalls
  BY <1>0, <1>9 DEF ActionCalls, WorkerUnchanged
<1>10. CASE ActionLogs
  BY <1>0, <1>10 DEF ActionLogs, Goes, WorkerUnchanged, Queues, WritesLog, PushEntry
<1>11. CASE ActionResult
  BY <1>0, <1>11 DEF ActionResult, WorkerUnchanged
<1>12. CASE ActionEnds
  BY <1>0, <1>12 DEF ActionEnds, Goes, WorkerUnchanged
<1>13. CASE Recheck
  BY <1>0, <1>13 DEF Recheck, Goes, WorkerUnchanged
<1>14. CASE AppendEntry
  BY <1>0, <1>14 DEF AppendEntry, RowSaved, RowFails, WorkerUnchanged
<1>15. CASE EntryFails
  BY <1>0, <1>15 DEF EntryFails, Goes, RecordLogError
<1>16. CASE DecideReport
  BY <1>0, <1>16 DEF DecideReport, WorkerUnchanged
<1>17. CASE ReportError
  BY <1>0, <1>17 DEF ReportError, Report, WorkerUnchanged
<1>18. CASE DestroyClient
  BY <1>0, <1>18 DEF DestroyClient, Goes, WorkerUnchanged
<1>19. CASE TakeBuffers
  BY <1>0, <1>19 DEF TakeBuffers, Goes, WorkerUnchanged
<1>20. CASE Drain
  BY <1>0, <1>20 DEF Drain, RowSaved, RowFails, RecordLogError
<1>21. CASE ReleaseBuffers
  BY <1>0, <1>21 DEF ReleaseBuffers, WorkerUnchanged
<1>22. CASE FinishCleanup
  BY <1>0, <1>22 DEF FinishCleanup, Goes, WorkerUnchanged, EndedStatus
<1>23. CASE ShowEnds \/ Tick \/ HomeBegins \/ HomeEnds \/ UiNotifies \/ LogClicked \/ QueueAction
            \/ ClearBegins \/ ClearEnds \/ EventConnected \/ EventDisconnected
            \/ EventAcknowledged \/ DataNotifies \/ EventInvalid \/ EventStatus \/ EventError
  BY <1>0, <1>23 DEF ShowEnds, EnsureBuffers, Tick, HomeBegins, HomeEnds, UiNotifies, LogClicked,
     QueueAction, ClearBegins, ClearEnds, EventConnected, SdkUnchanged, EventDisconnected,
     EventAcknowledged, SetAsyncStatus, PublishStatus, DataNotifies, EventInvalid, EventStatus,
     EventError
<1> QED
  BY <1>1, <1>2, <1>3, <1>4, <1>5, <1>6, <1>7, <1>8, <1>9, <1>10, <1>11, <1>12, <1>13, <1>14,
     <1>15, <1>16, <1>17, <1>18, <1>19, <1>20, <1>21, <1>22, <1>23 DEF MqttNext, UiStep, SdkStep,
     WorkerStep

LEMMA ErrorReportedOnceKept == ASSUME MqttIInv, MqttNext PROVE ErrorReportedOnce'
<1> USE MqttFacts DEF MqttFlags, PageFlags, SessionFlags, WorkerFlags, MqttCounts, OneSession,
        PageOfSession, ErrorsKnown, ErrorReportedOnce, Acting, Called, Destroyed, Ending,
        EndedKinds, page, clients, link, queue, local, teardown, log, shown, library, card,
        reporting
<1>0. MqttFlags /\ MqttCounts /\ OneSession /\ PageOfSession /\ ErrorsKnown /\ ErrorReportedOnce
  BY DEF MqttIInv
<1>1. CASE Connect
  BY <1>0, <1>1 DEF Connect, Connectable, ConnectResets
<1>2. CASE Disconnect
  BY <1>0, <1>2 DEF Disconnect, BeginStop, StopUnchanged
<1>3. CASE HomeStops
  BY <1>0, <1>3 DEF HomeStops, BeginStop, StopUnchanged
<1>4. CASE AppendEntry
  BY <1>0, <1>4 DEF AppendEntry, RowSaved, RowFails, WorkerUnchanged
<1>5. CASE ReportError
  BY <1>0, <1>5 DEF ReportError, Report, WorkerUnchanged
<1>6. CASE Drain
  BY <1>0, <1>6 DEF Drain, RowSaved, RowFails, RecordLogError
<1>7. CASE FinishCleanup
  BY <1>0, <1>7 DEF FinishCleanup, Goes, WorkerUnchanged, EndedStatus
<1>8. CASE ShowBegins \/ ShowEnds \/ Tick \/ ConnectFails \/ HomeBegins \/ HomeEnds \/ UiNotifies
           \/ LogClicked \/ QueueAction \/ ClearBegins \/ ClearEnds \/ EventConnected
           \/ EventDisconnected \/ EventAcknowledged \/ EventData \/ DataNotifies \/ EventInvalid
           \/ EventStatus \/ EventError \/ Take \/ ActionStarts \/ ActionCalls \/ ActionLogs
           \/ ActionResult \/ ActionEnds \/ Recheck \/ EntryFails \/ DecideReport \/ DestroyClient
           \/ TakeBuffers \/ ReleaseBuffers
  BY <1>0, <1>8 DEF ShowBegins, ShowEnds, EnsureBuffers, Tick, ConnectFails, Connectable,
     ConnectResets, HomeBegins, HomeEnds, UiNotifies, LogClicked, QueueAction, ClearBegins,
     ClearEnds, EventConnected, SdkUnchanged, EventDisconnected, EventAcknowledged,
     SetAsyncStatus, PublishStatus, EventData, Queues, WritesLog, PushEntry, DataNotifies,
     EventInvalid, EventStatus, EventError, Take, ActionStarts, WorkerUnchanged, ActionCalls,
     ActionLogs, Goes, ActionResult, ActionEnds, Recheck, EntryFails, RecordLogError,
     DecideReport, DestroyClient, TakeBuffers, ReleaseBuffers
<1> QED
  BY <1>1, <1>2, <1>3, <1>4, <1>5, <1>6, <1>7, <1>8 DEF MqttNext, UiStep, SdkStep, WorkerStep

LEMMA NumbersLeftKept == ASSUME MqttIInv, MqttNext PROVE NumbersLeft'
<1> USE MqttFacts DEF MqttFlags, PageFlags, SessionFlags, WorkerFlags, MqttCounts, OneSession,
        OneAction, NumbersLeft, Acting, Called, Destroyed, Ending, EndedKinds, page, clients,
        link, queue, local, teardown, log, shown, library, card, reporting
<1>0. MqttFlags /\ MqttCounts /\ OneSession /\ MqttActions /\ OneAction /\ NumbersLeft
  BY DEF MqttIInv
<1>1. CASE ShowBegins
  BY <1>0, <1>1 DEF ShowBegins
<1>2. CASE Connect
  BY <1>0, <1>2 DEF Connect, Connectable, ConnectResets
<1>3. CASE ConnectFails
  BY <1>0, <1>3 DEF ConnectFails, Connectable, ConnectResets
<1>4. CASE QueueAction
  BY <1>0, <1>4 DEF QueueAction
<1>5. CASE EventData
  <2>1. UNCHANGED <<actions, pending, worker>> /\ (PushEntry => accepted < MaxEntries \/ ~Queues)
    BY <1>5 DEF EventData, SdkUnchanged
  <2>2. pending # NoAction \/ worker \in {"act", "call", "push"} => actions >= 1
    BY <1>0 DEF MqttActions
  <2>3. accepted < MaxEntries \/ UNCHANGED log
    BY <1>5 DEF EventData
  <2>4. \/ UNCHANGED <<accepted, dropped>>
        \/ accepted' = accepted + 1 /\ dropped' \in {dropped, dropped + 1}
    BY <1>5, EntryPushed DEF Pushed
  <2> QED
    BY <1>0, <2>1, <2>2, <2>3, <2>4
<1>6. CASE Take
  BY <1>0, <1>6 DEF Take
<1>7. CASE ActionStarts
  BY <1>0, <1>7 DEF ActionStarts, WorkerUnchanged
<1>8. CASE ActionCalls
  BY <1>0, <1>8 DEF ActionCalls, WorkerUnchanged
<1>9. CASE ActionLogs
  BY <1>0, <1>9 DEF ActionLogs, Goes, WorkerUnchanged, Queues, WritesLog, PushEntry
<1>10. CASE ActionResult
  BY <1>0, <1>10 DEF ActionResult, WorkerUnchanged
<1>11. CASE ActionEnds
  BY <1>0, <1>11 DEF ActionEnds, Goes, WorkerUnchanged
<1>12. CASE Recheck
  BY <1>0, <1>12 DEF Recheck, Goes, WorkerUnchanged
<1>13. CASE AppendEntry
  BY <1>0, <1>13 DEF AppendEntry, RowSaved, RowFails, WorkerUnchanged
<1>14. CASE EntryFails
  BY <1>0, <1>14 DEF EntryFails, Goes, RecordLogError
<1>15. CASE DecideReport
  BY <1>0, <1>15 DEF DecideReport, WorkerUnchanged
<1>16. CASE ReportError
  BY <1>0, <1>16 DEF ReportError, Report, WorkerUnchanged
<1>17. CASE DestroyClient
  BY <1>0, <1>17 DEF DestroyClient, Goes, WorkerUnchanged
<1>18. CASE TakeBuffers
  BY <1>0, <1>18 DEF TakeBuffers, Goes, WorkerUnchanged
<1>19. CASE Drain
  BY <1>0, <1>19 DEF Drain, RowSaved, RowFails, RecordLogError
<1>20. CASE ReleaseBuffers
  BY <1>0, <1>20 DEF ReleaseBuffers, WorkerUnchanged
<1>21. CASE FinishCleanup
  BY <1>0, <1>21 DEF FinishCleanup, Goes, WorkerUnchanged, EndedStatus
<1>22. CASE ShowEnds \/ Tick \/ Disconnect \/ HomeBegins \/ HomeStops \/ HomeEnds \/ UiNotifies
            \/ LogClicked \/ ClearBegins \/ ClearEnds \/ EventConnected \/ EventDisconnected
            \/ EventAcknowledged \/ DataNotifies \/ EventInvalid \/ EventStatus \/ EventError
  BY <1>0, <1>22 DEF ShowEnds, EnsureBuffers, Tick, Disconnect, BeginStop, StopUnchanged,
     HomeBegins, HomeStops, HomeEnds, UiNotifies, LogClicked, ClearBegins, ClearEnds,
     EventConnected, SdkUnchanged, EventDisconnected, EventAcknowledged, SetAsyncStatus,
     PublishStatus, DataNotifies, EventInvalid, EventStatus, EventError
<1> QED
  BY <1>1, <1>2, <1>3, <1>4, <1>5, <1>6, <1>7, <1>8, <1>9, <1>10, <1>11, <1>12, <1>13, <1>14,
     <1>15, <1>16, <1>17, <1>18, <1>19, <1>20, <1>21, <1>22 DEF MqttNext, UiStep, SdkStep,
     WorkerStep

LEMMA MqttQueuesKept == ASSUME MqttIInv, MqttNext PROVE MqttQueues'
<1> USE MqttFacts DEF MqttQueues, page, clients, link, queue, local, teardown, log, shown,
        library, card, reporting
<1>0. MqttQueues
  BY DEF MqttIInv
<1>1. CASE Connect
  BY <1>0, <1>1 DEF Connect, Connectable, ConnectResets
<1>2. CASE HomeBegins
  <2>1. UNCHANGED <<entry, oldRing, saved>> /\ (logRing' = logRing \/ logRing' = <<>>)
    BY <1>2 DEF HomeBegins
  <2>2. logRing' = <<>> => logRing' \in Seq(Entries) /\ Len(logRing') = 0
    OBVIOUS
  <2> QED
    BY <1>0, <2>1, <2>2
<1>3. CASE EventData \/ ActionLogs
  <2>1. UNCHANGED <<entry, oldRing, saved>>
    BY <1>3 DEF EventData, SdkUnchanged, ActionLogs, WorkerUnchanged
  <2>2. CASE UNCHANGED log
    <3>1. UNCHANGED <<entry, oldRing, saved, logRing>>
      BY <2>1, <2>2
    <3> QED
      BY <1>0, <3>1
  <2>3. CASE Pushed
    <3>1. PICK kept \in Seq(Entries) : logRing' = Append(kept, accepted') /\ Len(kept) < LogLimit
      BY <2>3 DEF Pushed
    <3>2. logRing' \in Seq(Entries) /\ Len(logRing') = Len(kept) + 1
      BY <2>3, <3>1, EntryAdded DEF Pushed
    <3>3. Len(logRing') <= LogLimit
      BY <3>1, <3>2, EntrySeqs
    <3> QED
      BY <1>0, <2>1, <3>2, <3>3
  <2> QED
    BY <1>3, <2>2, <2>3, EntryPushed
<1>4. CASE Take
  <2>1. /\ UNCHANGED <<oldRing, saved>>
        /\ \/ UNCHANGED <<entry, logRing>>
           \/ logRing # <<>> /\ entry' = Head(logRing) /\ logRing' = Tail(logRing)
    BY <1>4 DEF Take
  <2>2. logRing # <<>> => /\ Head(logRing) \in Entries /\ Tail(logRing) \in Seq(Entries)
                          /\ Len(Tail(logRing)) = Len(logRing) - 1
    BY <1>0, EntryRemoved
  <2>3. Len(logRing) - 1 <= LogLimit
    BY <1>0, EntrySeqs
  <2>4. logRing # <<>> => Len(Tail(logRing)) <= LogLimit
    BY <2>2, <2>3
  <2> QED
    BY <1>0, <2>1, <2>2, <2>4
<1>6. CASE Recheck
  BY <1>0, <1>6 DEF Recheck, Goes, WorkerUnchanged
<1>7. CASE AppendEntry
  <2>1. /\ UNCHANGED <<entry, oldRing, logRing>> /\ worker = "append"
        /\ saved' = saved \/ saved' = Append(saved, entry)
    BY <1>7 DEF AppendEntry, RowSaved, RowFails, WorkerUnchanged
  <2>2. entry \in Entries
    BY <2>1 DEF MqttIInv, EntriesInOrder
  <2>3. saved' \in Seq(Entries)
    BY <1>0, <2>1, <2>2, EntryAdded, ZenonT(60)
  <2> QED
    BY <1>0, <2>1, <2>3
<1>8. CASE EntryFails
  BY <1>0, <1>8 DEF EntryFails, Goes, RecordLogError
<1>9. CASE TakeBuffers
  BY <1>0, <1>9 DEF TakeBuffers, Goes, WorkerUnchanged
<1>10. CASE Drain
  <2>1. UNCHANGED entry /\ (logRing' = logRing \/ logRing' = <<>>)
    BY <1>10 DEF Drain, RecordLogError
  <2>2. \/ UNCHANGED <<oldRing, saved>>
        \/ /\ oldRing # <<>> /\ oldRing' = Tail(oldRing)
           /\ saved' = saved \/ saved' = Append(saved, Head(oldRing))
    BY <1>10 DEF Drain, RowSaved, RowFails
  <2>3. oldRing # <<>> => /\ Tail(oldRing) \in Seq(Entries)
                          /\ Append(saved, Head(oldRing)) \in Seq(Entries)
    BY <1>0, EntryRemoved, EntryAdded
  <2>4. oldRing' \in Seq(Entries) /\ saved' \in Seq(Entries)
    BY <1>0, <2>2, <2>3
  <2>5. logRing' = <<>> => logRing' \in Seq(Entries) /\ Len(logRing') = 0
    OBVIOUS
  <2>6. logRing' \in Seq(Entries) /\ Len(logRing') <= LogLimit
    BY <1>0, <2>1, <2>5
  <2> QED
    BY <1>0, <2>1, <2>4, <2>6
<1>11. CASE ReleaseBuffers
  BY <1>0, <1>11 DEF ReleaseBuffers, WorkerUnchanged
<1>12. CASE ShowBegins \/ ShowEnds \/ Tick \/ ConnectFails \/ Disconnect \/ HomeStops \/ HomeEnds
            \/ UiNotifies \/ LogClicked \/ QueueAction \/ ClearBegins \/ ClearEnds
            \/ EventConnected \/ EventDisconnected \/ EventAcknowledged \/ DataNotifies
            \/ EventInvalid \/ EventStatus \/ EventError \/ ActionStarts \/ ActionCalls
            \/ ActionResult \/ ActionEnds \/ DecideReport \/ ReportError \/ DestroyClient
            \/ FinishCleanup
  BY <1>0, <1>12 DEF ShowBegins, ShowEnds, EnsureBuffers, Tick, ConnectFails, Connectable,
     ConnectResets, Disconnect, BeginStop, StopUnchanged, HomeStops, HomeEnds, UiNotifies,
     LogClicked, QueueAction, ClearBegins, ClearEnds, EventConnected, SdkUnchanged,
     EventDisconnected, EventAcknowledged, SetAsyncStatus, PublishStatus, DataNotifies,
     EventInvalid, EventStatus, EventError, ActionStarts, WorkerUnchanged, ActionCalls,
     ActionResult, ActionEnds, Goes, DecideReport, ReportError, Report, DestroyClient,
     FinishCleanup, EndedStatus
<1> QED
  BY <1>1, <1>2, <1>3, <1>4, <1>6, <1>7, <1>8, <1>9, <1>10, <1>11, <1>12 DEF MqttNext,
     UiStep, SdkStep, WorkerStep

LEMMA EntriesPlacedKept == ASSUME MqttIInv, MqttNext PROVE EntriesPlaced'
<1> USE MqttFacts DEF MqttFlags, PageFlags, SessionFlags, WorkerFlags, MqttCounts, MqttQueues,
        OneSession, ErrorsKnown, EntriesPlaced, InWork, Acting, Called, Destroyed, Ending,
        EndedKinds, page, clients, link, queue, local, teardown, log, shown, library, card,
        reporting
<1>0. MqttFlags /\ MqttCounts /\ MqttQueues /\ OneSession /\ ErrorsKnown /\ EntriesPlaced
  BY DEF MqttIInv
<1>1. CASE ShowBegins
  BY <1>0, <1>1 DEF ShowBegins
<1>2. CASE ShowEnds
  BY <1>0, <1>2 DEF ShowEnds, EnsureBuffers
<1>3. CASE Tick
  BY <1>0, <1>3 DEF Tick, EnsureBuffers
<1>4. CASE Connect
  BY <1>0, <1>4 DEF Connect, Connectable, ConnectResets
<1>5. CASE ConnectFails
  BY <1>0, <1>5 DEF ConnectFails, Connectable, ConnectResets
<1>6. CASE Disconnect
  BY <1>0, <1>6 DEF Disconnect, BeginStop, StopUnchanged
<1>7. CASE HomeBegins
  BY <1>0, <1>7 DEF HomeBegins
<1>8. CASE HomeStops
  BY <1>0, <1>8 DEF HomeStops, BeginStop, StopUnchanged
<1>9. CASE EventData \/ ActionLogs
  <2>1. /\ UNCHANGED <<oldRing, firstError, running, appendFailed, saved>>
        /\ worker' = worker \/ (worker = "push" /\ worker' = "accepted")
    BY <1>9 DEF EventData, SdkUnchanged, ActionLogs, Goes, WorkerUnchanged
  <2>2. Len(saved) \in Nat /\ Len(logRing) \in Nat /\ Len(oldRing) \in Nat
    BY <1>0, EntrySeqs
  <2>3. CASE UNCHANGED log
    BY <1>0, <2>1, <2>2, <2>3
  <2>4. CASE Pushed
    <3>1. PICK kept \in Seq(Entries) :
            /\ logRing' = Append(kept, accepted')
            /\ \/ kept = logRing /\ dropped' = dropped
               \/ logRing # <<>> /\ kept = Tail(logRing) /\ dropped' = dropped + 1
      BY <2>4 DEF Pushed
    <3>2. Len(logRing') = Len(kept) + 1 /\ Len(kept) \in Nat
      BY <2>4, <3>1, EntryAdded, EntrySeqs DEF Pushed
    <3>3. logRing # <<>> => Len(Tail(logRing)) = Len(logRing) - 1
      BY <1>0, EntryRemoved
    <3>4. Len(logRing') + dropped' = Len(logRing) + dropped + 1
      <4>1. dropped \in Nat
        BY <1>0
      <4>2. CASE kept = logRing /\ dropped' = dropped
        BY <2>2, <3>2, <4>1, <4>2
      <4>3. CASE logRing # <<>> /\ kept = Tail(logRing) /\ dropped' = dropped + 1
        BY <2>2, <3>2, <3>3, <4>1, <4>3
      <4> QED
        BY <3>1, <4>2, <4>3
    <3>5. accepted' = accepted + 1 /\ buffers = "session" /\ buffers' = buffers
      BY <2>4 DEF Pushed
    <3>6. dropped' \in Nat /\ Len(logRing') \in Nat
      BY <1>0, <3>1, <3>2
    <3>7. InWork' = InWork
      BY <2>1
    <3> HIDE DEF InWork
    <3>8. running /\ ~appendFailed =>
            accepted' = Len(saved) + InWork + Len(logRing') + Len(oldRing) + dropped'
      <4>1. InWork \in Nat
        BY DEF InWork
      <4> QED
        BY <1>0, <2>2, <3>4, <3>5, <3>6, <4>1, SMTT(60)
    <3> QED
      BY <1>0, <2>1, <3>5, <3>7, <3>8
  <2> QED
    BY <1>9, <2>3, <2>4, EntryPushed
<1>10. CASE Take
  <2>1. /\ UNCHANGED <<oldRing, firstError, running, appendFailed, saved, accepted, dropped, buffers>>
        /\ worker = "wait"
        /\ \/ worker' \in {"wait", "act", "stop"} /\ UNCHANGED logRing
           \/ worker' = "append" /\ logRing # <<>> /\ logRing' = Tail(logRing)
    BY <1>10 DEF Take
  <2>2. logRing # <<>> => Len(Tail(logRing)) = Len(logRing) - 1
    BY <1>0, EntryRemoved
  <2>3. Len(saved) \in Nat /\ Len(logRing) \in Nat /\ Len(oldRing) \in Nat
    BY <1>0, EntrySeqs
  <2> QED
    BY <1>0, <2>1, <2>2, <2>3
<1>11. CASE ActionStarts
  BY <1>0, <1>11 DEF ActionStarts, WorkerUnchanged
<1>12. CASE ActionCalls
  BY <1>0, <1>12 DEF ActionCalls, WorkerUnchanged
<1>14. CASE ActionResult
  BY <1>0, <1>14 DEF ActionResult, WorkerUnchanged
<1>15. CASE ActionEnds
  BY <1>0, <1>15 DEF ActionEnds, Goes, WorkerUnchanged
<1>16. CASE Recheck
  BY <1>0, <1>16 DEF Recheck, Goes, WorkerUnchanged
<1>17. CASE AppendEntry
  BY <1>0, <1>17, SMTT(60) DEF AppendEntry, RowSaved, RowFails, WorkerUnchanged
<1>18. CASE EntryFails
  BY <1>0, <1>18 DEF EntryFails, Goes, RecordLogError
<1>19. CASE DecideReport
  BY <1>0, <1>19 DEF DecideReport, WorkerUnchanged
<1>20. CASE ReportError
  BY <1>0, <1>20 DEF ReportError, Report, WorkerUnchanged
<1>21. CASE DestroyClient
  BY <1>0, <1>21 DEF DestroyClient, Goes, WorkerUnchanged
<1>22. CASE TakeBuffers
  BY <1>0, <1>22 DEF TakeBuffers, Goes, WorkerUnchanged
<1>23. CASE Drain
  <2>1. /\ UNCHANGED <<running, accepted, dropped, buffers>> /\ worker = "drain"
        /\ logRing' \in {logRing, <<>>} /\ logRing = <<>> /\ buffers # "session"
    BY <1>0, <1>23 DEF Drain, RecordLogError
  <2>2. Len(saved) \in Nat /\ Len(oldRing) \in Nat /\ Len(<<>>) = 0
    BY <1>0, EntrySeqs
  <2>3. CASE firstError \/ oldRing = <<>>
    <3>1. worker' = "free" /\ UNCHANGED <<oldRing, firstError, saved, appendFailed, logRing>>
      BY <1>23, <2>3 DEF Drain
    <3> QED
      BY <1>0, <2>1, <2>2, <2>3, <3>1
  <2>4. CASE ~(firstError \/ oldRing = <<>>)
    <3>1. /\ UNCHANGED worker
          /\ \/ /\ saved' = Append(saved, Head(oldRing)) /\ oldRing' = Tail(oldRing)
                /\ UNCHANGED <<appendFailed, logRing>>
             \/ appendFailed'
      BY <1>23, <2>4 DEF Drain, RowSaved, RowFails
    <3>2. Len(Tail(oldRing)) = Len(oldRing) - 1 /\ Len(Append(saved, Head(oldRing))) = Len(saved) + 1
      BY <1>0, <2>4, EntryRemoved, EntryAdded
    <3>3. CASE appendFailed'
      BY <1>0, <2>1, <3>1, <3>3
    <3>4. CASE /\ saved' = Append(saved, Head(oldRing)) /\ oldRing' = Tail(oldRing)
               /\ UNCHANGED <<appendFailed, logRing>>
      <4>1. Len(saved') = Len(saved) + 1 /\ Len(oldRing') = Len(oldRing) - 1
        BY <3>2, <3>4
      <4>2. /\ UNCHANGED <<running, accepted, dropped, buffers, worker, appendFailed, logRing>>
            /\ worker = "drain" /\ logRing = <<>> /\ buffers # "session"
        BY <2>1, <3>1, <3>4
      <4>3. running /\ ~appendFailed =>
              accepted = Len(saved) + InWork + Len(logRing) + Len(oldRing) + dropped
        BY <1>0
      <4>4. InWork = 0 /\ InWork' = 0 /\ Len(logRing) = 0
        BY <2>2, <4>2
      <4> HIDE DEF InWork
      <4>5. running /\ ~appendFailed =>
              accepted = Len(saved') + InWork' + Len(logRing) + Len(oldRing') + dropped
        BY <1>0, <2>2, <4>1, <4>3, <4>4
      <4> QED
        BY <4>2, <4>5
    <3> QED
      BY <3>1, <3>3, <3>4
  <2> QED
    BY <2>3, <2>4
<1>24. CASE ReleaseBuffers
  BY <1>0, <1>24 DEF ReleaseBuffers, WorkerUnchanged
<1>25. CASE FinishCleanup
  BY <1>0, <1>25 DEF FinishCleanup, Goes, WorkerUnchanged, EndedStatus
<1>26. CASE HomeEnds \/ UiNotifies \/ LogClicked \/ QueueAction \/ ClearBegins \/ ClearEnds
            \/ EventConnected \/ EventDisconnected \/ EventAcknowledged \/ DataNotifies
            \/ EventInvalid \/ EventStatus \/ EventError
  <2>1. UNCHANGED <<worker, oldRing, firstError, logRing, buffers, running, appendFailed, accepted,
                   saved, dropped>>
    BY <1>26 DEF HomeEnds, UiNotifies, LogClicked, QueueAction, ClearBegins, ClearEnds,
     EventConnected, SdkUnchanged, EventDisconnected, EventAcknowledged, SetAsyncStatus,
     PublishStatus, DataNotifies, EventInvalid, EventStatus, EventError
  <2> QED
    BY <1>0, <2>1
<1> QED
  BY <1>1, <1>2, <1>3, <1>4, <1>5, <1>6, <1>7, <1>8, <1>9, <1>10, <1>11, <1>12, <1>14,
     <1>15, <1>16, <1>17, <1>18, <1>19, <1>20, <1>21, <1>22, <1>23, <1>24, <1>25, <1>26 DEF
     MqttNext, UiStep, SdkStep, WorkerStep

LEMMA EntriesInOrderKept == ASSUME MqttIInv, MqttNext PROVE EntriesInOrder'
<1> USE DEF page, clients, link, queue, local, teardown, log, shown, library, card, reporting
<1>0. /\ accepted \in Nat /\ EntriesInOrder /\ OneSession /\ EntriesPlaced
      /\ saved \in Seq(Entries) /\ logRing \in Seq(Entries) /\ oldRing \in Seq(Entries)
  BY DEF MqttIInv, MqttCounts, MqttQueues
<1>1. CASE Connect
  <2>1. logRing = <<>> /\ oldRing = <<>> /\ worker = "wait"
    BY <1>0, <1>1 DEF OneSession, EntriesPlaced, Connect, Connectable
  <2>2. saved' = <<>> /\ logRing' = <<>> /\ oldRing' = <<>> /\ worker' = "wait"
    BY <1>1, <2>1 DEF Connect
  <2> QED
    BY <2>2, InOrderEmpty DEF EntriesInOrder
<1>2. CASE ShowBegins \/ ShowEnds \/ Tick \/ ConnectFails \/ Disconnect \/ HomeBegins \/ HomeStops
            \/ HomeEnds \/ UiNotifies \/ LogClicked \/ QueueAction \/ ClearBegins \/ ClearEnds
            \/ EventConnected \/ EventDisconnected \/ EventAcknowledged \/ DataNotifies
            \/ EventInvalid \/ EventStatus \/ EventError \/ ActionStarts \/ ActionCalls
            \/ ActionResult \/ ActionEnds \/ Recheck \/ EntryFails \/ DecideReport \/ ReportError
            \/ DestroyClient \/ ReleaseBuffers \/ FinishCleanup
  <2>1. /\ UNCHANGED <<saved, accepted>> /\ (worker' = "append" => worker = "append" /\ entry' = entry)
        /\ (logRing' = logRing \/ logRing' = <<>>) /\ (oldRing' = oldRing \/ oldRing' = <<>>)
    BY <1>2 DEF ShowBegins, ShowEnds, EnsureBuffers, Tick, ConnectFails, ConnectResets, Disconnect,
       BeginStop, StopUnchanged, HomeBegins, HomeStops, HomeEnds, UiNotifies, LogClicked,
       QueueAction, ClearBegins, ClearEnds, EventConnected, SdkUnchanged, EventDisconnected,
       EventAcknowledged, DataNotifies, EventInvalid, EventStatus, EventError, ActionStarts,
       WorkerUnchanged, ActionCalls, ActionResult, ActionEnds, Goes, Recheck, EntryFails,
       RecordLogError, DecideReport, ReportError, Report, DestroyClient, ReleaseBuffers,
       FinishCleanup
  <2>2. /\ UpTo(logRing', accepted) /\ Rising(logRing') /\ Before(saved, logRing')
        /\ worker' = "append" => Beyond(logRing', entry)
    BY <1>0, <2>1, InOrderEmpty DEF EntriesInOrder
  <2>3. UpTo(oldRing', accepted) /\ Rising(oldRing') /\ Before(saved, oldRing')
    BY <1>0, <2>1, InOrderEmpty DEF EntriesInOrder
  <2> QED
    BY <1>0, <2>1, <2>2, <2>3 DEF EntriesInOrder
<1>3. CASE EventData \/ ActionLogs
  <2>1. UNCHANGED <<saved, oldRing>> /\ (worker' = "append" => worker = "append" /\ entry' = entry)
    BY <1>3 DEF EventData, SdkUnchanged, ActionLogs, Goes, WorkerUnchanged
  <2>2. CASE UNCHANGED log
    <3>1. UNCHANGED <<accepted, logRing>>
      BY <2>2
    <3> QED
      BY <1>0, <2>1, <3>1 DEF EntriesInOrder
  <2>3. CASE Pushed
    <3>1. PICK kept \in Seq(Entries) :
            /\ logRing' = Append(kept, accepted')
            /\ kept = logRing \/ (logRing # <<>> /\ kept = Tail(logRing))
      BY <2>3 DEF Pushed
    <3>2. accepted' = accepted + 1 /\ accepted' \in Entries /\ accepted' \in Nat
      BY <2>3, EntrySeqs DEF Pushed
    <3>3. /\ UpTo(kept, accepted) /\ Rising(kept) /\ Before(saved, kept)
          /\ worker = "append" => Beyond(kept, entry) /\ entry \in Nat /\ entry < accepted'
      <4>1. /\ UpTo(logRing, accepted) /\ Rising(logRing) /\ Before(saved, logRing)
            /\ worker = "append" => Beyond(logRing, entry) /\ entry \in Nat /\ entry < accepted'
        <5>1. worker = "append" => entry \in Entries /\ entry <= accepted /\ Beyond(logRing, entry)
          BY <1>0 DEF EntriesInOrder
        <5>2. worker = "append" => entry \in Nat
          BY <5>1, EntrySeqs
        <5>3. worker = "append" => entry < accepted'
          BY <1>0, <3>2, <5>1, <5>2
        <5> QED
          BY <1>0, <5>1, <5>2, <5>3 DEF EntriesInOrder
      <4>2. CASE kept = logRing
        BY <4>1, <4>2
      <4>3. CASE logRing # <<>> /\ kept = Tail(logRing)
        BY <1>0, <4>1, <4>3, InOrderRemoved
      <4> QED
        BY <3>1, <4>2, <4>3
    <3>4. \A q \in Seq(Entries) : UpTo(q, accepted) => UpTo(q, accepted') /\ UpTo(q, accepted' - 1)
      BY <1>0, <3>2, EntrySeqs DEF UpTo
    <3>5. /\ UpTo(logRing', accepted') /\ Rising(logRing') /\ Before(saved, logRing')
          /\ worker = "append" => Beyond(logRing', entry)
      BY <1>0, <3>1, <3>2, <3>3, <3>4, InOrderAdded DEF EntriesInOrder
    <3>6. UpTo(saved, accepted') /\ UpTo(oldRing, accepted')
      BY <1>0, <3>4 DEF EntriesInOrder
    <3>7. worker = "append" => entry <= accepted'
      BY <3>2, <3>3
    <3> QED
      BY <1>0, <2>1, <3>5, <3>6, <3>7 DEF EntriesInOrder
  <2> QED
    BY <1>3, <2>2, <2>3, EntryPushed
<1>4. CASE Take
  <2>1. UNCHANGED <<saved, oldRing, accepted>> /\ worker = "wait"
    BY <1>4 DEF Take
  <2>2. CASE UNCHANGED logRing /\ worker' # "append"
    BY <1>0, <2>1, <2>2 DEF EntriesInOrder
  <2>3. CASE logRing # <<>> /\ entry' = Head(logRing) /\ logRing' = Tail(logRing)
    <3>1. entry' \in Entries /\ UpTo(saved, entry' - 1) /\ entry' <= accepted /\ Beyond(logRing', entry')
      BY <1>0, <2>3, EntryRemoved, InOrderRemoved DEF EntriesInOrder
    <3>2. UpTo(logRing', accepted) /\ Rising(logRing') /\ Before(saved, logRing')
      BY <1>0, <2>3, InOrderRemoved DEF EntriesInOrder
    <3> QED
      BY <1>0, <2>1, <3>1, <3>2 DEF EntriesInOrder
  <2> QED
    BY <1>4, <2>2, <2>3 DEF Take
<1>5. CASE AppendEntry
  <2>1. /\ UNCHANGED <<logRing, oldRing, accepted>> /\ worker = "append" /\ worker' # "append"
        /\ saved' = saved \/ saved' = Append(saved, entry)
    BY <1>5 DEF AppendEntry, RowSaved, RowFails, WorkerUnchanged
  <2>2. oldRing = <<>> /\ entry \in Entries /\ Beyond(logRing, entry)
    BY <1>0, <2>1 DEF EntriesPlaced, EntriesInOrder
  <2>3. /\ UpTo(Append(saved, entry), accepted) /\ Rising(Append(saved, entry))
        /\ Before(Append(saved, entry), logRing)
    BY <1>0, <2>1, <2>2, InOrderAdded DEF EntriesInOrder
  <2>4. UpTo(saved', accepted) /\ Rising(saved') /\ Before(saved', logRing)
    BY <1>0, <2>1, <2>3 DEF EntriesInOrder
  <2>5. Before(saved', oldRing)
    BY <2>2, InOrderEmpty
  <2> QED
    BY <1>0, <2>1, <2>4, <2>5 DEF EntriesInOrder
<1>6. CASE TakeBuffers
  <2>1. /\ UNCHANGED <<saved, accepted>> /\ worker' # "append"
        /\ oldRing' = logRing /\ logRing' = <<>>
    BY <1>6 DEF TakeBuffers, Goes
  <2>2. UpTo(logRing', accepted) /\ Rising(logRing') /\ Before(saved, logRing')
    BY <2>1, InOrderEmpty
  <2> QED
    BY <1>0, <2>1, <2>2 DEF EntriesInOrder
<1>7. CASE Drain
  <2>1. UNCHANGED accepted /\ worker' # "append" /\ (logRing' = logRing \/ logRing' = <<>>)
    BY <1>7 DEF Drain, RecordLogError
  <2>2. logRing' = <<>>
    BY <1>0, <1>7, <2>1 DEF EntriesPlaced, Destroyed, Drain
  <2>3. CASE UNCHANGED <<oldRing, saved>>
    BY <1>0, <2>1, <2>2, <2>3, InOrderEmpty DEF EntriesInOrder
  <2>4. CASE /\ oldRing # <<>> /\ oldRing' = Tail(oldRing)
             /\ saved' = saved \/ saved' = Append(saved, Head(oldRing))
    <3>1. /\ Head(oldRing) \in Entries /\ UpTo(saved, Head(oldRing) - 1) /\ Head(oldRing) <= accepted
          /\ Tail(oldRing) \in Seq(Entries) /\ Beyond(Tail(oldRing), Head(oldRing))
          /\ UpTo(oldRing', accepted) /\ Rising(oldRing') /\ Before(saved, oldRing')
      BY <1>0, <2>4, EntryRemoved, InOrderRemoved DEF EntriesInOrder
    <3>2. LET more == Append(saved, Head(oldRing))
          IN  UpTo(more, accepted) /\ Rising(more) /\ Before(more, oldRing')
      BY <1>0, <2>4, <3>1, InOrderAdded DEF EntriesInOrder
    <3>3. UpTo(saved', accepted) /\ Rising(saved') /\ Before(saved', oldRing')
      BY <1>0, <2>4, <3>1, <3>2 DEF EntriesInOrder
    <3> QED
      BY <2>1, <2>2, <3>1, <3>3, InOrderEmpty DEF EntriesInOrder
  <2> QED
    BY <1>7, <2>3, <2>4 DEF Drain, RowSaved, RowFails
<1> QED
  BY <1>1, <1>2, <1>3, <1>4, <1>5, <1>6, <1>7 DEF MqttNext, UiStep, SdkStep, WorkerStep

LEMMA CleanEndMeansSavedKept == ASSUME MqttIInv, MqttNext PROVE CleanEndMeansSaved'
<1> USE MqttFacts, NewStatus DEF MqttFlags, PageFlags, SessionFlags, WorkerFlags, MqttCounts,
        OneSession, StatusAgrees, ErrorsKnown, EntriesPlaced, InWork, CleanEndMeansSaved, Acting,
        Called, Destroyed, Ending, EndedKinds, page, clients, link, queue, local, teardown, log,
        shown, library, card, reporting
<1>0. /\ MqttFlags /\ MqttCounts /\ MqttQueues /\ OneSession /\ StatusAgrees
      /\ ErrorsKnown /\ EntriesPlaced /\ CleanEndMeansSaved
  BY DEF MqttIInv
<1>1. CASE ShowEnds
  BY <1>0, <1>1 DEF ShowEnds, EnsureBuffers
<1>2. CASE Connect
  BY <1>0, <1>2 DEF Connect, Connectable, ConnectResets
<1>3. CASE ConnectFails
  BY <1>0, <1>3 DEF ConnectFails, Connectable, ConnectResets
<1>4. CASE Disconnect
  BY <1>0, <1>4 DEF Disconnect, BeginStop, StopUnchanged
<1>5. CASE HomeStops
  BY <1>0, <1>5 DEF HomeStops, BeginStop, StopUnchanged
<1>6. CASE EventData
  BY <1>0, <1>6 DEF EventData, SdkUnchanged, Queues, WritesLog, PushEntry
<1>7. CASE ActionLogs
  BY <1>0, <1>7 DEF ActionLogs, Goes, WorkerUnchanged, Queues, WritesLog, PushEntry
<1>8. CASE AppendEntry
  BY <1>0, <1>8 DEF AppendEntry, RowSaved, RowFails, WorkerUnchanged
<1>9. CASE EntryFails
  BY <1>0, <1>9 DEF EntryFails, Goes, RecordLogError
<1>10. CASE Drain
  BY <1>0, <1>10 DEF Drain, RowSaved, RowFails, RecordLogError
<1>11. CASE FinishCleanup
  <2>1. /\ worker = "finish" /\ UNCHANGED <<appendFailed, saved, accepted, session>>
        /\ status' = status \/ status' = StatusOf(EndedStatus, 0)
    BY <1>11 DEF FinishCleanup, Goes, WorkerUnchanged
  <2>2. CASE status' = status
    BY <1>0, <2>1, <2>2
  <2>3. CASE status' = StatusOf(EndedStatus, 0) /\ EndedStatus = "ended"
    <3>0. ~firstError /\ ~(dropped > 0)
      BY <2>3 DEF EndedStatus
    <3>1. ~firstError /\ dropped = 0 /\ logRing = <<>> /\ oldRing = <<>> /\ running /\ ~appendFailed
      <4>1. dropped = 0
        <5>1. dropped \in Nat
          BY <1>0
        <5> QED
          BY <3>0, <5>1
      <4>2. logRing = <<>> /\ oldRing = <<>> /\ running
        BY <1>0, <2>1
      <4>3. ~appendFailed
        BY <1>0, <2>1, <3>0
      <4> QED
        BY <3>0, <4>1, <4>2, <4>3
    <3>2. Len(logRing) = 0 /\ Len(oldRing) = 0 /\ Len(saved) \in Nat
      BY <1>0, <3>1, EntrySeqs DEF MqttQueues
    <3>3. accepted = Len(saved) + InWork + Len(logRing) + Len(oldRing) + dropped /\ InWork = 0
      BY <1>0, <2>1, <3>1
    <3>4. accepted = Len(saved)
      BY <3>1, <3>2, <3>3
    <3> QED
      BY <2>1, <3>1, <3>4
  <2>4. CASE status' = StatusOf(EndedStatus, 0) /\ EndedStatus # "ended"
    BY <2>4
  <2> QED
    BY <2>1, <2>2, <2>3, <2>4
<1>12. CASE ShowBegins \/ Tick \/ HomeBegins \/ HomeEnds \/ UiNotifies \/ LogClicked
            \/ QueueAction \/ ClearBegins \/ ClearEnds \/ EventConnected \/ EventDisconnected
            \/ DataNotifies \/ Take \/ ActionStarts \/ ActionCalls \/ ActionEnds \/ Recheck
            \/ DecideReport \/ ReportError \/ DestroyClient \/ TakeBuffers \/ ReleaseBuffers
  BY <1>0, <1>12 DEF ShowBegins, Tick, EnsureBuffers, HomeBegins, HomeEnds, UiNotifies,
     LogClicked, QueueAction, ClearBegins, ClearEnds, EventConnected, SdkUnchanged,
     EventDisconnected, DataNotifies, Take, ActionStarts, WorkerUnchanged, ActionCalls,
     ActionEnds, Goes, Recheck, DecideReport, ReportError, Report, DestroyClient, TakeBuffers,
     ReleaseBuffers
<1>13. CASE Tells
  <2>1. UNCHANGED <<running, session, appendFailed, saved, accepted>>
    BY <1>13 DEF Tells, EventAcknowledged, SdkUnchanged, SetAsyncStatus, PublishStatus,
       EventInvalid, EventStatus, EventError, ActionResult, WorkerUnchanged
  <2>2. status' = status \/ status'.kind \notin EndedKinds
    BY <1>13, StatusTold DEF MqttIInv
  <2> QED
    BY <1>0, <2>1, <2>2
<1> QED
  BY <1>1, <1>2, <1>3, <1>4, <1>5, <1>6, <1>7, <1>8, <1>9, <1>10, <1>11, <1>12, <1>13 DEF
     MqttNext, UiStep, SdkStep, WorkerStep, Tells

-----------------------------------------------------------------------------
LEMMA MqttInitIInv == ASSUME MqttInit PROVE MqttIInv
<1> USE MqttFacts, MqttConstants DEF MqttInit
<1>1. MqttFlags
  BY DEF MqttFlags, PageFlags, SessionFlags, WorkerFlags, Destroyed, Ending, Acting
<1>2. MqttCounts /\ MqttActions /\ NumbersLeft
  BY DEF MqttCounts, MqttActions, NumbersLeft, NoAction
<1>3. status \in Statuses /\ status.kind = "none" /\ status.session = 0
  BY NewStatus
<1>4. MqttQueues
  <2>1. <<>> \in Seq(Entries) /\ Len(<<>>) = 0
    OBVIOUS
  <2> QED
    BY <2>1 DEF MqttQueues
<1>5. OneSession /\ PageOfSession /\ NoLostWakeup /\ OneAction
  BY DEF OneSession, PageOfSession, NoLostWakeup, OneAction, Destroyed, Ending, Acting, Called, NoAction
<1>6. StatusAgrees /\ ErrorsKnown /\ ErrorReportedOnce /\ CleanEndMeansSaved
  BY <1>3 DEF StatusAgrees, ErrorsKnown, ErrorReportedOnce, CleanEndMeansSaved, Destroyed, EndedKinds
<1>7. EntriesPlaced
  BY DEF EntriesPlaced, Destroyed
<1>8. EntriesInOrder
  <2>1. saved = <<>> /\ logRing = <<>> /\ oldRing = <<>> /\ worker # "append"
    OBVIOUS
  <2> QED
    BY <2>1, InOrderEmpty DEF EntriesInOrder
<1> QED
  BY <1>1, <1>2, <1>3, <1>4, <1>5, <1>6, <1>7, <1>8 DEF MqttIInv

LEMMA MqttKept == ASSUME MqttIInv, [MqttNext]_mqttVars PROVE MqttIInv'
<1>1. CASE MqttNext
  <2>1. MqttFlags'
    BY <1>1, PageFlagsKept, SessionFlagsKept, WorkerFlagsKept DEF MqttFlags
  <2>2. MqttCounts' /\ MqttActions' /\ (status \in Statuses)' /\ MqttQueues'
    BY <1>1, MqttCountsKept, MqttActionsKept, StatusKept, MqttQueuesKept
  <2>3. OneSession' /\ PageOfSession' /\ NoLostWakeup' /\ OneAction' /\ StatusAgrees'
    BY <1>1, OneSessionKept, PageOfSessionKept, NoLostWakeupKept, OneActionKept, StatusAgreesKept
  <2>4. ErrorsKnown' /\ ErrorReportedOnce' /\ NumbersLeft'
    BY <1>1, ErrorsKnownKept, ErrorReportedOnceKept, NumbersLeftKept
  <2>5. EntriesPlaced' /\ EntriesInOrder' /\ CleanEndMeansSaved'
    BY <1>1, EntriesPlacedKept, EntriesInOrderKept, CleanEndMeansSavedKept
  <2> QED
    BY <2>1, <2>2, <2>3, <2>4, <2>5 DEF MqttIInv
<1>2. CASE UNCHANGED mqttVars
  <2> USE <1>2 DEF mqttVars, page, clients, link, queue, local, teardown, log, shown, library,
                   card, reporting
  <2>1. MqttFlags'
    BY DEF MqttIInv, MqttFlags, PageFlags, SessionFlags, WorkerFlags
  <2>2. MqttCounts' /\ MqttActions' /\ (status \in Statuses)' /\ MqttQueues'
    BY DEF MqttIInv, MqttCounts, MqttActions, MqttQueues
  <2>3. OneSession' /\ PageOfSession' /\ NoLostWakeup' /\ OneAction' /\ StatusAgrees'
    BY DEF MqttIInv, OneSession, PageOfSession, NoLostWakeup, OneAction, StatusAgrees
  <2>4. ErrorsKnown' /\ ErrorReportedOnce' /\ NumbersLeft'
    BY DEF MqttIInv, ErrorsKnown, ErrorReportedOnce, NumbersLeft
  <2>5. EntriesPlaced' /\ EntriesInOrder' /\ CleanEndMeansSaved'
    BY DEF MqttIInv, EntriesPlaced, InWork, EntriesInOrder, CleanEndMeansSaved
  <2> QED
    BY <2>1, <2>2, <2>3, <2>4, <2>5 DEF MqttIInv
<1> QED
  BY <1>1, <1>2

LEMMA MqttIsSound == ASSUME MqttIInv PROVE MqttInv
<1>1. accepted \in Entries \cup {0} /\ dropped \in Entries \cup {0}
  <2>1. accepted \in Nat /\ dropped \in Nat /\ accepted <= MaxEntries + MaxActions /\ dropped <= accepted
    BY MqttFacts DEF MqttIInv, MqttCounts, NumbersLeft
  <2> QED
    BY <2>1, MqttFacts DEF Entries
<1>2. client \in {NoClient, session} /\ cleanup \in {NoClient, session}
  BY DEF MqttIInv, OneSession
<1>3. reports \in 0..2
  BY DEF MqttIInv, MqttCounts, ErrorReportedOnce
<1>4. outstanding \subseteq 1..MaxActions /\ acked \subseteq 1..MaxActions
  BY MqttFacts DEF MqttIInv, MqttCounts, MqttActions
<1>5. MqttTypeOK
  BY <1>1, <1>2, <1>3, <1>4 DEF MqttIInv, MqttTypeOK, MqttFlags, PageFlags, SessionFlags,
     WorkerFlags, MqttCounts, MqttActions, MqttQueues, Statuses, Acting, Ending, Destroyed
<1>6. ErrorSurvives /\ LateEventsHarmless
  BY DEF MqttIInv, StatusAgrees, EndedKinds, ErrorSurvives, LateEventsHarmless
<1>7. BusyThroughCleanup
  <2>1. ~running => worker = "wait" /\ ~alive /\ sdk = "idle" /\ client = NoClient /\ logRing = <<>>
    BY DEF MqttIInv, OneSession, MqttFlags, SessionFlags
  <2>2. ~running => pending = NoAction
    BY DEF MqttIInv, OneAction
  <2>3. worker = "wait" => oldRing = <<>>
    BY DEF MqttIInv, EntriesPlaced
  <2> QED
    BY <2>1, <2>2, <2>3 DEF BusyThroughCleanup
<1>8. ClientAlive
  <2>1. client # NoClient => alive /\ client = session
    BY DEF MqttIInv, OneSession, Ending
  <2>2. pending # NoAction => alive /\ pending.client = session
    BY DEF MqttIInv, OneSession, OneAction, Ending
  <2>3. worker \in {"call", "push", "accepted", "refused"} => alive /\ action.client = session
    BY DEF MqttIInv, OneSession, OneAction, Acting, Destroyed
  <2>4. sdk # "idle" => alive
    BY DEF MqttIInv, OneSession
  <2> QED
    BY <2>1, <2>2, <2>3, <2>4 DEF ClientAlive
<1>9. EntriesAccounted
  <2>1. \A i \in 1..(Len(saved) - 1) : saved[i] < saved[i + 1]
    <3>1. Len(saved) \in Nat /\ Rising(saved)
      BY EntrySeqs DEF MqttIInv, MqttQueues, EntriesInOrder
    <3>2. \A i \in 1..(Len(saved) - 1) : i \in 1..Len(saved) /\ i + 1 \in 1..Len(saved) /\ i < i + 1
      BY <3>1
    <3> QED
      BY <3>1, <3>2 DEF Rising
  <2> QED
    BY <2>1 DEF MqttIInv, EntriesPlaced, EntriesAccounted
<1> QED
  BY <1>5, <1>6, <1>7, <1>8, <1>9 DEF MqttInv, MqttIInv

\* The session's bookkeeping, for any number of sessions, actions and entries: MqttInv.
THEOREM MqttSessionIsSound == MqttSpec => []MqttInv
<1>1. MqttInit => MqttIInv
  BY MqttInitIInv
<1>2. MqttIInv /\ [MqttNext]_mqttVars => MqttIInv'
  BY MqttKept
<1>3. MqttIInv => MqttInv
  BY MqttIsSound
<1> QED
  BY <1>1, <1>2, <1>3, PTL DEF MqttSpec

\* The status the worker leaves after a call never replaces the acknowledgment of the
\* same action, however the event task's callback and the worker interleave.
THEOREM AcknowledgmentsSurvive == MqttSpec => NewerStatusSurvives
<1> DEFINE Survives == status' # status /\ status'.kind = "queued" => status'.action \notin acked
<1>1. ASSUME MqttIInv, [MqttNext]_mqttVars PROVE [Survives]_mqttVars
  <2> SUFFICES ASSUME MqttNext, status' # status, status'.kind = "queued"
               PROVE  status'.action \notin acked
    BY <1>1
  <2>1. Tells
    <3>1. ~(ShowEnds \/ Connect \/ ConnectFails)
      BY NewStatus DEF ShowEnds, Connect, ConnectFails, ConnectResets
    <3>2. ~FinishCleanup
      <4>1. EndedStatus # "queued"
        BY DEF EndedStatus
      <4>2. StatusOf(EndedStatus, 0).kind = EndedStatus
        BY NewStatus
      <4> QED
        BY <4>1, <4>2 DEF FinishCleanup
    <3>3. ~(ShowBegins \/ Tick \/ Disconnect \/ HomeBegins \/ HomeStops \/ HomeEnds \/ UiNotifies
            \/ LogClicked \/ QueueAction \/ ClearBegins \/ ClearEnds \/ EventConnected
            \/ EventDisconnected \/ EventData \/ DataNotifies \/ Take \/ ActionStarts
            \/ ActionCalls \/ ActionLogs \/ ActionEnds \/ Recheck \/ AppendEntry \/ EntryFails
            \/ DecideReport \/ ReportError \/ DestroyClient \/ TakeBuffers \/ Drain
            \/ ReleaseBuffers)
      BY DEF shown, ShowBegins, Tick, Disconnect, StopUnchanged, HomeBegins, HomeStops, HomeEnds,
         UiNotifies, LogClicked, QueueAction, ClearBegins, ClearEnds, EventConnected,
         EventDisconnected, EventData, DataNotifies, Take, ActionStarts, ActionCalls, ActionLogs,
         ActionEnds, Recheck, AppendEntry, EntryFails, DecideReport, ReportError, Report,
         DestroyClient, TakeBuffers, Drain, ReleaseBuffers
    <3> QED
      BY <3>1, <3>2, <3>3 DEF MqttNext, UiStep, SdkStep, WorkerStep, Tells
  <2>2. /\ worker = "accepted" /\ sameRevision /\ ~failed /\ ~stopping
        /\ status'.action = action.number
    BY <1>1, <2>1, StatusTold DEF MqttIInv
  <2>3. action.number = actions /\ actions \notin acked
    BY <1>1, <2>2 DEF MqttIInv, OneAction, Acting, Called
  <2> QED
    BY <2>2, <2>3
<1>2. MqttInit => MqttIInv
  BY MqttInitIInv
<1>3. MqttIInv /\ [MqttNext]_mqttVars => MqttIInv'
  BY MqttKept
<1> QED
  BY <1>1, <1>2, <1>3, PTL DEF MqttSpec, NewerStatusSurvives

=============================================================================
