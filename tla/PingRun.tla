------------------------------ MODULE PingRun ------------------------------
(* network_ping_target (network_ping.c): up to four ICMP probes, sent one  *)
(* at a time by the network page's worker, each answered, lost or late.    *)
(*                                                                         *)
(* A reply is [run, probe]: the run's nonce and the sequence number that   *)
(* reply_matches compares; packets that differ in anything else are not    *)
(* told from replies of another run.  The network may lose, delay, reorder *)
(* and duplicate replies, also those of an earlier run, and the raw socket *)
(* hands over every ICMP packet that comes while it is open.  Time is a    *)
(* clock that may move between any two calls of the worker.  The sum of    *)
(* the reply times, which is only shown, is left out.                      *)
EXTENDS Integers, Sequences, FiniteSets

CONSTANTS
  Probes,      \* probes of a run (4)
  ProbeTime,   \* PING_PROBE_US
  RunTime,     \* PING_RUN_US
  PauseTime,   \* the pause between two probes
  MaxRuns,     \* runs, one after the other (a bound on the runs)
  MaxCopies    \* copies the network makes of a reply (a bound on the runs)

ASSUME PingAssumption ==
  /\ Probes \in Nat \ {0} /\ ProbeTime \in Nat \ {0}
  /\ RunTime \in Nat /\ PauseTime \in Nat
  /\ MaxRuns \in Nat /\ MaxCopies \in Nat

VARIABLES
  at,          \* the worker's next call
  run,         \* the nonce of the run
  probe,       \* the probe's sequence number
  now,         \* time since the run began
  until,       \* the end of the wait: the probe's deadline, the pause's end
  sent, received,          \* the counts the caller is given
  pingResult,      \* what the run returns
  cancelled,   \* the page asked the run to stop
  air,         \* replies under way, each copy by itself
  inbox,       \* packets the socket holds
  counted,     \* the probes a reply was counted for, with the reply
  stopAt,      \* where the worker was when it was asked to stop
  lateSends    \* probes sent since then

counts == <<sent, received, counted, lateSends>>
network == <<air, inbox>>
pingVars == <<at, run, probe, now, until, counts, pingResult, cancelled, stopAt, network>>

Reply == [run : 1..MaxRuns, probe : 1..Probes]
Packet == [reply : Reply, copy : 1..MaxCopies]

PingInit ==
  /\ at = "done" /\ run = 0 /\ probe = 0
  /\ now = 0 /\ until = 0
  /\ sent = 0 /\ received = 0
  /\ pingResult = "none"
  /\ cancelled = FALSE
  /\ air = {} /\ inbox = <<>>
  /\ counted = {} /\ lateSends = 0 /\ stopAt = "none"

Earlier(a, b) == IF a < b THEN a ELSE b

\* The socket is closed, with what it holds.
Return(outcome) ==
  /\ at' = "done"
  /\ pingResult' = outcome
  /\ inbox' = <<>>

-----------------------------------------------------------------------------
(* The worker.                                                             *)

\* A new run, with its counts cleared and a fresh nonce.
Begin ==
  /\ at = "done" /\ run < MaxRuns
  /\ run' = run + 1
  /\ at' = "open" /\ probe' = 1
  /\ now' = 0 /\ until' = 0
  /\ sent' = 0 /\ received' = 0 /\ counted' = {} /\ lateSends' = 0 /\ stopAt' = "none"
  /\ pingResult' = "none"
  /\ cancelled' = FALSE
  /\ UNCHANGED network

Open ==
  /\ at = "open"
  /\ \/ ~cancelled /\ at' = "probe" /\ UNCHANGED <<pingResult, inbox>>
     \/ ~cancelled /\ Return("failed")
     \/ cancelled /\ Return("cancelled")
  /\ UNCHANGED <<run, probe, now, until, counts, cancelled, stopAt, air>>

\* The head of the loop: a probe gets its second, or what is left of the run.
StartProbe ==
  /\ at = "probe"
  /\ \/ cancelled /\ Return("cancelled") /\ UNCHANGED until
     \/ ~cancelled /\ now >= RunTime /\ Return("timeout") /\ UNCHANGED until
     \/ /\ ~cancelled /\ now < RunTime
        /\ until' = Earlier(now + ProbeTime, RunTime)
        /\ at' = "waitWrite"
        /\ UNCHANGED <<pingResult, inbox>>
  /\ UNCHANGED <<run, probe, now, counts, cancelled, stopAt, air>>

\* wait_socket for writing: a probe that cannot be sent ends the run.
WaitWrite ==
  /\ at = "waitWrite"
  /\ \/ cancelled /\ Return("cancelled")
     \/ ~cancelled /\ now >= until /\ Return("timeout")
     \/ ~cancelled /\ now < until /\ Return("failed")
     \/ /\ ~cancelled /\ now < until
        /\ at' = "send"
        /\ UNCHANGED <<pingResult, inbox>>
  /\ UNCHANGED <<run, probe, now, until, counts, cancelled, stopAt, air>>

\* sendto is refused: for now, or for good.
\* sendto: the network answers with any number of copies.
Send ==
  /\ at = "send"
  /\ sent' = sent + 1
  /\ lateSends' = IF cancelled THEN lateSends + 1 ELSE lateSends
  /\ \E n \in 0..MaxCopies :
       air' = air \cup {[reply |-> [run |-> run, probe |-> probe], copy |-> c] : c \in 1..n}
  /\ at' = "waitRead"
  /\ UNCHANGED <<run, probe, now, until, received, counted, pingResult, cancelled, stopAt, inbox>>

\* sendto is refused: for now, or for good.
SendRefused ==
  /\ at = "send"
  /\ \/ at' = "waitWrite" /\ UNCHANGED <<pingResult, inbox>>
     \/ Return("failed")
  /\ UNCHANGED <<run, probe, now, until, counts, cancelled, stopAt, air>>

\* After the last probe the run is complete; after another one it pauses,
\* with the rest of what the socket holds.
EndProbe(rest) ==
  IF probe = Probes
  THEN Return("complete") /\ UNCHANGED until
  ELSE /\ at' = "pause"
       /\ until' = now + PauseTime
       /\ inbox' = rest
       /\ UNCHANGED pingResult

\* Mutant: the wait for a reply has no deadline.
WaitReadForever ==
  /\ at = "waitRead"
  /\ \/ cancelled /\ Return("cancelled") /\ UNCHANGED until
     \/ ~cancelled /\ now < until /\ Return("failed") /\ UNCHANGED until
     \/ /\ ~cancelled /\ inbox # <<>>
        /\ at' = "receive"
        /\ UNCHANGED <<pingResult, inbox, until>>
  /\ UNCHANGED <<run, probe, now, counts, cancelled, stopAt, air>>

\* wait_socket for reading: when the probe's time is up the probe is lost.
WaitRead ==
  /\ at = "waitRead"
  /\ \/ cancelled /\ Return("cancelled") /\ UNCHANGED until
     \/ ~cancelled /\ now >= until /\ EndProbe(inbox)
     \/ ~cancelled /\ now < until /\ Return("failed") /\ UNCHANGED until
     \/ /\ ~cancelled /\ now < until /\ inbox # <<>>
        /\ at' = "receive"
        /\ UNCHANGED <<pingResult, inbox, until>>
  /\ UNCHANGED <<run, probe, now, counts, cancelled, stopAt, air>>

\* Mutant: a reply of any run matches.
MatchesAnyRun(reply) == reply.probe = probe

\* reply_matches: the reply to this probe of this run.
Matches(reply) == reply.run = run /\ reply.probe = probe

\* recvfrom takes a packet; the request to stop and the deadline are looked
\* at once more before the packet is.
ReceiveNothing ==
  /\ at = "receive"
  /\ \/ cancelled /\ Return("cancelled") /\ UNCHANGED until
     \/ ~cancelled /\ now >= until /\ EndProbe(Tail(inbox))
     \/ ~cancelled /\ now < until /\ Return("failed") /\ UNCHANGED until
     \/ /\ ~cancelled /\ now < until /\ ~Matches(Head(inbox))
        /\ at' = "waitRead"
        /\ inbox' = Tail(inbox)
        /\ UNCHANGED <<until, pingResult>>
  /\ UNCHANGED <<run, probe, now, counts, cancelled, stopAt, air>>

ReceiveReply ==
  /\ at = "receive"
  /\ ~cancelled /\ now < until /\ Matches(Head(inbox))
  /\ received' = received + 1
  /\ counted' = counted \cup {<<probe, Head(inbox)>>}
  /\ EndProbe(Tail(inbox))
  /\ UNCHANGED <<run, probe, now, sent, lateSends, cancelled, stopAt, air>>

\* The pause ends with its time or the run's; until then it can be stopped.
Pause ==
  /\ at = "pause"
  /\ \/ /\ now >= until \/ now >= RunTime
        /\ at' = "probe" /\ probe' = probe + 1
        /\ UNCHANGED <<pingResult, inbox>>
     \/ /\ cancelled /\ now < until /\ now < RunTime
        /\ Return("cancelled") /\ UNCHANGED probe
  /\ UNCHANGED <<run, now, until, counts, cancelled, stopAt, air>>

PingWorker ==
  \/ Open \/ StartProbe \/ WaitWrite \/ Send \/ SendRefused
  \/ WaitRead \/ ReceiveNothing \/ ReceiveReply \/ Pause

-----------------------------------------------------------------------------
(* The page, the clock and the network.                                    *)

PingCancel ==
  /\ at # "done" /\ ~cancelled
  /\ cancelled' = TRUE
  /\ stopAt' = at
  /\ UNCHANGED <<at, run, probe, now, until, counts, pingResult, network>>

\* The clock stops mattering once the run's time is up.
PingTick ==
  /\ at # "done" /\ now < RunTime
  /\ now' = now + 1
  /\ UNCHANGED <<at, run, probe, until, counts, pingResult, cancelled, stopAt, network>>

Deliver(packet) ==
  /\ packet \in air
  /\ air' = air \ {packet}
  /\ inbox' = IF at \in {"done", "open"} THEN inbox
              ELSE Append(inbox, packet.reply)
  /\ UNCHANGED <<at, run, probe, now, until, counts, pingResult, cancelled, stopAt>>

Lose(packet) ==
  /\ packet \in air
  /\ air' = air \ {packet}
  /\ UNCHANGED <<at, run, probe, now, until, counts, pingResult, cancelled, stopAt, inbox>>

PingNext ==
  \/ Begin \/ PingWorker \/ PingCancel \/ PingTick
  \/ \E packet \in air : Deliver(packet) \/ Lose(packet)

PingSpec == PingInit /\ [][PingNext]_pingVars

\* The worker's task runs and time passes: a socket that refuses for now, or
\* packets that do not match, hold the worker up only until its deadline.
PingFairSpec == PingSpec /\ WF_pingVars(PingWorker) /\ WF_pingVars(PingTick)

-----------------------------------------------------------------------------
(* What the page may believe.                                              *)

\* The variables stay in their domains; the socket is empty when closed.
PingTypeOK ==
  /\ at \in {"done", "open", "probe", "waitWrite", "send", "waitRead", "receive", "pause"}
  /\ run \in 0..MaxRuns /\ probe \in 0..Probes
  /\ now \in 0..RunTime /\ until \in 0..(RunTime + PauseTime)
  /\ sent \in 0..Probes /\ received \in 0..Probes
  /\ pingResult \in {"none", "complete", "cancelled", "timeout", "failed"}
  /\ cancelled \in BOOLEAN
  /\ air \subseteq Packet
  /\ inbox \in Seq(Reply)
  /\ at = "done" => inbox = <<>>

\* The replies counted answer this run's own probes, one each: a late reply,
\* a copy, or a reply to an earlier run's probe is never counted.
CountsAnswers ==
  /\ received = Cardinality(counted)
  /\ \A c \in counted : c[2] = [run |-> run, probe |-> c[1]]

\* A probe is answered only after it was sent: the loss shown is never
\* negative.
LossShown == received <= sent

\* A run that reports success has sent every probe: running out of time or
\* being stopped is never shown as packet loss.
CompleteMeansAll == pingResult = "complete" => sent = Probes

\* A run asked to stop sends nothing more, but for the one probe it was
\* already handing to the socket.
CancelStops == lateSends <= IF stopAt = "send" THEN 1 ELSE 0

\* The run's bookkeeping: types, every probe's own answer counted once and after
\* it was sent, an honest verdict, and nothing sent after a cancellation.
PingInv == PingTypeOK /\ CountsAnswers /\ LossShown /\ CompleteMeansAll /\ CancelStops

\* What PingInv rests on: how far a run has come, by the worker's next call.  Its
\* conjuncts say how many probes are out, that only earlier probes have been counted,
\* and that a run asked to stop goes to no further send.
PingCalls == {"open", "probe", "waitWrite", "send", "waitRead", "receive", "pause"}
ProbesOut ==
  /\ at # "done" => run \in 1..MaxRuns /\ probe \in 1..Probes /\ pingResult = "none"
  /\ at = "open" => sent = 0 /\ received = 0 /\ probe = 1
  /\ at \in {"probe", "waitWrite", "send"} => sent = probe - 1
  /\ at \in {"waitRead", "receive", "pause"} => sent = probe
  /\ at \in {"waitRead", "receive"} => received < sent
  /\ at = "pause" => probe < Probes
  /\ at = "receive" => inbox # <<>>
CountedEarlier ==
  /\ IsFiniteSet(counted)
  /\ \A c \in counted :
       /\ c \in (1..probe) \X Reply
       /\ at \in PingCalls \ {"pause"} => c[1] < probe
StopSeen ==
  /\ lateSends \in Nat
  /\ stopAt \in PingCalls \cup {"none"}
  /\ at # "done" /\ ~cancelled => lateSends = 0 /\ stopAt = "none"
  /\ at = "send" /\ cancelled => lateSends = 0 /\ stopAt = "send"
PingIInv == PingInv /\ ProbesOut /\ CountedEarlier /\ StopSeen

\* A run ends, whatever the network does.
RunEnds == at # "done" ~> at = "done"

=============================================================================
