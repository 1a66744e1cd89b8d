----------------------------- MODULE NetworkProofs -----------------------------
(***************************************************************************)
(* The safety properties of the Network page, for every number of          *)
(* operations and visits, and of the ping it runs, for every number of     *)
(* probes, runs and copies and all times.  Each part of the page's         *)
(* inductive invariant has a lemma with a step for each action; the        *)
(* ping's invariant has one lemma per action.                              *)
(***************************************************************************)
EXTENDS NetworkOperation, PingRun, FiniteSetTheorems, TLAPS

\* The invariant holds initially: nothing has been asked for.
LEMMA NetInitially == Init => NetIInv
<1> SUFFICES ASSUME Init PROVE NetIInv
  OBVIOUS
<1> USE NetAssumption DEF Init, Newest, NoWork, NoResult
<1>1. FlagsOK
  BY DEF FlagsOK
<1>2. result \in Results /\ label \in Results /\ work \in Works
  BY DEF Results, Works
<1>3. NetTypeOK
  BY <1>1, <1>2 DEF NetTypeOK
<1>4. OneAtATime /\ WorkIsNewest
  BY DEF OneAtATime, WorkIsNewest
<1>5. CancelsSeen /\ CancelDecides
  BY DEF CancelsSeen, CancelDecides
<1> QED
  BY <1>3, <1>4, <1>5 DEF NetIInv

\* There is a result and a request that stand for none.
LEMMA Nothing == NoResult \in Results /\ NoWork \in Works
  BY NetAssumption DEF NoResult, Results, NoWork, Works

\* Operations are counted from zero up to the bound.
LEMMA Counting == NetTypeOK => Newest \in 0..MaxOperations
<1> SUFFICES ASSUME NetTypeOK PROVE Newest \in 0..MaxOperations
  OBVIOUS
<1>1. accepted \in Seq(Operations) /\ Len(accepted) <= MaxOperations
  BY DEF NetTypeOK, Newest
<1> QED
  BY <1>1, NetAssumption DEF Newest

\* What request_cancel does to the flag and to the record of cancellations.
CancelEffect ==
  /\ busy => cancels' = cancels \cup {Newest} /\ cancelRequested'
  /\ ~busy => cancels' = cancels /\ cancelRequested' = cancelRequested
  /\ cancels' \subseteq 1..Newest /\ cancels' \subseteq Ids
  /\ result.id \in cancels' <=> result.id \in cancels

\* A cancellation is noted for the operation in flight and for no other.
LEMMA Cancelling == ASSUME NetIInv, RequestCancel PROVE CancelEffect
<1> USE DEF CancelEffect
<1>1. CASE busy
  <2>1. cancels' = cancels \cup {Newest} /\ cancelRequested'
    BY <1>1 DEF RequestCancel
  <2>2. Newest > 0 /\ Newest \in 0..MaxOperations
    BY <1>1, Counting DEF NetIInv, WorkIsNewest
  <2>3. Newest \in 1..Newest /\ Newest \in Ids
    BY <2>2, NetAssumption DEF Ids
  <2>4. result.id \in 0..MaxOperations /\ result.id < Newest
    BY <1>1 DEF NetIInv, CancelsSeen, NetTypeOK, Results
  <2>5. result.id # Newest
    BY <2>2, <2>4, NetAssumption
  <2> QED
    BY <1>1, <2>1, <2>3, <2>5 DEF NetIInv, CancelsSeen, NetTypeOK
<1>2. CASE ~busy
  <2>1. cancels' = cancels /\ cancelRequested' = cancelRequested
    BY <1>2 DEF RequestCancel, NetIInv, NetTypeOK, FlagsOK
  <2> QED
    BY <1>2, <2>1 DEF NetIInv, CancelsSeen, NetTypeOK
<1> QED
  BY <1>1, <1>2

\* What start_operation does when it accepts an operation.
AcceptEffect ==
  /\ accepted' \in Seq(Operations)
  /\ Newest' = Newest + 1 /\ Newest' \in 1..MaxOperations
  /\ pending' \in Operations /\ pending' = accepted'[Newest']
  /\ ~cancelRequested' /\ busy' /\ Newest' \notin cancels
  /\ result.id < Newest' /\ result'.id <= Newest' /\ cancels \subseteq 1..Newest'
  /\ worker' = "none" /\ work'.id = 0 /\ ui' = "launch"
  /\ UNCHANGED <<result, label, asked, visits, work, cancels>>

\* Accepting an operation makes it the newest, not cancelled, and leaves the others
\* where they are.
LEMMA Accepting == ASSUME NetIInv, StartAccepted PROVE AcceptEffect
<1> USE DEF AcceptEffect
<1>1. accepted \in Seq(Operations) /\ asked \in Operations
  BY DEF NetIInv, NetTypeOK
<1>2. accepted' = Append(accepted, asked) /\ Newest < MaxOperations
  BY DEF StartAccepted, Accept
<1>3. Newest \in 0..MaxOperations
  BY Counting DEF NetIInv
<1>4. accepted' \in Seq(Operations) /\ Newest' = Newest + 1 /\ accepted'[Newest'] = asked
  BY <1>1, <1>2, <1>3, NetAssumption DEF Newest
<1>5. /\ pending' = asked /\ ~cancelRequested' /\ busy' /\ ~busy /\ ui = "start"
      /\ ui' = "launch" /\ UNCHANGED <<result, label, asked, visits, worker, work, cancels>>
  BY DEF StartAccepted, Accept, task, screen
<1>6. Newest + 1 \notin cancels
  BY <1>3, NetAssumption DEF NetIInv, CancelsSeen
<1>7. worker = "none"
  BY <1>5 DEF NetIInv, OneAtATime
<1>8. work.id \in 0..MaxOperations
  BY DEF NetIInv, NetTypeOK, Works
<1>9. work.id = 0
  BY <1>7, <1>8, NetAssumption DEF NetIInv, WorkIsNewest
<1>10. result.id <= Newest /\ result.id \in 0..MaxOperations /\ cancels \subseteq 1..Newest
  BY DEF NetIInv, CancelsSeen, NetTypeOK, Results
<1>11. result.id < Newest' /\ result.id <= Newest' /\ cancels \subseteq 1..Newest' /\ Newest' \in 1..MaxOperations
  BY <1>2, <1>3, <1>4, <1>10, NetAssumption
<1> QED
  BY <1>1, <1>4, <1>5, <1>6, <1>7, <1>9, <1>11

\* What finish_operation leaves behind.
FinishEffect ==
  /\ result' \in Results /\ result'.id = Newest /\ Newest' = Newest
  /\ result'.id <= Newest'
  /\ (result'.kind = "cancelled") <=> (Newest \in cancels)
  /\ cancels' \subseteq 1..Newest' /\ ui' # "launch"
  /\ ~busy' /\ worker' = "none" /\ work' = NoWork /\ work'.id = 0
  /\ UNCHANGED <<pending, accepted, visits, label, ui, asked, cancels>>

\* The result that a worker leaves is that of the newest operation, and says that it
\* was cancelled exactly if it was.
LEMMA Finishing == ASSUME NetIInv, Finish PROVE FinishEffect
<1> USE DEF FinishEffect
<1>1. /\ ~busy' /\ worker' = "none" /\ work' = NoWork /\ worker = "finish"
      /\ UNCHANGED <<pending, accepted, visits, label, ui, asked, cancels>>
  BY DEF Finish, request, screen
<1>a. Newest' = Newest /\ Newest <= Newest /\ NoWork.id = 0
  BY <1>1, Counting, NetAssumption DEF Newest, NoWork, NetIInv
<1>2. busy
  BY <1>1 DEF NetIInv, OneAtATime
<1>b. cancels' \subseteq 1..Newest' /\ ui' # "launch"
  BY <1>1, <1>a DEF NetIInv, OneAtATime, CancelsSeen
<1>3. /\ work.id > 0 /\ work.id = Newest /\ work.ending \in Endings
      /\ pending \in Operations /\ work \in Works
  BY <1>1 DEF NetIInv, WorkIsNewest, NetTypeOK
<1>4. cancelRequested <=> Newest \in cancels
  BY <1>2 DEF NetIInv, CancelsSeen
<1>5. CASE cancelRequested
  <2>1. result' = [id |-> work.id, op |-> pending, kind |-> "cancelled"]
    BY <1>5 DEF Finish
  <2> QED
    BY <2>1, <1>1, <1>a, <1>b, <1>3, <1>4, <1>5 DEF Results, Works
<1>6. CASE ~cancelRequested
  <2>1. result' = [id |-> work.id, op |-> work.op, kind |-> work.ending]
    BY <1>6 DEF Finish
  <2> QED
    BY <2>1, <1>1, <1>a, <1>b, <1>3, <1>4, <1>6 DEF Results, Works, Endings
<1> QED
  BY <1>5, <1>6

\* What start_operation leaves behind when there is no task.
NotStartedEffect ==
  /\ result' \in Results /\ result'.id = Newest /\ Newest' = Newest
  /\ result'.id <= Newest'
  /\ result'.kind = "not started" /\ Newest \notin cancels
  /\ cancels' \subseteq 1..Newest'
  /\ ~busy' /\ label' = result' /\ ui' = "controls"
  /\ UNCHANGED <<pending, accepted, worker, work, visits, asked, cancels>>

\* The result of an operation whose task could not be created says so.
LEMMA NotStarting == ASSUME NetIInv, LaunchFails PROVE NotStartedEffect
<1> USE DEF NotStartedEffect
<1>1. /\ ui = "launch" /\ result' = [id |-> Newest, op |-> pending, kind |-> "not started"]
      /\ ~busy' /\ label' = result' /\ ui' = "controls"
      /\ UNCHANGED <<pending, accepted, worker, work, visits, asked, cancels>>
  BY DEF LaunchFails, request, task, screen
<1>b. Newest <= Newest
  BY Counting, NetAssumption DEF NetIInv
<1>a. Newest' = Newest /\ Newest <= Newest
  BY <1>1, <1>b DEF Newest
<1>2. busy /\ ~cancelRequested
  BY <1>1 DEF NetIInv, OneAtATime, CancelsSeen
<1>3. Newest \notin cancels /\ cancels' \subseteq 1..Newest'
  BY <1>1, <1>a, <1>2 DEF NetIInv, CancelsSeen
<1>4. pending \in Operations /\ Newest \in 0..MaxOperations
  BY Counting DEF NetIInv, NetTypeOK
<1> QED
  BY <1>1, <1>a, <1>3, <1>4 DEF Results

\* Every step keeps the flags Boolean.
LEMMA FlagsStep == NetIInv /\ [Next]_vars => FlagsOK'
<1> SUFFICES ASSUME NetIInv, [Next]_vars PROVE FlagsOK'
  OBVIOUS
<1>1. CASE ReadRequest
  BY <1>1, NetAssumption DEF ReadRequest, request, screen, buttons,
     NetIInv, NetTypeOK, FlagsOK
<1>2. CASE Operate
  BY <1>2, NetAssumption DEF Operate, request, screen, buttons,
     NetIInv, NetTypeOK, FlagsOK
<1>3. CASE Finish
  BY <1>3, NetAssumption DEF Finish, request, screen, buttons,
     NetIInv, NetTypeOK, FlagsOK
<1>4. CASE StartBegin
  BY <1>4, NetAssumption DEF StartBegin, ShowFinished, Idle, request, task, screen, buttons,
     NetIInv, NetTypeOK, FlagsOK
<1>5. CASE StartRefused
  BY <1>5, NetAssumption DEF StartRefused, request, task, screen, buttons,
     NetIInv, NetTypeOK, FlagsOK
<1>6. CASE StartAccepted
  BY <1>6, NetAssumption DEF StartAccepted, Accept, task, screen, buttons,
     NetIInv, NetTypeOK, FlagsOK
<1>7. CASE Launch
  BY <1>7, NetAssumption DEF Launch, Controls, request, screen,
     NetIInv, NetTypeOK, FlagsOK
<1>8. CASE LaunchFails
  BY <1>8, NetAssumption DEF LaunchFails, request, task, screen, buttons,
     NetIInv, NetTypeOK, FlagsOK
<1>9. CASE CancelBegin
  BY <1>9, NetAssumption DEF CancelBegin, ShowFinished, Idle, request, task, screen, buttons,
     NetIInv, NetTypeOK, FlagsOK
<1>10. CASE CancelAsk
  BY <1>10, NetAssumption DEF CancelAsk, RequestCancel, request, task, screen, buttons,
     NetIInv, NetTypeOK, FlagsOK
<1>11. CASE CancelLabel
  BY <1>11, NetAssumption DEF CancelLabel, request, task, screen, buttons,
     NetIInv, NetTypeOK, FlagsOK
<1>12. CASE Show
  BY <1>12, NetAssumption DEF Show, request, task, buttons,
     NetIInv, NetTypeOK, FlagsOK
<1>13. CASE Stop
  BY <1>13, NetAssumption DEF Stop, RequestCancel, Idle, request, task,
     NetIInv, NetTypeOK, FlagsOK
<1>14. CASE TickBegin
  BY <1>14, NetAssumption DEF TickBegin, Idle, request, task, screen, buttons,
     NetIInv, NetTypeOK, FlagsOK
<1>15. CASE Tick
  BY <1>15, NetAssumption DEF Tick, ShowFinished, request, task, screen, buttons,
     NetIInv, NetTypeOK, FlagsOK
<1>16. CASE Refresh
  BY <1>16, NetAssumption DEF Refresh, Idle, request, task, buttons,
     NetIInv, NetTypeOK, FlagsOK
<1>17. CASE UpdateControls
  BY <1>17, NetAssumption DEF UpdateControls, Controls, request, task, screen,
     NetIInv, NetTypeOK, FlagsOK
<1>18. CASE UNCHANGED vars
  BY <1>18, NetAssumption DEF vars, request, task, screen, buttons,
     NetIInv, NetTypeOK, FlagsOK
<1> QED
  BY <1>1, <1>2, <1>3, <1>4, <1>5, <1>6, <1>7, <1>8, <1>9, <1>10, <1>11, <1>12, <1>13,
     <1>14, <1>15, <1>16, <1>17, <1>18 DEF Next, Worker, Start, Cancel, Page

\* Every step keeps the types.
LEMMA TypeStep == NetIInv /\ [Next]_vars => NetTypeOK'
<1> SUFFICES ASSUME NetIInv, [Next]_vars PROVE NetTypeOK'
  OBVIOUS
<1>b. FlagsOK'
  BY FlagsStep
<1>c. Newest \in 0..MaxOperations
  BY Counting, NetAssumption DEF NetIInv
<1>d. UNCHANGED accepted => Newest' = Newest
  BY DEF Newest
<1>e. RequestCancel => CancelEffect
  BY Cancelling
<1>f. StartAccepted => AcceptEffect
  BY Accepting
<1>g. Finish => FinishEffect
  BY Finishing
<1>h. LaunchFails => NotStartedEffect
  BY NotStarting
<1>1. CASE ReadRequest
  BY <1>1, <1>b, <1>c, <1>d, NetAssumption DEF ReadRequest, request, screen, buttons, Works,
     NetIInv, NetTypeOK, OneAtATime, WorkIsNewest, CancelsSeen
<1>2. CASE Operate
  BY <1>2, <1>b, <1>c, <1>d, NetAssumption DEF Operate, request, screen, buttons, Works, Endings,
     NetIInv, NetTypeOK, OneAtATime, WorkIsNewest, CancelsSeen
<1>3. CASE Finish
  BY <1>3, <1>b, <1>c, <1>d, <1>g, Nothing, NetAssumption DEF FinishEffect,
     NetIInv, NetTypeOK, OneAtATime, WorkIsNewest, CancelsSeen
<1>4. CASE StartBegin
  BY <1>4, <1>b, <1>c, <1>d, NetAssumption DEF StartBegin, ShowFinished, Idle, request, task, screen, buttons,
     NetIInv, NetTypeOK, OneAtATime, WorkIsNewest, CancelsSeen
<1>5. CASE StartRefused
  BY <1>5, <1>b, <1>c, <1>d, Nothing, NetAssumption DEF StartRefused, request, task, screen, buttons,
     NetIInv, NetTypeOK, OneAtATime, WorkIsNewest, CancelsSeen
<1>6. CASE StartAccepted
  BY <1>6, <1>b, <1>c, <1>d, <1>f, NetAssumption DEF StartAccepted, Accept, task, screen, buttons, AcceptEffect,
     NetIInv, NetTypeOK, OneAtATime, WorkIsNewest, CancelsSeen
<1>7. CASE Launch
  BY <1>7, <1>b, <1>c, <1>d, Nothing, NetAssumption DEF Launch, Controls, request, screen,
     NetIInv, NetTypeOK, OneAtATime, WorkIsNewest, CancelsSeen
<1>8. CASE LaunchFails
  BY <1>8, <1>b, <1>c, <1>d, <1>h, NetAssumption DEF NotStartedEffect,
     NetIInv, NetTypeOK, OneAtATime, WorkIsNewest, CancelsSeen
<1>9. CASE CancelBegin
  BY <1>9, <1>b, <1>c, <1>d, NetAssumption DEF CancelBegin, ShowFinished, Idle, request, task, screen, buttons,
     NetIInv, NetTypeOK, OneAtATime, WorkIsNewest, CancelsSeen
<1>10. CASE CancelAsk
  BY <1>10, <1>b, <1>c, <1>d, <1>e, NetAssumption DEF CancelAsk, request, task, screen, buttons, CancelEffect,
     NetIInv, NetTypeOK, OneAtATime, WorkIsNewest, CancelsSeen
<1>11. CASE CancelLabel
  BY <1>11, <1>b, <1>c, <1>d, Nothing, NetAssumption DEF CancelLabel, request, task, screen, buttons,
     NetIInv, NetTypeOK, OneAtATime, WorkIsNewest, CancelsSeen
<1>12. CASE Show
  BY <1>12, <1>b, <1>c, <1>d, Nothing, NetAssumption DEF Show, request, task, buttons,
     NetIInv, NetTypeOK, OneAtATime, WorkIsNewest, CancelsSeen
<1>13. CASE Stop
  BY <1>13, <1>b, <1>c, <1>d, <1>e, Nothing, NetAssumption DEF Stop, Idle, request, task, CancelEffect,
     NetIInv, NetTypeOK, OneAtATime, WorkIsNewest, CancelsSeen
<1>14. CASE TickBegin
  BY <1>14, <1>b, <1>c, <1>d, NetAssumption DEF TickBegin, Idle, request, task, screen, buttons,
     NetIInv, NetTypeOK, OneAtATime, WorkIsNewest, CancelsSeen
<1>15. CASE Tick
  BY <1>15, <1>b, <1>c, <1>d, NetAssumption DEF Tick, ShowFinished, request, task, screen, buttons,
     NetIInv, NetTypeOK, OneAtATime, WorkIsNewest, CancelsSeen
<1>16. CASE Refresh
  BY <1>16, <1>b, <1>c, <1>d, NetAssumption DEF Refresh, Idle, request, task, buttons,
     NetIInv, NetTypeOK, OneAtATime, WorkIsNewest, CancelsSeen
<1>17. CASE UpdateControls
  BY <1>17, <1>b, <1>c, <1>d, NetAssumption DEF UpdateControls, Controls, request, task, screen,
     NetIInv, NetTypeOK, OneAtATime, WorkIsNewest, CancelsSeen
<1>18. CASE UNCHANGED vars
  BY <1>18, <1>b, <1>c, <1>d, NetAssumption DEF vars, request, task, screen, buttons,
     NetIInv, NetTypeOK, OneAtATime, WorkIsNewest, CancelsSeen
<1> QED
  BY <1>1, <1>2, <1>3, <1>4, <1>5, <1>6, <1>7, <1>8, <1>9, <1>10, <1>11, <1>12, <1>13,
     <1>14, <1>15, <1>16, <1>17, <1>18 DEF Next, Worker, Start, Cancel, Page

\* Every step keeps at most one operation or result on its way, and the start
\* buttons disabled while an operation is in flight.
LEMMA OneAtATimeStep == NetIInv /\ [Next]_vars => OneAtATime'
<1> SUFFICES ASSUME NetIInv, [Next]_vars PROVE OneAtATime'
  OBVIOUS
<1>1. CASE ReadRequest
  BY <1>1, NetAssumption DEF ReadRequest, request, screen, buttons,
     NetIInv, NetTypeOK, FlagsOK, OneAtATime
<1>2. CASE Operate
  BY <1>2, NetAssumption DEF Operate, request, screen, buttons,
     NetIInv, NetTypeOK, FlagsOK, OneAtATime
<1>3. CASE Finish
  BY <1>3, NetAssumption DEF Finish, request, screen, buttons,
     NetIInv, NetTypeOK, FlagsOK, OneAtATime
<1>4. CASE StartBegin
  BY <1>4, NetAssumption DEF StartBegin, ShowFinished, Idle, request, task, screen, buttons,
     NetIInv, NetTypeOK, FlagsOK, OneAtATime
<1>5. CASE StartRefused
  BY <1>5, NetAssumption DEF StartRefused, request, task, screen, buttons,
     NetIInv, NetTypeOK, FlagsOK, OneAtATime
<1>6. CASE StartAccepted
  BY <1>6, NetAssumption DEF StartAccepted, Accept, task, screen, buttons,
     NetIInv, NetTypeOK, FlagsOK, OneAtATime
<1>7. CASE Launch
  BY <1>7, NetAssumption DEF Launch, Controls, request, screen,
     NetIInv, NetTypeOK, FlagsOK, OneAtATime
<1>8. CASE LaunchFails
  BY <1>8, NetAssumption DEF LaunchFails, request, task, screen, buttons,
     NetIInv, NetTypeOK, FlagsOK, OneAtATime
<1>9. CASE CancelBegin
  BY <1>9, NetAssumption DEF CancelBegin, ShowFinished, Idle, request, task, screen, buttons,
     NetIInv, NetTypeOK, FlagsOK, OneAtATime
<1>10. CASE CancelAsk
  BY <1>10, NetAssumption DEF CancelAsk, RequestCancel, request, task, screen, buttons,
     NetIInv, NetTypeOK, FlagsOK, OneAtATime
<1>11. CASE CancelLabel
  BY <1>11, NetAssumption DEF CancelLabel, request, task, screen, buttons,
     NetIInv, NetTypeOK, FlagsOK, OneAtATime
<1>12. CASE Show
  BY <1>12, NetAssumption DEF Show, request, task, buttons,
     NetIInv, NetTypeOK, FlagsOK, OneAtATime
<1>13. CASE Stop
  BY <1>13, NetAssumption DEF Stop, RequestCancel, Idle, request, task,
     NetIInv, NetTypeOK, FlagsOK, OneAtATime
<1>14. CASE TickBegin
  BY <1>14, NetAssumption DEF TickBegin, Idle, request, task, screen, buttons,
     NetIInv, NetTypeOK, FlagsOK, OneAtATime
<1>15. CASE Tick
  BY <1>15, NetAssumption DEF Tick, ShowFinished, request, task, screen, buttons,
     NetIInv, NetTypeOK, FlagsOK, OneAtATime
<1>16. CASE Refresh
  BY <1>16, NetAssumption DEF Refresh, Idle, request, task, buttons,
     NetIInv, NetTypeOK, FlagsOK, OneAtATime
<1>17. CASE UpdateControls
  BY <1>17, NetAssumption DEF UpdateControls, Controls, request, task, screen,
     NetIInv, NetTypeOK, FlagsOK, OneAtATime
<1>18. CASE UNCHANGED vars
  BY <1>18, NetAssumption DEF vars, request, task, screen, buttons,
     NetIInv, NetTypeOK, FlagsOK, OneAtATime
<1> QED
  BY <1>1, <1>2, <1>3, <1>4, <1>5, <1>6, <1>7, <1>8, <1>9, <1>10, <1>11, <1>12, <1>13,
     <1>14, <1>15, <1>16, <1>17, <1>18 DEF Next, Worker, Start, Cancel, Page

\* The worker keeps working on the operation that was accepted last.
LEMMA WorkStep == NetIInv /\ [Next]_vars => WorkIsNewest'
<1> SUFFICES ASSUME NetIInv, [Next]_vars PROVE WorkIsNewest'
  OBVIOUS
<1>c. Newest \in 0..MaxOperations
  BY Counting, NetAssumption DEF NetIInv
<1>d. UNCHANGED accepted => Newest' = Newest
  BY DEF Newest
<1>e. RequestCancel => CancelEffect
  BY Cancelling
<1>f. StartAccepted => AcceptEffect
  BY Accepting
<1>g. Finish => FinishEffect
  BY Finishing
<1>h. LaunchFails => NotStartedEffect
  BY NotStarting
<1>1. CASE ReadRequest
  BY <1>1, <1>c, <1>d, NetAssumption DEF ReadRequest, request, screen, buttons,
     NetIInv, NetTypeOK, OneAtATime, WorkIsNewest
<1>2. CASE Operate
  BY <1>2, <1>c, <1>d, NetAssumption DEF Operate, request, screen, buttons, Works, Endings,
     NetIInv, NetTypeOK, OneAtATime, WorkIsNewest
<1>3. CASE Finish
  <2>1. (worker \in {"run", "finish"} <=> work.id > 0)'
    BY <1>3, <1>c, <1>d, <1>g, NetAssumption DEF FinishEffect, NoWork
  <2>2. (work.id > 0 => work.id = Newest /\ work.op = accepted[Newest])'
    BY <1>3, <1>c, <1>d, <1>g, NetAssumption DEF FinishEffect, NoWork
  <2>3. (worker = "finish" => work.ending \in Endings)'
    BY <1>3, <1>c, <1>d, <1>g, NetAssumption DEF FinishEffect, NoWork
  <2>4. (busy => Newest > 0 /\ pending = accepted[Newest])'
    BY <1>3, <1>c, <1>d, <1>g, NetAssumption DEF FinishEffect, NoWork
  <2> QED
    BY <2>1, <2>2, <2>3, <2>4 DEF WorkIsNewest
<1>4. CASE StartBegin
  BY <1>4, <1>c, <1>d, NetAssumption DEF StartBegin, ShowFinished, Idle, request, task, screen, buttons,
     NetIInv, NetTypeOK, OneAtATime, WorkIsNewest
<1>5. CASE StartRefused
  BY <1>5, <1>c, <1>d, NetAssumption DEF StartRefused, request, task, screen, buttons,
     NetIInv, NetTypeOK, OneAtATime, WorkIsNewest
<1>6. CASE StartAccepted
  <2>1. (worker \in {"run", "finish"} <=> work.id > 0)'
    BY <1>6, <1>c, <1>d, <1>f, NetAssumption DEF AcceptEffect
  <2>2. (work.id > 0 => work.id = Newest /\ work.op = accepted[Newest])'
    BY <1>6, <1>c, <1>d, <1>f, NetAssumption DEF AcceptEffect
  <2>3. (worker = "finish" => work.ending \in Endings)'
    BY <1>6, <1>c, <1>d, <1>f, NetAssumption DEF AcceptEffect
  <2>4. (busy => Newest > 0 /\ pending = accepted[Newest])'
    BY <1>6, <1>c, <1>d, <1>f, NetAssumption DEF AcceptEffect
  <2> QED
    BY <2>1, <2>2, <2>3, <2>4 DEF WorkIsNewest
<1>7. CASE Launch
  BY <1>7, <1>c, <1>d, NetAssumption DEF Launch, Controls, request, screen,
     NetIInv, NetTypeOK, OneAtATime, WorkIsNewest
<1>8. CASE LaunchFails
  BY <1>8, <1>c, <1>d, <1>h, NetAssumption DEF NotStartedEffect,
     NetIInv, NetTypeOK, OneAtATime, WorkIsNewest
<1>9. CASE CancelBegin
  BY <1>9, <1>c, <1>d, NetAssumption DEF CancelBegin, ShowFinished, Idle, request, task, screen, buttons,
     NetIInv, NetTypeOK, OneAtATime, WorkIsNewest
<1>10. CASE CancelAsk
  BY <1>10, <1>c, <1>d, <1>e, NetAssumption DEF CancelAsk, request, task, screen, buttons, CancelEffect,
     NetIInv, NetTypeOK, OneAtATime, WorkIsNewest
<1>11. CASE CancelLabel
  BY <1>11, <1>c, <1>d, NetAssumption DEF CancelLabel, request, task, screen, buttons,
     NetIInv, NetTypeOK, OneAtATime, WorkIsNewest
<1>12. CASE Show
  BY <1>12, <1>c, <1>d, NetAssumption DEF Show, request, task, buttons,
     NetIInv, NetTypeOK, OneAtATime, WorkIsNewest
<1>13. CASE Stop
  BY <1>13, <1>c, <1>d, <1>e, NetAssumption DEF Stop, Idle, request, task, CancelEffect,
     NetIInv, NetTypeOK, OneAtATime, WorkIsNewest
<1>14. CASE TickBegin
  BY <1>14, <1>c, <1>d, NetAssumption DEF TickBegin, Idle, request, task, screen, buttons,
     NetIInv, NetTypeOK, OneAtATime, WorkIsNewest
<1>15. CASE Tick
  BY <1>15, <1>c, <1>d, NetAssumption DEF Tick, ShowFinished, request, task, screen, buttons,
     NetIInv, NetTypeOK, OneAtATime, WorkIsNewest
<1>16. CASE Refresh
  BY <1>16, <1>c, <1>d, NetAssumption DEF Refresh, Idle, request, task, buttons,
     NetIInv, NetTypeOK, OneAtATime, WorkIsNewest
<1>17. CASE UpdateControls
  BY <1>17, <1>c, <1>d, NetAssumption DEF UpdateControls, Controls, request, task, screen,
     NetIInv, NetTypeOK, OneAtATime, WorkIsNewest
<1>18. CASE UNCHANGED vars
  BY <1>18, <1>c, <1>d, NetAssumption DEF vars, request, task, screen, buttons,
     NetIInv, NetTypeOK, OneAtATime, WorkIsNewest
<1> QED
  BY <1>1, <1>2, <1>3, <1>4, <1>5, <1>6, <1>7, <1>8, <1>9, <1>10, <1>11, <1>12, <1>13,
     <1>14, <1>15, <1>16, <1>17, <1>18 DEF Next, Worker, Start, Cancel, Page

\* The flag stays the record of the cancellations of the operation in flight.
LEMMA CancelsStep == NetIInv /\ [Next]_vars => CancelsSeen'
<1> SUFFICES ASSUME NetIInv, [Next]_vars PROVE CancelsSeen'
  OBVIOUS
<1>c. Newest \in 0..MaxOperations
  BY Counting, NetAssumption DEF NetIInv
<1>d. UNCHANGED accepted => Newest' = Newest
  BY DEF Newest
<1>e. RequestCancel => CancelEffect
  BY Cancelling
<1>f. StartAccepted => AcceptEffect
  BY Accepting
<1>g. Finish => FinishEffect
  BY Finishing
<1>h. LaunchFails => NotStartedEffect
  BY NotStarting
<1>1. CASE ReadRequest
  BY <1>1, <1>c, <1>d, NetAssumption DEF ReadRequest, request, screen, buttons,
     NetIInv, NetTypeOK, OneAtATime, WorkIsNewest, CancelsSeen
<1>2. CASE Operate
  BY <1>2, <1>c, <1>d, NetAssumption DEF Operate, request, screen, buttons,
     NetIInv, NetTypeOK, OneAtATime, WorkIsNewest, CancelsSeen
<1>3. CASE Finish
  <2>1. (cancels \subseteq 1..Newest)'
    BY <1>3, <1>c, <1>d, <1>g, NetAssumption DEF FinishEffect
  <2>2. (busy => (cancelRequested <=> Newest \in cancels))'
    BY <1>3, <1>c, <1>d, <1>g, NetAssumption DEF FinishEffect
  <2>3. (ui = "launch" => ~cancelRequested)'
    BY <1>3, <1>c, <1>d, <1>g, NetAssumption DEF FinishEffect
  <2>4. (result.id <= Newest)'
    BY <1>3, <1>c, <1>d, <1>g, NetAssumption DEF FinishEffect
  <2>5. (busy => result.id < Newest)'
    BY <1>3, <1>c, <1>d, <1>g, NetAssumption DEF FinishEffect
  <2> QED
    BY <2>1, <2>2, <2>3, <2>4, <2>5 DEF CancelsSeen
<1>4. CASE StartBegin
  BY <1>4, <1>c, <1>d, NetAssumption DEF StartBegin, ShowFinished, Idle, request, task, screen, buttons,
     NetIInv, NetTypeOK, OneAtATime, WorkIsNewest, CancelsSeen
<1>5. CASE StartRefused
  BY <1>5, <1>c, <1>d, NetAssumption DEF StartRefused, request, task, screen, buttons,
     NetIInv, NetTypeOK, OneAtATime, WorkIsNewest, CancelsSeen
<1>6. CASE StartAccepted
  <2>1. (cancels \subseteq 1..Newest)'
    BY <1>6, <1>c, <1>d, <1>f, NetAssumption DEF AcceptEffect
  <2>2. (busy => (cancelRequested <=> Newest \in cancels))'
    BY <1>6, <1>c, <1>d, <1>f, NetAssumption DEF AcceptEffect
  <2>3. (ui = "launch" => ~cancelRequested)'
    BY <1>6, <1>c, <1>d, <1>f, NetAssumption DEF AcceptEffect
  <2>4. (result.id <= Newest)'
    BY <1>6, <1>c, <1>d, <1>f, NetAssumption DEF AcceptEffect
  <2>5. (busy => result.id < Newest)'
    BY <1>6, <1>c, <1>d, <1>f, NetAssumption DEF AcceptEffect
  <2> QED
    BY <2>1, <2>2, <2>3, <2>4, <2>5 DEF CancelsSeen
<1>7. CASE Launch
  BY <1>7, <1>c, <1>d, NetAssumption DEF Launch, Controls, request, screen,
     NetIInv, NetTypeOK, OneAtATime, WorkIsNewest, CancelsSeen
<1>8. CASE LaunchFails
  <2>1. (cancels \subseteq 1..Newest)'
    BY <1>8, <1>c, <1>d, <1>h, NetAssumption DEF NotStartedEffect
  <2>2. (busy => (cancelRequested <=> Newest \in cancels))'
    BY <1>8, <1>c, <1>d, <1>h, NetAssumption DEF NotStartedEffect
  <2>3. (ui = "launch" => ~cancelRequested)'
    BY <1>8, <1>c, <1>d, <1>h, NetAssumption DEF NotStartedEffect
  <2>4. (result.id <= Newest)'
    BY <1>8, <1>c, <1>d, <1>h, NetAssumption DEF NotStartedEffect
  <2>5. (busy => result.id < Newest)'
    BY <1>8, <1>c, <1>d, <1>h, NetAssumption DEF NotStartedEffect
  <2> QED
    BY <2>1, <2>2, <2>3, <2>4, <2>5 DEF CancelsSeen
<1>9. CASE CancelBegin
  BY <1>9, <1>c, <1>d, NetAssumption DEF CancelBegin, ShowFinished, Idle, request, task, screen, buttons,
     NetIInv, NetTypeOK, OneAtATime, WorkIsNewest, CancelsSeen
<1>10. CASE CancelAsk
  BY <1>10, <1>c, <1>d, <1>e, NetAssumption DEF CancelAsk, request, task, screen, buttons, CancelEffect,
     NetIInv, NetTypeOK, OneAtATime, WorkIsNewest, CancelsSeen
<1>11. CASE CancelLabel
  BY <1>11, <1>c, <1>d, NetAssumption DEF CancelLabel, request, task, screen, buttons,
     NetIInv, NetTypeOK, OneAtATime, WorkIsNewest, CancelsSeen
<1>12. CASE Show
  BY <1>12, <1>c, <1>d, NetAssumption DEF Show, request, task, buttons,
     NetIInv, NetTypeOK, OneAtATime, WorkIsNewest, CancelsSeen
<1>13. CASE Stop
  BY <1>13, <1>c, <1>d, <1>e, NetAssumption DEF Stop, Idle, request, task, CancelEffect,
     NetIInv, NetTypeOK, OneAtATime, WorkIsNewest, CancelsSeen
<1>14. CASE TickBegin
  BY <1>14, <1>c, <1>d, NetAssumption DEF TickBegin, Idle, request, task, screen, buttons,
     NetIInv, NetTypeOK, OneAtATime, WorkIsNewest, CancelsSeen
<1>15. CASE Tick
  BY <1>15, <1>c, <1>d, NetAssumption DEF Tick, ShowFinished, request, task, screen, buttons,
     NetIInv, NetTypeOK, OneAtATime, WorkIsNewest, CancelsSeen
<1>16. CASE Refresh
  BY <1>16, <1>c, <1>d, NetAssumption DEF Refresh, Idle, request, task, buttons,
     NetIInv, NetTypeOK, OneAtATime, WorkIsNewest, CancelsSeen
<1>17. CASE UpdateControls
  BY <1>17, <1>c, <1>d, NetAssumption DEF UpdateControls, Controls, request, task, screen,
     NetIInv, NetTypeOK, OneAtATime, WorkIsNewest, CancelsSeen
<1>18. CASE UNCHANGED vars
  BY <1>18, <1>c, <1>d, NetAssumption DEF vars, request, task, screen, buttons,
     NetIInv, NetTypeOK, OneAtATime, WorkIsNewest, CancelsSeen
<1> QED
  BY <1>1, <1>2, <1>3, <1>4, <1>5, <1>6, <1>7, <1>8, <1>9, <1>10, <1>11, <1>12, <1>13,
     <1>14, <1>15, <1>16, <1>17, <1>18 DEF Next, Worker, Start, Cancel, Page

\* A result stays a cancellation exactly if its operation was cancelled.
LEMMA DecidesStep == NetIInv /\ [Next]_vars => CancelDecides'
<1> SUFFICES ASSUME NetIInv, [Next]_vars PROVE CancelDecides'
  OBVIOUS
<1>c. Newest \in 0..MaxOperations
  BY Counting, NetAssumption DEF NetIInv
<1>d. UNCHANGED accepted => Newest' = Newest
  BY DEF Newest
<1>e. RequestCancel => CancelEffect
  BY Cancelling
<1>f. StartAccepted => AcceptEffect
  BY Accepting
<1>g. Finish => FinishEffect
  BY Finishing
<1>h. LaunchFails => NotStartedEffect
  BY NotStarting
<1>1. CASE ReadRequest
  BY <1>1, <1>c, <1>d, NetAssumption DEF ReadRequest, request, screen, buttons,
     NetIInv, NetTypeOK, OneAtATime, WorkIsNewest, CancelsSeen, CancelDecides
<1>2. CASE Operate
  BY <1>2, <1>c, <1>d, NetAssumption DEF Operate, request, screen, buttons,
     NetIInv, NetTypeOK, OneAtATime, WorkIsNewest, CancelsSeen, CancelDecides
<1>3. CASE Finish
  <2>1. (result.id > 0 => (result.kind = "cancelled" <=> result.id \in cancels))'
    BY <1>3, <1>c, <1>d, <1>g, NetAssumption DEF FinishEffect
  <2> QED
    BY <2>1 DEF CancelDecides
<1>4. CASE StartBegin
  BY <1>4, <1>c, <1>d, NetAssumption DEF StartBegin, ShowFinished, Idle, request, task, screen, buttons,
     NetIInv, NetTypeOK, OneAtATime, WorkIsNewest, CancelsSeen, CancelDecides
<1>5. CASE StartRefused
  BY <1>5, <1>c, <1>d, NetAssumption DEF StartRefused, request, task, screen, buttons,
     NetIInv, NetTypeOK, OneAtATime, WorkIsNewest, CancelsSeen, CancelDecides
<1>6. CASE StartAccepted
  BY <1>6, <1>c, <1>d, <1>f, NetAssumption DEF StartAccepted, Accept, task, screen, buttons, AcceptEffect,
     NetIInv, NetTypeOK, OneAtATime, WorkIsNewest, CancelsSeen, CancelDecides
<1>7. CASE Launch
  BY <1>7, <1>c, <1>d, NetAssumption DEF Launch, Controls, request, screen,
     NetIInv, NetTypeOK, OneAtATime, WorkIsNewest, CancelsSeen, CancelDecides
<1>8. CASE LaunchFails
  <2>1. (result.id > 0 => (result.kind = "cancelled" <=> result.id \in cancels))'
    BY <1>8, <1>c, <1>d, <1>h, NetAssumption DEF NotStartedEffect
  <2> QED
    BY <2>1 DEF CancelDecides
<1>9. CASE CancelBegin
  BY <1>9, <1>c, <1>d, NetAssumption DEF CancelBegin, ShowFinished, Idle, request, task, screen, buttons,
     NetIInv, NetTypeOK, OneAtATime, WorkIsNewest, CancelsSeen, CancelDecides
<1>10. CASE CancelAsk
  BY <1>10, <1>c, <1>d, <1>e, NetAssumption DEF CancelAsk, request, task, screen, buttons, CancelEffect,
     NetIInv, NetTypeOK, OneAtATime, WorkIsNewest, CancelsSeen, CancelDecides
<1>11. CASE CancelLabel
  BY <1>11, <1>c, <1>d, NetAssumption DEF CancelLabel, request, task, screen, buttons,
     NetIInv, NetTypeOK, OneAtATime, WorkIsNewest, CancelsSeen, CancelDecides
<1>12. CASE Show
  BY <1>12, <1>c, <1>d, NetAssumption DEF Show, request, task, buttons,
     NetIInv, NetTypeOK, OneAtATime, WorkIsNewest, CancelsSeen, CancelDecides
<1>13. CASE Stop
  BY <1>13, <1>c, <1>d, <1>e, NetAssumption DEF Stop, Idle, request, task, CancelEffect,
     NetIInv, NetTypeOK, OneAtATime, WorkIsNewest, CancelsSeen, CancelDecides
<1>14. CASE TickBegin
  BY <1>14, <1>c, <1>d, NetAssumption DEF TickBegin, Idle, request, task, screen, buttons,
     NetIInv, NetTypeOK, OneAtATime, WorkIsNewest, CancelsSeen, CancelDecides
<1>15. CASE Tick
  BY <1>15, <1>c, <1>d, NetAssumption DEF Tick, ShowFinished, request, task, screen, buttons,
     NetIInv, NetTypeOK, OneAtATime, WorkIsNewest, CancelsSeen, CancelDecides
<1>16. CASE Refresh
  BY <1>16, <1>c, <1>d, NetAssumption DEF Refresh, Idle, request, task, buttons,
     NetIInv, NetTypeOK, OneAtATime, WorkIsNewest, CancelsSeen, CancelDecides
<1>17. CASE UpdateControls
  BY <1>17, <1>c, <1>d, NetAssumption DEF UpdateControls, Controls, request, task, screen,
     NetIInv, NetTypeOK, OneAtATime, WorkIsNewest, CancelsSeen, CancelDecides
<1>18. CASE UNCHANGED vars
  BY <1>18, <1>c, <1>d, NetAssumption DEF vars, request, task, screen, buttons,
     NetIInv, NetTypeOK, OneAtATime, WorkIsNewest, CancelsSeen, CancelDecides
<1> QED
  BY <1>1, <1>2, <1>3, <1>4, <1>5, <1>6, <1>7, <1>8, <1>9, <1>10, <1>11, <1>12, <1>13,
     <1>14, <1>15, <1>16, <1>17, <1>18 DEF Next, Worker, Start, Cancel, Page

\* The invariant is inductive, and so always holds.
THEOREM NetworkInvariant == Spec => []NetIInv
<1>1. NetIInv /\ [Next]_vars => NetIInv'
  BY TypeStep, OneAtATimeStep, WorkStep, CancelsStep, DecidesStep DEF NetIInv
<1> QED
  BY NetInitially, <1>1, PTL DEF Spec

\* The variables keep their types.
THEOREM NetworkTypes == Spec => []NetTypeOK
<1>1. NetIInv => NetTypeOK
  BY DEF NetIInv
<1> QED
  BY NetworkInvariant, <1>1, PTL

\* One worker at a time, for the newest operation, and busy as long as it runs.
THEOREM NetworkOneWorker == Spec => []OneWorker
<1>1. NetIInv => OneWorker
  BY DEF NetIInv, OneAtATime, WorkIsNewest, OneWorker
<1> QED
  BY NetworkInvariant, <1>1, PTL

\* A result is a cancellation exactly if its operation was cancelled while it ran.
THEOREM NetworkCancelDecides == Spec => []CancelDecides
<1>1. NetIInv => CancelDecides
  BY DEF NetIInv
<1> QED
  BY NetworkInvariant, <1>1, PTL

\* A result that waits goes away only by being shown.
THEOREM NetworkCompletionShown == Spec => CompletionShown
<1>1. NetIInv /\ [Next]_vars => [done /\ ~done' => label' = result]_vars
  <2> SUFFICES ASSUME NetIInv, Next, done, ~done' PROVE label' = result
    BY DEF vars
  <2>1. ui # "start" /\ ui # "launch"
    BY DEF NetIInv, OneAtATime
  <2>2. ~StartAccepted /\ ~LaunchFails
    BY <2>1 DEF StartAccepted, Accept, LaunchFails
  <2>3. StartBegin \/ CancelBegin \/ Tick
    BY <2>2 DEF Next, Worker, Start, Cancel, Page, ReadRequest, Operate, Finish, StartRefused,
       Launch, CancelAsk, CancelLabel, Show, Stop, TickBegin, Refresh, UpdateControls
  <2> QED
    BY <2>3 DEF StartBegin, CancelBegin, Tick, ShowFinished
<1> QED
  BY NetworkInvariant, <1>1, PTL DEF Spec, CompletionShown

\* The result on record, and the result shown, stay those of the newest operation.
LEMMA ShownStep ==
    NetIInv /\ ResultIsCurrent /\ ResultIsNewest /\ [Next]_vars
      => ResultIsCurrent' /\ ResultIsNewest'
<1> SUFFICES ASSUME NetIInv, ResultIsCurrent, ResultIsNewest, [Next]_vars
             PROVE  ResultIsCurrent' /\ ResultIsNewest'
  OBVIOUS
<1> USE DEF ResultIsCurrent, ResultIsNewest
<1>a. /\ Newest \in 0..MaxOperations /\ result.id \in 0..MaxOperations
      /\ label.id \in 0..MaxOperations /\ result.id <= Newest
      /\ NoResult.id = 0 /\ NoResult.op = NoOperation
  BY Counting, NetAssumption DEF NetIInv, NetTypeOK, Results, CancelsSeen, NoResult
<1>b. UNCHANGED accepted => Newest' = Newest
  BY DEF Newest
<1>1. CASE UNCHANGED <<accepted, result, label, busy>> /\ (ui = "launch" => ui' = "launch")
  BY <1>1, <1>b
<1>2. CASE ReadRequest \/ Operate
  BY <1>1, <1>2 DEF ReadRequest, Operate, request
<1>3. CASE Finish
  <2>1. work.id = Newest /\ work.op = accepted[Newest] /\ Newest > 0 /\ pending = accepted[Newest]
    BY <1>3, <1>a DEF Finish, NetIInv, WorkIsNewest, OneAtATime, NetTypeOK, Works
  <2>2. result'.id = Newest /\ result'.op = accepted[Newest]
    BY <1>3, <2>1 DEF Finish
  <2> QED
    BY <1>3, <2>2, <1>b DEF Finish, request
<1>4. CASE StartAccepted
  <2>1. accepted' = Append(accepted, asked) /\ accepted \in Seq(Operations)
    BY <1>4 DEF StartAccepted, Accept, NetIInv, NetTypeOK
  <2>2. Newest' = Newest + 1
    BY <2>1 DEF Newest
  <2>3. ui # "launch" /\ ui' = "launch" /\ busy' /\ UNCHANGED <<label, result>>
    BY <1>4 DEF StartAccepted, Accept
  <2> QED
    BY <1>a, <2>2, <2>3
<1>5. CASE Launch
  BY <1>5, <1>a, <1>b DEF Launch, request
<1>6. CASE LaunchFails
  <2>1. Newest > 0 /\ pending = accepted[Newest]
    BY <1>6 DEF LaunchFails, NetIInv, WorkIsNewest, OneAtATime
  <2>2. label' = result' /\ result'.id = Newest /\ result'.op = accepted[Newest]
    BY <1>6, <2>1 DEF LaunchFails
  <2> QED
    BY <1>6, <2>2, <1>b DEF LaunchFails, request
<1>7. CASE StartBegin \/ CancelBegin \/ Tick
  <2>1. ui # "launch" /\ UNCHANGED <<accepted, result, busy>> /\ label' \in {label, result}
    BY <1>7 DEF StartBegin, CancelBegin, Tick, ShowFinished, Idle, request
  <2>2. label' = result => ~busy \/ label' = label
    BY <1>7 DEF StartBegin, CancelBegin, Tick, ShowFinished, NetIInv, OneAtATime
  <2> QED
    BY <2>1, <2>2, <1>a, <1>b
<1>8. CASE StartRefused \/ CancelLabel \/ Show \/ Stop
  <2>1. ui # "launch" /\ UNCHANGED <<accepted, result, busy>> /\ label' \in {label, NoResult}
    BY <1>8 DEF StartRefused, CancelLabel, Show, Stop, Idle, request, NetIInv, OneAtATime
  <2> QED
    BY <2>1, <1>a, <1>b
<1>9. CASE CancelAsk \/ TickBegin \/ Refresh \/ UpdateControls
  BY <1>1, <1>9 DEF CancelAsk, TickBegin, Refresh, UpdateControls, Idle, request
<1>10. CASE UNCHANGED vars
  BY <1>1, <1>10 DEF vars, request
<1> QED
  BY <1>2, <1>3, <1>4, <1>5, <1>6, <1>7, <1>8, <1>9, <1>10
     DEF Next, Worker, Start, Cancel, Page

\* What the page shows as a result is that of the newest operation.
THEOREM NetworkResultIsNewest == Spec => []ResultIsNewest
<1>1. Init => ResultIsCurrent /\ ResultIsNewest
  BY DEF Init, ResultIsCurrent, ResultIsNewest, Newest, NoResult
<1> QED
  BY <1>1, ShownStep, NetworkInvariant, PTL DEF Spec

-----------------------------------------------------------------------------
(* The ping.                                                               *)

\* The worker has not begun yet.
LEMMA PingInitially == PingInit => PingIInv
<1> SUFFICES ASSUME PingInit PROVE PingIInv
  OBVIOUS
<1> USE PingAssumption DEF PingInit
<1>1. PingTypeOK
  <2>1. inbox \in Seq(Reply) /\ air \subseteq Packet
    OBVIOUS
  <2>2. cancelled \in BOOLEAN
    OBVIOUS
  <2> QED
    BY <2>1, <2>2 DEF PingTypeOK
<1>2. Cardinality({}) = 0 /\ IsFiniteSet({})
  BY FS_EmptySet
<1>3. PingInv
  BY <1>1, <1>2 DEF PingInv, CountsAnswers, LossShown, CompleteMeansAll, CancelStops
<1>4. ProbesOut /\ CountedEarlier /\ StopSeen
  BY <1>2 DEF ProbesOut, CountedEarlier, StopSeen, PingCalls
<1> QED
  BY <1>3, <1>4 DEF PingIInv

\* Counting one more answer of this run's newest probe.
LEMMA CountOneMore ==
    ASSUME PingIInv, at = "receive", Matches(Head(inbox)),
           counted' = counted \cup {<<probe, Head(inbox)>>}
    PROVE  /\ IsFiniteSet(counted') /\ Cardinality(counted') = received + 1
           /\ \A c \in counted' :
                /\ c[2] = [run |-> run, probe |-> c[1]]
                /\ c \in (1..probe) \X Reply
<1>1. Head(inbox) \in Reply
  BY DEF PingIInv, PingInv, PingTypeOK, ProbesOut
<1>2. Head(inbox) = [run |-> run, probe |-> probe]
  BY <1>1 DEF Reply, Matches
<1>3. <<probe, Head(inbox)>> \notin counted
  <2>1. probe \in Nat
    BY PingAssumption DEF PingIInv, PingInv, PingTypeOK
  <2>2. \A c \in counted : c[1] < probe /\ c[1] \in Int
    BY DEF PingIInv, CountedEarlier, PingCalls
  <2> QED
    BY <2>1, <2>2
<1>4. IsFiniteSet(counted) /\ Cardinality(counted) = received
  BY DEF PingIInv, PingInv, CountsAnswers, CountedEarlier
<1>5. IsFiniteSet(counted') /\ Cardinality(counted') = received + 1
  BY <1>3, <1>4, FS_AddElement
<1>6. probe \in 1..probe
  BY PingAssumption DEF PingIInv, ProbesOut
<1>7. ASSUME NEW c \in counted' PROVE c[2] = [run |-> run, probe |-> c[1]] /\ c \in (1..probe) \X Reply
  <2>1. CASE c \in counted
    BY <2>1 DEF PingIInv, PingInv, CountsAnswers, CountedEarlier
  <2>2. CASE c = <<probe, Head(inbox)>>
    BY <2>2, <1>1, <1>2, <1>6
  <2> QED
    BY <2>1, <2>2
<1> QED
  BY <1>5, <1>7

\* Steps that leave the counts and the verdict alone, or give up with one that claims
\* nothing: Return with anything but "complete".
LEMMA GivesUp ==
    ASSUME PingIInv, at # "done", at' = "done", inbox' = <<>>,
           pingResult' \in {"cancelled", "timeout", "failed"},
           UNCHANGED <<run, probe, now, until, counts, cancelled, stopAt, air>>
    PROVE  PingIInv'
<1> USE PingAssumption DEF PingIInv, PingInv, counts
<1>1. PingTypeOK'
  BY DEF PingTypeOK
<1>2. CountsAnswers' /\ LossShown' /\ CompleteMeansAll' /\ CancelStops'
  BY DEF CountsAnswers, LossShown, CompleteMeansAll, CancelStops
<1>3. ProbesOut' /\ CountedEarlier' /\ StopSeen'
  BY DEF ProbesOut, CountedEarlier, StopSeen, PingCalls
<1> QED
  BY <1>1, <1>2, <1>3

\* A new run begins: no probe is out and nothing was counted, whatever the last run left on the way.
LEMMA BeginStep == PingIInv /\ Begin => PingIInv'
<1> SUFFICES ASSUME PingIInv, Begin PROVE PingIInv'
  OBVIOUS
<1> USE PingAssumption DEF PingIInv, PingInv, Begin, network
<1>1. PingTypeOK'
  <2>1. cancelled' \in BOOLEAN
    OBVIOUS
  <2> QED
    BY <2>1 DEF PingTypeOK
<1>2. IsFiniteSet(counted') /\ Cardinality(counted') = 0
  BY FS_EmptySet
<1>3. CountsAnswers' /\ LossShown' /\ CompleteMeansAll' /\ CancelStops'
  BY <1>2 DEF CountsAnswers, LossShown, CompleteMeansAll, CancelStops
<1>4. ProbesOut' /\ CountedEarlier' /\ StopSeen'
  BY <1>2 DEF ProbesOut, CountedEarlier, StopSeen, PingCalls, PingTypeOK
<1> QED
  BY <1>1, <1>3, <1>4

\* Opening the socket, the head of the loop and the wait to write.
LEMMA BeforeSendStep == PingIInv /\ (Open \/ StartProbe \/ WaitWrite) => PingIInv'
<1> SUFFICES ASSUME PingIInv, Open \/ StartProbe \/ WaitWrite PROVE PingIInv'
  OBVIOUS
<1> USE PingAssumption DEF PingIInv, PingInv, counts
<1>1. CASE at' = "done"
  <2>1. /\ at # "done" /\ inbox' = <<>> /\ pingResult' \in {"cancelled", "timeout", "failed"}
        /\ UNCHANGED <<run, probe, now, until, counts, cancelled, stopAt, air>>
    BY <1>1 DEF Open, StartProbe, WaitWrite, Return
  <2> QED
    BY <1>1, <2>1, GivesUp
<1>2. CASE at' # "done"
  <2>1. /\ ~cancelled
        /\ \/ at = "open" /\ at' = "probe" /\ until' = until
           \/ at = "probe" /\ at' = "waitWrite" /\ until' \in {now + ProbeTime, RunTime} /\ until' <= RunTime
           \/ at = "waitWrite" /\ at' = "send" /\ until' = until
        /\ UNCHANGED <<run, probe, now, sent, received, counted, lateSends, pingResult,
                       cancelled, stopAt, air, inbox>>
    BY <1>2 DEF Open, StartProbe, WaitWrite, Return, Earlier, PingTypeOK
  <2>2. PingTypeOK'
    BY <2>1 DEF PingTypeOK
  <2>3. CountsAnswers' /\ LossShown' /\ CompleteMeansAll' /\ CancelStops'
    BY <2>1 DEF CountsAnswers, LossShown, CompleteMeansAll, CancelStops
  <2>4. ProbesOut' /\ CountedEarlier' /\ StopSeen'
    BY <2>1 DEF ProbesOut, CountedEarlier, StopSeen, PingCalls, PingTypeOK
  <2> QED
    BY <2>2, <2>3, <2>4
<1> QED
  BY <1>1, <1>2

\* A probe goes out: the newest one, once.
LEMMA SendStep == PingIInv /\ Send => PingIInv'
<1> SUFFICES ASSUME PingIInv, Send PROVE PingIInv'
  OBVIOUS
<1> USE PingAssumption DEF PingIInv, PingInv, Send
<1>1. [run |-> run, probe |-> probe] \in Reply
  BY DEF ProbesOut, Reply
<1>2. air' \subseteq Packet
  <2>1. PICK n \in 0..MaxCopies :
          air' = air \cup {[reply |-> [run |-> run, probe |-> probe], copy |-> c] : c \in 1..n}
    OBVIOUS
  <2>2. \A c \in 1..n : c \in 1..MaxCopies
    OBVIOUS
  <2>3. air \subseteq Packet
    BY DEF PingTypeOK
  <2> QED
    BY <1>1, <2>1, <2>2, <2>3 DEF Packet
<1>3. sent' = probe /\ sent' \in 0..Probes
  BY DEF ProbesOut, PingTypeOK
<1>4. PingTypeOK'
  BY <1>2, <1>3 DEF PingTypeOK
<1>5. lateSends' \in Nat /\ (lateSends' > 0 => cancelled /\ lateSends' = 1 /\ stopAt = "send")
  BY DEF StopSeen
<1>6. CountsAnswers' /\ LossShown' /\ CompleteMeansAll' /\ CancelStops'
  BY <1>3, <1>5 DEF CountsAnswers, LossShown, CompleteMeansAll, CancelStops, ProbesOut, PingTypeOK
<1>7. ProbesOut' /\ CountedEarlier' /\ StopSeen'
  BY <1>3, <1>5 DEF ProbesOut, CountedEarlier, StopSeen, PingCalls, PingTypeOK, LossShown
<1> QED
  BY <1>4, <1>6, <1>7

\* A refused sendto waits again or gives up.
LEMMA SendRefusedStep == PingIInv /\ SendRefused => PingIInv'
<1> SUFFICES ASSUME PingIInv, SendRefused PROVE PingIInv'
  OBVIOUS
<1> USE PingAssumption DEF PingIInv, PingInv, SendRefused, counts
<1>1. CASE at' = "done"
  BY <1>1, GivesUp DEF Return
<1>2. CASE at' = "waitWrite"
  <2>1. inbox' = inbox /\ pingResult' = pingResult
    BY <1>2 DEF Return
  <2>2. PingTypeOK'
    BY <1>2, <2>1 DEF PingTypeOK
  <2>3. CountsAnswers' /\ LossShown' /\ CompleteMeansAll' /\ CancelStops'
    BY <2>1 DEF CountsAnswers, LossShown, CompleteMeansAll, CancelStops
  <2>4. ProbesOut' /\ CountedEarlier' /\ StopSeen'
    BY <1>2, <2>1 DEF ProbesOut, CountedEarlier, StopSeen, PingCalls, PingTypeOK
  <2> QED
    BY <2>2, <2>3, <2>4
<1> QED
  BY <1>1, <1>2 DEF Return

\* The end of a probe that was counted or given up: the run is complete after the last
\* one, which was sent like every one before it.
LEMMA EndProbeStep ==
    ASSUME PingIInv, at \in {"waitRead", "receive"}, ~cancelled,
           NEW rest \in Seq(Reply), EndProbe(rest),
           \/ UNCHANGED <<received, counted>>
           \/ /\ received' = received + 1
              /\ IsFiniteSet(counted') /\ Cardinality(counted') = received'
              /\ \A c \in counted' : /\ c[2] = [run |-> run, probe |-> c[1]]
                                     /\ c \in (1..probe) \X Reply,
           UNCHANGED <<run, probe, now, sent, lateSends, cancelled, stopAt, air>>
    PROVE  PingIInv'
<1> USE PingAssumption DEF PingIInv, PingInv
<1>1. /\ \/ probe = Probes /\ at' = "done" /\ pingResult' = "complete" /\ inbox' = <<>>
            /\ until' = until
         \/ probe < Probes /\ at' = "pause" /\ until' = now + PauseTime /\ inbox' = rest
            /\ pingResult' = pingResult
      /\ sent = probe
  BY DEF EndProbe, Return, PingTypeOK, ProbesOut
<1>2. received' \in 0..Probes /\ received' <= sent
  BY DEF ProbesOut, PingTypeOK
<1>3. PingTypeOK'
  <2>a. <<>> \in Seq(Reply) /\ rest \in Seq(Reply)
    OBVIOUS
  <2>1. inbox' \in Seq(Reply) /\ (at' = "done" => inbox' = <<>>)
    BY <1>1, <2>a, Zenon
  <2>2. until' \in 0..(RunTime + PauseTime)
    BY <1>1 DEF PingTypeOK
  <2> QED
    BY <1>1, <1>2, <2>1, <2>2 DEF PingTypeOK
<1>4. CountsAnswers' /\ LossShown' /\ CompleteMeansAll' /\ CancelStops'
  BY <1>1, <1>2 DEF CountsAnswers, LossShown, CompleteMeansAll, CancelStops, ProbesOut
<1>5. ProbesOut' /\ StopSeen'
  BY <1>1 DEF ProbesOut, StopSeen, PingCalls
<1>6. CountedEarlier'
  BY <1>1 DEF CountedEarlier, PingCalls
<1> QED
  BY <1>3, <1>4, <1>5, <1>6

\* Waiting for a reply, and a packet that is not one.
LEMMA WaitReadStep == PingIInv /\ (WaitRead \/ ReceiveNothing) => PingIInv'
<1> SUFFICES ASSUME PingIInv, WaitRead \/ ReceiveNothing PROVE PingIInv'
  OBVIOUS
<1> USE DEF PingIInv, PingInv, counts
<1>1. /\ at \in {"waitRead", "receive"}
      /\ UNCHANGED <<run, probe, now, sent, received, counted, lateSends, cancelled, stopAt, air>>
  BY DEF WaitRead, ReceiveNothing
<1>2. inbox \in Seq(Reply) /\ (at = "receive" => inbox # <<>> /\ Tail(inbox) \in Seq(Reply))
  BY DEF PingTypeOK, ProbesOut
<1>3. CASE at' = "done" /\ pingResult' # "complete"
  <2>1. inbox' = <<>> /\ until' = until /\ pingResult' \in {"cancelled", "timeout", "failed"}
    BY <1>3 DEF WaitRead, ReceiveNothing, EndProbe, Return
  <2> QED
    BY <1>1, <1>3, <2>1, GivesUp
<1>4. CASE ~cancelled /\ (EndProbe(inbox) \/ (at = "receive" /\ EndProbe(Tail(inbox))))
  BY <1>1, <1>2, <1>4, EndProbeStep
<1>5. CASE at' \in {"waitRead", "receive"}
  <2>1. /\ inbox' \in Seq(Reply) /\ (at' = "receive" => inbox' # <<>>)
        /\ until' = until /\ pingResult' = pingResult
    BY <1>2, <1>5 DEF WaitRead, ReceiveNothing, EndProbe, Return
  <2>2. PingTypeOK'
    BY <1>1, <1>5, <2>1 DEF PingTypeOK
  <2>3. CountsAnswers' /\ LossShown' /\ CompleteMeansAll' /\ CancelStops'
    BY <1>1, <1>5, <2>1 DEF CountsAnswers, LossShown, CompleteMeansAll, CancelStops
  <2>4. ProbesOut' /\ CountedEarlier' /\ StopSeen'
    BY <1>1, <1>5, <2>1 DEF ProbesOut, CountedEarlier, StopSeen, PingCalls
  <2> QED
    BY <2>2, <2>3, <2>4
<1>6. CASE WaitRead
  <2>1. \/ at' = "done" /\ pingResult' \in {"cancelled", "failed"}
        \/ ~cancelled /\ EndProbe(inbox)
        \/ at' = "receive"
    BY <1>6 DEF WaitRead, Return
  <2> QED
    BY <2>1, <1>3, <1>4, <1>5
<1>7. CASE ReceiveNothing
  <2>1. \/ at' = "done" /\ pingResult' \in {"cancelled", "failed"}
        \/ ~cancelled /\ at = "receive" /\ EndProbe(Tail(inbox))
        \/ at' = "waitRead"
    BY <1>7 DEF ReceiveNothing, Return
  <2> QED
    BY <2>1, <1>3, <1>4, <1>5
<1> QED
  BY <1>6, <1>7

\* The reply to this probe of this run is counted, once.
LEMMA ReceiveReplyStep == PingIInv /\ ReceiveReply => PingIInv'
<1> SUFFICES ASSUME PingIInv, ReceiveReply PROVE PingIInv'
  OBVIOUS
<1> USE DEF ReceiveReply
<1>1. /\ IsFiniteSet(counted') /\ Cardinality(counted') = received'
      /\ \A c \in counted' : /\ c[2] = [run |-> run, probe |-> c[1]]
                             /\ c \in (1..probe) \X Reply
  BY CountOneMore
<1>2. Tail(inbox) \in Seq(Reply)
  BY DEF PingIInv, PingInv, PingTypeOK, ProbesOut
<1> QED
  BY <1>1, <1>2, EndProbeStep

\* The pause ends in the next probe, or in a stop.
LEMMA PauseStep == PingIInv /\ Pause => PingIInv'
<1> SUFFICES ASSUME PingIInv, Pause PROVE PingIInv'
  OBVIOUS
<1> USE PingAssumption DEF PingIInv, PingInv, counts, Pause
<1>1. CASE at' = "done"
  BY <1>1, GivesUp DEF Return
<1>2. CASE at' = "probe"
  <2>1. probe' = probe + 1 /\ probe < Probes /\ UNCHANGED <<pingResult, inbox>>
    BY <1>2 DEF Return, ProbesOut
  <2>2. PingTypeOK'
    BY <1>2, <2>1 DEF PingTypeOK
  <2>3. CountsAnswers' /\ LossShown' /\ CompleteMeansAll' /\ CancelStops'
    BY <2>1 DEF CountsAnswers, LossShown, CompleteMeansAll, CancelStops
  <2>4. ProbesOut' /\ StopSeen'
    BY <1>2, <2>1 DEF ProbesOut, StopSeen, PingCalls, PingTypeOK
  <2>5. CountedEarlier'
    <3>1. probe \in Nat /\ probe' = probe + 1
      BY <2>1 DEF PingTypeOK
    <3>2. 1..probe \subseteq 1..probe'
      BY <3>1
    <3>3. \A c \in counted : c \in (1..probe) \X Reply /\ c[1] < probe'
      BY <3>1 DEF CountedEarlier
    <3> QED
      BY <3>2, <3>3 DEF CountedEarlier
  <2> QED
    BY <2>2, <2>3, <2>4, <2>5
<1> QED
  BY <1>1, <1>2 DEF Return

\* The page asks to stop, time passes, the network delivers or loses a packet.
LEMMA OutsideStep ==
    PingIInv /\ (PingCancel \/ PingTick \/ \E packet \in air : Deliver(packet) \/ Lose(packet))
      => PingIInv'
<1> SUFFICES ASSUME PingIInv,
                    PingCancel \/ PingTick \/ \E packet \in air : Deliver(packet) \/ Lose(packet)
             PROVE  PingIInv'
  OBVIOUS
<1> USE PingAssumption DEF PingIInv, PingInv, counts, network
<1>1. UNCHANGED <<at, run, probe, until, sent, received, counted, lateSends, pingResult>>
  BY DEF PingCancel, PingTick, Deliver, Lose
<1>2. CASE PingCancel
  <2>1. cancelled' \in BOOLEAN
    BY <1>2 DEF PingCancel
  <2>2. PingTypeOK'
    BY <1>1, <1>2, <2>1 DEF PingCancel, PingTypeOK
  <2>3. CountsAnswers' /\ LossShown' /\ CompleteMeansAll' /\ CancelStops'
    BY <1>1, <1>2 DEF PingCancel, CountsAnswers, LossShown, CompleteMeansAll, CancelStops, StopSeen
  <2>4. ProbesOut' /\ CountedEarlier' /\ StopSeen'
    BY <1>1, <1>2 DEF PingCancel, ProbesOut, CountedEarlier, StopSeen, PingCalls, PingTypeOK
  <2> QED
    BY <2>2, <2>3, <2>4
<1>3. CASE PingTick
  <2>1. PingTypeOK'
    BY <1>1, <1>3 DEF PingTick, PingTypeOK
  <2>2. CountsAnswers' /\ LossShown' /\ CompleteMeansAll' /\ CancelStops'
    BY <1>1, <1>3 DEF PingTick, CountsAnswers, LossShown, CompleteMeansAll, CancelStops
  <2>3. ProbesOut' /\ CountedEarlier' /\ StopSeen'
    BY <1>1, <1>3 DEF PingTick, ProbesOut, CountedEarlier, StopSeen
  <2> QED
    BY <2>1, <2>2, <2>3
<1>4. ASSUME NEW packet \in air, Deliver(packet) \/ Lose(packet) PROVE PingIInv'
  <2>1. packet.reply \in Reply /\ air' \subseteq Packet
    BY <1>4 DEF Deliver, Lose, PingTypeOK, Packet
  <2>2. /\ UNCHANGED <<now, cancelled, stopAt>> /\ inbox' \in Seq(Reply)
        /\ at = "done" => inbox' = inbox
        /\ inbox # <<>> => inbox' # <<>>
    BY <1>4, <2>1 DEF Deliver, Lose, PingTypeOK
  <2>3. PingTypeOK'
    BY <1>1, <2>1, <2>2 DEF PingTypeOK
  <2>4. CountsAnswers' /\ LossShown' /\ CompleteMeansAll' /\ CancelStops'
    BY <1>1, <2>2 DEF CountsAnswers, LossShown, CompleteMeansAll, CancelStops
  <2>5. ProbesOut' /\ CountedEarlier' /\ StopSeen'
    BY <1>1, <2>2 DEF ProbesOut, CountedEarlier, StopSeen
  <2> QED
    BY <2>3, <2>4, <2>5
<1> QED
  BY <1>2, <1>3, <1>4

\* A step of something else.
LEMMA PingStutter == PingIInv /\ UNCHANGED pingVars => PingIInv'
  BY DEF pingVars, counts, network, PingIInv, PingInv, PingTypeOK, CountsAnswers, LossShown,
     CompleteMeansAll, CancelStops, ProbesOut, CountedEarlier, StopSeen

\* A ping counts each probe's own answer once and after it was sent, reports success
\* only when every probe was sent, and sends nothing after it was asked to stop, for
\* every schedule of the worker, the clock, the page and the network.
THEOREM PingIsHonest == PingSpec => []PingInv
<1>1. PingIInv /\ [PingNext]_pingVars => PingIInv'
  BY BeginStep, BeforeSendStep, SendStep, SendRefusedStep, WaitReadStep, ReceiveReplyStep,
     PauseStep, OutsideStep, PingStutter DEF PingNext, PingWorker
<1>2. PingIInv => PingInv
  BY DEF PingIInv
<1> QED
  BY PingInitially, <1>1, <1>2, PTL DEF PingSpec
=============================================================================
