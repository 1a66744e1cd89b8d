------------------------------ MODULE HttpProofs ------------------------------
(***************************************************************************)
(* Proofs about the HTTP console: HttpInv and ClearTextConfirmed hold of   *)
(* Spec for all values of the constants.                                   *)
(*                                                                         *)
(* The inductive invariant is HttpIInv.  Beyond HttpInv it says what the   *)
(* place of the worker tells (WorkerAgrees: only a busy console has a job, *)
(* it is the newest, and a cancellation asked for is one of this job),     *)
(* that the worker, the slot and the response area never hold the same job *)
(* (JobsApart), and that the tick tells the age of the warning (ArmedAge), *)
(* which is what the assumption on TickWidth is needed for.                *)
(***************************************************************************)
EXTENDS HttpConsole, FiniteSetTheorems, TLAPS

\* A job is in flight, or waits, or is none.
LEMMA JobFacts ==
    /\ NoJob.id = 0 /\ 0 \notin Ids
    /\ \A j \in Jobs : /\ j.id \in Ids /\ j.request \in Requests /\ j.logged \in BOOLEAN
                       /\ j.outcome \in Outcomes /\ j.logError \in BOOLEAN /\ j # NoJob
    /\ \A j \in Jobs : \A o \in Outcomes : [j EXCEPT !.outcome = o] \in Jobs
    /\ \A j \in Jobs : \A b \in BOOLEAN : [j EXCEPT !.logError = b] \in Jobs
    BY HttpAssumption DEF NoJob, Jobs, Ids

\* Between two steps of the clock: an age, a time and a tick stay in range.
LEMMA ClockFacts ==
    /\ 0 \in Ticks /\ 0 \in 0..TimerGap /\ 0 \in 0..TickWidth
    /\ \A t \in Ticks : (t + 1) % TickWidth \in Ticks
    /\ \A t \in 0..TimerGap : t < TimerGap => t + 1 \in 0..TimerGap
    /\ \A a \in 0..TickWidth : (IF a = TickWidth THEN a ELSE a + 1) \in 0..TickWidth
    /\ \A v \in 0..MaxVisits : v < MaxVisits => v + 1 \in 0..MaxVisits /\ v + 1 \in 1..MaxVisits
    /\ \A n \in 0..MaxRequests : n < MaxRequests => n + 1 \in 0..MaxRequests /\ n + 1 \in Ids
    BY HttpAssumption DEF Ticks, Ids

\* The flags stay flags.
LEMMA FlagsKept == FlagTypes /\ [Next]_vars => FlagTypes'
    <1> SUFFICES ASSUME FlagTypes, [Next]_vars PROVE FlagTypes'
        OBVIOUS
    <1> USE DEF FlagTypes
    <1>1. CASE Show \/ Cancel \/ Stop \/ Edit \/ ToggleLog
        BY <1>1, ZenonT(60) DEF Show, Cancel, Stop, Edit, ToggleLog, Callback, Dismiss, shared, task, page, log, arming
    <1>2. CASE Timer \/ SendShows
        BY <1>2 DEF Timer, SendShows, NothingShown, ShowResult, ReportLogError, Dismiss, Callback, task, page, log
    <1>3. CASE ClearBegin \/ ClearBusy \/ ClearIdle
        BY <1>3 DEF ClearBegin, ClearBusy, ClearIdle, ReportLogError, Dismiss, Callback, shared, task, page, log, arming
    <1>4. CASE SendBegin \/ SendWarns \/ Send
        BY <1>4 DEF SendBegin, SendWarns, Send, Launch, Dismiss, Callback, shared, task, page, log, arming
    <1>5. CASE Worker \/ PassTime
        BY <1>5, ZenonT(60) DEF Worker, Perform, AppendLog, Publish, PassTime, shared, task, page, log, arming
    <1>6. CASE UNCHANGED vars
        BY <1>6 DEF vars, shared, task, page, log, arming
    <1> QED
        BY <1>1, <1>2, <1>3, <1>4, <1>5, <1>6 DEF Next, Page, Clear, SendClicked

\* The jobs stay jobs, and the requests named stay requests.
LEMMA JobsKept == JobTypes /\ FlagTypes /\ WorkerAgrees /\ [Next]_vars => JobTypes'
    <1> SUFFICES ASSUME JobTypes, FlagTypes, WorkerAgrees, [Next]_vars PROVE JobTypes'
        OBVIOUS
    <1> USE JobFacts DEF JobTypes
    <1>1. CASE Show
        <2>1. completed' = NoJob /\ form' \in Requests /\ UNCHANGED <<job, started, armedFor>>
            BY <1>1 DEF Show, task, history, arming
        <2>2. shown' \in {NoJob, completed} /\ named' \in {NoRequest} \cup Requests
            BY <1>1 DEF Show
        <2> QED
            BY <2>1, <2>2
    <1>2. CASE Cancel \/ Stop \/ Edit \/ ToggleLog
        BY <1>2 DEF Cancel, Stop, Edit, ToggleLog, Dismiss, shared, task, page, arming, screen, history
    <1>3. CASE Timer \/ SendShows
        BY <1>3 DEF Timer, SendShows, NothingShown, ShowResult, Dismiss, task, page, screen, history
    <1>4. CASE ClearBegin \/ ClearBusy \/ ClearIdle
        BY <1>4 DEF ClearBegin, ClearBusy, ClearIdle, Dismiss, shared, task, page, arming, screen, history
    <1>5. CASE SendBegin \/ SendWarns
        BY <1>5 DEF SendBegin, SendWarns, shared, task, page, arming, screen, history
    <1>6. CASE Send
        <2>1. /\ completed' = completed /\ form' = form /\ armedFor' = armedFor
              /\ named' = form /\ shown' = NoJob /\ started < MaxRequests /\ started' = started + 1
            BY <1>6 DEF Send, Launch, Dismiss, page
        <2>2. started' \in 0..MaxRequests /\ started' \in Ids
            BY <2>1, ClockFacts
        <2>3. (logging /\ sdAvailable) \in BOOLEAN /\ "none" \in Outcomes /\ FALSE \in BOOLEAN
            BY DEF FlagTypes, Outcomes
        <2>4. [id |-> started', request |-> form, logged |-> logging /\ sdAvailable,
               outcome |-> "none", logError |-> FALSE] \in Jobs
            BY <2>2, <2>3 DEF Jobs
        <2>5. job' \in Jobs \cup {NoJob}
            BY <1>6, <2>4 DEF Send, Launch, task
        <2> QED
            BY <2>1, <2>2, <2>5
    <1>7. CASE Perform
        <2>1. PICK outcome \in Outcomes : job' = [job EXCEPT !.outcome = outcome]
            BY <1>7 DEF Perform
        <2>2. job \in Jobs
            BY <1>7 DEF Perform, WorkerAgrees
        <2>3. job' \in Jobs
            BY <2>1, <2>2
        <2> QED
            BY <1>7, <2>3 DEF Perform, shared, page, arming, screen, history
    <1>8. CASE AppendLog
        <2>1. job \in Jobs
            BY <1>8 DEF AppendLog, WorkerAgrees
        <2>2. PICK failed \in {FALSE, job.logged} : job' = [job EXCEPT !.logError = failed]
            BY <1>8 DEF AppendLog
        <2>3. job' \in Jobs
            BY <2>1, <2>2
        <2> QED
            BY <1>8, <2>3 DEF AppendLog, shared, page, arming, screen
    <1>9. CASE Publish \/ PassTime
        BY <1>9 DEF Publish, PassTime, shared, task, page, arming, screen, history
    <1>10. CASE UNCHANGED vars
        BY <1>10 DEF vars, shared, task, page, arming, screen, history
    <1> QED
        BY <1>1, <1>2, <1>3, <1>4, <1>5, <1>6, <1>7, <1>8, <1>9, <1>10 DEF Next, Page, Clear, SendClicked, Worker

\* Times stay within their bounds.
LEMMA TimesKept == TimeTypes /\ JobTypes /\ [Next]_vars => TimeTypes'
    <1> SUFFICES ASSUME TimeTypes, JobTypes, [Next]_vars PROVE TimeTypes'
        OBVIOUS
    <1> USE ClockFacts DEF TimeTypes
    <1>1. CASE Show \/ Cancel \/ Stop \/ Edit \/ ToggleLog
        BY <1>1 DEF Show, Cancel, Stop, Edit, ToggleLog, Dismiss, NoWarning, arming, clock
    <1>2. CASE Timer \/ SendShows
        BY <1>2 DEF Timer, SendShows, Dismiss, NoWarning, arming, clock
    <1>3. CASE ClearBegin \/ ClearBusy \/ ClearIdle
        <2>1. CASE ClearBegin
            BY <2>1 DEF ClearBegin, Dismiss, NoWarning, clock
        <2>2. CASE ClearBusy \/ ClearIdle
            BY <2>2 DEF ClearBusy, ClearIdle, arming, clock
        <2> QED
            BY <1>3, <2>1, <2>2
    <1>4. CASE SendBegin \/ SendWarns \/ Send
        BY <1>4 DEF SendBegin, SendWarns, Send, Launch, Dismiss, NoWarning, arming, clock, JobTypes
    <1>5. CASE Worker
        BY <1>5 DEF Worker, Perform, AppendLog, Publish, arming, clock
    <1>6. CASE PassTime
        BY <1>6 DEF PassTime
    <1>7. CASE UNCHANGED vars
        BY <1>7 DEF vars, arming, clock
    <1> QED
        BY <1>1, <1>2, <1>3, <1>4, <1>5, <1>6, <1>7 DEF Next, Page, Clear, SendClicked

\* The report of a log error is of a request and a visit.
LEMMA ReportTyped ==
    ASSUME HistoryTypes, NEW j \in Jobs, NEW v \in 1..MaxVisits,
           reports' = IF j.logError THEN reports \cup {[id |-> j.id, visit |-> v]} ELSE reports
    PROVE reports' \subseteq [id : Ids, visit : 1..MaxVisits]
    BY JobFacts DEF HistoryTypes

\* What has happened is about requests and visits.
LEMMA HistoryKept == HistoryTypes /\ JobTypes /\ FlagTypes /\ WorkerAgrees /\ [Next]_vars => HistoryTypes'
    <1> SUFFICES ASSUME HistoryTypes, JobTypes, FlagTypes, WorkerAgrees, [Next]_vars PROVE HistoryTypes'
        OBVIOUS
    <1>1. CASE Show
        <2>1. visit' = visit + 1 /\ visit < MaxVisits /\ UNCHANGED <<cancels, failures, cleared>>
            BY <1>1 DEF Show, history
        <2>2. visit' \in 0..MaxVisits /\ visit' \in 1..MaxVisits /\ visit' # 0
            BY <2>1, ClockFacts DEF HistoryTypes
        <2>3. CASE completed = NoJob
            BY <1>1, <2>1, <2>2, <2>3 DEF Show, HistoryTypes
        <2>4. CASE completed # NoJob
            <3>1. completed \in Jobs
                BY <2>4 DEF JobTypes
            <3>2. reports' = IF completed.logError THEN reports \cup {[id |-> completed.id, visit |-> visit']}
                             ELSE reports
                BY <1>1, <2>4 DEF Show
            <3>3. reports' \subseteq [id : Ids, visit : 1..MaxVisits]
                BY <2>2, <3>1, <3>2, ReportTyped
            <3> QED
                BY <2>1, <2>2, <3>3 DEF HistoryTypes
        <2> QED
            BY <2>3, <2>4
    <1>2. CASE Cancel \/ Stop
        <2>1. busy => started \in Ids
            BY JobFacts DEF WorkerAgrees, JobTypes
        <2>2. cancels' \subseteq Ids
            BY <1>2, <2>1 DEF Cancel, Stop, HistoryTypes
        <2> QED
            BY <1>2, <2>2 DEF Cancel, Stop, HistoryTypes, page
    <1>3. CASE Edit \/ ToggleLog \/ ClearBusy \/ SendBegin \/ SendWarns
        <2>1. UNCHANGED <<open, visit, cancels, failures, cleared, reports>>
            BY <1>3 DEF Edit, ToggleLog, ClearBusy, SendBegin, SendWarns, page, history
        <2> QED
            BY <2>1 DEF HistoryTypes
    <1>4. ASSUME completed \in Jobs, ReportLogError(completed), open, UNCHANGED <<open, visit, cancels, failures>>,
                 cleared' \subseteq cleared \cup {completed.id}
          PROVE HistoryTypes'
        <2>1. visit \in 1..MaxVisits /\ completed.id \in Ids
            BY <1>4, JobFacts, ClockFacts DEF HistoryTypes
        <2>2. reports' \subseteq [id : Ids, visit : 1..MaxVisits]
            BY <1>4, <2>1, ReportTyped DEF ReportLogError
        <2> QED
            BY <1>4, <2>1, <2>2 DEF HistoryTypes
    <1>5. CASE Timer \/ SendShows
        <2>1. CASE completed = NoJob
            BY <1>5, <2>1 DEF Timer, SendShows, NothingShown, HistoryTypes, page, history
        <2>2. CASE completed # NoJob
            <3>1. completed \in Jobs /\ open
                BY <1>5, <2>2 DEF Timer, SendShows, Callback, JobTypes, FlagTypes
            <3>2. ReportLogError(completed) /\ UNCHANGED <<open, visit, cancels, failures, cleared>>
                BY <1>5, <2>2 DEF Timer, SendShows, ShowResult, page, history
            <3> QED
                BY <1>4, <3>1, <3>2
        <2> QED
            BY <2>1, <2>2
    <1>6. CASE ClearBegin
        <2>1. shown # NoJob => shown.id \in Ids
            BY JobFacts DEF JobTypes
        <2> QED
            BY <1>6, <2>1 DEF ClearBegin, HistoryTypes, page
    <1>7. CASE ClearIdle
        <2>1. CASE completed = NoJob
            BY <1>7, <2>1 DEF ClearIdle, HistoryTypes, page
        <2>2. CASE completed # NoJob
            <3>1. completed \in Jobs /\ open
                BY <1>7, <2>2 DEF ClearIdle, JobTypes, FlagTypes
            <3>2. ReportLogError(completed) /\ UNCHANGED <<open, visit, cancels, failures>>
                  /\ cleared' \subseteq cleared \cup {completed.id}
                BY <1>7, <2>2 DEF ClearIdle, page
            <3> QED
                BY <1>4, <3>1, <3>2
        <2> QED
            BY <2>1, <2>2
    <1>8. CASE Send \/ Perform \/ Publish \/ PassTime
        BY <1>8 DEF Send, Launch, Perform, Publish, PassTime, HistoryTypes, page, history
    <1>9. CASE AppendLog
        <2>1. job.id \in Ids
            BY <1>9, JobFacts DEF AppendLog, WorkerAgrees, JobTypes
        <2>2. failures' \subseteq failures \cup {job.id}
            BY <1>9 DEF AppendLog
        <2> QED
            BY <1>9, <2>1, <2>2 DEF AppendLog, HistoryTypes, page
    <1>10. CASE UNCHANGED vars
        BY <1>10 DEF vars, HistoryTypes, page, history
    <1> QED
        BY <1>1, <1>2, <1>3, <1>5, <1>6, <1>7, <1>8, <1>9, <1>10 DEF Next, Page, Clear, SendClicked, Worker

(***************************************************************************)
(* The worker and what is in flight.                                       *)
(***************************************************************************)

\* The new worker of SEND has a new job, in a free slot, that nobody cancelled.
LEMMA SendStarts ==
    ASSUME HttpIInv, Send
    PROVE WorkerAgrees' /\ SlotFree' /\ BusyThroughLog'
    <1>1. /\ busy = FALSE /\ worker = "none" /\ job = NoJob /\ completed = NoJob
        BY DEF Send, HttpIInv, WorkerAgrees, HttpInv, HttpTypeOK, FlagTypes
    <1>2. /\ started' = started + 1 /\ ~cancelRequested' /\ completed' = NoJob /\ ui' = "idle"
          /\ UNCHANGED <<cancels, failures>>
        BY <1>1 DEF Send, Launch
    <1>3. started \in Nat
        BY HttpAssumption DEF HttpIInv, HttpInv, HttpTypeOK, JobTypes
    <1>4. \A id \in failures : id # started'
        <2>1. \A id \in failures : id <= started
            BY DEF HttpIInv, JobsApart
        <2>2. \A id \in failures : id \in Nat
            BY DEF HttpIInv, HttpInv, HttpTypeOK, HistoryTypes, Ids
        <2> QED
            BY <1>2, <1>3, <2>1, <2>2
    <1>5. CASE UNCHANGED <<task, busy>>
        BY <1>1, <1>2, <1>5 DEF WorkerAgrees, SlotFree, BusyThroughLog, task
    <1>6. CASE /\ worker' = "perform" /\ busy' = TRUE
               /\ job' = [id |-> started', request |-> form,
                          logged |-> logging /\ sdAvailable,
                          outcome |-> "none", logError |-> FALSE]
        <2>1. job'.id = started' /\ job' # NoJob
            BY <1>6 DEF NoJob
        <2> QED
            BY <1>2, <1>4, <1>6, <2>1 DEF WorkerAgrees, SlotFree, BusyThroughLog
    <1> QED
        BY <1>5, <1>6 DEF Send, Launch

\* Where the worker is keeps saying what is in flight, and the slot stays free for
\* its result.
LEMMA WorkerKept ==
    ASSUME HttpIInv, [Next]_vars
    PROVE WorkerAgrees' /\ SlotFree' /\ BusyThroughLog'
    <1> USE DEF HttpIInv, HttpInv, WorkerAgrees, SlotFree, BusyThroughLog
    <1>1. CASE Show \/ Edit \/ ToggleLog \/ Timer
        <2>1. UNCHANGED <<busy, cancelRequested, worker, job, ui, started, cancels, failures>>
              /\ completed' \in {completed, NoJob}
            BY <1>1 DEF Show, Edit, ToggleLog, Timer, NothingShown, shared, task, history
        <2> QED
            BY <2>1
    <1>2. CASE Cancel \/ Stop
        BY <1>2 DEF Cancel, Stop, Callback, task
    <1>3. CASE ClearBegin \/ ClearBusy \/ ClearIdle
        <2>1. UNCHANGED <<busy, cancelRequested, task, started, cancels, failures>>
              /\ (ui' \in {"send", "clear idle"} => ~busy) /\ completed' \in {completed, NoJob}
            BY <1>3 DEF ClearBegin, ClearBusy, ClearIdle, shared, task, history
        <2> QED
            BY <2>1 DEF task
    <1>4. CASE SendBegin \/ SendShows \/ SendWarns
        BY <1>4 DEF SendBegin, SendShows, SendWarns, shared, task, history
    <1>5. CASE Send
        BY <1>5, SendStarts
    <1>6. CASE Perform
        <2>1. PICK outcome \in Outcomes : job' = [job EXCEPT !.outcome = outcome]
            BY <1>6 DEF Perform
        <2>2. job \in Jobs
            BY <1>6 DEF Perform, HttpTypeOK, JobTypes
        <2>3. job'.id = job.id /\ job' # NoJob
            BY <2>1, <2>2, JobFacts DEF Jobs
        <2> QED
            BY <1>6, <2>3 DEF Perform, shared, history
    <1>7. CASE AppendLog
        <2>1. PICK failed \in {FALSE, job.logged} : job' = [job EXCEPT !.logError = failed]
            BY <1>7 DEF AppendLog
        <2>2. job \in Jobs
            BY <1>7 DEF AppendLog, HttpTypeOK, JobTypes
        <2>3. failed \in BOOLEAN
            BY <2>1, <2>2, JobFacts
        <2>4. job'.id = job.id
            BY <2>1, <2>2 DEF Jobs
        <2>5. job' # NoJob
            BY <2>1, <2>2, <2>3, JobFacts
        <2> QED
            BY <1>7, <2>4, <2>5 DEF AppendLog, shared
    <1>8. CASE Publish
        BY <1>8 DEF Publish
    <1>9. CASE PassTime \/ UNCHANGED vars
        <2>1. UNCHANGED <<busy, cancelRequested, completed, worker, job, ui, started, cancels, failures>>
            BY <1>9 DEF PassTime, vars, shared, task, history
        <2> QED
            BY <2>1
    <1> QED
        BY <1>1, <1>2, <1>3, <1>4, <1>5, <1>6, <1>7, <1>8, <1>9 DEF Next, Page, Clear, SendClicked, Worker

(***************************************************************************)
(* The warning.                                                            *)
(***************************************************************************)

\* The ticks counted since the page was armed are the age of the warning, for the
\* timer disarms before the tick comes round.
LEMMA ElapsedIsAge ==
    ASSUME now \in Ticks, armedAt \in Ticks, NEW age \in Nat, age < TickWidth,
           now = armedAt + age \/ now + TickWidth = armedAt + age
    PROVE Elapsed = age
    <1>1. TickWidth \in Nat /\ now \in Nat /\ armedAt \in Nat /\ TickWidth > 0
        BY HttpAssumption DEF Ticks
    <1>2. CASE now = armedAt + age
        <2>1. now + TickWidth - armedAt = age + TickWidth
            BY <1>1, <1>2
        <2>2. (age + TickWidth) % TickWidth = age
            BY <1>1
        <2> QED
            BY <2>1, <2>2 DEF Elapsed
    <1>3. CASE now + TickWidth = armedAt + age
        <2>1. now + TickWidth - armedAt = age
            BY <1>1, <1>3
        <2>2. age % TickWidth = age
            BY <1>1
        <2> QED
            BY <2>1, <2>2 DEF Elapsed
    <1> QED
        BY <1>2, <1>3

\* A tick that may wrap keeps up with an age that does not.
LEMMA TickCounts ==
    ASSUME NEW width \in Nat, NEW tick \in 0..width - 1, NEW since \in 0..width - 1, NEW age \in Nat, age < width,
           NEW next \in Nat, next = tick + 1 \/ next + width = tick + 1,
           tick = since + age \/ tick + width = since + age
    PROVE next = since + (age + 1) \/ next + width = since + (age + 1)
    OBVIOUS

\* What is known of an armed page: the warning's age, which the tick tells.
LEMMA ArmedFacts ==
    ASSUME HttpTypeOK, ArmedAge, armed
    PROVE /\ warning.age \in Nat /\ warning.age < TickWidth /\ sinceTimer \in Nat
          /\ warning.age <= ConfirmWindow + sinceTimer /\ Elapsed = warning.age
    <1>1. warning.age \in Nat /\ sinceTimer \in 0..TimerGap /\ warning.age <= ConfirmWindow + sinceTimer
        BY HttpAssumption DEF HttpTypeOK, TimeTypes, ArmedAge
    <1>2. warning.age < TickWidth /\ sinceTimer \in Nat
        BY <1>1, HttpAssumption
    <1>3. now \in Ticks /\ armedAt \in Ticks
          /\ (now = armedAt + warning.age \/ now + TickWidth = armedAt + warning.age)
        BY DEF HttpTypeOK, TimeTypes, ArmedAge
    <1>4. Elapsed = warning.age
        BY <1>1, <1>2, <1>3, ElapsedIsAge
    <1> QED
        BY <1>1, <1>2, <1>4

\* The age of the warning stays what the tick tells, until the timer disarms.
LEMMA ArmedKept ==
    ASSUME HttpIInv, [Next]_vars
    PROVE ArmedAge'
    <1>1. CASE Show
        BY <1>1 DEF Show, HttpIInv, ArmedAge, arming
    <1>2. CASE Cancel \/ Stop \/ Edit \/ ClearBegin \/ SendShows \/ Send
        BY <1>2 DEF Cancel, Stop, Edit, ClearBegin, SendShows, Send, Launch, Dismiss, ArmedAge
    <1>3. CASE Timer
        <2>1. SUFFICES ASSUME armed' PROVE ArmedAge'
            BY DEF ArmedAge
        <2>2. armed /\ Elapsed <= ConfirmWindow /\ sinceTimer' = 0
              /\ UNCHANGED <<open, armedFor, armedAt, warning, now>>
            BY <1>3, <2>1 DEF Timer, page
        <2>3. warning.age \in Nat /\ Elapsed = warning.age
            BY <2>2, ArmedFacts DEF HttpIInv, HttpInv
        <2>4. warning.age <= ConfirmWindow + 0
            BY <2>2, <2>3, HttpAssumption
        <2> QED
            BY <2>2, <2>4 DEF HttpIInv, ArmedAge
    <1>4. CASE SendWarns
        <2>1. armed' /\ armedFor' = form /\ armedAt' = now /\ warning' = [for |-> form, age |-> 0]
              /\ UNCHANGED <<open, now, sinceTimer>> /\ open
            BY <1>4 DEF SendWarns, page, clock, HttpIInv, HttpInv, HttpTypeOK, FlagTypes
        <2>2. now \in Nat /\ sinceTimer \in Nat
            BY HttpAssumption DEF HttpIInv, HttpInv, HttpTypeOK, TimeTypes, Ticks
        <2>3. 0 <= ConfirmWindow + sinceTimer /\ now = now + 0
            BY <2>2, HttpAssumption
        <2> QED
            BY <2>1, <2>3 DEF ArmedAge
    <1>5. CASE PassTime
        <2>1. SUFFICES ASSUME armed' PROVE ArmedAge'
            BY DEF ArmedAge
        <2>2. /\ armed /\ now' = (now + 1) % TickWidth /\ sinceTimer' = sinceTimer + 1
              /\ warning' = [warning EXCEPT !.age = IF @ = TickWidth THEN @ ELSE @ + 1]
              /\ UNCHANGED <<open, armedFor, armedAt>>
            BY <1>5, <2>1 DEF PassTime, page
        <2>3. warning.age \in Nat /\ warning.age < TickWidth /\ sinceTimer \in Nat
              /\ warning.age <= ConfirmWindow + sinceTimer
            BY <2>2, ArmedFacts DEF HttpIInv, HttpInv
        <2>4. warning'.age = warning.age + 1 /\ warning'.for = warning.for
            BY <2>2, <2>3 DEF HttpIInv, HttpInv, HttpTypeOK, TimeTypes
        <2>5. now \in 0..TickWidth - 1 /\ armedAt \in 0..TickWidth - 1
            BY DEF HttpIInv, HttpInv, HttpTypeOK, TimeTypes, Ticks
        <2>6. now' = now + 1 \/ now' + TickWidth = now + 1
            <3>1. CASE now + 1 < TickWidth
                BY <3>1, <2>2, <2>5, HttpAssumption
            <3>2. CASE now + 1 = TickWidth
                <4>1. TickWidth % TickWidth = 0
                    BY HttpAssumption
                <4> QED
                    BY <3>2, <4>1, <2>2, <2>5, HttpAssumption
            <3> QED
                BY <3>1, <3>2, <2>5, HttpAssumption
        <2>7. now = armedAt + warning.age \/ now + TickWidth = armedAt + warning.age
            BY <2>2 DEF HttpIInv, ArmedAge
        <2>8. now' = armedAt + warning'.age \/ now' + TickWidth = armedAt + warning'.age
            <3>1. now' \in Nat /\ TickWidth \in Nat
                BY <2>2, <2>5, ClockFacts, HttpAssumption DEF Ticks
            <3>2. now' = armedAt + (warning.age + 1) \/ now' + TickWidth = armedAt + (warning.age + 1)
                <4>1. /\ warning.age \in Nat /\ warning.age < TickWidth
                      /\ now \in 0..TickWidth - 1 /\ armedAt \in 0..TickWidth - 1
                    BY <2>3, <2>5
                <4> HIDE DEF Ticks
                <4> QED
                    BY <3>1, <4>1, <2>6, <2>7, TickCounts, ZenonT(60)
            <3> QED
                BY <2>4, <3>2
        <2>9. warning'.age <= ConfirmWindow + sinceTimer'
            BY <2>2, <2>3, <2>4, HttpAssumption
        <2> QED
            BY <2>2, <2>4, <2>8, <2>9 DEF HttpIInv, ArmedAge
    <1>6. CASE ToggleLog \/ ClearBusy \/ ClearIdle \/ SendBegin \/ Worker \/ UNCHANGED vars
        <2>1. UNCHANGED <<open, armed, armedFor, armedAt, warning, now, sinceTimer>>
            BY <1>6 DEF ToggleLog, ClearBusy, ClearIdle, SendBegin, Worker, Perform, AppendLog, Publish, vars,
                        page, arming, clock
        <2> QED
            BY <2>1 DEF HttpIInv, ArmedAge
    <1> QED
        BY <1>1, <1>2, <1>3, <1>4, <1>5, <1>6 DEF Next, Page, Clear, SendClicked

\* A cleartext request goes out only with its warning, at most five seconds old.
LEMMA SendIsConfirmed ==
    ASSUME HttpIInv, Send, named' \in Plain
    PROVE warning.for = named' /\ warning.age <= ConfirmWindow
    <1>1. named' = form /\ ConfirmationValid(form)
        BY DEF Send, Launch
    <1>2. armed /\ armedFor = form /\ Elapsed <= ConfirmWindow
        BY <1>1 DEF ConfirmationValid
    <1> QED
        BY <1>1, <1>2, ArmedFacts DEF HttpIInv, HttpInv, ArmedAge

(***************************************************************************)
(* What becomes of a job.                                                  *)
(***************************************************************************)

\* A cancellation is reported only of a request that was cancelled.
LEMMA CancelledKept ==
    ASSUME HttpIInv, [Next]_vars
    PROVE CancelledOnRequest'
    <1> USE DEF CancelledOnRequest
    <1>1. /\ job # NoJob => (job.outcome = "cancelled" => job.id \in cancels)
          /\ completed # NoJob => (completed.outcome = "cancelled" => completed.id \in cancels)
          /\ shown # NoJob => (shown.outcome = "cancelled" => shown.id \in cancels)
        BY DEF HttpIInv, HttpInv
    <1>2. CASE Show \/ Timer \/ SendShows
        <2>1. UNCHANGED <<job, cancels>> /\ completed' \in {completed, NoJob} /\ shown' \in {shown, completed, NoJob}
            BY <1>2 DEF Show, Timer, SendShows, ShowResult, NothingShown, task, screen, history
        <2> QED
            BY <1>1, <2>1
    <1>3. CASE Cancel \/ Stop \/ Edit \/ ToggleLog \/ ClearBegin \/ ClearBusy \/ ClearIdle
        <2>1. job' = job /\ cancels \subseteq cancels' /\ completed' \in {completed, NoJob} /\ shown' \in {shown, NoJob}
            BY <1>3 DEF Cancel, Stop, Edit, ToggleLog, ClearBegin, ClearBusy, ClearIdle, shared, task, screen, history
        <2> QED
            BY <1>1, <2>1
    <1>4. CASE SendBegin \/ SendWarns \/ PassTime \/ UNCHANGED vars
        <2>1. UNCHANGED <<job, completed, shown, cancels>>
            BY <1>4 DEF SendBegin, SendWarns, PassTime, vars, shared, task, screen, history
        <2> QED
            BY <1>1, <2>1
    <1>5. CASE Send
        <2>1. /\ completed' = completed /\ shown' = NoJob /\ cancels' = cancels
              /\ job' = job \/ job'.outcome = "none"
            BY <1>5 DEF Send, Launch, task
        <2> QED
            BY <1>1, <2>1
    <1>6. CASE Perform
        <2>1. PICK outcome \in Outcomes : (outcome = "cancelled" => cancelRequested)
                                         /\ job' = [job EXCEPT !.outcome = outcome]
            BY <1>6 DEF Perform
        <2>2. job \in Jobs /\ job.id \in Ids /\ busy
            BY <1>6, JobFacts DEF Perform, HttpIInv, HttpInv, HttpTypeOK, JobTypes, WorkerAgrees
        <2>3. job'.outcome = outcome /\ job'.id = job.id
            BY <2>1, <2>2 DEF Jobs
        <2>4. outcome = "cancelled" => job.id \in cancels
            BY <2>1, <2>2 DEF HttpIInv, WorkerAgrees
        <2>5. UNCHANGED <<completed, shown, cancels>>
            BY <1>6 DEF Perform, shared, screen, history
        <2> QED
            BY <1>1, <2>3, <2>4, <2>5
    <1>7. CASE AppendLog
        <2>1. PICK failed \in {FALSE, job.logged} : job' = [job EXCEPT !.logError = failed]
            BY <1>7 DEF AppendLog
        <2>2. job \in Jobs /\ job # NoJob
            BY <1>7, JobFacts DEF AppendLog, HttpIInv, HttpInv, HttpTypeOK, JobTypes, WorkerAgrees
        <2>3. job'.outcome = job.outcome /\ job'.id = job.id
            BY <2>1, <2>2 DEF Jobs
        <2>4. UNCHANGED <<completed, shown, cancels>>
            BY <1>7 DEF AppendLog, shared, screen
        <2> QED
            BY <1>1, <2>2, <2>3, <2>4
    <1>8. CASE Publish
        <2>1. job' = NoJob /\ completed' = job /\ UNCHANGED <<shown, cancels>>
            BY <1>8 DEF Publish, screen, history
        <2> QED
            BY <1>1, <2>1
    <1> QED
        BY <1>2, <1>3, <1>4, <1>5, <1>6, <1>7, <1>8 DEF Next, Page, Clear, SendClicked, Worker

\* The response area: under its own request, and never what was cleared.
LEMMA ShownKept ==
    ASSUME HttpIInv, [Next]_vars
    PROVE ResultNamesRequest' /\ ClearedStaysAway'
    <1> USE DEF ResultNamesRequest, ClearedStaysAway
    <1>1. /\ shown # NoJob => named = shown.request /\ shown.id \notin cleared
          /\ completed # NoJob => completed.id \notin cleared /\ completed.id # shown.id
        BY DEF HttpIInv, HttpInv, JobsApart
    <1>2. CASE Show
        BY <1>1, <1>2 DEF Show, history
    <1>3. CASE Timer \/ SendShows
        BY <1>1, <1>3 DEF Timer, SendShows, NothingShown, ShowResult, screen, history
    <1>4. CASE Stop \/ ClearBegin \/ Send
        BY <1>4 DEF Stop, ClearBegin, Send, Launch
    <1>5. CASE Cancel \/ Edit \/ ToggleLog \/ ClearBusy \/ SendBegin \/ SendWarns \/ Worker \/ PassTime
               \/ UNCHANGED vars
        <2>1. UNCHANGED <<shown, named, cleared>>
            BY <1>5 DEF Cancel, Edit, ToggleLog, ClearBusy, SendBegin, SendWarns, Worker, Perform, AppendLog,
                        Publish, PassTime, vars, screen, history
        <2> QED
            BY <1>1, <2>1
    <1>6. CASE ClearIdle
        <2>1. shown' = shown /\ shown = NoJob
            BY <1>6 DEF ClearIdle, HttpIInv, JobsApart
        <2> QED
            BY <2>1
    <1> QED
        BY <1>2, <1>3, <1>4, <1>5, <1>6 DEF Next, Page, Clear, SendClicked

\* What CLEAR does to a result that waits: it is dropped, and its log error reported.
LEMMA ClearIdleEffect ==
    ASSUME ClearIdle
    PROVE /\ UNCHANGED <<job, shown, worker, started, cancels, failures>> /\ completed' = NoJob /\ ui' = "idle"
          /\ \A id \in cleared' : id \in cleared \/ (completed # NoJob /\ id = completed.id)
          /\ \A r \in reports' : r \in reports \/ (completed # NoJob /\ completed.logError /\ r.id = completed.id)
    <1>1. UNCHANGED <<job, shown, worker, started, cancels, failures>> /\ completed' = NoJob /\ ui' = "idle"
        BY DEF ClearIdle, task
    <1>2. CASE completed = NoJob
        BY <1>1, <1>2 DEF ClearIdle
    <1>3. CASE completed # NoJob
        <2>1. cleared' = cleared \cup {completed.id}
            BY <1>3 DEF ClearIdle
        <2>2. reports' = IF completed.logError THEN reports \cup {[id |-> completed.id, visit |-> visit]} ELSE reports
            BY <1>3 DEF ClearIdle, ReportLogError
        <2> QED
            BY <1>1, <1>3, <2>1, <2>2
    <1> QED
        BY <1>2, <1>3

\* The jobs stay apart, and what failed, was reported or cleared stays behind.
LEMMA ApartKept ==
    ASSUME HttpIInv, HttpTypeOK', [Next]_vars
    PROVE JobsApart'
    <1>1. /\ job \in Jobs \cup {NoJob} /\ completed \in Jobs \cup {NoJob} /\ shown \in Jobs \cup {NoJob}
          /\ started \in Nat
        BY HttpAssumption DEF HttpIInv, HttpInv, HttpTypeOK, JobTypes
    <1>2. /\ job # NoJob => job.id <= started /\ job.id \notin cleared /\ job.id # shown.id
          /\ completed # NoJob => completed.id <= started /\ completed.id \notin cleared /\ completed.id # shown.id
          /\ shown # NoJob => shown.id <= started /\ shown.id \notin cleared
        BY DEF HttpIInv, JobsApart
    <1>3. /\ \A id \in cancels \cup failures \cup cleared : id <= started
          /\ \A r \in reports : r.id \in failures
          /\ worker = "publish" => (job.id \in failures) = job.logError
          /\ completed # NoJob => (completed.id \in failures) = completed.logError
          /\ ui = "clear idle" => shown = NoJob
        BY DEF HttpIInv, JobsApart
    <1>4. /\ worker # "none" => completed = NoJob
          /\ (worker = "none") = (job = NoJob)
          /\ ui \in {"send", "clear idle"} => job = NoJob
          /\ worker \in {"perform", "log"} => job.id \notin failures
        BY DEF HttpIInv, HttpInv, SlotFree, WorkerAgrees
    <1>5. CASE Show \/ Timer \/ SendShows
        <2>1. /\ UNCHANGED <<job, worker, started, cancels, failures, cleared>>
              /\ \/ completed' = NoJob /\ shown' = completed
                 \/ completed' = completed /\ shown' = shown
              /\ ui' # "clear idle"
              /\ \A r \in reports' : r \in reports \/ (completed # NoJob /\ completed.logError /\ r.id = completed.id)
            <3>1. CASE Show
                <4>1. UNCHANGED <<job, worker, ui, started, cancels, failures, cleared>> /\ ui = "idle"
                      /\ completed' = NoJob /\ shown' = completed
                    BY <3>1 DEF Show, task, history, HttpIInv, HttpInv, HttpTypeOK, FlagTypes
                <4>2. \/ reports' = reports
                      \/ /\ completed # NoJob /\ completed.logError
                         /\ reports' = reports \cup {[id |-> completed.id, visit |-> visit']}
                    BY <3>1 DEF Show
                <4> QED
                    BY <4>1, <4>2
            <3>2. CASE Timer
                BY <3>2 DEF Timer, NothingShown, ShowResult, ReportLogError, Callback, task, screen, log, history
            <3>3. CASE SendShows
                BY <3>3 DEF SendShows, ShowResult, ReportLogError, task, history
            <3> QED
                BY <1>5, <3>1, <3>2, <3>3
        <2>2. \A r \in reports' : r.id \in failures'
            BY <1>3, <2>1
        <2>3. job # NoJob => completed = NoJob /\ job.id # 0
            BY <1>1, <1>4, JobFacts
        <2>4. shown' # NoJob => shown'.id <= started /\ shown'.id \notin cleared
            BY <1>2, <2>1
        <2>5. /\ job' # NoJob => job'.id # shown'.id
              /\ completed' # NoJob => completed'.id # shown'.id
            BY <1>2, <2>1, <2>3, JobFacts
        <2> QED
            BY <1>2, <1>3, <2>1, <2>2, <2>4, <2>5 DEF JobsApart
    <1>6. CASE Cancel \/ Stop
        <2>1. /\ UNCHANGED <<job, completed, worker, started, failures, cleared, reports>> /\ ui' = "idle"
              /\ cancels' \subseteq cancels \cup {started} /\ shown' \in {shown, NoJob}
            BY <1>6 DEF Cancel, Stop, Callback, task, screen
        <2>2. started <= started
            BY <1>1
        <2>3. /\ job # NoJob => job.id # 0
              /\ completed # NoJob => completed.id # 0
            BY <1>1, JobFacts
        <2>4. /\ job' # NoJob => job'.id # shown'.id
              /\ completed' # NoJob => completed'.id # shown'.id
            BY <1>2, <2>1, <2>3, JobFacts
        <2> QED
            BY <1>2, <1>3, <2>1, <2>2, <2>4 DEF JobsApart
    <1>7. CASE Edit \/ ToggleLog \/ ClearBusy \/ SendBegin \/ SendWarns \/ PassTime \/ UNCHANGED vars
        <2>1. /\ UNCHANGED <<job, completed, shown, worker, started, cancels, failures, cleared, reports>>
              /\ ui' = ui \/ ui' # "clear idle"
            BY <1>7 DEF Edit, ToggleLog, ClearBusy, SendBegin, SendWarns, PassTime, Callback, vars,
                        shared, task, screen, history
        <2> QED
            BY <1>2, <1>3, <2>1 DEF JobsApart
    <1>8. CASE ClearBegin
        <2>1. /\ UNCHANGED <<job, completed, worker, started, cancels, failures, reports>> /\ shown' = NoJob
              /\ \A id \in cleared' : id \in cleared \/ (shown # NoJob /\ id = shown.id)
            BY <1>8 DEF ClearBegin, shared, task
        <2>2. /\ job # NoJob => job.id # 0
              /\ completed # NoJob => completed.id # 0
            BY <1>1, JobFacts
        <2>3. \A id \in cleared' : id <= started
            BY <1>2, <1>3, <2>1
        <2> QED
            BY <1>2, <1>3, <2>1, <2>2, <2>3, JobFacts DEF JobsApart
    <1>9. CASE ClearIdle
        <2>1. /\ UNCHANGED <<job, shown, worker, started, cancels, failures>> /\ completed' = NoJob /\ ui' = "idle"
              /\ \A id \in cleared' : id \in cleared \/ (completed # NoJob /\ id = completed.id)
              /\ \A r \in reports' : r \in reports \/ (completed # NoJob /\ completed.logError /\ r.id = completed.id)
            BY <1>9, ClearIdleEffect
        <2>2. job = NoJob /\ shown = NoJob
            BY <1>9, <1>3, <1>4 DEF ClearIdle
        <2>3. \A r \in reports' : r.id \in failures'
            BY <1>3, <2>1
        <2>4. \A id \in cleared' : id <= started
            BY <1>2, <1>3, <2>1
        <2>5. worker' # "publish"
            BY <2>1, <2>2, <1>4
        <2> QED
            BY <1>3, <2>1, <2>2, <2>3, <2>4, <2>5 DEF JobsApart
    <1>10. CASE Send
        <2>1. /\ started' = started + 1 /\ completed' = NoJob /\ shown' = NoJob /\ ui' = "idle"
              /\ UNCHANGED <<cancels, failures, reports, cleared>>
              /\ \/ worker' = "perform" /\ job'.id = started'
                 \/ worker' = worker /\ job' = job
            BY <1>10 DEF Send, Launch, task
        <2>2. job = NoJob /\ worker = "none"
            BY <1>4, <1>10 DEF Send
        <2>3. \A id \in cancels \cup failures \cup cleared : id \in Nat /\ id <= started
            <3>1. \A id \in cancels \cup failures \cup cleared : id \in Nat
                BY DEF HttpIInv, HttpInv, HttpTypeOK, HistoryTypes, Ids
            <3> QED
                BY <3>1, <1>3
        <2>4. \A id \in cancels \cup failures \cup cleared : id <= started' /\ id # started'
            BY <1>1, <2>1, <2>3
        <2>5. started' <= started' /\ started' # 0
            BY <1>1, <2>1
        <2> QED
            BY <1>3, <2>1, <2>2, <2>4, <2>5, JobFacts DEF JobsApart
    <1>11. CASE Perform
        <2>1. PICK outcome \in Outcomes : job' = [job EXCEPT !.outcome = outcome]
            BY <1>11 DEF Perform
        <2>2. job \in Jobs /\ job # NoJob /\ completed = NoJob
            BY <1>1, <1>4, <1>11, JobFacts DEF Perform
        <2>3. job'.id = job.id
            BY <2>1, <2>2 DEF Jobs
        <2>4. UNCHANGED <<completed, shown, started, cancels, failures, cleared, reports, ui>> /\ worker' = "log"
            BY <1>11 DEF Perform, shared, screen, history
        <2> QED
            BY <1>2, <1>3, <2>2, <2>3, <2>4 DEF JobsApart
    <1>12. CASE AppendLog
        <2>1. PICK failed \in {FALSE, job.logged} :
                 /\ job' = [job EXCEPT !.logError = failed]
                 /\ failures' = IF failed THEN failures \cup {job.id} ELSE failures
            BY <1>12 DEF AppendLog
        <2>2. job \in Jobs /\ job # NoJob /\ completed = NoJob /\ job.id \notin failures
            BY <1>1, <1>4, <1>12, JobFacts DEF AppendLog
        <2>3. job'.id = job.id /\ job'.logError = failed /\ failed \in BOOLEAN
            BY <2>1, <2>2 DEF Jobs
        <2>4. UNCHANGED <<completed, shown, started, cancels, cleared, reports, ui>> /\ worker' = "publish"
            BY <1>12 DEF AppendLog, shared, screen
        <2>5. (job'.id \in failures') = job'.logError
            BY <2>1, <2>2, <2>3
        <2>6. /\ \A id \in failures' : id <= started
              /\ \A r \in reports' : r.id \in failures'
            BY <1>2, <1>3, <2>1, <2>2, <2>4
        <2> QED
            BY <1>2, <1>3, <2>2, <2>3, <2>4, <2>5, <2>6 DEF JobsApart
    <1>13. CASE Publish
        <2>1. /\ job' = NoJob /\ completed' = job /\ worker = "publish" /\ worker' = "none"
              /\ UNCHANGED <<shown, started, cancels, failures, cleared, reports, ui>>
            BY <1>13 DEF Publish, screen, history
        <2> QED
            BY <1>2, <1>3, <2>1 DEF JobsApart
    <1> QED
        BY <1>5, <1>6, <1>7, <1>8, <1>9, <1>10, <1>11, <1>12, <1>13 DEF Next, Page, Clear, SendClicked, Worker

(***************************************************************************)
(* Log errors.                                                             *)
(***************************************************************************)

\* Where nothing fails and nothing is reported, a job that failed may only move
\* from the worker to the slot.
LEMMA ReportsKept ==
    ASSUME LogErrorReported, UNCHANGED <<failures, reports>>,
           \A id \in failures : id \in {job'.id, completed'.id} <=> id \in {job.id, completed.id}
    PROVE LogErrorReported'
    <1> SUFFICES ASSUME NEW id \in failures
                 PROVE IF id \in {job'.id, completed'.id} THEN \A r \in reports : r.id # id
                       ELSE Cardinality({r \in reports : r.id = id}) = 1
        BY DEF LogErrorReported
    <1> QED
        BY DEF LogErrorReported

\* The job that waits is taken out of the slot, and its error, if any, reported: once.
LEMMA ReportOnTaking ==
    ASSUME HttpIInv, completed # NoJob, completed' = NoJob, UNCHANGED <<job, failures>>, NEW v,
           reports' = IF completed.logError THEN reports \cup {[id |-> completed.id, visit |-> v]} ELSE reports
    PROVE LogErrorReported'
    <1> DEFINE new == [id |-> completed.id, visit |-> v]
               ReportsOf(id) == {r \in reports : r.id = id}
    <1>1. job = NoJob /\ completed.id \in Ids /\ (completed.id \in failures) = completed.logError
        BY JobFacts DEF HttpIInv, HttpInv, SlotFree, WorkerAgrees, JobsApart, HttpTypeOK, JobTypes
    <1>2. \A id \in failures : id # 0
        BY JobFacts DEF HttpIInv, HttpInv, HttpTypeOK, HistoryTypes
    <1>3. SUFFICES ASSUME NEW id \in failures
                   PROVE Cardinality({r \in reports' : r.id = id}) = 1
        <2>1. \A id \in failures : id \notin {job'.id, completed'.id}
            BY <1>1, <1>2, JobFacts
        <2> QED
            BY <1>3, <2>1 DEF LogErrorReported
    <1>4. CASE id = completed.id
        <2>1. completed.logError /\ \A r \in reports : r.id # id
            BY <1>1, <1>4 DEF HttpIInv, HttpInv, LogErrorReported
        <2>2. reports' = reports \cup {new} /\ new.id = id
            BY <1>4, <2>1
        <2>3. {r \in reports' : r.id = id} = {new}
            BY <2>1, <2>2
        <2> QED
            BY <2>3, FS_Singleton
    <1>5. CASE id # completed.id
        <2>1. Cardinality(ReportsOf(id)) = 1
            BY <1>1, <1>2, <1>5, JobFacts DEF HttpIInv, HttpInv, LogErrorReported
        <2>2. reports' = reports \/ (reports' = reports \cup {new} /\ new.id # id)
            BY <1>5
        <2>3. {r \in reports' : r.id = id} = ReportsOf(id)
            BY <2>2
        <2> QED
            BY <2>1, <2>3
    <1> QED
        BY <1>4, <1>5

\* Every error of the log is reported once, or its job is still on its way.
LEMMA LogErrorsKept ==
    ASSUME HttpIInv, [Next]_vars
    PROVE LogErrorReported'
    <1>1. LogErrorReported /\ \A id \in failures : id # 0
        BY JobFacts DEF HttpIInv, HttpInv, HttpTypeOK, HistoryTypes
    <1>2. CASE Show \/ Timer \/ SendShows \/ ClearIdle
        <2>1. completed' = NoJob /\ UNCHANGED <<job, failures>>
            BY <1>2 DEF Show, Timer, SendShows, ClearIdle, NothingShown, task, history
        <2>2. CASE completed = NoJob
            <3>1. reports' = reports
                BY <1>2, <2>2 DEF Show, Timer, SendShows, ClearIdle, NothingShown
            <3> QED
                BY <1>1, <2>1, <2>2, <3>1, ReportsKept
        <2>3. CASE completed # NoJob
            <3>1. \/ reports' = IF completed.logError THEN reports \cup {[id |-> completed.id, visit |-> visit]}
                                ELSE reports
                  \/ reports' = IF completed.logError THEN reports \cup {[id |-> completed.id, visit |-> visit']}
                                ELSE reports
                BY <1>2, <2>3 DEF Show, Timer, SendShows, ClearIdle, ShowResult, ReportLogError
            <3> QED
                BY <2>1, <2>3, <3>1, ReportOnTaking
        <2> QED
            BY <2>2, <2>3
    <1>3. CASE Cancel \/ Stop \/ Edit \/ ToggleLog \/ ClearBegin \/ ClearBusy \/ SendBegin \/ SendWarns
               \/ PassTime \/ UNCHANGED vars
        <2>1. UNCHANGED <<job, completed, failures, reports>>
            BY <1>3 DEF Cancel, Stop, Edit, ToggleLog, ClearBegin, ClearBusy, SendBegin, SendWarns, PassTime,
                        vars, shared, task, history
        <2> QED
            BY <1>1, <2>1, ReportsKept
    <1>4. CASE Send
        <2>1. /\ UNCHANGED <<completed, failures, reports>> /\ started' = started + 1
              /\ job'.id = started' \/ job' = job
            BY <1>4 DEF Send, Launch, task
        <2>2. job = NoJob
            BY <1>4 DEF Send, HttpIInv, WorkerAgrees
        <2>3. \A id \in failures : id # started'
            <3>1. \A id \in failures : id \in Nat /\ id <= started
                <4>1. \A id \in failures : id \in Nat
                    BY DEF HttpIInv, HttpInv, HttpTypeOK, HistoryTypes, Ids
                <4> QED
                    BY <4>1 DEF HttpIInv, JobsApart
            <3>2. started \in Nat
                BY HttpAssumption DEF HttpIInv, HttpInv, HttpTypeOK, JobTypes
            <3> QED
                BY <2>1, <3>1, <3>2
        <2>4. \A id \in failures : id \in {job'.id, completed'.id} <=> id \in {job.id, completed.id}
            BY <1>1, <2>1, <2>2, <2>3, JobFacts
        <2> QED
            BY <1>1, <2>1, <2>4, ReportsKept
    <1>5. CASE Perform
        <2>1. PICK outcome \in Outcomes : job' = [job EXCEPT !.outcome = outcome]
            BY <1>5 DEF Perform
        <2>2. job \in Jobs
            BY <1>5 DEF Perform, HttpIInv, HttpInv, HttpTypeOK, JobTypes, WorkerAgrees
        <2>3. job'.id = job.id
            BY <2>1, <2>2 DEF Jobs
        <2>4. UNCHANGED <<completed, failures, reports>>
            BY <1>5 DEF Perform, shared, history
        <2> QED
            BY <1>1, <2>3, <2>4, ReportsKept
    <1>6. CASE AppendLog
        <2>1. PICK failed \in {FALSE, job.logged} :
                 /\ job' = [job EXCEPT !.logError = failed]
                 /\ failures' = IF failed THEN failures \cup {job.id} ELSE failures
            BY <1>6 DEF AppendLog
        <2>2. job \in Jobs /\ job.id \notin failures /\ UNCHANGED <<completed, reports>>
            BY <1>6 DEF AppendLog, HttpIInv, HttpInv, HttpTypeOK, JobTypes, WorkerAgrees, shared
        <2>3. job'.id = job.id
            BY <2>1, <2>2 DEF Jobs
        <2>4. \A r \in reports : r.id # job.id
            BY <2>2 DEF HttpIInv, JobsApart
        <2>5. SUFFICES ASSUME NEW id \in failures'
                       PROVE IF id \in {job.id, completed.id} THEN \A r \in reports : r.id # id
                             ELSE Cardinality({r \in reports : r.id = id}) = 1
            BY <2>2, <2>3, <2>5 DEF LogErrorReported
        <2>6. id \in failures \/ id = job.id
            BY <2>1
        <2> QED
            BY <1>1, <2>4, <2>6 DEF LogErrorReported
    <1>7. CASE Publish
        <2>1. job' = NoJob /\ completed' = job /\ UNCHANGED <<failures, reports>>
            BY <1>7 DEF Publish, history
        <2>2. completed = NoJob
            BY <1>7 DEF Publish, HttpIInv, HttpInv, SlotFree
        <2>3. \A id \in failures : id \in {job'.id, completed'.id} <=> id \in {job.id, completed.id}
            BY <2>1, <2>2
        <2> QED
            BY <1>1, <2>1, <2>3, ReportsKept
    <1> QED
        BY <1>2, <1>3, <1>4, <1>5, <1>6, <1>7 DEF Next, Page, Clear, SendClicked, Worker

(***************************************************************************)
(* The theorems.                                                           *)
(***************************************************************************)

LEMMA HttpInit == Init => HttpIInv
    <1> SUFFICES ASSUME Init PROVE HttpIInv
        OBVIOUS
    <1> USE DEF Init
    <1>1. FlagTypes /\ HistoryTypes
        <2>1. 0 \in 0..MaxVisits
            BY HttpAssumption
        <2> QED
            BY <2>1 DEF FlagTypes, HistoryTypes
    <1>2. JobTypes
        <2>1. 0 \in 0..MaxRequests
            BY HttpAssumption
        <2> QED
            BY <2>1 DEF JobTypes
    <1>3. TimeTypes
        BY ClockFacts DEF TimeTypes, NoWarning
    <1>4. SlotFree /\ BusyThroughLog /\ ResultNamesRequest /\ LogErrorReported /\ CancelledOnRequest
          /\ ClearedStaysAway
        BY DEF SlotFree, BusyThroughLog, ResultNamesRequest, LogErrorReported, CancelledOnRequest, ClearedStaysAway
    <1>5. WorkerAgrees /\ JobsApart /\ ArmedAge
        BY DEF WorkerAgrees, JobsApart, ArmedAge
    <1> QED
        BY <1>1, <1>2, <1>3, <1>4, <1>5 DEF HttpIInv, HttpInv, HttpTypeOK

LEMMA HttpStep == HttpIInv /\ [Next]_vars => HttpIInv'
    <1> SUFFICES ASSUME HttpIInv, [Next]_vars PROVE HttpIInv'
        OBVIOUS
    <1>1. HttpTypeOK /\ WorkerAgrees
        BY DEF HttpIInv, HttpInv
    <1>2. HttpTypeOK'
        BY <1>1, FlagsKept, JobsKept, TimesKept, HistoryKept DEF HttpTypeOK
    <1>3. WorkerAgrees' /\ SlotFree' /\ BusyThroughLog'
        BY WorkerKept
    <1>4. CancelledOnRequest' /\ ResultNamesRequest' /\ ClearedStaysAway'
        BY CancelledKept, ShownKept
    <1>5. LogErrorReported' /\ ArmedAge'
        BY LogErrorsKept, ArmedKept
    <1>6. JobsApart'
        BY <1>2, ApartKept
    <1> QED
        BY <1>2, <1>3, <1>4, <1>5, <1>6 DEF HttpIInv, HttpInv

\* The console's bookkeeping holds however callbacks and worker interleave, for any
\* number of requests and visits: one worker with a free slot for its result, busy
\* until its log is closed, a response under its own request and gone once cleared,
\* log errors reported once, cancellations kept to their request.
THEOREM HttpConsoleAgrees == Spec => []HttpInv
    <1>1. Spec => []HttpIInv
        BY HttpInit, HttpStep, PTL DEF Spec
    <1>2. HttpIInv => HttpInv
        BY DEF HttpIInv
    <1> QED
        BY <1>1, <1>2, PTL

\* A request goes out in clear text only after a warning about that very request, not
\* older than five seconds and not dismissed since, for every width of the tick that
\* exceeds the window by more than the timer can be late.
THEOREM ClearTextIsConfirmed == Spec => ClearTextConfirmed
    <1>1. HttpIInv /\ [Next]_vars => [started' # started /\ named' \in Plain =>
              warning.for = named' /\ warning.age <= ConfirmWindow]_vars
        <2> SUFFICES ASSUME HttpIInv, [Next]_vars, started' # started, named' \in Plain
                     PROVE warning.for = named' /\ warning.age <= ConfirmWindow
            OBVIOUS
        <2>1. Send
            BY DEF Next, Page, Show, Cancel, Stop, Edit, ToggleLog, Timer, Clear, ClearBegin, ClearBusy, ClearIdle,
                   SendClicked, SendBegin, SendShows, SendWarns, Worker, Perform, AppendLog, Publish, PassTime,
                   vars, history
        <2> QED
            BY <2>1, SendIsConfirmed
    <1>2. Spec => []HttpIInv
        BY HttpInit, HttpStep, PTL DEF Spec
    <1> QED
        BY <1>1, <1>2, PTL DEF Spec, ClearTextConfirmed
=============================================================================
