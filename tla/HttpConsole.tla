------------------------------ MODULE HttpConsole ------------------------------
(***************************************************************************)
(* The HTTP console (main/http_tool.c): one page of the LVGL task and one  *)
(* worker task per request, joined by three variables under http_lock.     *)
(*                                                                         *)
(* The LVGL task runs the callbacks of the page one after the other; the   *)
(* worker takes its steps in between.  A callback that looks at the worker *)
(* twice (send_clicked, clear_clicked) is two steps here.  A callback that *)
(* returns early with a message only is a stuttering step and is not       *)
(* written down: a form that does not parse, an allocation that fails.     *)
(*                                                                         *)
(* The transport is reduced to how an exchange can end.  Time is the       *)
(* wrapping LVGL tick, counted in units of which ConfirmWindow make the    *)
(* five seconds of HTTP_CONFIRM_MS.                                        *)
(*                                                                         *)
(* ForgetfulConfirmation and CarelessClear are wrong variants, used by the *)
(* mutants only.                                                           *)
(***************************************************************************)
EXTENDS Naturals, FiniteSets

CONSTANTS
    Plain,          \* requests with an http: URL
    Secure,         \* requests with an https: URL
    ConfirmWindow,  \* HTTP_CONFIRM_MS
    TickWidth,      \* the LVGL tick counts modulo this
    TimerGap,       \* longest time between two runs of the page's LVGL timer
    MaxRequests,    \* bound: requests started
    MaxVisits       \* bound: times the page is opened

ASSUME HttpAssumption ==
    /\ Plain \cap Secure = {}
    /\ {ConfirmWindow, TimerGap, MaxRequests, MaxVisits} \subseteq Nat \ {0}
    /\ TickWidth \in Nat /\ ConfirmWindow + TimerGap < TickWidth

Requests == Plain \cup Secure
Ids == 1..MaxRequests
Ticks == 0..TickWidth - 1

\* http_job_t: the form as it was at SEND, and what came of it.
Outcomes == {"none", "complete", "failed", "deadline", "cancelled"}
Jobs == [id : Ids, request : Requests, logged : BOOLEAN,
         outcome : Outcomes, logError : BOOLEAN]
NoJob == [id |-> 0]
NoRequest == "no request"
NoWarning == [for |-> NoRequest, age |-> 0]

VARIABLES
    busy, cancelRequested, completed,   \* under http_lock
    worker, job,                        \* the worker task and the job it holds
    open, visit,                        \* the page is shown; how often it was
    connected, sdAvailable, logging,    \* screen_connected, screen_sd_available, logging_enabled
    form, ui,                           \* text of the page; callback in progress
    armed, armedFor, armedAt,           \* cleartext_*
    now, sinceTimer,                    \* LVGL tick; time since http_tick ran
    named, shown                        \* request_label; job in response area and status

\* What happened, for the properties only.
VARIABLES
    started,    \* requests started so far
    cancels,    \* ids that were in flight when Cancel or Home came
    failures,   \* ids whose log could not be written
    reports,    \* ids whose log error was reported, with the visit it fell in
    cleared,    \* ids whose waiting or visible result was cleared
    warning     \* the warning about cleartext that nothing dismissed, and its age

shared == <<busy, cancelRequested, completed>>
task == <<worker, job>>
page == <<open, visit, connected, form>>
log == <<sdAvailable, logging>>
arming == <<armed, armedFor, armedAt, warning>>
clock == <<now, sinceTimer>>
screen == <<named, shown>>
history == <<started, cancels, failures, cleared>>
vars == <<shared, task, page, log, arming, clock, screen, history, reports, ui>>

Init ==
    /\ busy = FALSE /\ cancelRequested = FALSE /\ completed = NoJob
    /\ worker = "none" /\ job = NoJob
    /\ open = FALSE /\ visit = 0 /\ connected = FALSE /\ form \in Requests /\ ui = "idle"
    /\ sdAvailable = FALSE /\ logging = FALSE
    /\ armed = FALSE /\ armedFor = NoRequest /\ armedAt = 0
    /\ now = 0 /\ sinceTimer = 0
    /\ named = NoRequest /\ shown = NoJob
    /\ started = 0 /\ cancels = {} /\ failures = {} /\ reports = {} /\ cleared = {}
    /\ warning = NoWarning

--------------------------------------------------------------------------------
(* Helpers of the callbacks.                                               *)

\* The callback of a page that is shown, with no other callback in progress.
Callback == open /\ ui = "idle"

\* Every gesture that dismisses the warning leaves the page unarmed.
Dismiss ==
    /\ armed' = FALSE
    /\ warning' = NoWarning
    /\ UNCHANGED <<armedFor, armedAt>>

\* confirmation_valid(): armed, for exactly this request, and recent.  The hash of
\* a request is taken to be the request itself.
Elapsed == (now + TickWidth - armedAt) % TickWidth
ForgetfulConfirmation(request) == armed /\ armedFor = request
ConfirmationValid(request) ==
    /\ armed /\ armedFor = request
    /\ Elapsed <= ConfirmWindow

\* report_log_error(): logging ends for this visit and the storage callback hears of it.
ReportLogError(j) ==
    /\ logging' = (logging /\ ~j.logError)
    /\ sdAvailable' = (sdAvailable /\ ~j.logError)
    /\ reports' = IF j.logError THEN reports \cup {[id |-> j.id, visit |-> visit]} ELSE reports

\* show_result(): name the request, show what came of it, report the log error.
ShowResult(j) == shown' = j /\ named' = j.request /\ ReportLogError(j)

\* take_completed_job() where nothing is waiting.
NothingShown == UNCHANGED <<completed, screen, log, reports>>

--------------------------------------------------------------------------------
(* The page.                                                               *)

\* http_tool_show(): logging starts off, the labels are new; the timer runs once.
Show ==
    /\ ~open /\ visit < MaxVisits
    /\ open' = TRUE /\ visit' = visit + 1
    /\ connected' \in BOOLEAN /\ form' \in Requests
    /\ \E sd \in BOOLEAN :
        /\ completed' = NoJob
        /\ logging' = FALSE
        /\ sdAvailable' = (sd /\ ~(completed # NoJob /\ completed.logError))
        /\ IF completed = NoJob
           THEN named' = NoRequest /\ shown' = NoJob /\ UNCHANGED reports
           ELSE /\ named' = completed.request /\ shown' = completed
                /\ reports' = IF completed.logError
                              THEN reports \cup {[id |-> completed.id, visit |-> visit']}
                              ELSE reports
    /\ sinceTimer' = 0
    /\ UNCHANGED <<busy, cancelRequested, task, ui, arming, now, history>>

\* cancel_clicked(): ask the request in flight to stop, and only that one.
Cancel ==
    /\ Callback
    /\ cancelRequested' = (cancelRequested \/ busy)
    /\ cancels' = IF busy THEN cancels \cup {started} ELSE cancels
    /\ Dismiss
    /\ UNCHANGED <<busy, completed, task, page, ui, log, clock, screen,
                   started, failures, reports, cleared>>

\* http_tool_stop(): Cancel, and the page is gone with its timer and callback.
Stop ==
    /\ Callback
    /\ cancelRequested' = (cancelRequested \/ busy)
    /\ cancels' = IF busy THEN cancels \cup {started} ELSE cancels
    /\ Dismiss
    /\ open' = FALSE /\ named' = NoRequest /\ shown' = NoJob
    /\ UNCHANGED <<busy, completed, task, visit, connected, form, ui, log, clock,
                   started, failures, reports, cleared>>

\* textarea_event() and method_clicked(): any touch of the form dismisses the warning.
Edit ==
    /\ Callback
    /\ form' \in Requests
    /\ Dismiss
    /\ UNCHANGED <<shared, task, open, visit, connected, ui, log, clock, screen,
                   history, reports>>

\* log_clicked()
ToggleLog ==
    /\ Callback /\ sdAvailable
    /\ logging' = ~logging
    /\ UNCHANGED <<shared, task, page, ui, sdAvailable, arming, clock, screen,
                   history, reports>>

\* http_tick(): an old confirmation expires, a result that waits is shown.
Timer ==
    /\ Callback
    /\ sinceTimer' = 0 /\ UNCHANGED now
    /\ armed' = (armed /\ Elapsed <= ConfirmWindow)
    /\ IF completed = NoJob THEN NothingShown
       ELSE ShowResult(completed) /\ completed' = NoJob
    /\ UNCHANGED <<busy, cancelRequested, task, page, ui, armedFor, armedAt, warning, history>>

\* clear_clicked(), up to http_tool_busy(): the preview is emptied.
ClearBegin ==
    /\ Callback
    /\ Dismiss
    /\ shown' = NoJob
    /\ cleared' = IF shown # NoJob THEN cleared \cup {shown.id} ELSE cleared
    /\ ui' = IF busy THEN "clear busy" ELSE "clear idle"
    /\ UNCHANGED <<shared, task, page, log, clock, named, started, cancels, failures, reports>>

\* ... a request is still in flight: its result will be shown.
ClearBusy ==
    /\ ui = "clear busy" /\ ui' = "idle"
    /\ UNCHANGED <<shared, task, page, log, arming, clock, screen, history, reports>>

\* ... none is: a result that waits is dropped, the error of its log is not.
CarelessClear ==
    /\ ui = "clear idle" /\ ui' = "idle"
    /\ completed' = NoJob
    /\ cleared' = IF completed # NoJob THEN cleared \cup {completed.id} ELSE cleared
    /\ named' = NoRequest
    /\ UNCHANGED <<busy, cancelRequested, task, page, log, arming, clock, shown,
                   started, cancels, failures, reports>>
ClearIdle ==
    /\ ui = "clear idle" /\ ui' = "idle"
    /\ completed' = NoJob
    /\ IF completed = NoJob THEN UNCHANGED <<log, reports, cleared>>
       ELSE ReportLogError(completed) /\ cleared' = cleared \cup {completed.id}
    /\ named' = NoRequest
    /\ UNCHANGED <<busy, cancelRequested, task, page, arming, clock, shown,
                   started, cancels, failures>>

--------------------------------------------------------------------------------
(* SEND.                                                                   *)

\* send_clicked(), up to http_tool_busy(): nothing happens while a request is in flight.
SendBegin ==
    /\ Callback /\ connected /\ ~busy
    /\ ui' = "send"
    /\ UNCHANGED <<shared, task, page, log, arming, clock, screen, history, reports>>

\* ... a result that waits is shown instead of sending anything.
SendShows ==
    /\ ui = "send" /\ ui' = "idle" /\ completed # NoJob
    /\ Dismiss
    /\ ShowResult(completed) /\ completed' = NoJob
    /\ UNCHANGED <<busy, cancelRequested, task, page, clock, history>>

\* ... cleartext is sent only when this very request was confirmed: warn, and arm.
SendWarns ==
    /\ ui = "send" /\ ui' = "idle" /\ completed = NoJob
    /\ form \in Plain /\ ~ConfirmationValid(form)
    /\ armed' = TRUE /\ armedFor' = form /\ armedAt' = now
    /\ warning' = [for |-> form, age |-> 0]
    /\ UNCHANGED <<shared, task, page, log, clock, screen, history, reports>>

\* ... the request is in flight from here on; the worker may fail to start.
Launch(resetCancel) ==
    /\ form \in Plain => ConfirmationValid(form)
    /\ started < MaxRequests
    /\ Dismiss
    /\ started' = started + 1
    /\ cancelRequested' = (cancelRequested /\ ~resetCancel)
    /\ named' = form /\ shown' = NoJob
    /\ \/ /\ worker' = "perform" /\ busy' = TRUE
          /\ job' = [id |-> started', request |-> form,
                     logged |-> logging /\ sdAvailable,
                     outcome |-> "none", logError |-> FALSE]
       \/ UNCHANGED <<task, busy>>
    /\ UNCHANGED <<completed, page, log, clock, cancels, failures, reports, cleared>>
Send == ui = "send" /\ ui' = "idle" /\ completed = NoJob /\ Launch(TRUE)

--------------------------------------------------------------------------------
(* The worker.                                                             *)

\* perform_request(), the exchange: it may be cancelled only while that is asked for,
\* and may end otherwise although it is.
Perform ==
    /\ worker = "perform" /\ worker' = "log"
    /\ \E outcome \in Outcomes \ {"none"} :
        /\ outcome = "cancelled" => cancelRequested
        /\ job' = [job EXCEPT !.outcome = outcome]
    /\ UNCHANGED <<shared, page, ui, log, arming, clock, screen, history, reports>>

\* ... and append_log(): the row is written, synced and closed, or an error is kept.
AppendLog ==
    /\ worker = "log" /\ worker' = "publish"
    /\ \E failed \in {FALSE, job.logged} :
        /\ job' = [job EXCEPT !.logError = failed]
        /\ failures' = IF failed THEN failures \cup {job.id} ELSE failures
    /\ UNCHANGED <<shared, page, ui, log, arming, clock, screen,
                   started, cancels, reports, cleared>>

\* http_worker(): the result is published and the request over in one critical section.
Publish ==
    /\ worker = "publish" /\ worker' = "none"
    /\ completed' = job /\ job' = NoJob
    /\ busy' = FALSE
    /\ UNCHANGED <<cancelRequested, page, ui, log, arming, clock, screen, history, reports>>

\* Time passes, but never so much that the page's timer would be overdue.  It is
\* followed only while a confirmation is armed: nothing else looks at it.  The age
\* of the warning does not wrap; it stops at its bound.
PassTime ==
    /\ ui = "idle" /\ warning # NoWarning
    /\ sinceTimer < TimerGap
    /\ now' = (now + 1) % TickWidth
    /\ sinceTimer' = sinceTimer + 1
    /\ warning' = [warning EXCEPT !.age = IF @ = TickWidth THEN @ ELSE @ + 1]
    /\ UNCHANGED <<shared, task, page, ui, log, armed, armedFor, armedAt, screen, history, reports>>

Page == Show \/ Cancel \/ Stop \/ Edit \/ ToggleLog \/ Timer
Clear == ClearBegin \/ ClearBusy \/ ClearIdle
SendClicked == SendBegin \/ SendShows \/ SendWarns \/ Send
Worker == Perform \/ AppendLog \/ Publish
Next == Page \/ Clear \/ SendClicked \/ Worker \/ PassTime

\* A task that was started runs; the exchange ends because the transport has a deadline.
Spec == Init /\ [][Next]_vars /\ WF_vars(Worker)

--------------------------------------------------------------------------------
(* Properties.                                                             *)

\* Types of all variables: flags and places, jobs, times, and what has happened.
FlagTypes ==
    /\ busy \in BOOLEAN /\ cancelRequested \in BOOLEAN /\ open \in BOOLEAN /\ connected \in BOOLEAN
    /\ sdAvailable \in BOOLEAN /\ logging \in BOOLEAN /\ armed \in BOOLEAN
    /\ worker \in {"none", "perform", "log", "publish"}
    /\ ui \in {"idle", "send", "clear busy", "clear idle"} /\ (ui # "idle" => open)
JobTypes ==
    /\ completed \in Jobs \cup {NoJob} /\ job \in Jobs \cup {NoJob} /\ shown \in Jobs \cup {NoJob}
    /\ started \in 0..MaxRequests
    /\ form \in Requests /\ named \in Requests \cup {NoRequest} /\ armedFor \in Requests \cup {NoRequest}
TimeTypes ==
    /\ now \in Ticks /\ armedAt \in Ticks /\ sinceTimer \in 0..TimerGap
    /\ warning \in [for : Requests \cup {NoRequest}, age : 0..TickWidth]
HistoryTypes ==
    /\ visit \in 0..MaxVisits /\ (open => visit # 0)
    /\ cancels \subseteq Ids /\ failures \subseteq Ids /\ cleared \subseteq Ids
    /\ reports \subseteq [id : Ids, visit : 1..MaxVisits]
HttpTypeOK == FlagTypes /\ JobTypes /\ TimeTypes /\ HistoryTypes

\* Headers and body go out in clear text only for a request that the user was warned
\* of at most five seconds ago and confirmed without touching anything in between
\* (send_clicked, although the tick wraps and the timer that disarms may be late).
ClearTextConfirmed ==
    [][started' # started /\ named' \in Plain =>
         warning.for = named' /\ warning.age <= ConfirmWindow]_vars

\* The slot that hands results over is free whenever a worker runs: its job can not
\* be overwritten, which would lose the result, its log error and its memory.
SlotFree == worker # "none" => completed = NoJob

\* A restart or an update, which ask http_tool_busy(), never cut off a worker: it is
\* busy until the log is closed.
BusyThroughLog == ~busy => worker = "none"

\* An error of the log is reported exactly once, through Timer, SEND, CLEAR or the
\* next visit, or is still on its way.
LogErrorReported ==
    \A id \in failures :
        IF id \in {job.id, completed.id} THEN \A r \in reports : r.id # id
        ELSE Cardinality({r \in reports : r.id = id}) = 1

\* A request is reported as cancelled only if Cancel or Home came while that very
\* request was in flight: no cancellation is carried over to the next one.
CancelledOnRequest ==
    \A j \in {job, completed, shown} \ {NoJob} : j.outcome = "cancelled" => j.id \in cancels

\* What the response area shows is the answer to the request named above it, also
\* when the page was left and opened again in between.
ResultNamesRequest == shown # NoJob => named = shown.request

\* A result that was cleared does not reappear.
ClearedStaysAway == shown # NoJob => shown.id \notin cleared

\* The console's bookkeeping: types, one worker with a free slot for its result,
\* busy until its log is closed, a response under its own request and gone once it is
\* cleared, log errors reported once, and cancellations kept to their request.
HttpInv ==
    /\ HttpTypeOK /\ SlotFree /\ BusyThroughLog /\ ResultNamesRequest
    /\ LogErrorReported /\ CancelledOnRequest /\ ClearedStaysAway

\* Where the worker is says what is in flight: busy, a job with the newest id, whose
\* cancellation was asked for, and whose log has not failed before it is written.
WorkerAgrees ==
    /\ busy = (worker # "none") /\ (worker = "none") = (job = NoJob)
    /\ ui \in {"send", "clear idle"} => ~busy
    /\ busy => job.id = started /\ (cancelRequested => job.id \in cancels)
    /\ worker \in {"perform", "log"} => job.id \notin failures

\* The three places a job can be in hold different ones, all started before and none
\* cleared; what failed is known, and only that is reported.
JobsApart ==
    /\ \A j \in {job, completed, shown} \ {NoJob} : j.id <= started /\ j.id \notin cleared
    /\ \A j \in {job, completed} \ {NoJob} : j.id # shown.id
    /\ \A id \in cancels \cup failures \cup cleared : id <= started
    /\ \A r \in reports : r.id \in failures
    /\ worker = "publish" => (job.id \in failures) = job.logError
    /\ completed # NoJob => (completed.id \in failures) = completed.logError
    /\ ui = "clear idle" => shown = NoJob

\* While the page is armed the age of the warning is the time the tick counts since
\* then: the timer disarms before the tick comes round.
ArmedAge ==
    /\ armed => open /\ warning.for = armedFor
    /\ armed => warning.age <= ConfirmWindow + sinceTimer
    /\ armed => now = armedAt + warning.age \/ now + TickWidth = armedAt + warning.age

HttpIInv == HttpInv /\ WorkerAgrees /\ JobsApart /\ ArmedAge
=============================================================================
