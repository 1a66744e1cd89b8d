-------------------------------- MODULE ToolPage --------------------------------
(***************************************************************************)
(* What the pages of the one-shot network tools have in common (UDP        *)
(* Console, Modbus TCP, Wake-on-LAN, NTP Lab): a job published under       *)
(* job_lock, one worker task that holds a copy of it, a page that polls,   *)
(* and a confirmation that expires.  Each tool's module adds its callbacks *)
(* and its worker.                                                         *)
(*                                                                         *)
(* The callbacks run in the LVGL task, one after the other.  Only they     *)
(* set job_busy, so that a callback that found it clear can be one step.   *)
(* revision counters are reduced to whether the page has drawn the newest  *)
(* one (rendered).  Time is the wrapping LVGL tick since a confirmation    *)
(* was armed, and whether the deadline of the job has passed.              *)
(***************************************************************************)
EXTENDS Naturals, FiniteSets

CONSTANTS
    Requests,       \* what the fields of the form can say, and
    Probe,          \* the connection test of the Modbus page
    NoRequest,      \* a form that is refused; no job
    ConfirmWindow,  \* *_CONFIRM_MS
    TickWidth,      \* the LVGL tick counts modulo this
    TimerGap        \* longest time between two runs of the page's LVGL timer

ASSUME ToolAssumption ==
    /\ NoRequest \notin Requests /\ Probe \in Requests
    /\ {ConfirmWindow, TimerGap} \subseteq Nat \ {0}
    /\ TickWidth \in Nat /\ ConfirmWindow + TimerGap < TickWidth

VARIABLES
    busy, cancelled, published,     \* under job_lock
    worker, job,                    \* the worker task and its copy of the job
    expired,                        \* the job's deadline has passed
    open, timer,                    \* the page is shown; ui_timer was allocated
    form,                           \* the drafts, parsed
    rendered, shown,                \* rendered_revision = job_revision; what was drawn
    armed, confirmation, age,       \* confirmation_armed, confirmation, tick - confirmation_at
    sinceTimer                      \* time since refresh() ran

\* What happened, for the properties only.
VARIABLES
    elapsed,    \* time since the confirmation was armed, up to TickWidth
    handed,     \* messages of the current job handed to the network
    stopped     \* Cancel, Stop or Home came while the job was busy

shared == <<busy, cancelled, published>>
task == <<worker, job>>
page == <<open, timer, form>>
screen == <<rendered, shown, sinceTimer>>
arming == <<armed, confirmation, age, elapsed>>
vars == <<shared, task, expired, page, screen, arming, handed, stopped>>

\* sent: the message left; got: what came back.
JobFor(r, status) == [request |-> r, sent |-> FALSE, got |-> {}, status |-> status]
NoJob == JobFor(NoRequest, "none")
StartedJob(r) == JobFor(r, "starting")
NothingShown == [job |-> NoJob, busy |-> FALSE, blocked |-> FALSE]
Forms == (Requests \ {Probe}) \cup {NoRequest}

Init ==
    /\ busy = FALSE /\ cancelled = FALSE /\ published = NoJob
    /\ worker = "none" /\ job = NoJob /\ expired = FALSE
    /\ open = FALSE /\ timer = FALSE /\ form \in Forms \ {NoRequest}
    /\ rendered = FALSE /\ shown = NothingShown /\ sinceTimer = 0
    /\ armed = FALSE /\ confirmation = NoRequest /\ age = 0 /\ elapsed = 0
    /\ handed = 0 /\ stopped = FALSE

--------------------------------------------------------------------------------
(* The page.                                                               *)

\* disarm()
Disarm == armed' = FALSE /\ age' = 0 /\ elapsed' = 0 /\ UNCHANGED confirmation

Arm ==
    /\ armed' = TRUE /\ confirmation' = form /\ age' = 0 /\ elapsed' = 0

\* job_busy = true: the request is published and the cancel flag cleared.
Accept(r) ==
    /\ busy' = TRUE /\ cancelled' = FALSE
    /\ published' = StartedJob(r)
    /\ expired' = FALSE /\ handed' = 0 /\ stopped' = FALSE

\* xTaskCreate() succeeds, or its failure is published as the result.
Launch(r) ==
    /\ UNCHANGED job
    /\ \/ /\ Accept(r)
          /\ worker' = "start"
       \/ /\ busy' = FALSE /\ cancelled' = FALSE
          /\ published' = JobFor(r, "no worker")
          /\ expired' = FALSE /\ handed' = 0 /\ stopped' = FALSE
          /\ UNCHANGED worker

\* The part of refresh() that draws, after any step that may have changed the job:
\* a revision that was drawn already is not drawn again.  blocked: the buttons that
\* start a job are disabled although there is none.
Draw(fresh) ==
    /\ shown' = IF fresh THEN shown
                ELSE [job |-> published', busy |-> busy', blocked |-> FALSE]
    /\ rendered' = TRUE

RequestStop ==
    /\ cancelled' = (cancelled \/ busy)
    /\ stopped' = (stopped \/ busy)
    /\ UNCHANGED <<busy, published>>

\* Home: the page's widgets and timer are gone, the worker goes on.
Leave ==
    /\ open /\ open' = FALSE /\ timer' = FALSE
    /\ RequestStop /\ Disarm
    /\ sinceTimer' = 0 /\ rendered' = FALSE /\ shown' = NothingShown
    /\ UNCHANGED <<task, expired, form, handed>>

\* The launcher opens the page: everything is drawn, whatever was drawn before.  Without
\* a timer nothing can be started.
Enter ==
    /\ ~open /\ open' = TRUE
    /\ timer' \in BOOLEAN
    /\ UNCHANGED <<shared, task, expired, form, arming, handed, stopped>>
    /\ shown' = [job |-> published, busy |-> busy, blocked |-> ~timer']
    /\ rendered' = TRUE /\ sinceTimer' = 0

\* A callback that only disarms, then draws what is new or does not draw.
DisarmAndDraw ==
    /\ Disarm
    /\ UNCHANGED <<shared, task, expired, page, sinceTimer, handed, stopped>>
    /\ Draw(rendered)

\* The fields change: another request, never a confirmed one.
Edit ==
    /\ open /\ ~busy
    /\ form' \in Forms
    /\ Disarm
    /\ UNCHANGED <<shared, task, expired, open, timer, screen, handed, stopped>>

\* A first tap offers the request for confirmation.
Offer ==
    /\ Arm
    /\ UNCHANGED <<shared, task, expired, page, sinceTimer, handed, stopped>>

\* A second tap, or the only one, takes the request r.
Take(r) ==
    /\ Disarm /\ Launch(r) /\ Draw(FALSE)
    /\ UNCHANGED <<page, sinceTimer>>

\* The page's timer: an expired confirmation goes, a new revision is drawn.
Refresh(gone) ==
    /\ open /\ timer
    /\ IF armed /\ gone THEN Disarm ELSE UNCHANGED arming
    /\ UNCHANGED <<shared, task, expired, page, handed, stopped>>
    /\ Draw(rendered) /\ sinceTimer' = 0

\* The STOP button of Modbus and NTP, enabled while a job is shown as busy.  When the job
\* is over everything is drawn, and the buttons that start one are enabled.
Stop ==
    /\ open /\ shown.busy
    /\ RequestStop
    /\ IF busy THEN UNCHANGED <<shown, rendered>> ELSE Draw(FALSE)
    /\ UNCHANGED <<task, expired, page, sinceTimer, arming, handed>>

\* The CANCEL button of UDP and Wake-on-LAN, enabled while a job is shown or a
\* confirmation is armed.
Cancel ==
    /\ open /\ (shown.busy \/ armed)
    /\ Disarm /\ RequestStop /\ Draw(rendered)
    /\ UNCHANGED <<task, expired, page, sinceTimer, handed>>

\* The tick while a confirmation is armed; the timer of a page runs within TimerGap.
PassTime ==
    /\ armed /\ (timer => sinceTimer < TimerGap)
    /\ age' = (age + 1) % TickWidth
    /\ elapsed' = IF elapsed < TickWidth THEN elapsed + 1 ELSE elapsed
    /\ sinceTimer' = IF timer THEN sinceTimer + 1 ELSE 0
    /\ UNCHANGED <<shared, task, expired, page, rendered, shown, armed, confirmation, handed, stopped>>

--------------------------------------------------------------------------------
(* The worker task.                                                        *)

\* Everything a worker's step leaves alone unless it publishes.
Local == UNCHANGED <<page, shown, sinceTimer, arming, expired, stopped>>
Quiet == Local /\ UNCHANGED <<shared, rendered>>

\* Faulty publication for mutation: job_revision is not incremented.
PublishSilently(j, last) ==
    /\ published' = j
    /\ busy' = ~last
    /\ UNCHANGED <<cancelled, rendered>>

\* The worker stores its copy of the job; the page has not drawn it yet.
Publish(j, last) ==
    /\ published' = j
    /\ busy' = ~last
    /\ rendered' = FALSE
    /\ UNCHANGED cancelled

\* The first statements of the worker: copy the published job.
TakeJob ==
    /\ worker = "start"
    /\ worker' = "setup" /\ job' = published
    /\ Quiet /\ UNCHANGED handed

Expire ==
    /\ worker # "none" /\ ~expired
    /\ expired' = TRUE
    /\ UNCHANGED <<shared, task, page, screen, arming, handed, stopped>>

--------------------------------------------------------------------------------
Statuses == {"none", "starting", "waiting", "no worker", "done", "cancelled", "timeout",
             "netdown", "failed", "burst over"}
TypeOK ==
    /\ {busy, cancelled, expired, open, timer, rendered, armed, stopped} \subseteq BOOLEAN
    /\ \A j \in {published, job, shown.job} :
         /\ j.request \in Requests \cup {NoRequest} /\ j.sent \in BOOLEAN
         /\ j.status \in Statuses
    /\ form \in Forms
    /\ age \in 0..TickWidth - 1 /\ elapsed \in 0..TickWidth /\ handed \in Nat

\* There is a worker exactly while job_busy is set, and it works on the published request.
OneWorker ==
    /\ busy <=> worker # "none"
    /\ worker \notin {"none", "start"} => job.request = published.request

\* The page that has drawn the newest revision shows the job as it is: the request
\* named above a result is the request the result belongs to.
ShownIsCurrent == open /\ rendered => shown.job = published /\ shown.busy = busy

\* A job on record says that its message was sent when it was, and only then, and it
\* was handed to the network once: no cancellation, time-out or failure of a later
\* step makes the report forget it.
Ended == ~busy /\ published.request # NoRequest /\ published.status # "no worker"
SentIsTrue == Ended => (published.sent <=> handed = 1) /\ handed <= 1

\* The bookkeeping the four network tools share.
ToolInv == TypeOK /\ OneWorker /\ ShownIsCurrent

\* A request is taken only when the page offered exactly this request for confirmation
\* no longer than the window ago: neither a change of the form nor the wrap of the tick
\* lets an old confirmation through.
Confirmed(r) ==
    armed /\ confirmation = r /\ (timer => elapsed <= ConfirmWindow)

\* The tool as an abstract job: the current request and the one whose result is on record.
Promise == INSTANCE ToolJob WITH
    current <- IF busy THEN published.request ELSE NoRequest,
    result <- IF busy THEN NoRequest ELSE published.request

\* The copy of the job says whether its message was handed over.
HandedOnce(j) == handed = IF j.sent THEN 1 ELSE 0

\* What the properties rest on, for a tool whose jobs find something of `found'.
JobsOf(found) == [request : Requests \cup {NoRequest}, sent : BOOLEAN,
                  got : SUBSET found, status : Statuses]
PageTypes(found) ==
    /\ busy \in BOOLEAN /\ cancelled \in BOOLEAN /\ expired \in BOOLEAN
    /\ open \in BOOLEAN /\ timer \in BOOLEAN /\ rendered \in BOOLEAN
    /\ armed \in BOOLEAN /\ stopped \in BOOLEAN
    /\ published \in JobsOf(found) /\ job \in JobsOf(found)
    /\ shown \in [job : JobsOf(found), busy : BOOLEAN, blocked : BOOLEAN]
    /\ form \in Forms
    /\ age \in 0..TickWidth - 1 /\ elapsed \in 0..TickWidth
    /\ sinceTimer \in 0..TimerGap /\ handed \in Nat

\* A page that has its timer sees an armed confirmation before the tick can wrap.
ArmedIsFresh ==
    /\ ~open => ~armed /\ ~timer
    /\ armed /\ timer => age = elapsed /\ elapsed <= ConfirmWindow + sinceTimer

PageIInv(found) ==
    /\ PageTypes(found) /\ OneWorker /\ ShownIsCurrent /\ ArmedIsFresh
    /\ cancelled <=> stopped
    /\ busy => published.request \in Requests
=================================================================================
