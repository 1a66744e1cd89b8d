------------------------------ MODULE ToolsProofs ------------------------------
(***************************************************************************)
(* The network tools, for every set of requests and every window, tick     *)
(* width and number of samples.  What the page does is proved once, for    *)
(* whatever a tool's jobs may find; each tool adds its worker.  After them  *)
(* the printer console and the alarms, each with its own invariant.        *)
(***************************************************************************)
EXTENDS MCTools, FiniteSetTheorems, TLAPS

-----------------------------------------------------------------------------
(* What the tools share.                                                   *)

\* The constants, one by one.
LEMMA ToolConstants ==
    /\ ConfirmWindow \in Nat /\ TimerGap \in Nat /\ TickWidth \in Nat
    /\ ConfirmWindow + TimerGap < TickWidth /\ TimerGap > 0 /\ ConfirmWindow > 0
    /\ NoRequest \notin Requests /\ Probe \in Requests
  BY ToolAssumption

\* A job begins empty.
LEMMA EmptyJob ==
    ASSUME NEW found, NEW r \in Requests \cup {NoRequest}, NEW s \in Statuses
    PROVE  /\ JobFor(r, s) \in JobsOf(found)
           /\ JobFor(r, s).request = r /\ ~JobFor(r, s).sent
           /\ JobFor(r, s).got = {} /\ JobFor(r, s).status = s
  BY DEF JobFor, JobsOf

\* The page's invariant implies the bookkeeping that is checked.
LEMMA PageBookkeeping == ASSUME NEW found, PageIInv(found) PROVE ToolInv
<1> USE DEF PageIInv, PageTypes
<1>1. \A j \in {published, job, shown.job} :
        /\ j.request \in Requests \cup {NoRequest} /\ j.sent \in BOOLEAN /\ j.status \in Statuses
  BY DEF JobsOf
<1>2. {busy, cancelled, expired, open, timer, rendered, armed, stopped} \subseteq BOOLEAN
  OBVIOUS
<1> QED
  BY <1>1, <1>2 DEF ToolInv, TypeOK

\* Nothing has been asked for.
LEMMA PageInitially == ASSUME NEW found, Init PROVE PageIInv(found)
<1>1. NoJob \in JobsOf(found) /\ NoJob.request = NoRequest
  BY EmptyJob DEF NoJob, Statuses
<1>2. shown \in [job : JobsOf(found), busy : BOOLEAN, blocked : BOOLEAN]
  BY <1>1 DEF Init, NothingShown
<1>3. form \in Forms /\ published \in JobsOf(found) /\ job \in JobsOf(found)
  BY <1>1 DEF Init
<1>4. /\ busy \in BOOLEAN /\ cancelled \in BOOLEAN /\ expired \in BOOLEAN
      /\ open \in BOOLEAN /\ timer \in BOOLEAN /\ rendered \in BOOLEAN
      /\ armed \in BOOLEAN /\ stopped \in BOOLEAN
      /\ ~busy /\ ~armed /\ ~timer /\ ~open /\ ~rendered /\ (cancelled <=> stopped)
  BY DEF Init
<1>5. age = 0 /\ elapsed = 0 /\ sinceTimer = 0 /\ handed = 0 /\ worker = "none"
  BY DEF Init
<1>6. age \in 0..TickWidth - 1 /\ elapsed \in 0..TickWidth /\ sinceTimer \in 0..TimerGap /\ handed \in Nat
  BY <1>5, ToolConstants
<1> QED
  BY <1>2, <1>3, <1>4, <1>5, <1>6 DEF PageIInv, PageTypes, OneWorker, ShownIsCurrent, ArmedIsFresh

\* What Draw() shows is the job as it is.
LEMMA DrawShows ==
    ASSUME NEW found, NEW fresh \in BOOLEAN,
           shown \in [job : JobsOf(found), busy : BOOLEAN, blocked : BOOLEAN],
           published' \in JobsOf(found), busy' \in BOOLEAN,
           fresh => shown.job = published' /\ shown.busy = busy',
           Draw(fresh)
    PROVE  /\ shown' \in [job : JobsOf(found), busy : BOOLEAN, blocked : BOOLEAN]
           /\ rendered' = TRUE
           /\ shown'.job = published' /\ shown'.busy = busy'
<1>1. CASE fresh
  BY <1>1 DEF Draw
<1>2. CASE ~fresh
  BY <1>2 DEF Draw
<1> QED
  BY <1>1, <1>2

\* What the callbacks do to the job, except the one that starts it: nothing, or a request
\* to stop it.
JobKept ==
    /\ busy' = busy /\ published' = published /\ worker' = worker /\ job' = job
    /\ handed' = handed
    /\ stopped => stopped'
    /\ ~busy => stopped' = stopped

\* A step that neither touches the job nor the screen.
LEMMA JobUntouched ==
    ASSUME NEW found, PageIInv(found), UNCHANGED <<shared, task, handed, stopped>>
    PROVE  /\ OneWorker' /\ (cancelled <=> stopped)' /\ (busy => published.request \in Requests)'
           /\ busy' \in BOOLEAN /\ cancelled' \in BOOLEAN /\ stopped' \in BOOLEAN
           /\ published' \in JobsOf(found) /\ job' \in JobsOf(found) /\ handed' \in Nat /\ JobKept
  BY DEF PageIInv, PageTypes, OneWorker, shared, task, JobKept

\* Nothing is armed after disarm().
LEMMA Disarmed ==
    ASSUME Disarm
    PROVE  armed' = FALSE /\ age' \in 0..TickWidth - 1 /\ elapsed' \in 0..TickWidth
<1>1. armed' = FALSE /\ age' = 0 /\ elapsed' = 0
  BY DEF Disarm
<1> QED
  BY <1>1, ToolConstants

\* A callback that only disarms, with or without drawing.
LEMMA DisarmStep ==
    ASSUME NEW found, PageIInv(found), open, Disarm,
           UNCHANGED <<shared, task, expired, page, sinceTimer, handed, stopped>>,
           Draw(rendered) \/ UNCHANGED <<shown, rendered>>
    PROVE  PageIInv(found)' /\ JobKept
<1> USE DEF PageIInv, PageTypes
<1>1. /\ OneWorker' /\ (cancelled <=> stopped)' /\ (busy => published.request \in Requests)'
      /\ busy' \in BOOLEAN /\ cancelled' \in BOOLEAN /\ stopped' \in BOOLEAN
      /\ published' \in JobsOf(found) /\ job' \in JobsOf(found) /\ handed' \in Nat /\ JobKept
  BY JobUntouched
<1>2. armed' = FALSE /\ age' \in 0..TickWidth - 1 /\ elapsed' \in 0..TickWidth
  BY Disarmed
<1>3. /\ shown' \in [job : JobsOf(found), busy : BOOLEAN, blocked : BOOLEAN]
      /\ rendered' \in BOOLEAN
      /\ open' /\ rendered' => shown'.job = published' /\ shown'.busy = busy'
  <2>1. CASE UNCHANGED <<shown, rendered>>
    BY <2>1 DEF shared, page, ShownIsCurrent
  <2>2. CASE Draw(rendered)
    BY <1>1, <2>2, DrawShows DEF shared, ShownIsCurrent
  <2> QED
    BY <2>1, <2>2
<1>4. expired' = expired /\ open' = open /\ timer' = timer /\ form' = form /\ sinceTimer' = sinceTimer
  BY DEF page
<1>5. ArmedIsFresh' /\ ShownIsCurrent'
  BY <1>2, <1>3, <1>4 DEF ArmedIsFresh, ShownIsCurrent
<1> QED
  BY <1>1, <1>2, <1>3, <1>4, <1>5

\* The timer's callback: what is left armed is younger than the window.
LEMMA RefreshStep ==
    ASSUME NEW found, PageIInv(found), NEW gone \in BOOLEAN, Refresh(gone),
           armed /\ ~gone => age <= ConfirmWindow
    PROVE  PageIInv(found)' /\ JobKept
<1> USE DEF PageIInv, PageTypes
<1>1. /\ OneWorker' /\ (cancelled <=> stopped)' /\ (busy => published.request \in Requests)'
      /\ busy' \in BOOLEAN /\ cancelled' \in BOOLEAN /\ stopped' \in BOOLEAN
      /\ published' \in JobsOf(found) /\ job' \in JobsOf(found) /\ handed' \in Nat /\ JobKept
  BY JobUntouched DEF Refresh
<1>2. /\ shown' \in [job : JobsOf(found), busy : BOOLEAN, blocked : BOOLEAN]
      /\ rendered' = TRUE
      /\ shown'.job = published' /\ shown'.busy = busy'
  BY <1>1, DrawShows DEF Refresh, shared, ShownIsCurrent
<1>3. /\ armed' \in BOOLEAN /\ age' \in 0..TickWidth - 1 /\ elapsed' \in 0..TickWidth
      /\ armed' => armed /\ ~gone /\ age' = age /\ elapsed' = elapsed
  <2>1. CASE armed /\ gone
    BY <2>1, Disarmed DEF Refresh
  <2>2. CASE ~(armed /\ gone)
    BY <2>2 DEF Refresh, arming
  <2> QED
    BY <2>1, <2>2
<1>4. expired' = expired /\ open' = open /\ timer' = timer /\ form' = form /\ sinceTimer' = 0 /\ open
  BY DEF Refresh, page
<1>5. sinceTimer' \in 0..TimerGap
  BY <1>4, ToolConstants
<1>6. ArmedIsFresh'
  <2>1. ASSUME armed', timer' PROVE age' = elapsed' /\ elapsed' <= ConfirmWindow + sinceTimer'
    <3>1. armed /\ timer /\ age' = age /\ elapsed' = elapsed /\ age <= ConfirmWindow /\ age = elapsed
      BY <1>3, <1>4, <2>1 DEF ArmedIsFresh
    <3> QED
      BY <3>1, <1>4, ToolConstants
  <2> QED
    BY <1>4, <2>1 DEF ArmedIsFresh
<1>7. ShownIsCurrent'
  BY <1>2 DEF ShownIsCurrent
<1> QED
  BY <1>1, <1>2, <1>3, <1>4, <1>5, <1>6, <1>7

\* A first tap: the confirmation is armed now.
LEMMA OfferStep ==
    ASSUME NEW found, PageIInv(found), open, Offer,
           Draw(rendered) \/ UNCHANGED <<shown, rendered>>
    PROVE  PageIInv(found)' /\ JobKept
<1> USE DEF PageIInv, PageTypes
<1>1. /\ OneWorker' /\ (cancelled <=> stopped)' /\ (busy => published.request \in Requests)'
      /\ busy' \in BOOLEAN /\ cancelled' \in BOOLEAN /\ stopped' \in BOOLEAN
      /\ published' \in JobsOf(found) /\ job' \in JobsOf(found) /\ handed' \in Nat /\ JobKept
  BY JobUntouched DEF Offer
<1>2. armed' = TRUE /\ age' = 0 /\ elapsed' = 0
  BY DEF Offer, Arm
<1>3. age' \in 0..TickWidth - 1 /\ elapsed' \in 0..TickWidth
  BY <1>2, ToolConstants
<1>4. /\ shown' \in [job : JobsOf(found), busy : BOOLEAN, blocked : BOOLEAN]
      /\ rendered' \in BOOLEAN
      /\ open' /\ rendered' => shown'.job = published' /\ shown'.busy = busy'
  <2>1. CASE UNCHANGED <<shown, rendered>>
    BY <2>1 DEF Offer, shared, page, ShownIsCurrent
  <2>2. CASE Draw(rendered)
    BY <1>1, <2>2, DrawShows DEF Offer, shared, ShownIsCurrent
  <2> QED
    BY <2>1, <2>2
<1>5. expired' = expired /\ open' = open /\ timer' = timer /\ form' = form /\ sinceTimer' = sinceTimer
  BY DEF Offer, page
<1>6. elapsed' <= ConfirmWindow + sinceTimer'
  BY <1>2, <1>5, ToolConstants
<1>7. ArmedIsFresh' /\ ShownIsCurrent'
  BY <1>2, <1>4, <1>5, <1>6 DEF ArmedIsFresh, ShownIsCurrent
<1> QED
  BY <1>1, <1>2, <1>3, <1>4, <1>5, <1>7

\* The tick counts on: the timer comes before it can wrap.
LEMMA TimeStep ==
    ASSUME NEW found, PageIInv(found), PassTime
    PROVE  PageIInv(found)' /\ JobKept
<1> USE DEF PageIInv, PageTypes
<1>1. /\ OneWorker' /\ (cancelled <=> stopped)' /\ (busy => published.request \in Requests)'
      /\ busy' \in BOOLEAN /\ cancelled' \in BOOLEAN /\ stopped' \in BOOLEAN
      /\ published' \in JobsOf(found) /\ job' \in JobsOf(found) /\ handed' \in Nat /\ JobKept
  BY JobUntouched DEF PassTime
<1>2. /\ expired' = expired /\ open' = open /\ timer' = timer /\ form' = form
      /\ rendered' = rendered /\ shown' = shown /\ armed' = armed /\ armed
  BY DEF PassTime, page
<1>3. ShownIsCurrent'
  BY <1>2 DEF PassTime, shared, ShownIsCurrent
<1>4. age' \in 0..TickWidth - 1 /\ elapsed' \in 0..TickWidth
  BY ToolConstants DEF PassTime
<1>5. sinceTimer' \in 0..TimerGap
  BY ToolConstants DEF PassTime
<1>6. ASSUME timer PROVE age' = elapsed' /\ elapsed' <= ConfirmWindow + sinceTimer'
  <2>1. age = elapsed /\ elapsed <= ConfirmWindow + sinceTimer /\ sinceTimer < TimerGap
    BY <1>2, <1>6 DEF ArmedIsFresh, PassTime
  <2>2. age + 1 < TickWidth /\ elapsed < TickWidth /\ age \in Nat /\ elapsed \in Nat
    BY <2>1, ToolConstants
  <2>3. age' = age + 1 /\ elapsed' = elapsed + 1 /\ sinceTimer' = sinceTimer + 1
    BY <1>6, <2>2, ToolConstants DEF PassTime
  <2> QED
    BY <2>1, <2>3, ToolConstants
<1>7. ArmedIsFresh'
  BY <1>2, <1>6 DEF ArmedIsFresh
<1> QED
  BY <1>1, <1>2, <1>3, <1>4, <1>5, <1>7

\* The launcher opens the page: what it draws is the job as it is.
LEMMA EnterStep ==
    ASSUME NEW found, PageIInv(found), Enter
    PROVE  PageIInv(found)' /\ JobKept
<1> USE DEF PageIInv, PageTypes
<1>1. /\ OneWorker' /\ (cancelled <=> stopped)' /\ (busy => published.request \in Requests)'
      /\ busy' \in BOOLEAN /\ cancelled' \in BOOLEAN /\ stopped' \in BOOLEAN
      /\ published' \in JobsOf(found) /\ job' \in JobsOf(found) /\ handed' \in Nat /\ JobKept
  BY JobUntouched DEF Enter
<1>2. /\ expired' = expired /\ open' = TRUE /\ timer' \in BOOLEAN /\ form' = form
      /\ rendered' = TRUE /\ sinceTimer' = 0 /\ ~armed
      /\ armed' = armed /\ age' = age /\ elapsed' = elapsed
  BY DEF Enter, arming, ArmedIsFresh
<1>3. /\ shown' \in [job : JobsOf(found), busy : BOOLEAN, blocked : BOOLEAN]
      /\ shown'.job = published' /\ shown'.busy = busy'
  BY <1>2 DEF Enter, shared
<1>4. sinceTimer' \in 0..TimerGap
  BY <1>2, ToolConstants
<1>5. ArmedIsFresh' /\ ShownIsCurrent'
  BY <1>2, <1>3 DEF ArmedIsFresh, ShownIsCurrent
<1> QED
  BY <1>1, <1>2, <1>3, <1>4, <1>5

\* The form changes: nothing stays armed for it.
LEMMA EditStep ==
    ASSUME NEW found, PageIInv(found), Edit
    PROVE  PageIInv(found)' /\ JobKept
<1> USE DEF PageIInv, PageTypes
<1>1. /\ OneWorker' /\ (cancelled <=> stopped)' /\ (busy => published.request \in Requests)'
      /\ busy' \in BOOLEAN /\ cancelled' \in BOOLEAN /\ stopped' \in BOOLEAN
      /\ published' \in JobsOf(found) /\ job' \in JobsOf(found) /\ handed' \in Nat /\ JobKept
  BY JobUntouched DEF Edit
<1>2. armed' = FALSE /\ age' \in 0..TickWidth - 1 /\ elapsed' \in 0..TickWidth
  BY Disarmed DEF Edit
<1>3. /\ expired' = expired /\ open' = open /\ timer' = timer /\ form' \in Forms
      /\ shown' = shown /\ rendered' = rendered /\ sinceTimer' = sinceTimer
  BY DEF Edit, screen
<1>4. ArmedIsFresh' /\ ShownIsCurrent'
  BY <1>2, <1>3 DEF Edit, shared, ArmedIsFresh, ShownIsCurrent
<1> QED
  BY <1>1, <1>2, <1>3, <1>4

\* The deadline passes.
LEMMA ExpireStep ==
    ASSUME NEW found, PageIInv(found), Expire
    PROVE  PageIInv(found)' /\ JobKept
<1> USE DEF PageIInv, PageTypes
<1>1. /\ OneWorker' /\ (cancelled <=> stopped)' /\ (busy => published.request \in Requests)'
      /\ busy' \in BOOLEAN /\ cancelled' \in BOOLEAN /\ stopped' \in BOOLEAN
      /\ published' \in JobsOf(found) /\ job' \in JobsOf(found) /\ handed' \in Nat /\ JobKept
  BY JobUntouched DEF Expire
<1>2. /\ expired' \in BOOLEAN /\ open' = open /\ timer' = timer /\ form' = form
      /\ shown' = shown /\ rendered' = rendered /\ sinceTimer' = sinceTimer
      /\ armed' = armed /\ age' = age /\ elapsed' = elapsed
  BY DEF Expire, page, screen, arming
<1>3. ArmedIsFresh' /\ ShownIsCurrent'
  BY <1>2 DEF Expire, shared, ArmedIsFresh, ShownIsCurrent
<1> QED
  BY <1>1, <1>2, <1>3

\* A request to stop the job does not touch the job itself.
LEMMA StopRequested ==
    ASSUME NEW found, PageIInv(found), RequestStop, UNCHANGED <<task, handed>>
    PROVE  /\ OneWorker' /\ (cancelled <=> stopped)' /\ (busy => published.request \in Requests)'
           /\ busy' \in BOOLEAN /\ cancelled' \in BOOLEAN /\ stopped' \in BOOLEAN
           /\ published' \in JobsOf(found) /\ job' \in JobsOf(found) /\ handed' \in Nat /\ JobKept
           /\ busy' = busy /\ published' = published
  BY DEF PageIInv, PageTypes, RequestStop, OneWorker, task, JobKept

\* Home: the page goes with what was armed on it.
LEMMA LeaveStep ==
    ASSUME NEW found, PageIInv(found), Leave
    PROVE  PageIInv(found)' /\ JobKept
<1> USE DEF PageIInv, PageTypes
<1>1. /\ OneWorker' /\ (cancelled <=> stopped)' /\ (busy => published.request \in Requests)'
      /\ busy' \in BOOLEAN /\ cancelled' \in BOOLEAN /\ stopped' \in BOOLEAN
      /\ published' \in JobsOf(found) /\ job' \in JobsOf(found) /\ handed' \in Nat /\ JobKept
  BY StopRequested DEF Leave
<1>2. armed' = FALSE /\ age' \in 0..TickWidth - 1 /\ elapsed' \in 0..TickWidth
  BY Disarmed DEF Leave
<1>3. /\ expired' = expired /\ open' = FALSE /\ timer' = FALSE /\ form' = form
      /\ rendered' = FALSE /\ sinceTimer' = 0 /\ shown' = NothingShown
  BY DEF Leave
<1>4. sinceTimer' \in 0..TimerGap
  BY <1>3, ToolConstants
<1>5. shown' \in [job : JobsOf(found), busy : BOOLEAN, blocked : BOOLEAN]
  <2>1. NoJob \in JobsOf(found)
    BY EmptyJob DEF NoJob, Statuses
  <2> QED
    BY <1>3, <2>1 DEF NothingShown
<1>6. ArmedIsFresh' /\ ShownIsCurrent'
  BY <1>2, <1>3 DEF ArmedIsFresh, ShownIsCurrent
<1> QED
  BY <1>1, <1>2, <1>3, <1>4, <1>5, <1>6

\* STOP: a job that is over is drawn.
LEMMA StopStep ==
    ASSUME NEW found, PageIInv(found), Stop
    PROVE  PageIInv(found)' /\ JobKept
<1> USE DEF PageIInv, PageTypes
<1>1. /\ OneWorker' /\ (cancelled <=> stopped)' /\ (busy => published.request \in Requests)'
      /\ busy' \in BOOLEAN /\ cancelled' \in BOOLEAN /\ stopped' \in BOOLEAN
      /\ published' \in JobsOf(found) /\ job' \in JobsOf(found) /\ handed' \in Nat /\ JobKept
      /\ busy' = busy /\ published' = published
  BY StopRequested DEF Stop
<1>2. /\ expired' = expired /\ open' = open /\ timer' = timer /\ form' = form
      /\ sinceTimer' = sinceTimer /\ armed' = armed /\ age' = age /\ elapsed' = elapsed
  BY DEF Stop, page, arming
<1>3. /\ shown' \in [job : JobsOf(found), busy : BOOLEAN, blocked : BOOLEAN]
      /\ rendered' \in BOOLEAN
      /\ open' /\ rendered' => shown'.job = published' /\ shown'.busy = busy'
  <2>1. CASE busy
    BY <1>1, <1>2, <2>1 DEF Stop, ShownIsCurrent
  <2>2. CASE ~busy
    BY <1>1, <2>2, DrawShows DEF Stop
  <2> QED
    BY <2>1, <2>2
<1>4. ArmedIsFresh' /\ ShownIsCurrent'
  BY <1>2, <1>3 DEF ArmedIsFresh, ShownIsCurrent
<1> QED
  BY <1>1, <1>2, <1>3, <1>4

\* CANCEL: both the job and the confirmation.
LEMMA CancelStep ==
    ASSUME NEW found, PageIInv(found), Cancel
    PROVE  PageIInv(found)' /\ JobKept
<1> USE DEF PageIInv, PageTypes
<1>1. /\ OneWorker' /\ (cancelled <=> stopped)' /\ (busy => published.request \in Requests)'
      /\ busy' \in BOOLEAN /\ cancelled' \in BOOLEAN /\ stopped' \in BOOLEAN
      /\ published' \in JobsOf(found) /\ job' \in JobsOf(found) /\ handed' \in Nat /\ JobKept
      /\ busy' = busy /\ published' = published
  BY StopRequested DEF Cancel
<1>2. armed' = FALSE /\ age' \in 0..TickWidth - 1 /\ elapsed' \in 0..TickWidth
  BY Disarmed DEF Cancel
<1>3. /\ expired' = expired /\ open' = open /\ timer' = timer /\ form' = form
      /\ sinceTimer' = sinceTimer
  BY DEF Cancel, page
<1>4. /\ shown' \in [job : JobsOf(found), busy : BOOLEAN, blocked : BOOLEAN]
      /\ rendered' = TRUE
      /\ shown'.job = published' /\ shown'.busy = busy'
  BY <1>1, DrawShows DEF Cancel, ShownIsCurrent
<1>5. ArmedIsFresh' /\ ShownIsCurrent'
  BY <1>2, <1>3, <1>4 DEF ArmedIsFresh, ShownIsCurrent
<1> QED
  BY <1>1, <1>2, <1>3, <1>4, <1>5

\* Nothing happens.
LEMMA PageStutter ==
    ASSUME NEW found, PageIInv(found), UNCHANGED vars
    PROVE  PageIInv(found)' /\ JobKept
  BY DEF vars, shared, task, page, screen, arming, PageIInv, PageTypes, OneWorker, ShownIsCurrent,
         ArmedIsFresh, JobKept

\* A request is taken: the job begins, or its refusal is on record.
LEMMA TakeStep ==
    ASSUME NEW found, PageIInv(found), NEW r \in Requests, ~busy, Take(r)
    PROVE  /\ PageIInv(found)'
           /\ handed' = 0 /\ published'.request = r /\ ~published'.sent /\ published'.got = {}
           /\ \/ busy' /\ worker' = "start" /\ published'.status = "starting"
              \/ ~busy' /\ worker' = worker /\ published'.status = "no worker"
<1> USE DEF PageIInv, PageTypes
<1> DEFINE started == /\ busy' = TRUE /\ published' = JobFor(r, "starting") /\ worker' = "start"
           refused == /\ busy' = FALSE /\ published' = JobFor(r, "no worker") /\ worker' = worker
<1>1. /\ cancelled' = FALSE /\ stopped' = FALSE /\ expired' = FALSE /\ handed' = 0 /\ job' = job
      /\ started \/ refused
  BY DEF Take, Launch, Accept, StartedJob
<1>2. /\ JobFor(r, "starting") \in JobsOf(found) /\ JobFor(r, "no worker") \in JobsOf(found)
      /\ JobFor(r, "starting").request = r /\ JobFor(r, "no worker").request = r
      /\ ~JobFor(r, "starting").sent /\ ~JobFor(r, "no worker").sent
      /\ JobFor(r, "starting").got = {} /\ JobFor(r, "no worker").got = {}
      /\ JobFor(r, "starting").status = "starting" /\ JobFor(r, "no worker").status = "no worker"
  <2>1. r \in Requests \cup {NoRequest} /\ "starting" \in Statuses /\ "no worker" \in Statuses
    BY DEF Statuses
  <2> QED
    BY <2>1, EmptyJob
<1>3. /\ published' \in JobsOf(found) /\ published'.request = r
      /\ ~published'.sent /\ published'.got = {}
      /\ busy' \in BOOLEAN
      /\ \/ busy' /\ worker' = "start" /\ published'.status = "starting"
         \/ ~busy' /\ worker' = worker /\ published'.status = "no worker"
  BY <1>1, <1>2
<1>4. armed' = FALSE /\ age' \in 0..TickWidth - 1 /\ elapsed' \in 0..TickWidth
  BY Disarmed DEF Take
<1>5. open' = open /\ timer' = timer /\ form' = form /\ sinceTimer' = sinceTimer
  BY DEF Take, page
<1>6. /\ shown' \in [job : JobsOf(found), busy : BOOLEAN, blocked : BOOLEAN]
      /\ rendered' = TRUE
      /\ shown'.job = published' /\ shown'.busy = busy'
  BY <1>3, DrawShows DEF Take
<1>7. OneWorker'
  BY <1>3 DEF OneWorker
<1>8. ArmedIsFresh' /\ ShownIsCurrent'
  BY <1>4, <1>5, <1>6 DEF ArmedIsFresh, ShownIsCurrent
<1>9. handed' \in Nat
  BY <1>1
<1> QED
  BY <1>1, <1>3, <1>4, <1>5, <1>6, <1>7, <1>8, <1>9

-----------------------------------------------------------------------------
(* What the workers share.                                                 *)

\* The worker has a job, and keeps its request.
RequestKept == busy /\ published'.request = published.request

\* The worker copies the job that was published for it.
LEMMA TakeJobStep ==
    ASSUME NEW found, PageIInv(found), TakeJob
    PROVE  /\ PageIInv(found)' /\ RequestKept
           /\ busy' = busy /\ published' = published /\ handed' = handed /\ stopped' = stopped
           /\ worker' = "setup" /\ job' = published
<1> USE DEF PageIInv, PageTypes, RequestKept
<1>1. /\ busy' = busy /\ cancelled' = cancelled /\ published' = published
      /\ rendered' = rendered /\ shown' = shown /\ handed' = handed /\ stopped' = stopped
      /\ worker = "start" /\ worker' = "setup" /\ job' = published
      /\ expired' = expired /\ open' = open /\ timer' = timer /\ form' = form
      /\ armed' = armed /\ age' = age /\ elapsed' = elapsed /\ sinceTimer' = sinceTimer
  BY DEF TakeJob, Quiet, Local, shared, page, arming
<1>2. OneWorker' /\ ShownIsCurrent' /\ ArmedIsFresh'
  BY <1>1 DEF OneWorker, ShownIsCurrent, ArmedIsFresh
<1>3. busy
  BY <1>1 DEF OneWorker
<1> QED
  BY <1>1, <1>2, <1>3

\* A step of the worker that nobody else sees.
LEMMA QuietStep ==
    ASSUME NEW found, PageIInv(found), Quiet, worker \notin {"none", "start"},
           worker' \notin {"none", "start"},
           job' \in JobsOf(found), job'.request = job.request, handed' \in Nat
    PROVE  /\ PageIInv(found)'
           /\ busy' = busy /\ busy /\ published' = published /\ stopped' = stopped /\ RequestKept
<1> USE DEF PageIInv, PageTypes, RequestKept
<1>1. /\ busy' = busy /\ cancelled' = cancelled /\ published' = published
      /\ rendered' = rendered /\ shown' = shown /\ stopped' = stopped
      /\ expired' = expired /\ open' = open /\ timer' = timer /\ form' = form
      /\ armed' = armed /\ age' = age /\ elapsed' = elapsed /\ sinceTimer' = sinceTimer
  BY DEF Quiet, Local, shared, page, arming
<1>2. OneWorker' /\ ShownIsCurrent' /\ ArmedIsFresh'
  BY <1>1 DEF OneWorker, ShownIsCurrent, ArmedIsFresh
<1>3. busy
  BY DEF OneWorker
<1> QED
  BY <1>1, <1>2, <1>3

\* The worker publishes how far it has come, and goes on.
LEMMA ProgressStep ==
    ASSUME NEW found, PageIInv(found), Local, worker \notin {"none", "start"},
           worker' \notin {"none", "start"},
           job' \in JobsOf(found), job'.request = job.request, handed' \in Nat,
           Publish(job', FALSE)
    PROVE  /\ PageIInv(found)'
           /\ busy' /\ stopped' = stopped /\ RequestKept
<1> USE DEF PageIInv, PageTypes, RequestKept
<1>1. /\ busy' = TRUE /\ cancelled' = cancelled /\ published' = job'
      /\ rendered' = FALSE /\ shown' = shown /\ stopped' = stopped
      /\ expired' = expired /\ open' = open /\ timer' = timer /\ form' = form
      /\ armed' = armed /\ age' = age /\ elapsed' = elapsed /\ sinceTimer' = sinceTimer
  BY DEF Publish, Local, page, arming
<1>2. OneWorker' /\ ShownIsCurrent' /\ ArmedIsFresh'
  BY <1>1 DEF OneWorker, ShownIsCurrent, ArmedIsFresh
<1>3. busy /\ job.request = published.request
  BY DEF OneWorker
<1> QED
  BY <1>1, <1>2, <1>3

\* The worker publishes how the job ended, and is gone.
LEMMA EndStep ==
    ASSUME NEW found, PageIInv(found), Local, worker \notin {"none", "start"},
           worker' = "none", job' = NoJob, handed' \in Nat,
           NEW j \in JobsOf(found), j.request = job.request, Publish(j, TRUE)
    PROVE  /\ PageIInv(found)'
           /\ ~busy' /\ published' = j /\ stopped' = stopped /\ RequestKept
<1> USE DEF PageIInv, PageTypes, RequestKept
<1>1. /\ busy' = FALSE /\ cancelled' = cancelled /\ published' = j
      /\ rendered' = FALSE /\ shown' = shown /\ stopped' = stopped
      /\ expired' = expired /\ open' = open /\ timer' = timer /\ form' = form
      /\ armed' = armed /\ age' = age /\ elapsed' = elapsed /\ sinceTimer' = sinceTimer
  BY DEF Publish, Local, page, arming
<1>2. OneWorker' /\ ShownIsCurrent' /\ ArmedIsFresh'
  BY <1>1 DEF OneWorker, ShownIsCurrent, ArmedIsFresh
<1>3. job' \in JobsOf(found)
  BY EmptyJob DEF NoJob, Statuses
<1>4. busy /\ job.request = published.request
  BY DEF OneWorker
<1> QED
  BY <1>1, <1>2, <1>3, <1>4

\* What the workers write into their copy of the job: a status,
LEMMA JobStatus ==
    ASSUME NEW found, NEW j \in JobsOf(found), NEW e \in Statuses
    PROVE  /\ [j EXCEPT !.status = e] \in JobsOf(found)
           /\ [j EXCEPT !.status = e].request = j.request
           /\ [j EXCEPT !.status = e].sent = j.sent
           /\ [j EXCEPT !.status = e].got = j.got
           /\ [j EXCEPT !.status = e].status = e
  BY DEF JobsOf

\* what was found,
LEMMA JobGot ==
    ASSUME NEW found, NEW j \in JobsOf(found), NEW g \in SUBSET found
    PROVE  /\ [j EXCEPT !.got = g] \in JobsOf(found)
           /\ [j EXCEPT !.got = g].request = j.request
           /\ [j EXCEPT !.got = g].sent = j.sent
           /\ [j EXCEPT !.got = g].got = g
           /\ [j EXCEPT !.got = g].status = j.status
  BY DEF JobsOf

\* or that the message was sent.
LEMMA JobSent ==
    ASSUME NEW found, NEW j \in JobsOf(found)
    PROVE  /\ [j EXCEPT !.sent = TRUE] \in JobsOf(found)
           /\ [j EXCEPT !.sent = TRUE].request = j.request
           /\ [j EXCEPT !.sent = TRUE].sent = TRUE
           /\ [j EXCEPT !.sent = TRUE].got = j.got
           /\ [j EXCEPT !.sent = TRUE].status = j.status
  BY DEF JobsOf

-----------------------------------------------------------------------------
(* The UDP console.                                                        *)

\* A step that leaves the job alone leaves what is said of it.
LEMMA UdpKept ==
    ASSUME UdpStage, UdpHonest, JobKept
    PROVE  UdpStage' /\ UdpHonest'
<1>1. UdpStage'
  BY DEF UdpStage, JobKept, HandedOnce
<1>2. UdpHonest'
  BY DEF UdpHonest, Ended, SentIsTrue, JobKept
<1> QED
  BY <1>1, <1>2

\* UdpGoOn() goes on as before, or concludes with the error it has found.
LEMMA UdpGoesOn ==
    ASSUME UdpIInv, NEW step, worker \notin {"none", "start"}, UdpGoOn(step)
    PROVE  /\ handed' = handed /\ job' \in JobsOf(UdpFindings) /\ job'.request = job.request
           /\ job'.sent = job.sent /\ job'.got = job.got
           /\ \/ worker' = step /\ job' = job
              \/ /\ worker' = "conclude"
                 /\ job'.status \in {"cancelled", "netdown", "timeout", "failed"}
                 /\ job'.status = "cancelled" => stopped
<1>1. job \in JobsOf(UdpFindings) /\ (cancelled <=> stopped)
  BY DEF UdpIInv, PageIInv, PageTypes
<1>2. PICK e \in UdpOutcomes :
        /\ worker' = IF e = "ok" THEN step ELSE "conclude"
        /\ job' = IF e = "ok" THEN job ELSE [job EXCEPT !.status = e]
        /\ handed' = handed
  BY DEF UdpGoOn
<1>3. /\ e \in {"ok", "cancelled", "netdown", "timeout", "failed"}
      /\ e = "cancelled" => stopped
  BY <1>1 DEF UdpOutcomes, UdpErrors
<1>4. CASE e = "ok"
  BY <1>1, <1>2, <1>4
<1>5. CASE e # "ok"
  <2>1. e \in Statuses /\ worker' = "conclude" /\ job' = [job EXCEPT !.status = e]
    BY <1>2, <1>3, <1>5 DEF Statuses
  <2>2. /\ job' \in JobsOf(UdpFindings) /\ job'.request = job.request
        /\ job'.sent = job.sent /\ job'.got = job.got /\ job'.status = e
    BY <1>1, <2>1, JobStatus
  <2> QED
    BY <1>2, <1>3, <1>5, <2>1, <2>2
<1> QED
  BY <1>4, <1>5

\* A message is handed over once or never.
LEMMA SentOnce ==
    ASSUME NEW j, j.sent \in BOOLEAN, handed = IF j.sent THEN 1 ELSE 0
    PROVE  handed <= 1 /\ (j.sent <=> handed = 1)
<1>1. CASE j.sent
  BY <1>1
<1>2. CASE ~j.sent
  BY <1>2
<1> QED
  BY <1>1, <1>2

\* While the worker is at work nothing is on record that could be false.
LEMMA UdpWhileBusy ==
    ASSUME busy'
    PROVE  UdpHonest'
  BY DEF UdpHonest, Ended

\* Each call of the worker keeps the invariant.
LEMMA UdpTakeJob == ASSUME UdpIInv, TakeJob PROVE UdpIInv' /\ RequestKept
<1>1. /\ PageIInv(UdpFindings)'
      /\ busy' = busy /\ published' = published /\ handed' = handed /\ stopped' = stopped /\ RequestKept
      /\ worker' = "setup" /\ job' = published /\ worker = "start"
  BY TakeJobStep DEF UdpIInv, TakeJob
<1>2. UdpStage'
  BY <1>1 DEF UdpIInv, UdpStage
<1>3. busy
  BY <1>1 DEF UdpIInv, PageIInv, OneWorker
<1> QED
  BY <1>1, <1>2, <1>3, UdpWhileBusy DEF UdpIInv

LEMMA UdpLooks == ASSUME UdpIInv, UdpSetup \/ UdpWait PROVE UdpIInv' /\ RequestKept
<1>1. PICK step \in {"wait to send", "send", "receive"} :
        /\ UdpGoOn(step)
        /\ \/ worker = "setup" /\ step = "wait to send"
           \/ worker = "wait to send" /\ step = "send"
           \/ worker = "wait for reply" /\ step = "receive"
  BY DEF UdpSetup, UdpWait
<1>2. /\ handed' = handed /\ job' \in JobsOf(UdpFindings) /\ job'.request = job.request
      /\ job'.sent = job.sent /\ job'.got = job.got
      /\ \/ worker' = step /\ job' = job
         \/ /\ worker' = "conclude"
            /\ job'.status \in {"cancelled", "netdown", "timeout", "failed"}
            /\ job'.status = "cancelled" => stopped
  BY <1>1, UdpGoesOn
<1>3. handed \in Nat
  BY DEF UdpIInv, PageIInv, PageTypes
<1>4. /\ PageIInv(UdpFindings)' /\ busy' = busy /\ busy
      /\ published' = published /\ stopped' = stopped /\ RequestKept
  BY <1>1, <1>2, <1>3, QuietStep DEF UdpIInv, UdpGoOn
<1>5. job.sent \in BOOLEAN
  BY DEF UdpIInv, PageIInv, PageTypes, JobsOf
<1>6. UdpStage'
  <2>1. CASE worker' = step /\ job' = job
    BY <1>1, <1>2, <2>1 DEF UdpIInv, UdpStage
  <2>2. CASE worker' = "conclude" /\ job'.status \in {"cancelled", "netdown", "timeout", "failed"}
    <3>1. HandedOnce(job) /\ job.got = {}
      BY <1>1 DEF UdpIInv, UdpStage, HandedOnce
    <3> QED
      BY <1>2, <1>4, <2>2, <3>1 DEF UdpStage, HandedOnce
  <2> QED
    BY <1>2, <2>1, <2>2
<1> QED
  BY <1>4, <1>6, UdpWhileBusy DEF UdpIInv

LEMMA UdpSends == ASSUME UdpIInv, UdpSend PROVE UdpIInv' /\ RequestKept
<1>1. /\ job \in JobsOf(UdpFindings) /\ handed = 0 /\ worker = "send" /\ Local
      /\ ~job.sent /\ job.got = {} /\ job.status = "starting" /\ PageIInv(UdpFindings)
  BY DEF UdpIInv, PageIInv, PageTypes, UdpStage, UdpSend
<1>2. CASE /\ handed' = handed + 1
           /\ job' = [job EXCEPT !.sent = TRUE, !.status = "waiting"]
           /\ Publish(job', FALSE)
           /\ worker' = "wait for reply"
  <2>1. /\ "waiting" \in Statuses /\ job' = [job EXCEPT !.sent = TRUE, !.status = "waiting"]
        /\ handed' = handed + 1 /\ handed = 0
    BY <1>1, <1>2 DEF Statuses
  <2>2. /\ job' \in JobsOf(UdpFindings) /\ job'.request = job.request
        /\ job'.sent = TRUE /\ job'.got = {} /\ job'.status = "waiting"
    BY <1>1, <2>1 DEF JobsOf
  <2>3. handed' = 1 /\ handed' \in Nat
    BY <2>1
  <2>4. PageIInv(UdpFindings)' /\ busy' /\ stopped' = stopped /\ RequestKept
    BY <1>1, <1>2, <2>2, <2>3, ProgressStep
  <2>5. UdpStage'
    BY <1>2, <2>2, <2>3 DEF UdpStage
  <2> QED
    BY <2>4, <2>5, UdpWhileBusy DEF UdpIInv
<1>3. CASE UNCHANGED <<job, shared, rendered, handed>> /\ worker' = "wait to send"
  <2>1. PageIInv(UdpFindings)' /\ busy' /\ stopped' = stopped /\ RequestKept
    BY <1>1, <1>3, QuietStep DEF Quiet, PageIInv, PageTypes
  <2>2. UdpStage'
    BY <1>1, <1>3 DEF UdpStage
  <2> QED
    BY <2>1, <2>2, UdpWhileBusy DEF UdpIInv
<1>4. CASE UdpFails /\ UNCHANGED <<shared, rendered, handed>>
  <2>1. "failed" \in Statuses /\ worker' = "conclude" /\ job' = [job EXCEPT !.status = "failed"]
    BY <1>4 DEF Statuses, UdpFails
  <2>2. /\ job' \in JobsOf(UdpFindings) /\ job'.request = job.request
        /\ job'.sent = job.sent /\ job'.got = {} /\ job'.status = "failed" /\ handed' = 0
    BY <1>1, <1>4, <2>1, JobStatus
  <2>3. PageIInv(UdpFindings)' /\ busy' /\ stopped' = stopped /\ RequestKept
    BY <1>1, <1>4, <2>1, <2>2, QuietStep DEF Quiet
  <2>4. UdpStage'
    BY <1>1, <2>1, <2>2 DEF UdpStage, HandedOnce
  <2> QED
    BY <2>3, <2>4, UdpWhileBusy DEF UdpIInv
<1> QED
  BY <1>2, <1>3, <1>4 DEF UdpSend

LEMMA UdpReceives == ASSUME UdpIInv, UdpReceive PROVE UdpIInv' /\ RequestKept
<1>1. /\ job \in JobsOf(UdpFindings) /\ handed = 1 /\ handed \in Nat /\ worker = "receive" /\ Quiet
      /\ job.sent /\ job.got = {} /\ job.status = "waiting" /\ PageIInv(UdpFindings)
      /\ handed' = handed
  BY DEF UdpIInv, PageIInv, PageTypes, UdpStage, UdpReceive
<1>2. CASE job' \in {[job EXCEPT !.got = {g}] : g \in {"reply", "prefix"}} /\ worker' = "conclude"
  <2>1. PICK g \in UdpFindings : job' = [job EXCEPT !.got = {g}]
    BY <1>2 DEF UdpFindings
  <2>2. /\ job' \in JobsOf(UdpFindings) /\ job'.request = job.request
        /\ job'.sent = job.sent /\ job'.got = {g}
    BY <1>1, <2>1 DEF JobsOf
  <2>3. PageIInv(UdpFindings)' /\ busy' /\ stopped' = stopped /\ RequestKept
    BY <1>1, <1>2, <2>2, QuietStep
  <2>4. UdpStage'
    BY <1>1, <1>2, <2>2 DEF UdpStage, HandedOnce
  <2> QED
    BY <2>3, <2>4, UdpWhileBusy DEF UdpIInv
<1>3. CASE worker' = "wait for reply" /\ UNCHANGED job
  <2>1. PageIInv(UdpFindings)' /\ busy' /\ stopped' = stopped /\ RequestKept
    BY <1>1, <1>3, QuietStep
  <2>2. UdpStage'
    BY <1>1, <1>3 DEF UdpStage
  <2> QED
    BY <2>1, <2>2, UdpWhileBusy DEF UdpIInv
<1>4. CASE UdpFails
  <2>1. "failed" \in Statuses /\ worker' = "conclude" /\ job' = [job EXCEPT !.status = "failed"]
    BY <1>4 DEF Statuses, UdpFails
  <2>2. /\ job' \in JobsOf(UdpFindings) /\ job'.request = job.request
        /\ job'.sent = job.sent /\ job'.got = {} /\ job'.status = "failed"
    BY <1>1, <2>1 DEF JobsOf
  <2>3. PageIInv(UdpFindings)' /\ busy' /\ stopped' = stopped /\ RequestKept
    BY <1>1, <2>1, <2>2, QuietStep
  <2>4. UdpStage'
    BY <1>1, <2>1, <2>2 DEF UdpStage, HandedOnce
  <2> QED
    BY <2>3, <2>4, UdpWhileBusy DEF UdpIInv
<1> QED
  BY <1>2, <1>3, <1>4 DEF UdpReceive

LEMMA UdpConcludes == ASSUME UdpIInv, UdpConclude PROVE UdpIInv' /\ RequestKept
<1> DEFINE j == IF job.got # {} THEN [job EXCEPT !.status = "done"] ELSE job
<1>1. /\ job \in JobsOf(UdpFindings) /\ handed \in Nat /\ worker = "conclude"
      /\ PageIInv(UdpFindings) /\ Local /\ handed' = handed
      /\ worker' = "none" /\ job' = NoJob /\ Publish(j, TRUE)
  BY DEF UdpIInv, PageIInv, PageTypes, UdpConclude
<1>2. /\ HandedOnce(job) /\ (job.got # {} => job.sent)
      /\ job.got = {} => job.status \in {"cancelled", "netdown", "timeout", "failed"}
      /\ job.got = {} /\ job.status = "cancelled" => stopped
  BY <1>1 DEF UdpIInv, UdpStage
<1>3. /\ j \in JobsOf(UdpFindings) /\ j.request = job.request
      /\ j.sent = job.sent /\ j.got = job.got
      /\ j.got # {} => j.status = "done"
      /\ j.got = {} => j.status \in {"cancelled", "netdown", "timeout", "failed"}
      /\ j.status = "cancelled" => stopped
  <2>1. CASE job.got # {}
    <3>1. "done" \in Statuses
      BY DEF Statuses
    <3> QED
      BY <1>1, <2>1, <3>1, JobStatus
  <2>2. CASE job.got = {}
    BY <1>1, <1>2, <2>2
  <2> QED
    BY <2>1, <2>2
<1> HIDE DEF j
<1>4. PageIInv(UdpFindings)' /\ ~busy' /\ published' = j /\ stopped' = stopped /\ RequestKept
  BY <1>1, <1>3, EndStep
<1>5. UdpStage'
  BY <1>1 DEF UdpStage
<1>6. UdpHonest'
  <2>1. j.sent \in BOOLEAN /\ handed = IF j.sent THEN 1 ELSE 0
    BY <1>2, <1>3 DEF JobsOf, HandedOnce
  <2>2. handed <= 1 /\ (j.sent <=> handed = 1)
    BY <2>1, SentOnce
  <2> QED
    BY <1>1, <1>2, <1>3, <1>4, <2>2 DEF UdpHonest, SentIsTrue
<1> QED
  BY <1>4, <1>5, <1>6 DEF UdpIInv

\* The callbacks: only the second tap touches the job, and there is none then.
LEMMA UdpCallbacks ==
    ASSUME UdpIInv,
           Expire \/ PassTime \/ UdpRefresh \/ UdpReview \/ UdpConfirm \/ UdpRefused \/ UdpEdit
           \/ UdpCancel \/ UdpStop \/ UdpShow
    PROVE  UdpIInv' /\ (JobKept \/ UdpConfirm)
<1>1. PageIInv(UdpFindings) /\ age \in 0..TickWidth - 1 /\ UdpExpired \in BOOLEAN
  BY DEF UdpIInv, PageIInv, PageTypes, UdpExpired
<1>2. ASSUME PageIInv(UdpFindings)' /\ JobKept PROVE UdpIInv' /\ JobKept
  BY <1>2, UdpKept DEF UdpIInv
<1>3. CASE Expire
  BY <1>1, <1>2, <1>3, ExpireStep
<1>4. CASE PassTime
  BY <1>1, <1>2, <1>4, TimeStep
<1>5. CASE UdpRefresh
  <2>1. ~UdpExpired => age <= ConfirmWindow
    BY <1>1, ToolConstants DEF UdpExpired
  <2> QED
    BY <1>1, <1>2, <1>5, <2>1, RefreshStep DEF UdpRefresh
<1>6. CASE UdpReview
  BY <1>1, <1>2, <1>6, OfferStep DEF UdpReview, UdpReady
<1>7. CASE UdpConfirm
  <2>1. form \in Requests /\ ~busy /\ Take(form)
    BY <1>1, <1>7 DEF UdpConfirm, UdpReady, PageIInv, PageTypes, Forms
  <2>2. /\ PageIInv(UdpFindings)'
        /\ handed' = 0 /\ ~published'.sent /\ published'.got = {}
        /\ \/ busy' /\ worker' = "start" /\ published'.status = "starting"
           \/ ~busy' /\ worker' = worker /\ published'.status = "no worker"
    BY <1>1, <2>1, TakeStep
  <2>3. worker = "none"
    BY <1>1, <2>1 DEF PageIInv, OneWorker
  <2>4. UdpStage' /\ UdpHonest'
    BY <2>2, <2>3 DEF UdpStage, UdpHonest, Ended
  <2> QED
    BY <1>7, <2>2, <2>4 DEF UdpIInv
<1>8. CASE UdpRefused
  BY <1>1, <1>2, <1>8, DisarmStep DEF UdpRefused, DisarmAndDraw
<1>9. CASE UdpEdit
  BY <1>1, <1>2, <1>9, EditStep DEF UdpEdit
<1>10. CASE UdpCancel
  BY <1>1, <1>2, <1>10, CancelStep DEF UdpCancel
<1>11. CASE UdpStop
  BY <1>1, <1>2, <1>11, LeaveStep DEF UdpStop
<1>12. CASE UdpShow
  BY <1>1, <1>2, <1>12, EnterStep DEF UdpShow
<1> QED
  BY <1>3, <1>4, <1>5, <1>6, <1>7, <1>8, <1>9, <1>10, <1>11, <1>12

LEMMA UdpInitially == ASSUME Init PROVE UdpIInv
<1>1. PageIInv(UdpFindings)
  BY PageInitially
<1>2. worker = "none" /\ busy = FALSE /\ published = NoJob
  BY DEF Init
<1>3. published.request = NoRequest
  BY <1>2, EmptyJob DEF NoJob, Statuses
<1> QED
  BY <1>1, <1>2, <1>3 DEF UdpIInv, UdpStage, UdpHonest, Ended

LEMMA UdpStep == ASSUME UdpIInv, [UdpNext]_vars PROVE UdpIInv'
<1>1. CASE UdpWorker
  BY <1>1, UdpTakeJob, UdpLooks, UdpSends, UdpReceives, UdpConcludes DEF UdpWorker
<1>2. CASE UNCHANGED vars
  <2>1. PageIInv(UdpFindings)' /\ JobKept
    BY <1>2, PageStutter DEF UdpIInv
  <2> QED
    BY <2>1, UdpKept DEF UdpIInv
<1> QED
  BY <1>1, <1>2, UdpCallbacks DEF UdpNext

\* The UDP console reports of every exchange that has ended what became of its datagram,
\* whatever was cancelled, lost or late, and its page shows the job as it is.
THEOREM UdpReportsHonest == UdpSpec => [](ToolInv /\ UdpHonest)
<1>1. UdpIInv => ToolInv /\ UdpHonest
  BY PageBookkeeping DEF UdpIInv
<1> QED
  BY <1>1, UdpInitially, UdpStep, PTL DEF UdpSpec

-----------------------------------------------------------------------------
(* Wake-on-LAN.                                                            *)

WolErrors == {"cancelled", "netdown", "timeout", "failed"}

\* A step that leaves the job alone leaves what is said of it.
LEMMA WolKept ==
    ASSUME WolStage, WolHonest, JobKept
    PROVE  WolStage' /\ WolHonest'
<1>1. WolStage'
  BY DEF WolStage, JobKept, HandedOnce
<1>2. WolHonest'
  BY DEF WolHonest, Ended, SentIsTrue, JobKept
<1> QED
  BY <1>1, <1>2

LEMMA WolWhileBusy ==
    ASSUME busy'
    PROVE  WolHonest'
  BY DEF WolHonest, Ended

\* Each call of the worker keeps the invariant.
LEMMA WolTakeJob == ASSUME WolIInv, TakeJob PROVE WolIInv' /\ RequestKept
<1>1. /\ PageIInv({})'
      /\ busy' = busy /\ published' = published /\ handed' = handed /\ stopped' = stopped /\ RequestKept
      /\ worker' = "setup" /\ job' = published /\ worker = "start"
  BY TakeJobStep DEF WolIInv, TakeJob
<1>2. WolStage'
  BY <1>1 DEF WolIInv, WolStage
<1>3. busy
  BY <1>1 DEF WolIInv, PageIInv, OneWorker
<1> QED
  BY <1>1, <1>2, <1>3, WolWhileBusy DEF WolIInv

LEMMA WolLooks == ASSUME WolIInv, WolSetup \/ WolWait PROVE WolIInv' /\ RequestKept
<1>1. PICK step \in {"wait to send", "send"} :
        WolGoOn(step) /\ worker \in {"setup", "wait to send"}
  BY DEF WolSetup, WolWait
<1>2. /\ job \in JobsOf({}) /\ (cancelled <=> stopped) /\ PageIInv({}) /\ handed \in Nat
      /\ handed = 0 /\ ~job.sent
  BY <1>1 DEF WolIInv, PageIInv, PageTypes, WolStage
<1>3. PICK e \in WolOutcomes :
        /\ worker' = IF e = "ok" THEN step ELSE "conclude"
        /\ job' = IF e = "ok" THEN job ELSE [job EXCEPT !.status = e]
        /\ handed' = handed /\ Quiet
  BY <1>1 DEF WolGoOn
<1>4. /\ e \in {"ok"} \cup WolErrors
      /\ e = "cancelled" => stopped
  BY <1>2 DEF WolOutcomes, WolError, WolErrors
<1>5. CASE e = "ok"
  <2>1. PageIInv({})' /\ busy' /\ stopped' = stopped /\ RequestKept
    BY <1>1, <1>2, <1>3, <1>5, QuietStep
  <2>2. WolStage'
    BY <1>1, <1>2, <1>3, <1>5 DEF WolStage
  <2> QED
    BY <2>1, <2>2, WolWhileBusy DEF WolIInv
<1>6. CASE e # "ok"
  <2>1. e \in Statuses /\ worker' = "conclude" /\ job' = [job EXCEPT !.status = e]
    BY <1>3, <1>4, <1>6 DEF Statuses, WolErrors
  <2>2. /\ job' \in JobsOf({}) /\ job'.request = job.request
        /\ job'.sent = job.sent /\ job'.status = e
    BY <1>2, <2>1 DEF JobsOf
  <2>3. PageIInv({})' /\ busy' /\ stopped' = stopped /\ RequestKept
    BY <1>1, <1>2, <1>3, <2>1, <2>2, QuietStep
  <2>4. WolStage'
    BY <1>2, <1>3, <1>4, <1>6, <2>1, <2>2, <2>3 DEF WolStage, HandedOnce, WolErrors
  <2> QED
    BY <2>3, <2>4, WolWhileBusy DEF WolIInv
<1> QED
  BY <1>5, <1>6

LEMMA WolSends == ASSUME WolIInv, WolSend PROVE WolIInv' /\ RequestKept
<1>1. /\ job \in JobsOf({}) /\ handed = 0 /\ handed \in Nat /\ worker = "send" /\ Quiet
      /\ ~job.sent /\ PageIInv({})
  BY DEF WolIInv, PageIInv, PageTypes, WolStage, WolSend
<1>2. CASE handed' = handed + 1 /\ job' = [job EXCEPT !.sent = TRUE] /\ worker' = "conclude"
  <2>1. job' = [job EXCEPT !.sent = TRUE] /\ handed' = handed + 1 /\ handed = 0
    BY <1>1, <1>2
  <2>2. job' \in JobsOf({}) /\ job'.request = job.request /\ job'.sent = TRUE
    BY <1>1, <2>1 DEF JobsOf
  <2>3. handed' = 1 /\ handed' \in Nat
    BY <2>1
  <2>4. PageIInv({})' /\ busy' /\ stopped' = stopped /\ RequestKept
    BY <1>1, <1>2, <2>2, <2>3, QuietStep
  <2>5. WolStage'
    BY <1>2, <2>2, <2>3 DEF WolStage, HandedOnce
  <2> QED
    BY <2>4, <2>5, WolWhileBusy DEF WolIInv
<1>3. CASE UNCHANGED <<job, handed>> /\ worker' = "wait to send"
  <2>1. PageIInv({})' /\ busy' /\ stopped' = stopped /\ RequestKept
    BY <1>1, <1>3, QuietStep
  <2>2. WolStage'
    BY <1>1, <1>3 DEF WolStage
  <2> QED
    BY <2>1, <2>2, WolWhileBusy DEF WolIInv
<1>4. CASE job' = [job EXCEPT !.status = "failed"] /\ worker' = "conclude" /\ UNCHANGED handed
  <2>1. "failed" \in Statuses
    BY DEF Statuses
  <2>2. /\ job' \in JobsOf({}) /\ job'.request = job.request
        /\ job'.sent = job.sent /\ job'.status = "failed"
    BY <1>1, <1>4, <2>1 DEF JobsOf
  <2>3. PageIInv({})' /\ busy' /\ stopped' = stopped /\ RequestKept
    BY <1>1, <1>4, <2>2, QuietStep
  <2>4. WolStage'
    BY <1>1, <1>4, <2>2 DEF WolStage, HandedOnce
  <2> QED
    BY <2>3, <2>4, WolWhileBusy DEF WolIInv
<1> QED
  BY <1>2, <1>3, <1>4 DEF WolSend

\* The verdict, and then the report: a packet that was sent stays sent.
LEMMA WolConcludes == ASSUME WolIInv, WolConclude PROVE WolIInv' /\ RequestKept
<1>1. /\ job \in JobsOf({}) /\ handed \in Nat /\ worker \in {"conclude", "publish"}
      /\ PageIInv({}) /\ handed' = handed /\ (cancelled <=> stopped)
      /\ HandedOnce(job) /\ (~job.sent => job.status \in WolErrors /\ (job.status = "cancelled" => stopped))
  BY DEF WolIInv, PageIInv, PageTypes, WolStage, WolConclude, Quiet, WolErrors
<1>2. CASE worker = "conclude"
  <2>1. Quiet /\ worker' = "publish" /\ job' = [job EXCEPT !.status = WolVerdict]
    BY <1>2 DEF WolConclude
  <2>2. /\ WolVerdict \in {"done"} \cup WolErrors /\ (job.sent => WolVerdict = "done")
        /\ ~job.sent => WolVerdict \in WolErrors /\ (WolVerdict = "cancelled" => stopped)
    BY <1>1 DEF WolVerdict, WolErrors
  <2>3. WolVerdict \in Statuses
    BY <2>2 DEF WolErrors, Statuses
  <2>4. /\ job' \in JobsOf({}) /\ job'.request = job.request
        /\ job'.sent = job.sent /\ job'.status = WolVerdict
    BY <1>1, <2>1, <2>3 DEF JobsOf
  <2>5. PageIInv({})' /\ busy' /\ stopped' = stopped /\ RequestKept
    BY <1>1, <1>2, <2>1, <2>4, QuietStep
  <2>6. HandedOnce(job)'
    BY <1>1, <2>4 DEF HandedOnce
  <2>7. WolStage'
    BY <2>1, <2>2, <2>4, <2>5, <2>6 DEF WolStage, WolErrors
  <2> QED
    BY <2>5, <2>7, WolWhileBusy DEF WolIInv
<1>3. CASE worker = "publish"
  <2>1. Publish(job, TRUE) /\ worker' = "none" /\ job' = NoJob /\ Local
    BY <1>3 DEF WolConclude
  <2>2. PageIInv({})' /\ ~busy' /\ published' = job /\ stopped' = stopped /\ RequestKept
    BY <1>1, <1>3, <2>1, EndStep
  <2>3. WolStage'
    BY <2>1 DEF WolStage
  <2>4. job.sent \in BOOLEAN /\ handed = IF job.sent THEN 1 ELSE 0
    BY <1>1 DEF JobsOf, HandedOnce
  <2>5. handed <= 1 /\ (job.sent <=> handed = 1)
    BY <2>4, SentOnce
  <2>6. job.sent => job.status = "done"
    BY <1>3 DEF WolIInv, WolStage
  <2>7. WolHonest'
    BY <1>1, <2>2, <2>5, <2>6 DEF WolHonest, SentIsTrue, WolErrors
  <2> QED
    BY <2>2, <2>3, <2>7 DEF WolIInv
<1> QED
  BY <1>1, <1>2, <1>3

\* The callbacks: only the second tap touches the job, and there is none then.
LEMMA WolCallbacks ==
    ASSUME WolIInv,
           Expire \/ PassTime \/ WolRefresh \/ WolReview \/ WolConfirm \/ WolRefused \/ WolEdit
           \/ WolCancel \/ WolStop \/ WolShow
    PROVE  WolIInv' /\ (JobKept \/ WolConfirm)
<1>1. PageIInv({}) /\ age \in 0..TickWidth - 1 /\ WolExpired \in BOOLEAN
  BY DEF WolIInv, PageIInv, PageTypes, WolExpired
<1>2. ASSUME PageIInv({})' /\ JobKept PROVE WolIInv' /\ JobKept
  BY <1>2, WolKept DEF WolIInv
<1>3. CASE Expire
  BY <1>1, <1>2, <1>3, ExpireStep
<1>4. CASE PassTime
  BY <1>1, <1>2, <1>4, TimeStep
<1>5. CASE WolRefresh
  <2>1. ~WolExpired => age <= ConfirmWindow
    BY <1>1, ToolConstants DEF WolExpired
  <2> QED
    BY <1>1, <1>2, <1>5, <2>1, RefreshStep DEF WolRefresh
<1>6. CASE WolReview
  BY <1>1, <1>2, <1>6, OfferStep DEF WolReview, WolReady
<1>7. CASE WolConfirm
  <2>1. form \in Requests /\ ~busy /\ Take(form)
    BY <1>1, <1>7 DEF WolConfirm, WolReady, PageIInv, PageTypes, Forms
  <2>2. /\ PageIInv({})'
        /\ handed' = 0 /\ ~published'.sent /\ published'.got = {}
        /\ \/ busy' /\ worker' = "start" /\ published'.status = "starting"
           \/ ~busy' /\ worker' = worker /\ published'.status = "no worker"
    BY <1>1, <2>1, TakeStep
  <2>3. worker = "none"
    BY <1>1, <2>1 DEF PageIInv, OneWorker
  <2>4. WolStage' /\ WolHonest'
    BY <2>2, <2>3 DEF WolStage, WolHonest, Ended
  <2> QED
    BY <1>7, <2>2, <2>4 DEF WolIInv
<1>8. CASE WolRefused
  <2>1. UNCHANGED <<shown, rendered>> /\ sinceTimer' = sinceTimer
    BY <1>8 DEF WolRefused, screen
  <2> QED
    BY <1>1, <1>2, <1>8, <2>1, DisarmStep DEF WolRefused
<1>9. CASE WolEdit
  BY <1>1, <1>2, <1>9, EditStep DEF WolEdit
<1>10. CASE WolCancel
  BY <1>1, <1>2, <1>10, CancelStep DEF WolCancel
<1>11. CASE WolStop
  BY <1>1, <1>2, <1>11, LeaveStep DEF WolStop
<1>12. CASE WolShow
  BY <1>1, <1>2, <1>12, EnterStep DEF WolShow
<1> QED
  BY <1>3, <1>4, <1>5, <1>6, <1>7, <1>8, <1>9, <1>10, <1>11, <1>12

LEMMA WolInitially == ASSUME Init PROVE WolIInv
<1>1. PageIInv({})
  BY PageInitially
<1>2. worker = "none" /\ busy = FALSE /\ published = NoJob
  BY DEF Init
<1>3. published.request = NoRequest
  BY <1>2, EmptyJob DEF NoJob, Statuses
<1> QED
  BY <1>1, <1>2, <1>3 DEF WolIInv, WolStage, WolHonest, Ended

LEMMA WolStep == ASSUME WolIInv, [WolNext]_vars PROVE WolIInv'
<1>1. CASE WolWorker
  BY <1>1, WolTakeJob, WolLooks, WolSends, WolConcludes DEF WolWorker
<1>2. CASE UNCHANGED vars
  <2>1. PageIInv({})' /\ JobKept
    BY <1>2, PageStutter DEF WolIInv
  <2> QED
    BY <2>1, WolKept DEF WolIInv
<1> QED
  BY <1>1, <1>2, WolCallbacks DEF WolNext

\* Wake-on-LAN says that a packet was handed to the network exactly when it was.
THEOREM WolReportsHonest == WolSpec => [](ToolInv /\ WolHonest)
<1>1. WolIInv => ToolInv /\ WolHonest
  BY PageBookkeeping DEF WolIInv
<1> QED
  BY <1>1, WolInitially, WolStep, PTL DEF WolSpec

-----------------------------------------------------------------------------
(* Modbus TCP.                                                             *)

ModbusErrors == {"cancelled", "timeout", "failed"}

\* A step that leaves the job alone leaves what is said of it.
LEMMA ModbusKept ==
    ASSUME ModbusStage, ModbusHonest, JobKept
    PROVE  ModbusStage' /\ ModbusHonest'
<1>1. ModbusStage'
  BY DEF ModbusStage, JobKept
<1>2. ModbusHonest'
  BY DEF ModbusHonest, Ended, JobKept
<1> QED
  BY <1>1, <1>2

LEMMA ModbusWhileBusy ==
    ASSUME busy'
    PROVE  ModbusHonest'
  BY DEF ModbusHonest, Ended

\* What is known while the worker has the job.
LEMMA ModbusAtWork ==
    ASSUME ModbusIInv
    PROVE  /\ PageIInv(ModbusFindings) /\ job \in JobsOf(ModbusFindings) /\ handed \in Nat
           /\ handed <= 1 /\ (cancelled <=> stopped) /\ job.got \subseteq ModbusFindings
           /\ job.sent \in BOOLEAN
  BY DEF ModbusIInv, PageIInv, PageTypes, ModbusStage, JobsOf

\* The looks of the worker find nothing wrong, or an error that ends the job.
LEMMA ModbusOutcome ==
    ASSUME ModbusIInv, NEW e \in ModbusOutcomes
    PROVE  e \in {"ok"} \cup ModbusErrors /\ (e = "cancelled" => stopped)
  BY ModbusAtWork DEF ModbusOutcomes, ModbusError, ModbusErrors

\* Each call of the worker keeps the invariant.
LEMMA ModbusTakeJob == ASSUME ModbusIInv, TakeJob PROVE ModbusIInv' /\ RequestKept
<1>1. /\ PageIInv(ModbusFindings)'
      /\ busy' = busy /\ published' = published /\ handed' = handed /\ stopped' = stopped /\ RequestKept
      /\ worker' = "setup" /\ job' = published /\ worker = "start"
  BY TakeJobStep DEF ModbusIInv, TakeJob
<1>2. ModbusStage'
  BY <1>1 DEF ModbusIInv, ModbusStage
<1>3. busy
  BY <1>1 DEF ModbusIInv, PageIInv, OneWorker
<1> QED
  BY <1>1, <1>2, <1>3, ModbusWhileBusy DEF ModbusIInv

\* An error on the way to the report.
LEMMA ModbusFails ==
    ASSUME ModbusIInv, worker \in {"setup", "send", "header", "rest"}, Quiet,
           NEW e \in ModbusErrors, e = "cancelled" => stopped,
           worker' = "conclude", job' = [job EXCEPT !.status = e],
           handed' \in Nat, handed' <= 1, job.request = Probe => handed' = 0
    PROVE  ModbusIInv' /\ RequestKept
<1>1. job.got = {} /\ PageIInv(ModbusFindings) /\ job \in JobsOf(ModbusFindings)
  BY ModbusAtWork DEF ModbusIInv, ModbusStage
<1>2. e \in Statuses
  BY DEF ModbusErrors, Statuses
<1>3. /\ job' \in JobsOf(ModbusFindings) /\ job'.request = job.request
      /\ job'.sent = job.sent /\ job'.got = {} /\ job'.status = e
  BY <1>1, <1>2 DEF JobsOf
<1>4. PageIInv(ModbusFindings)' /\ busy' /\ stopped' = stopped /\ RequestKept
  BY <1>1, <1>3, QuietStep
<1>5. ModbusStage'
  BY <1>3, <1>4 DEF ModbusStage, ModbusErrors
<1> QED
  BY <1>4, <1>5, ModbusWhileBusy DEF ModbusIInv

\* What the connection test or the device says.
LEMMA ModbusFinds ==
    ASSUME ModbusIInv, worker \in {"setup", "header", "rest"}, Quiet, UNCHANGED handed,
           NEW g \in ModbusFindings, (g = "open" <=> worker = "setup"),
           worker = "setup" => job.request = Probe,
           worker' = "conclude", job' = [job EXCEPT !.status = "done", !.got = {g}]
    PROVE  ModbusIInv' /\ RequestKept
<1>1. PageIInv(ModbusFindings) /\ job \in JobsOf(ModbusFindings) /\ handed \in Nat /\ handed <= 1
  BY ModbusAtWork
<1>2. "done" \in Statuses
  BY DEF Statuses
<1>3. /\ job' \in JobsOf(ModbusFindings) /\ job'.request = job.request
      /\ job'.sent = job.sent /\ job'.got = {g} /\ job'.status = "done"
  BY <1>1, <1>2 DEF JobsOf
<1>4. PageIInv(ModbusFindings)' /\ busy' /\ stopped' = stopped /\ RequestKept
  BY <1>1, <1>3, QuietStep
<1>5. CASE worker = "setup"
  <2>1. handed' = 0 /\ g = "open" /\ job.request = Probe
    BY <1>5 DEF ModbusIInv, ModbusStage
  <2>2. ModbusStage'
    BY <1>1, <1>3, <1>4, <2>1 DEF ModbusStage
  <2> QED
    BY <1>4, <2>2, ModbusWhileBusy DEF ModbusIInv
<1>6. CASE worker \in {"header", "rest"}
  <2>1. job.sent /\ job.request # Probe /\ g # "open"
    BY <1>6 DEF ModbusIInv, ModbusStage
  <2>2. ModbusStage'
    BY <1>1, <1>3, <1>4, <2>1 DEF ModbusStage
  <2> QED
    BY <1>4, <2>2, ModbusWhileBusy DEF ModbusIInv
<1> QED
  BY <1>5, <1>6

\* The worker goes on to its next call, with the job as it is.
LEMMA ModbusGoesOn ==
    ASSUME ModbusIInv, Quiet, UNCHANGED <<job, handed>>,
           \/ worker = "setup" /\ worker' = "send" /\ job.request # Probe
           \/ worker = "header" /\ worker' = "rest"
    PROVE  ModbusIInv' /\ RequestKept
<1>1. PageIInv(ModbusFindings) /\ job \in JobsOf(ModbusFindings) /\ handed \in Nat /\ handed <= 1
  BY ModbusAtWork
<1>2. PageIInv(ModbusFindings)' /\ busy' /\ stopped' = stopped /\ RequestKept
  BY <1>1, QuietStep
<1>3. ModbusStage'
  BY <1>1 DEF ModbusIInv, ModbusStage
<1> QED
  BY <1>2, <1>3, ModbusWhileBusy DEF ModbusIInv

LEMMA ModbusConnects == ASSUME ModbusIInv, ModbusConnect PROVE ModbusIInv' /\ RequestKept
<1>1. /\ worker = "setup" /\ Quiet /\ handed' = handed /\ handed = 0 /\ handed' \in Nat /\ handed' <= 1
  BY ModbusAtWork DEF ModbusConnect, ModbusGoOn, ModbusIInv, ModbusStage
<1>2. CASE job.request # Probe
  <2>1. PICK e \in ModbusOutcomes :
          /\ worker' = IF e = "ok" THEN "send" ELSE "conclude"
          /\ job' = IF e = "ok" THEN job ELSE [job EXCEPT !.status = e]
    BY <1>2 DEF ModbusConnect, ModbusGoOn
  <2>2. CASE e = "ok"
    BY <1>1, <1>2, <2>1, <2>2, ModbusGoesOn
  <2>3. CASE e # "ok"
    <3>1. e \in ModbusErrors /\ (e = "cancelled" => stopped)
      BY <2>3, ModbusOutcome
    <3> QED
      BY <1>1, <2>1, <2>3, <3>1, ModbusFails
  <2> QED
    BY <2>2, <2>3
<1>3. CASE job.request = Probe
  <2>1. PICK e \in ModbusOutcomes :
          job' = IF e = "ok" THEN [job EXCEPT !.got = {"open"}, !.status = "done"]
                 ELSE [job EXCEPT !.status = e]
    BY <1>3 DEF ModbusConnect
  <2>2. worker' = "conclude"
    BY <1>3 DEF ModbusConnect
  <2>3. CASE e = "ok"
    <3>1. "open" \in ModbusFindings /\ UNCHANGED handed
      BY <1>1 DEF ModbusFindings
    <3>2. job \in JobsOf(ModbusFindings)
      BY ModbusAtWork
    <3>3. job' = [job EXCEPT !.status = "done", !.got = {"open"}]
      BY <2>1, <2>3, <3>2 DEF JobsOf
    <3> QED
      BY <1>1, <1>3, <2>2, <3>1, <3>3, ModbusFinds
  <2>4. CASE e # "ok"
    <3>1. e \in ModbusErrors /\ (e = "cancelled" => stopped)
      BY <2>4, ModbusOutcome
    <3> QED
      BY <1>1, <2>1, <2>2, <2>4, <3>1, ModbusFails
  <2> QED
    BY <2>3, <2>4
<1> QED
  BY <1>2, <1>3

LEMMA ModbusSends == ASSUME ModbusIInv, ModbusSend PROVE ModbusIInv' /\ RequestKept
<1>1. /\ worker = "send" /\ Quiet /\ handed' = 1 /\ handed' \in Nat /\ handed' <= 1
      /\ job.request # Probe /\ job.got = {}
  BY DEF ModbusSend, ModbusIInv, ModbusStage
<1>2. PICK e \in ModbusOutcomes :
        /\ worker' = IF e = "ok" THEN "header" ELSE "conclude"
        /\ job' = IF e = "ok" THEN [job EXCEPT !.sent = TRUE] ELSE [job EXCEPT !.status = e]
  BY DEF ModbusSend
<1>3. CASE e = "ok"
  <2>1. job \in JobsOf(ModbusFindings) /\ PageIInv(ModbusFindings)
    BY ModbusAtWork
  <2>2. /\ job' \in JobsOf(ModbusFindings) /\ job'.request = job.request /\ job'.sent = TRUE
        /\ job'.got = {}
    BY <1>1, <1>2, <1>3, <2>1 DEF JobsOf
  <2>3. PageIInv(ModbusFindings)' /\ busy' /\ stopped' = stopped /\ RequestKept
    BY <1>1, <1>2, <1>3, <2>1, <2>2, QuietStep
  <2>4. ModbusStage'
    BY <1>1, <1>2, <1>3, <2>2 DEF ModbusStage
  <2> QED
    BY <2>3, <2>4, ModbusWhileBusy DEF ModbusIInv
<1>4. CASE e # "ok"
  <2>1. e \in ModbusErrors /\ (e = "cancelled" => stopped)
    BY <1>4, ModbusOutcome
  <2> QED
    BY <1>1, <1>2, <1>4, <2>1, ModbusFails
<1> QED
  BY <1>3, <1>4

LEMMA ModbusReceives == ASSUME ModbusIInv, ModbusReceiveHeader \/ ModbusReceiveRest PROVE ModbusIInv' /\ RequestKept
<1>1. /\ worker \in {"header", "rest"} /\ Quiet /\ handed' = handed /\ handed' \in Nat /\ handed' <= 1
      /\ job.request # Probe
  BY ModbusAtWork DEF ModbusReceiveHeader, ModbusReceiveRest, ModbusGoOn, ModbusIInv, ModbusStage
<1>2. CASE worker = "header" /\ ModbusGoOn("rest")
  <2>1. PICK e \in ModbusOutcomes :
          /\ worker' = IF e = "ok" THEN "rest" ELSE "conclude"
          /\ job' = IF e = "ok" THEN job ELSE [job EXCEPT !.status = e]
    BY <1>2 DEF ModbusGoOn
  <2>2. CASE e = "ok"
    BY <1>1, <1>2, <2>1, <2>2, ModbusGoesOn
  <2>3. CASE e # "ok"
    <3>1. e \in ModbusErrors /\ (e = "cancelled" => stopped)
      BY <2>3, ModbusOutcome
    <3> QED
      BY <1>1, <2>1, <2>3, <3>1, ModbusFails
  <2> QED
    BY <2>2, <2>3
<1>3. CASE worker' = "conclude" /\ job' = [job EXCEPT !.status = "done", !.got = {"rejected"}]
  <2>1. "rejected" \in ModbusFindings
    BY DEF ModbusFindings
  <2> QED
    BY <1>1, <1>3, <2>1, ModbusFinds
<1>4. CASE ModbusReceiveRest
  <2>1. PICK e \in ModbusOutcomes :
          IF e # "ok" THEN job' = [job EXCEPT !.status = e]
          ELSE \E g \in {"values", "exception", "rejected"} :
                 job' = [job EXCEPT !.status = "done", !.got = {g}]
    BY <1>4 DEF ModbusReceiveRest
  <2>2. worker' = "conclude" /\ worker = "rest"
    BY <1>4 DEF ModbusReceiveRest
  <2>3. CASE e = "ok"
    <3>1. PICK g \in {"values", "exception", "rejected"} :
            job' = [job EXCEPT !.status = "done", !.got = {g}]
      BY <2>1, <2>3
    <3>2. g \in ModbusFindings /\ g # "open"
      BY DEF ModbusFindings
    <3> QED
      BY <1>1, <2>2, <3>1, <3>2, ModbusFinds
  <2>4. CASE e # "ok"
    <3>1. e \in ModbusErrors /\ (e = "cancelled" => stopped)
      BY <2>4, ModbusOutcome
    <3> QED
      BY <1>1, <2>1, <2>2, <2>4, <3>1, ModbusFails
  <2> QED
    BY <2>3, <2>4
<1> QED
  BY <1>2, <1>3, <1>4 DEF ModbusReceiveHeader

\* The verdict keeps what makes a report honest, and knows of every stop so far.
LEMMA ModbusVerdictFits ==
    ASSUME ModbusIInv, worker \in {"conclude", "publish"}
    PROVE  LET j == ModbusVerdict(job) IN
           /\ j \in JobsOf(ModbusFindings) /\ j.request = job.request /\ j.sent = job.sent
           /\ j.got # {} <=> j.status = "done"
           /\ j.request = Probe => handed = 0 /\ j.got \subseteq {"open"}
           /\ j.request # Probe => "open" \notin j.got
           /\ j.got # {} /\ j.request # Probe => j.sent
           /\ j.status = "cancelled" <=> stopped
           /\ j.status \in {"done", "cancelled", "timeout", "failed"}
<1>1. /\ job \in JobsOf(ModbusFindings) /\ (cancelled <=> stopped)
      /\ job.got # {} <=> job.status = "done"
      /\ job.request = Probe => handed = 0 /\ job.got \subseteq {"open"}
      /\ job.request # Probe => "open" \notin job.got
      /\ job.got # {} /\ job.request # Probe => job.sent
      /\ job.status = "cancelled" => stopped
      /\ job.status \in {"done", "cancelled", "timeout", "failed"}
  BY ModbusAtWork DEF ModbusIInv, ModbusStage
<1>2. CASE cancelled
  <2>1. ModbusVerdict(job) = [job EXCEPT !.status = "cancelled", !.got = {}] /\ "cancelled" \in Statuses
    BY <1>2 DEF ModbusVerdict, Statuses
  <2>2. /\ ModbusVerdict(job) \in JobsOf(ModbusFindings)
        /\ ModbusVerdict(job).request = job.request /\ ModbusVerdict(job).sent = job.sent
        /\ ModbusVerdict(job).got = {} /\ ModbusVerdict(job).status = "cancelled"
    BY <1>1, <2>1 DEF JobsOf
  <2> QED
    BY <1>1, <1>2, <2>2
<1>3. CASE ~cancelled /\ job.status = "done"
  BY <1>1, <1>3 DEF ModbusVerdict
<1>4. CASE ~cancelled /\ job.status # "done"
  <2>1. ModbusVerdict(job) = [job EXCEPT !.got = {}]
    BY <1>4 DEF ModbusVerdict
  <2>2. /\ ModbusVerdict(job) \in JobsOf(ModbusFindings)
        /\ ModbusVerdict(job).request = job.request /\ ModbusVerdict(job).sent = job.sent
        /\ ModbusVerdict(job).got = {} /\ ModbusVerdict(job).status = job.status
    BY <1>1, <2>1 DEF JobsOf
  <2> QED
    BY <1>1, <1>4, <2>2
<1> QED
  BY <1>2, <1>3, <1>4

LEMMA ModbusConcludes == ASSUME ModbusIInv, ModbusConclude PROVE ModbusIInv' /\ RequestKept
<1> DEFINE j == ModbusVerdict(job)
<1>1. /\ PageIInv(ModbusFindings) /\ handed \in Nat /\ handed <= 1 /\ handed' = handed
      /\ worker \in {"conclude", "publish"}
  BY ModbusAtWork DEF ModbusConclude
<1>2. /\ j \in JobsOf(ModbusFindings) /\ j.request = job.request /\ j.sent = job.sent
      /\ j.got # {} <=> j.status = "done"
      /\ j.request = Probe => handed = 0 /\ j.got \subseteq {"open"}
      /\ j.request # Probe => "open" \notin j.got
      /\ j.got # {} /\ j.request # Probe => j.sent
      /\ j.status = "cancelled" <=> stopped
      /\ j.status \in {"done", "cancelled", "timeout", "failed"}
  BY <1>1, ModbusVerdictFits
<1>3. CASE worker = "conclude"
  <2>1. job' = j /\ worker' = "publish" /\ Quiet
    BY <1>3 DEF ModbusConclude
  <2> HIDE DEF j
  <2>2. PageIInv(ModbusFindings)' /\ busy' /\ stopped' = stopped /\ RequestKept
    BY <1>1, <1>2, <1>3, <2>1, QuietStep
  <2>3. ModbusStage'
    BY <1>1, <1>2, <2>1, <2>2 DEF ModbusStage
  <2> QED
    BY <2>2, <2>3, ModbusWhileBusy DEF ModbusIInv
<1>4. CASE worker = "publish"
  <2>1. Publish(j, TRUE) /\ worker' = "none" /\ job' = NoJob /\ Local
    BY <1>4 DEF ModbusConclude
  <2> HIDE DEF j
  <2>2. PageIInv(ModbusFindings)' /\ ~busy' /\ published' = j /\ stopped' = stopped /\ RequestKept
    BY <1>1, <1>2, <1>4, <2>1, EndStep
  <2>3. ModbusStage'
    BY <1>1, <2>1 DEF ModbusStage
  <2>4. ModbusHonest'
    BY <1>1, <1>2, <2>2 DEF ModbusHonest
  <2> QED
    BY <2>2, <2>3, <2>4 DEF ModbusIInv
<1> QED
  BY <1>1, <1>3, <1>4

\* A job that begins, or could not begin, is nothing to report on.
LEMMA ModbusBegins ==
    ASSUME ModbusIInv, ModbusReady, NEW r \in Requests, Take(r)
    PROVE  ModbusIInv'
<1>1. ~busy /\ PageIInv(ModbusFindings)
  BY ModbusAtWork DEF ModbusReady
<1>2. /\ PageIInv(ModbusFindings)'
      /\ handed' = 0 /\ ~published'.sent /\ published'.got = {}
      /\ \/ busy' /\ worker' = "start" /\ published'.status = "starting"
         \/ ~busy' /\ worker' = worker /\ published'.status = "no worker"
  BY <1>1, TakeStep
<1>3. worker = "none" /\ handed' = 0
  BY <1>1, <1>2 DEF PageIInv, OneWorker
<1>4. handed' <= 1
  BY <1>3
<1>5. ModbusStage' /\ ModbusHonest'
  BY <1>2, <1>3, <1>4 DEF ModbusStage, ModbusHonest, Ended
<1> QED
  BY <1>2, <1>5 DEF ModbusIInv

\* The callbacks: only a tap that starts a job touches it, and there is none then.
LEMMA ModbusCallbacks ==
    ASSUME ModbusIInv,
           Expire \/ PassTime \/ ModbusRefresh \/ ModbusReview \/ ModbusConfirm \/ ModbusTest
           \/ ModbusRefused \/ ModbusEdit \/ ModbusStopClicked \/ ModbusStop \/ ModbusShow
    PROVE  ModbusIInv' /\ (JobKept \/ ModbusConfirm \/ ModbusTest)
<1>1. PageIInv(ModbusFindings) /\ age \in 0..TickWidth - 1 /\ ModbusExpired \in BOOLEAN
  BY DEF ModbusIInv, PageIInv, PageTypes, ModbusExpired
<1>2. ASSUME PageIInv(ModbusFindings)' /\ JobKept PROVE ModbusIInv' /\ JobKept
  BY <1>2, ModbusKept DEF ModbusIInv
<1>3. CASE Expire
  BY <1>1, <1>2, <1>3, ExpireStep
<1>4. CASE PassTime
  BY <1>1, <1>2, <1>4, TimeStep
<1>5. CASE ModbusRefresh
  <2>1. ~ModbusExpired => age <= ConfirmWindow
    BY <1>1, ToolConstants DEF ModbusExpired
  <2> QED
    BY <1>1, <1>2, <1>5, <2>1, RefreshStep DEF ModbusRefresh
<1>6. CASE ModbusReview
  BY <1>1, <1>2, <1>6, OfferStep DEF ModbusReview, ModbusReady
<1>7. CASE ModbusConfirm
  <2>1. form \in Requests /\ ModbusReady /\ Take(form)
    BY <1>1, <1>7 DEF ModbusConfirm, PageIInv, PageTypes, Forms
  <2> QED
    BY <1>7, <2>1, ModbusBegins
<1>8. CASE ModbusTest
  BY <1>8, ToolConstants, ModbusBegins DEF ModbusTest
<1>9. CASE ModbusRefused
  <2>1. UNCHANGED <<shown, rendered>> /\ sinceTimer' = sinceTimer
    BY <1>9 DEF ModbusRefused, screen
  <2> QED
    BY <1>1, <1>2, <1>9, <2>1, DisarmStep DEF ModbusRefused
<1>10. CASE ModbusEdit
  BY <1>1, <1>2, <1>10, EditStep DEF ModbusEdit
<1>11. CASE ModbusStopClicked
  BY <1>1, <1>2, <1>11, StopStep DEF ModbusStopClicked
<1>12. CASE ModbusStop
  BY <1>1, <1>2, <1>12, LeaveStep DEF ModbusStop
<1>13. CASE ModbusShow
  BY <1>1, <1>2, <1>13, EnterStep DEF ModbusShow
<1> QED
  BY <1>3, <1>4, <1>5, <1>6, <1>7, <1>8, <1>9, <1>10, <1>11, <1>12, <1>13

LEMMA ModbusInitially == ASSUME Init PROVE ModbusIInv
<1>1. PageIInv(ModbusFindings)
  BY PageInitially
<1>2. worker = "none" /\ busy = FALSE /\ published = NoJob /\ handed = 0
  BY DEF Init
<1>3. published.request = NoRequest
  BY <1>2, EmptyJob DEF NoJob, Statuses
<1>4. handed <= 1
  BY <1>2
<1> QED
  BY <1>1, <1>2, <1>3, <1>4 DEF ModbusIInv, ModbusStage, ModbusHonest, Ended

LEMMA ModbusStep == ASSUME ModbusIInv, [ModbusNext]_vars PROVE ModbusIInv'
<1>1. CASE ModbusWorker
  BY <1>1, ModbusTakeJob, ModbusConnects, ModbusSends, ModbusReceives, ModbusConcludes
     DEF ModbusWorker
<1>2. CASE UNCHANGED vars
  <2>1. PageIInv(ModbusFindings)' /\ JobKept
    BY <1>2, PageStutter DEF ModbusIInv
  <2> QED
    BY <2>1, ModbusKept DEF ModbusIInv
<1> QED
  BY <1>1, <1>2, ModbusCallbacks DEF ModbusNext

\* A job of the Modbus client that was stopped before its result was published leaves none,
\* and no other job is called cancelled; a connection test sends nothing.
THEOREM ModbusReportsHonest == ModbusSpec => [](ToolInv /\ ModbusHonest)
<1>1. ModbusIInv => ToolInv /\ ModbusHonest
  BY PageBookkeeping DEF ModbusIInv
<1> QED
  BY <1>1, ModbusInitially, ModbusStep, PTL DEF ModbusSpec

-----------------------------------------------------------------------------
(* NTP Lab.                                                                *)

\* The number of samples, and the burst as a record.
LEMMA NtpConstants == Samples \in Nat /\ Samples > 0
  BY NtpAssumption

LEMMA EmptyBurst ==
    /\ NoBurst.round = 0 /\ NoBurst.replies = {} /\ NoBurst.unmatched = 0 /\ NoBurst.verdict = "none"
    /\ NoBurst \in [round : 0..Samples, replies : SUBSET (1..Samples), unmatched : Nat,
                    verdict : {"none", "timeout", "failed", "cancelled", "burst over"}]
<1>1. 0 \in 0..Samples /\ 0 \in Nat
  BY NtpConstants
<1> QED
  BY <1>1 DEF NoBurst

\* A new sample gets the next number.
LEMMA NumberedNext ==
    ASSUME NEW got, NEW n \in Nat, Numbered(got, n), NEW x, x.number = n + 1
    PROVE  Numbered(got \cup {x}, n + 1)
<1>1. /\ IsFiniteSet(got) /\ Cardinality(got) = n
      /\ {s.number : s \in got} = 1..n
      /\ \A s, t \in got : s.number = t.number => s = t
  BY DEF Numbered
<1>2. \A s \in got : s.number \in 1..n
  BY <1>1
<1>3. n + 1 \notin 1..n /\ 1..(n + 1) = (1..n) \cup {n + 1}
  OBVIOUS
<1>4. \A s \in got : s.number # x.number
  BY <1>2, <1>3
<1>5. x \notin got
  BY <1>4
<1>6. IsFiniteSet(got \cup {x}) /\ Cardinality(got \cup {x}) = n + 1
  BY <1>1, <1>5, FS_AddElement
<1>7. {s.number : s \in got \cup {x}} = {s.number : s \in got} \cup {n + 1}
  OBVIOUS
<1>8. \A s, t \in got \cup {x} : s.number = t.number => s = t
  BY <1>1, <1>4
<1> QED
  BY <1>1, <1>3, <1>6, <1>7, <1>8 DEF Numbered

\* What is noted of the sample at work takes the place of what was noted before.
LEMMA NumberedAgain ==
    ASSUME NEW got, NEW n \in Nat, n > 0, Numbered(got, n), NEW x, x.number = n
    PROVE  Numbered({s \in got : s.number # n} \cup {x}, n)
<1> DEFINE rest == {s \in got : s.number # n}
<1>1. /\ IsFiniteSet(got) /\ Cardinality(got) = n
      /\ {s.number : s \in got} = 1..n
      /\ \A s, t \in got : s.number = t.number => s = t
  BY DEF Numbered
<1>2. n \in 1..n
  OBVIOUS
<1>3. PICK y \in got : y.number = n
  BY <1>1, <1>2
<1>4. rest = got \ {y}
  BY <1>1, <1>3
<1>5. IsFiniteSet(rest) /\ Cardinality(rest) = n - 1
  BY <1>1, <1>3, <1>4, FS_RemoveElement
<1>6. x \notin rest
  OBVIOUS
<1>7. IsFiniteSet(rest \cup {x}) /\ Cardinality(rest \cup {x}) = (n - 1) + 1
  BY <1>5, <1>6, FS_AddElement
<1>8. {s.number : s \in rest \cup {x}} = {s.number : s \in got}
  BY <1>3, <1>4
<1>9. \A s, t \in rest \cup {x} : s.number = t.number => s = t
  BY <1>1
<1> QED
  BY <1>1, <1>7, <1>8, <1>9 DEF Numbered

\* A step that leaves the job and the burst alone leaves what is said of them.
LEMMA NtpKept ==
    ASSUME NtpStage, NtpHonest, NtpBurstOK, ~armed, JobKept, UNCHANGED burst, armed' => armed
    PROVE  NtpStage' /\ NtpHonest' /\ NtpBurstOK' /\ ~armed'
<1>1. NtpStage'
  BY ZenonT(60) DEF NtpStage, JobKept, Others
<1>2. NtpHonest'
  BY DEF NtpHonest, Ended, JobKept
<1>3. NtpBurstOK'
  BY DEF NtpBurstOK
<1> QED
  BY <1>1, <1>2, <1>3

LEMMA NtpWhileBusy ==
    ASSUME busy'
    PROVE  NtpHonest'
  BY DEF NtpHonest, Ended

\* What is known while the worker has the job.
LEMMA NtpAtWork ==
    ASSUME NtpIInv
    PROVE  /\ PageIInv(NtpFindings) /\ job \in JobsOf(NtpFindings) /\ handed \in Nat
           /\ (cancelled <=> stopped) /\ job.got \subseteq NtpFindings
           /\ burst.round \in 0..Samples /\ burst.round \in Nat /\ ~armed
<1>1. /\ PageIInv(NtpFindings) /\ job \in JobsOf(NtpFindings) /\ handed \in Nat
      /\ (cancelled <=> stopped) /\ ~armed
  BY DEF NtpIInv, PageIInv, PageTypes
<1>2. job.got \subseteq NtpFindings
  BY <1>1 DEF JobsOf
<1>3. burst.round \in 0..Samples
  BY DEF NtpIInv, NtpBurstOK
<1>4. burst.round \in Nat
  BY <1>3, NtpConstants
<1> QED
  BY <1>1, <1>2, <1>3, <1>4

\* What may be noted of a sample.
NtpNotesOf == {"valid", "kiss", "rejected", "bad clock", "timeout", "failed", "cancelled"}

\* The sample at work is noted: the samples are numbered and answered as before, and only
\* this one may end the burst.
LEMMA SampleReplaced ==
    ASSUME NtpIInv, worker \in Awaiting,
           NEW note \in NtpNotesOf,
           NEW of \in 0..Samples, note = "valid" => of = burst.round
    PROVE  LET got == Others \cup {Sample(note, of)} IN
           /\ got \subseteq NtpFindings /\ Numbered(got, burst.round) /\ Answered(got)
           /\ \A s \in got : s.note \in BurstEnders => s.number = burst.round
           /\ note \notin BurstEnders => GoesOn(got)
<1> DEFINE x == Sample(note, of)
<1>1. /\ Numbered(job.got, burst.round) /\ Answered(Others) /\ burst.round > 0 /\ GoesOn(Others)
      /\ job.got \subseteq NtpFindings /\ burst.round \in Nat /\ burst.round \in 0..Samples
  BY NtpAtWork DEF NtpIInv, NtpStage, Awaiting
<1>2. x.number = burst.round /\ x.note = note /\ x.of = of
  BY DEF Sample
<1>3. burst.round \in 1..Samples
  BY <1>1, NtpConstants
<1>4. x \in NtpFindings
  BY <1>3 DEF Sample, NtpFindings, NtpNotesOf
<1>5. Others \subseteq NtpFindings
  BY <1>1 DEF Others
<1> HIDE DEF x
<1>6. Numbered({s \in job.got : s.number # burst.round} \cup {x}, burst.round)
  BY <1>1, <1>2, NumberedAgain
<1>7. Answered(Others \cup {x})
  BY <1>1, <1>2 DEF Answered, NtpNotesOf
<1>8. /\ \A s \in Others \cup {x} : s.note \in BurstEnders => s.number = burst.round
      /\ note \notin BurstEnders => GoesOn(Others \cup {x})
  BY <1>1, <1>2 DEF GoesOn
<1> QED
  BY <1>4, <1>5, <1>6, <1>7, <1>8 DEF Others, x

\* A note ends the wait for the sample at work.
LEMMA NtpNotes ==
    ASSUME NtpIInv, worker \in Awaiting, Quiet, worker' = "record",
           NEW note \in NtpNotesOf,
           NEW of \in 0..Samples, note = "valid" => of = burst.round,
           job' = [job EXCEPT !.got = Others \cup {Sample(note, of)}],
           handed' \in Nat, handed' <= burst.round,
           burst'.round = burst.round, NtpBurstOK', burst'.verdict = "cancelled" => stopped,
           note \in BurstEnders => burst'.verdict # "none"
    PROVE  NtpIInv' /\ RequestKept
<1> DEFINE got == Others \cup {Sample(note, of)}
<1>1. /\ got \subseteq NtpFindings /\ Numbered(got, burst.round) /\ Answered(got)
      /\ \A s \in got : s.note \in BurstEnders => s.number = burst.round
      /\ note \notin BurstEnders => GoesOn(got)
  BY SampleReplaced
<1>2. /\ PageIInv(NtpFindings) /\ job \in JobsOf(NtpFindings) /\ handed \in Nat /\ ~armed
  BY NtpAtWork
<1> HIDE DEF got
<1>3. job' = [job EXCEPT !.got = got]
  BY DEF got
<1>4. /\ job' \in JobsOf(NtpFindings) /\ job'.request = job.request /\ job'.got = got
  BY <1>1, <1>2, <1>3 DEF JobsOf
<1>5. PageIInv(NtpFindings)' /\ busy' /\ stopped' = stopped /\ RequestKept
  BY <1>2, <1>4, QuietStep DEF Awaiting
<1>6. NtpStage'
  BY <1>1, <1>4, <1>5 DEF NtpStage, Awaiting
<1>7. ~armed'
  BY <1>2 DEF Quiet, Local, arming
<1> QED
  BY <1>5, <1>6, <1>7, NtpWhileBusy DEF NtpIInv

\* Each call of the worker keeps the invariant.
LEMMA NtpTakeJob == ASSUME NtpIInv, TakeJob, UNCHANGED burst PROVE NtpIInv' /\ RequestKept
<1>1. /\ PageIInv(NtpFindings)'
      /\ busy' = busy /\ published' = published /\ handed' = handed /\ stopped' = stopped /\ RequestKept
      /\ worker' = "setup" /\ job' = published /\ worker = "start"
  BY TakeJobStep DEF NtpIInv, TakeJob
<1>2. burst' = NoBurst /\ handed' = 0 /\ job'.got = {}
  BY <1>1 DEF NtpIInv, NtpStage
<1>3. Numbered({}, 0) /\ Answered({}) /\ GoesOn({})
  BY FS_EmptySet DEF Numbered, Answered, GoesOn
<1>4. burst'.round = 0 /\ burst'.verdict = "none"
  BY <1>2, EmptyBurst
<1>5. handed' <= burst'.round
  BY <1>2, <1>4
<1>6. NtpStage'
  BY <1>1, <1>2, <1>3, <1>4, <1>5 DEF NtpStage, Awaiting
<1>7. busy /\ ~armed' /\ NtpBurstOK'
  BY <1>1 DEF NtpIInv, PageIInv, OneWorker, TakeJob, Quiet, Local, arming, NtpBurstOK
<1> QED
  BY <1>1, <1>6, <1>7, NtpWhileBusy DEF NtpIInv

LEMMA NtpOpens == ASSUME NtpIInv, NtpOpen PROVE NtpIInv' /\ RequestKept
<1>1. /\ PageIInv(NtpFindings) /\ job \in JobsOf(NtpFindings) /\ handed \in Nat /\ ~armed
      /\ (cancelled <=> stopped)
  BY NtpAtWork
<1>2. PICK e \in IF NtpError = "ok" THEN {"ok", "failed"} ELSE {NtpError} :
        /\ worker' = IF e = "ok" THEN "next" ELSE "conclude"
        /\ burst' = [NoBurst EXCEPT !.verdict = IF e = "ok" THEN "none" ELSE e]
  BY DEF NtpOpen
<1>3. e \in {"ok", "failed", "cancelled", "timeout"} /\ (e = "cancelled" => stopped)
  BY <1>1 DEF NtpError
<1>4. /\ worker = "setup" /\ Quiet /\ job' = job /\ handed' = handed /\ handed = 0
      /\ burst = NoBurst /\ Numbered(job.got, burst.round) /\ Answered(job.got) /\ handed <= burst.round
      /\ GoesOn(job.got)
  BY EmptyBurst DEF NtpOpen, NtpIInv, NtpStage, Awaiting
<1>5. PageIInv(NtpFindings)' /\ busy' /\ stopped' = stopped /\ RequestKept
  BY <1>1, <1>2, <1>4, QuietStep
<1>6. /\ burst'.round = burst.round /\ burst'.verdict = IF e = "ok" THEN "none" ELSE e
      /\ NtpBurstOK'
  BY <1>2, <1>3, <1>4, EmptyBurst DEF NtpBurstOK
<1>7. NtpStage'
  <2>1. Numbered(job'.got, burst'.round) /\ Answered(job'.got) /\ handed' <= burst'.round /\ GoesOn(job'.got)
    BY <1>4, <1>6
  <2>2. \/ worker' = "next" /\ burst'.verdict = "none"
        \/ /\ worker' = "conclude" /\ burst'.verdict = e /\ e \in {"failed", "cancelled", "timeout"}
           /\ e = "cancelled" => stopped'
    BY <1>2, <1>3, <1>5, <1>6
  <2> QED
    BY <2>1, <2>2 DEF NtpStage, Awaiting, GoesOn
<1>8. ~armed'
  BY <1>1, <1>4 DEF Quiet, Local, arming
<1> QED
  BY <1>5, <1>6, <1>7, <1>8, NtpWhileBusy DEF NtpIInv

LEMMA NtpNextSamples == ASSUME NtpIInv, NtpNextSample PROVE NtpIInv' /\ RequestKept
<1>1. /\ PageIInv(NtpFindings) /\ job \in JobsOf(NtpFindings) /\ handed \in Nat /\ ~armed
      /\ (cancelled <=> stopped) /\ job.got \subseteq NtpFindings
      /\ burst.round \in 0..Samples /\ burst.round \in Nat
  BY NtpAtWork
<1>2. /\ worker = "next" /\ Local /\ handed' = handed /\ handed <= burst.round
      /\ Numbered(job.got, burst.round) /\ Answered(job.got) /\ burst.verdict = "none"
      /\ GoesOn(job.got) /\ handed' \in Nat
  BY <1>1 DEF NtpNextSample, NtpIInv, NtpStage, Awaiting
<1>3. ~armed'
  BY <1>1, <1>2 DEF Local, arming
<1>4. NtpError \in {"ok", "cancelled", "timeout"} /\ (NtpError = "cancelled" => stopped)
  BY <1>1 DEF NtpError
<1>5. CASE /\ burst.round = Samples \/ NtpError # "ok"
           /\ worker' = "conclude"
           /\ burst' = [burst EXCEPT !.verdict = IF burst.round = Samples THEN "none" ELSE NtpError]
           /\ UNCHANGED <<job, shared, rendered>>
  <2>1. PageIInv(NtpFindings)' /\ busy' /\ stopped' = stopped /\ RequestKept
    BY <1>1, <1>2, <1>5, QuietStep DEF Quiet
  <2>2. /\ burst'.round = burst.round /\ NtpBurstOK'
        /\ burst'.verdict = IF burst.round = Samples THEN "none" ELSE NtpError
    BY <1>4, <1>5 DEF NtpIInv, NtpBurstOK
  <2>3. NtpStage'
    BY <1>2, <1>4, <1>5, <2>1, <2>2 DEF NtpStage, Awaiting, GoesOn
  <2> QED
    BY <1>3, <2>1, <2>2, <2>3, NtpWhileBusy DEF NtpIInv
<1>6. CASE /\ worker' = "conclude"
           /\ burst' = [burst EXCEPT !.verdict = "burst over"]
           /\ job' = [job EXCEPT !.status = "burst over"]
           /\ UNCHANGED <<shared, rendered>>
  <2>1. "burst over" \in Statuses
    BY DEF Statuses
  <2>2. /\ job' \in JobsOf(NtpFindings) /\ job'.request = job.request /\ job'.got = job.got
        /\ job'.status = "burst over"
    BY <1>1, <1>6, <2>1 DEF JobsOf
  <2>3. PageIInv(NtpFindings)' /\ busy' /\ stopped' = stopped /\ RequestKept
    BY <1>1, <1>2, <1>6, <2>2, QuietStep DEF Quiet
  <2>4. burst'.round = burst.round /\ NtpBurstOK' /\ burst'.verdict = "burst over"
    BY <1>6 DEF NtpIInv, NtpBurstOK
  <2>5. NtpStage'
    BY <1>2, <1>6, <2>2, <2>3, <2>4 DEF NtpStage, Awaiting, GoesOn
  <2> QED
    BY <1>3, <2>3, <2>4, <2>5, NtpWhileBusy DEF NtpIInv
<1>7. CASE /\ burst.round < Samples
           /\ worker' = "request"
           /\ burst' = [burst EXCEPT !.round = @ + 1, !.unmatched = 0]
           /\ job' = [job EXCEPT !.got = @ \cup {[number |-> burst.round + 1, note |-> "waiting", of |-> 0]},
                                 !.status = "waiting"]
           /\ Publish(job', FALSE)
  <2> DEFINE x == [number |-> burst.round + 1, note |-> "waiting", of |-> 0]
             got == job.got \cup {x}
  <2>1. burst.round + 1 \in 1..Samples /\ burst.round + 1 \in Nat /\ 0 \in 0..Samples
    BY <1>1, <1>7, NtpConstants
  <2>2. x \in NtpFindings
    BY <2>1 DEF NtpFindings
  <2>3. got \subseteq NtpFindings /\ x.number = burst.round + 1
    BY <1>1, <2>2
  <2>4. Numbered(got, burst.round + 1)
    BY <1>1, <1>2, <2>3, NumberedNext
  <2>5. job' = [job EXCEPT !.got = got, !.status = "waiting"] /\ "waiting" \in Statuses
    BY <1>7 DEF Statuses
  <2> HIDE DEF got
  <2>6. /\ job' \in JobsOf(NtpFindings) /\ job'.request = job.request /\ job'.got = got
    BY <1>1, <2>3, <2>5 DEF JobsOf
  <2>7. PageIInv(NtpFindings)' /\ busy' /\ stopped' = stopped /\ RequestKept
    BY <1>1, <1>2, <1>7, <2>6, ProgressStep
  <2>8. burst'.round = burst.round + 1 /\ burst'.verdict = "none" /\ NtpBurstOK'
    <3>1. burst.round + 1 \in 0..Samples /\ 0 \in Nat
      BY <2>1
    <3> QED
      BY <1>2, <1>7, <3>1 DEF NtpIInv, NtpBurstOK
  <2>9. /\ Answered(Others') /\ GoesOn(Others')
        /\ \A s \in job'.got : s.note \in BurstEnders => s.number = burst'.round
    <3>1. \A s \in Others' : s \in job.got
      BY <2>3, <2>6, <2>8 DEF Others, got
    <3>2. \A s \in job'.got : s \in job.got \/ s.note = "waiting"
      BY <2>6 DEF got
    <3> QED
      BY <1>2, <3>1, <3>2 DEF Answered, GoesOn, BurstEnders
  <2>10. handed' <= burst'.round /\ handed' < burst'.round /\ burst'.round > 0
    BY <1>1, <1>2, <2>8
  <2>11. Numbered(job'.got, burst'.round)
    BY <2>4, <2>6, <2>8
  <2>12. NtpStage'
    BY <1>7, <2>7, <2>8, <2>9, <2>10, <2>11 DEF NtpStage, Awaiting
  <2> QED
    BY <1>3, <2>7, <2>8, <2>12, NtpWhileBusy DEF NtpIInv
<1> QED
  BY <1>5, <1>6, <1>7 DEF NtpNextSample

\* An error of the sample is noted; only a time-out lets the burst go on.
LEMMA NtpFails ==
    ASSUME NtpIInv, worker \in Awaiting, Quiet, NEW e \in SampleOutcomes \ {"ok"}, NtpSampleFails(e)
    PROVE  NtpIInv' /\ RequestKept
<1>1. e \in {"timeout", "failed", "cancelled"} /\ (e = "cancelled" => stopped)
  BY NtpAtWork DEF SampleOutcomes, NtpError
<1>2. /\ job' = [job EXCEPT !.got = Others \cup {Sample(e, 0)}]
      /\ burst' = [burst EXCEPT !.verdict = IF e = "timeout" THEN @ ELSE e]
      /\ worker' = "record" /\ handed' = handed
  BY DEF NtpSampleFails
<1>3. /\ handed' \in Nat /\ handed' <= burst.round /\ burst.verdict = "none" /\ 0 \in 0..Samples
  <2>1. handed <= burst.round /\ burst.verdict = "none"
    BY DEF NtpIInv, NtpStage, Awaiting
  <2> QED
    BY <1>2, <2>1, NtpAtWork, NtpConstants
<1>4. burst'.round = burst.round /\ NtpBurstOK' /\ (burst'.verdict = "cancelled" => stopped)
  BY <1>1, <1>2, <1>3 DEF NtpIInv, NtpBurstOK
<1> QED
  BY <1>1, <1>2, <1>3, <1>4, NtpNotes DEF NtpNotesOf, BurstEnders

LEMMA NtpRequests == ASSUME NtpIInv, NtpRequest PROVE NtpIInv' /\ RequestKept
<1>1. /\ PageIInv(NtpFindings) /\ job \in JobsOf(NtpFindings) /\ handed \in Nat /\ ~armed
      /\ burst.round \in 0..Samples /\ burst.round \in Nat
  BY NtpAtWork
<1>2. /\ worker = "request" /\ Quiet /\ handed < burst.round /\ burst.round > 0
      /\ Numbered(job.got, burst.round) /\ Answered(Others) /\ burst.verdict = "none" /\ GoesOn(Others)
      /\ \A s \in job.got : s.note \in BurstEnders => s.number = burst.round
  BY DEF NtpRequest, NtpIInv, NtpStage, Awaiting
<1>3. CASE \E e \in SampleOutcomes \ {"ok"} : NtpSampleFails(e)
  BY <1>2, <1>3, NtpFails DEF Awaiting
<1>5. CASE /\ UNCHANGED handed
           /\ SampleNoted("bad clock", 0)
           /\ burst' = [burst EXCEPT !.verdict = "burst over"]
  <2>1. burst'.round = burst.round /\ burst'.verdict = "burst over" /\ NtpBurstOK'
    BY <1>5 DEF NtpIInv, NtpBurstOK
  <2>2. /\ worker' = "record" /\ job' = [job EXCEPT !.got = Others \cup {Sample("bad clock", 0)}]
        /\ handed' \in Nat /\ handed' <= burst.round /\ 0 \in 0..Samples
    <3>1. worker' = "record" /\ job' = [job EXCEPT !.got = Others \cup {Sample("bad clock", 0)}]
      BY <1>5 DEF SampleNoted
    <3>2. handed' = handed /\ handed \in Nat /\ burst.round \in Nat /\ handed < burst.round
      BY <1>1, <1>2, <1>5
    <3>3. handed' \in Nat /\ handed' <= burst.round /\ 0 \in 0..Samples
      BY <3>2, NtpConstants
    <3> QED
      BY <3>1, <3>3
  <2>3. "bad clock" \in NtpNotesOf
    BY DEF NtpNotesOf
  <2>4. worker \in Awaiting
    BY <1>2 DEF Awaiting
  <2> QED
    BY <1>2, <2>1, <2>2, <2>3, <2>4, NtpNotes
<1>4. CASE /\ handed' = handed + 1
           /\ \E missed \in BOOLEAN :
                burst' = [burst EXCEPT !.replies = IF missed THEN @ ELSE @ \cup {burst.round}]
           /\ worker' = "reply" /\ UNCHANGED job
  <2>1. handed' = handed + 1 /\ worker' = "reply" /\ job' = job
    BY <1>4
  <2>2. PICK missed \in BOOLEAN :
          burst' = [burst EXCEPT !.replies = IF missed THEN @ ELSE @ \cup {burst.round}]
    BY <1>4
  <2>3. handed' \in Nat /\ handed' <= burst.round
    BY <1>1, <1>2, <2>1
  <2>4. burst.round \in 1..Samples
    BY <1>1, <1>2, NtpConstants
  <2>5. burst'.round = burst.round /\ burst'.verdict = "none" /\ NtpBurstOK'
    <3>1. (IF missed THEN burst.replies ELSE burst.replies \cup {burst.round}) \in SUBSET (1..Samples)
      BY <2>4 DEF NtpIInv, NtpBurstOK
    <3> QED
      BY <1>2, <2>2, <3>1 DEF NtpIInv, NtpBurstOK
  <2>6. PageIInv(NtpFindings)' /\ busy' /\ stopped' = stopped /\ RequestKept
    BY <1>1, <1>2, <2>1, <2>3, QuietStep
  <2>7. Others' = Others
    BY <2>1, <2>5 DEF Others
  <2>8. NtpStage'
    BY <1>2, <2>1, <2>3, <2>5, <2>6, <2>7 DEF NtpStage, Awaiting
  <2>9. ~armed'
    BY <1>1, <1>2 DEF Quiet, Local, arming
  <2> QED
    BY <2>5, <2>6, <2>8, <2>9, NtpWhileBusy DEF NtpIInv
<1> QED
  BY <1>3, <1>4, <1>5 DEF NtpRequest

\* A reply to an earlier request is never taken for the answer to this one.
LEMMA NtpReplies == ASSUME NtpIInv, NtpReply PROVE NtpIInv' /\ RequestKept
<1>1. /\ PageIInv(NtpFindings) /\ job \in JobsOf(NtpFindings) /\ handed \in Nat /\ ~armed
      /\ burst.round \in 0..Samples /\ burst.round \in Nat
  BY NtpAtWork
<1>2. /\ worker = "reply" /\ worker \in Awaiting /\ Quiet /\ handed <= burst.round /\ burst.round > 0
      /\ Numbered(job.got, burst.round) /\ Answered(Others) /\ burst.verdict = "none" /\ GoesOn(Others)
      /\ \A s \in job.got : s.note \in BurstEnders => s.number = burst.round
  BY DEF NtpReply, NtpIInv, NtpStage, Awaiting
<1>3. CASE \E e \in SampleOutcomes \ {"ok"} : NtpSampleFails(e)
  BY <1>2, <1>3, NtpFails
<1>4. CASE \E r \in burst.replies \cup {0}, copied \in BOOLEAN :
             LET left == IF copied THEN burst.replies ELSE burst.replies \ {r} IN
             /\ NtpError = "ok" /\ UNCHANGED handed
             /\ \/ /\ "other origin" \in Parsed(r) /\ burst.unmatched + 1 < MaxUnmatched
                   /\ burst' = [burst EXCEPT !.replies = left, !.unmatched = @ + 1]
                   /\ UNCHANGED <<job, worker>>
                \/ \E note \in Parsed(r) :
                     /\ note = "other origin" => burst.unmatched + 1 >= MaxUnmatched
                     /\ SampleNoted(IF note = "other origin" THEN "rejected" ELSE note,
                                    IF note = "valid" THEN r ELSE 0)
                     /\ burst' = [burst EXCEPT !.replies = left,
                                   !.verdict = IF note \in BurstEnders THEN "burst over" ELSE @]
  <2>1. PICK r \in burst.replies \cup {0}, copied \in BOOLEAN :
             LET left == IF copied THEN burst.replies ELSE burst.replies \ {r} IN
             /\ NtpError = "ok" /\ UNCHANGED handed
             /\ \/ /\ "other origin" \in Parsed(r) /\ burst.unmatched + 1 < MaxUnmatched
                   /\ burst' = [burst EXCEPT !.replies = left, !.unmatched = @ + 1]
                   /\ UNCHANGED <<job, worker>>
                \/ \E note \in Parsed(r) :
                     /\ note = "other origin" => burst.unmatched + 1 >= MaxUnmatched
                     /\ SampleNoted(IF note = "other origin" THEN "rejected" ELSE note,
                                    IF note = "valid" THEN r ELSE 0)
                     /\ burst' = [burst EXCEPT !.replies = left,
                                   !.verdict = IF note \in BurstEnders THEN "burst over" ELSE @]
    BY <1>4
  <2> DEFINE left == IF copied THEN burst.replies ELSE burst.replies \ {r}
  <2>2. r \in 0..Samples /\ 0 \in 0..Samples /\ left \in SUBSET (1..Samples)
    <3>1. burst.replies \subseteq 1..Samples
      BY DEF NtpIInv, NtpBurstOK
    <3> QED
      BY <3>1, NtpConstants
  <2>3. handed' = handed /\ handed' \in Nat /\ handed' <= burst.round
    BY <1>1, <1>2, <2>1
  <2>4. CASE /\ burst' = [burst EXCEPT !.replies = left, !.unmatched = @ + 1]
             /\ UNCHANGED <<job, worker>>
    <3> HIDE DEF left
    <3>2. burst.unmatched + 1 \in Nat
      <4>1. burst.unmatched \in Nat
        BY DEF NtpIInv, NtpBurstOK
      <4> QED
        BY <4>1
    <3>3. burst'.round = burst.round /\ NtpBurstOK' /\ burst'.verdict = "none"
      BY <1>2, <2>2, <2>4, <3>2 DEF NtpIInv, NtpBurstOK
    <3>4. PageIInv(NtpFindings)' /\ busy' /\ stopped' = stopped /\ RequestKept
      BY <1>1, <1>2, <2>3, <2>4, QuietStep
    <3>5. Others' = Others
      BY <2>4, <3>3 DEF Others
    <3>6. NtpStage'
      <4>1. worker' = "reply" /\ job' = job
        BY <1>2, <2>4
      <4> QED
        BY <1>2, <2>3, <3>3, <3>4, <3>5, <4>1 DEF NtpStage, Awaiting
    <3>7. ~armed'
      BY <1>1, <1>2 DEF Quiet, Local, arming
    <3> QED
      BY <3>3, <3>4, <3>6, <3>7, NtpWhileBusy DEF NtpIInv
  <2>5. CASE \E note \in Parsed(r) :
               /\ SampleNoted(IF note = "other origin" THEN "rejected" ELSE note,
                              IF note = "valid" THEN r ELSE 0)
               /\ burst' = [burst EXCEPT !.replies = left,
                             !.verdict = IF note \in BurstEnders THEN "burst over" ELSE @]
    <3>1. PICK note \in Parsed(r) :
            /\ SampleNoted(IF note = "other origin" THEN "rejected" ELSE note,
                           IF note = "valid" THEN r ELSE 0)
            /\ burst' = [burst EXCEPT !.replies = left,
                          !.verdict = IF note \in BurstEnders THEN "burst over" ELSE @]
      BY <2>5
    <3> DEFINE noted == IF note = "other origin" THEN "rejected" ELSE note
               from == IF note = "valid" THEN r ELSE 0
    <3>2. /\ noted \in NtpNotesOf /\ from \in 0..Samples
          /\ noted = "valid" => from = burst.round
          /\ noted \in BurstEnders <=> note \in BurstEnders
      BY <2>2, <3>1 DEF Parsed, SameOrigin, NtpNotesOf, BurstEnders
    <3>3. /\ job' = [job EXCEPT !.got = Others \cup {Sample(noted, from)}]
          /\ worker' = "record"
      BY <3>1 DEF SampleNoted
    <3> HIDE DEF left, noted, from
    <3>4. /\ burst'.round = burst.round /\ NtpBurstOK' /\ burst'.verdict # "cancelled"
          /\ note \in BurstEnders => burst'.verdict # "none"
      BY <1>2, <2>2, <3>1 DEF NtpIInv, NtpBurstOK
    <3> QED
      BY <1>2, <2>3, <3>2, <3>3, <3>4, NtpNotes
  <2> QED
    BY <2>1, <2>4, <2>5
<1> QED
  BY <1>3, <1>4 DEF NtpReply

\* The end of the loop's body: the sample is published as it was noted.
LEMMA NtpRecords == ASSUME NtpIInv, NtpRecord PROVE NtpIInv' /\ RequestKept
<1>1. /\ PageIInv(NtpFindings) /\ job \in JobsOf(NtpFindings) /\ handed \in Nat /\ ~armed
  BY NtpAtWork
<1>2. /\ worker = "record" /\ Local /\ handed' = handed /\ handed' \in Nat /\ burst' = burst
      /\ job' = IF burst.verdict = "burst over" THEN [job EXCEPT !.status = "burst over"] ELSE job
      /\ Publish(job', FALSE)
      /\ worker' = IF burst.verdict = "none" THEN "next" ELSE "conclude"
  BY <1>1 DEF NtpRecord
<1>3. /\ handed <= burst.round /\ Numbered(job.got, burst.round) /\ Answered(job.got)
      /\ burst.verdict = "cancelled" => stopped
  BY <1>2 DEF NtpIInv, NtpStage, Awaiting
<1>4. /\ job' \in JobsOf(NtpFindings) /\ job'.request = job.request /\ job'.got = job.got
      /\ burst.verdict = "burst over" => job'.status = "burst over"
  <2>1. "burst over" \in Statuses
    BY DEF Statuses
  <2>2. CASE burst.verdict = "burst over"
    BY <1>1, <1>2, <2>1, <2>2 DEF JobsOf
  <2>3. CASE burst.verdict # "burst over"
    BY <1>1, <1>2, <2>3
  <2> QED
    BY <2>2, <2>3
<1>5. PageIInv(NtpFindings)' /\ busy' /\ stopped' = stopped /\ RequestKept
  BY <1>1, <1>2, <1>4, ProgressStep
<1>6. NtpStage' /\ NtpBurstOK'
  BY <1>2, <1>3, <1>4, <1>5 DEF NtpStage, Awaiting, NtpIInv, NtpBurstOK
<1>7. ~armed'
  BY <1>1, <1>2 DEF Local, arming
<1> QED
  BY <1>5, <1>6, <1>7, NtpWhileBusy DEF NtpIInv

\* The verdict, and then the report, which knows of every stop so far.
LEMMA NtpConcludes == ASSUME NtpIInv, NtpConclude PROVE NtpIInv' /\ RequestKept
<1>1. /\ PageIInv(NtpFindings) /\ job \in JobsOf(NtpFindings) /\ handed \in Nat /\ ~armed
      /\ (cancelled <=> stopped)
  BY NtpAtWork
<1>2. /\ worker \in {"conclude", "publish"} /\ handed' = handed /\ handed' \in Nat
      /\ handed <= burst.round /\ Numbered(job.got, burst.round) /\ Answered(job.got)
      /\ burst.verdict = "cancelled" => stopped
      /\ \A s \in job.got : s.note \in BurstEnders => s.number = burst.round
  BY <1>1 DEF NtpConclude, NtpIInv, NtpStage, Awaiting
<1>3. CASE worker = "conclude"
  <2>1. /\ Quiet /\ worker' = "publish" /\ job' = [job EXCEPT !.status = NtpVerdict]
        /\ burst' = burst
    BY <1>3 DEF NtpConclude
  <2>2. /\ burst.verdict = "none" => burst.round = Samples
        /\ burst.verdict = "burst over" => job.status = "burst over"
        /\ burst.verdict \in {"none", "timeout", "failed", "cancelled", "burst over"}
    BY <1>3 DEF NtpIInv, NtpStage, NtpBurstOK
  <2>3. /\ NtpVerdict \in {"done", "timeout", "failed", "cancelled", "burst over"}
        /\ NtpVerdict = "done" => burst.round = Samples
        /\ NtpVerdict = "cancelled" => stopped
    BY <1>2, <2>2 DEF NtpVerdict
  <2>4. NtpVerdict \in Statuses
    BY <2>3 DEF Statuses
  <2>5. /\ job' \in JobsOf(NtpFindings) /\ job'.request = job.request /\ job'.got = job.got
        /\ job'.status = NtpVerdict
    BY <1>1, <2>1, <2>4 DEF JobsOf
  <2>6. PageIInv(NtpFindings)' /\ busy' /\ stopped' = stopped /\ RequestKept
    BY <1>1, <1>2, <1>3, <2>1, <2>5, QuietStep
  <2>7. NtpStage' /\ NtpBurstOK'
    BY <1>2, <2>1, <2>3, <2>5, <2>6 DEF NtpStage, Awaiting, NtpIInv, NtpBurstOK
  <2>8. ~armed'
    BY <1>1, <2>1 DEF Quiet, Local, arming
  <2> QED
    BY <2>6, <2>7, <2>8, NtpWhileBusy DEF NtpIInv
<1>4. CASE worker = "publish"
  <2> DEFINE j == IF cancelled THEN [job EXCEPT !.status = "cancelled"] ELSE job
  <2>1. /\ Publish(j, TRUE) /\ worker' = "none" /\ job' = NoJob /\ Local /\ burst' = NoBurst
    BY <1>4 DEF NtpConclude
  <2>2. /\ job.status = "done" => burst.round = Samples
        /\ job.status = "cancelled" => stopped
    BY <1>4 DEF NtpIInv, NtpStage
  <2>3. /\ j \in JobsOf(NtpFindings) /\ j.request = job.request /\ j.got = job.got
        /\ j.status = "cancelled" <=> stopped
        /\ j.status = "done" => burst.round = Samples
    <3>1. CASE cancelled
      <4>1. "cancelled" \in Statuses /\ j = [job EXCEPT !.status = "cancelled"]
        BY <3>1 DEF Statuses
      <4>2. /\ j \in JobsOf(NtpFindings) /\ j.request = job.request /\ j.got = job.got
            /\ j.status = "cancelled"
        BY <1>1, <4>1 DEF JobsOf
      <4> QED
        BY <1>1, <3>1, <4>2
    <3>2. CASE ~cancelled
      BY <1>1, <2>2, <3>2
    <3> QED
      BY <3>1, <3>2
  <2> HIDE DEF j
  <2>4. PageIInv(NtpFindings)' /\ ~busy' /\ published' = j /\ stopped' = stopped /\ RequestKept
    BY <1>1, <1>2, <1>4, <2>1, <2>3, EndStep
  <2>5. NtpStage'
    BY <2>1 DEF NtpStage, Awaiting
  <2>6. Cardinality(j.got) = burst.round /\ {s.number : s \in j.got} = 1..burst.round
    BY <1>2, <2>3 DEF Numbered
  <2>7. Cardinality(j.got) >= handed'
    BY <1>1, <1>2, <2>6, NtpAtWork
  <2>8. NtpHonest'
    <3>1. \A s \in j.got : s.note \in BurstEnders => s.number = Cardinality(j.got)
      BY <1>2, <2>3, <2>6
    <3>2. \A s \in j.got : s.note # "waiting" /\ (s.note = "valid" => s.of = s.number)
      BY <1>2, <2>3 DEF Answered
    <3> QED
      BY <2>3, <2>4, <2>6, <2>7, <3>1, <3>2 DEF NtpHonest
  <2>9. ~armed' /\ NtpBurstOK'
    BY <1>1, <2>1, EmptyBurst DEF Local, arming, NtpBurstOK
  <2> QED
    BY <2>4, <2>5, <2>8, <2>9 DEF NtpIInv
<1> QED
  BY <1>2, <1>3, <1>4

\* The callbacks: only the tap that starts a burst touches the job, and there is none then.
LEMMA NtpCallbacks ==
    ASSUME NtpIInv, UNCHANGED burst,
           Expire \/ NtpRefresh \/ NtpStart \/ NtpEdit \/ NtpStopClicked \/ NtpStop \/ NtpShow
    PROVE  NtpIInv' /\ (JobKept \/ NtpStart)
<1>1. PageIInv(NtpFindings) /\ ~armed
  BY DEF NtpIInv
<1>2. ASSUME PageIInv(NtpFindings)' /\ JobKept, ~armed' PROVE NtpIInv' /\ JobKept
  BY <1>2, NtpKept DEF NtpIInv
<1>3. CASE Expire
  BY <1>1, <1>2, <1>3, ExpireStep DEF Expire, arming
<1>4. CASE NtpRefresh
  BY <1>1, <1>2, <1>4, RefreshStep DEF NtpRefresh, Refresh, arming
<1>5. CASE NtpStart
  <2>1. form \in Requests /\ ~busy /\ Take(form)
    BY <1>1, <1>5 DEF NtpStart, PageIInv, PageTypes, Forms
  <2>2. /\ PageIInv(NtpFindings)'
        /\ handed' = 0 /\ ~published'.sent /\ published'.got = {}
        /\ \/ busy' /\ worker' = "start" /\ published'.status = "starting"
           \/ ~busy' /\ worker' = worker /\ published'.status = "no worker"
    BY <1>1, <2>1, TakeStep
  <2>3. worker = "none" /\ ~armed'
    BY <1>1, <2>1 DEF PageIInv, OneWorker, Take, Disarm
  <2>4. NtpStage' /\ NtpBurstOK'
    BY <2>2, <2>3 DEF NtpIInv, NtpStage, Awaiting, NtpBurstOK
  <2>5. NtpHonest'
    BY <2>2 DEF NtpHonest, Ended
  <2> QED
    BY <1>5, <2>2, <2>3, <2>4, <2>5 DEF NtpIInv
<1>6. CASE NtpEdit
  BY <1>1, <1>2, <1>6, EditStep DEF NtpEdit, Edit, Disarm
<1>7. CASE NtpStopClicked
  BY <1>1, <1>2, <1>7, StopStep DEF NtpStopClicked, Stop, arming
<1>8. CASE NtpStop
  BY <1>1, <1>2, <1>8, LeaveStep DEF NtpStop, Leave, Disarm
<1>9. CASE NtpShow
  BY <1>1, <1>2, <1>9, EnterStep DEF NtpShow, Enter, arming
<1> QED
  BY <1>3, <1>4, <1>5, <1>6, <1>7, <1>8, <1>9

LEMMA NtpInitially == ASSUME NtpInit PROVE NtpIInv
<1>1. PageIInv(NtpFindings)
  BY PageInitially DEF NtpInit
<1>2. worker = "none" /\ busy = FALSE /\ published = NoJob /\ ~armed /\ burst = NoBurst
  BY DEF Init, NtpInit
<1>3. published.request = NoRequest
  BY <1>2, EmptyJob DEF NoJob, Statuses
<1>4. NtpBurstOK
  BY <1>2, EmptyBurst DEF NtpBurstOK
<1> QED
  BY <1>1, <1>2, <1>3, <1>4 DEF NtpIInv, NtpStage, Awaiting, NtpHonest, Ended

LEMMA NtpStep == ASSUME NtpIInv, [NtpNext]_ntpVars PROVE NtpIInv'
<1>1. CASE NtpWorker
  BY <1>1, NtpTakeJob, NtpOpens, NtpNextSamples, NtpRequests, NtpReplies, NtpRecords, NtpConcludes
     DEF NtpWorker, NtpTask
<1>2. CASE UNCHANGED ntpVars
  <2>1. PageIInv(NtpFindings)' /\ JobKept
    BY <1>2, PageStutter DEF NtpIInv, ntpVars
  <2>2. armed' = armed /\ burst' = burst
    BY <1>2 DEF ntpVars, vars, arming
  <2> QED
    BY <2>1, <2>2, NtpKept DEF NtpIInv
<1> QED
  BY <1>1, <1>2, NtpCallbacks DEF NtpNext

\* A burst of NTP samples that has ended, for whatever reason, leaves no sample that waits,
\* none that is valid for the reply to another request, and no gap in their numbers.
THEOREM NtpReportsHonest == NtpSpec => [](ToolInv /\ NtpHonest)
<1>1. NtpIInv => ToolInv /\ NtpHonest
  BY PageBookkeeping DEF NtpIInv
<1> QED
  BY <1>1, NtpInitially, NtpStep, PTL DEF NtpSpec

-----------------------------------------------------------------------------
(* The tools side by side.                                                 *)

\* A callback that starts no job: it leaves the abstract job alone.
LEMMA NotTaken ==
    ASSUME JobKept
    PROVE  (~busy => ~busy') /\ UNCHANGED Promise!vars
  BY DEF JobKept, Promise!vars

\* A worker's step: the request goes on, or becomes the one whose result is on record.
LEMMA WorkerKeepsPromise ==
    ASSUME NEW found, PageIInv(found), PageIInv(found)', RequestKept
    PROVE  busy /\ [Promise!Next]_(Promise!vars)
<1>1. busy /\ published'.request = published.request /\ published.request # NoRequest
  BY ToolConstants DEF RequestKept, PageIInv
<1>2. CASE busy'
  BY <1>1, <1>2 DEF Promise!vars
<1>3. CASE ~busy'
  BY <1>1, <1>3 DEF Promise!Next, Promise!End
<1> QED
  BY <1>1, <1>2, <1>3

\* A job begins, or is over before it has begun.
LEMMA TakeKeepsPromise ==
    ASSUME NEW found, PageIInv(found), NEW r \in Requests, ~busy, Take(r)
    PROVE  /\ Promise!Next
           /\ published'.request = r
<1>1. /\ published'.request = r /\ busy' \in BOOLEAN
  BY TakeStep DEF PageIInv, PageTypes
<1>2. CASE busy'
  BY <1>1, <1>2 DEF Promise!Next, Promise!Take
<1>3. CASE ~busy'
  BY <1>1, <1>3 DEF Promise!Next, Promise!TakeAndEnd
<1> QED
  BY <1>1, <1>2, <1>3

\* The window is still open when an armed confirmation is taken that the page does not
\* find expired.
LEMMA TakenIsConfirmed ==
    ASSUME NEW found, PageIInv(found), armed, confirmation = form, age <= ConfirmWindow
    PROVE  Confirmed(form)
  BY DEF PageIInv, ArmedIsFresh, Confirmed

\* Every step of each tool: a step of the abstract job, and a job is only begun by a tap
\* that confirms it, but for the connection test and NTP.
LEMMA UdpPromise ==
    ASSUME UdpIInv, [UdpNext]_vars
    PROVE  /\ [Promise!Next]_(Promise!vars)
           /\ ~busy /\ busy' => Confirmed(published'.request)
<1>1. PageIInv(UdpFindings) /\ PageIInv(UdpFindings)'
  BY UdpStep DEF UdpIInv
<1>2. CASE UdpWorker
  <2>1. RequestKept
    BY <1>2, UdpTakeJob, UdpLooks, UdpSends, UdpReceives, UdpConcludes DEF UdpWorker
  <2> QED
    BY <1>1, <2>1, WorkerKeepsPromise
<1>3. CASE UdpConfirm
  <2>1. form \in Requests /\ ~busy /\ Take(form)
    BY <1>1, <1>3 DEF UdpConfirm, UdpReady, PageIInv, PageTypes, Forms
  <2>2. age <= ConfirmWindow
    BY <1>1, <1>3, ToolConstants DEF UdpConfirm, UdpExpired, PageIInv, PageTypes
  <2> QED
    BY <1>1, <1>3, <2>1, <2>2, TakeKeepsPromise, TakenIsConfirmed DEF UdpConfirm
<1>4. CASE JobKept
  BY <1>4, NotTaken
<1> QED
  BY <1>1, <1>2, <1>3, <1>4, UdpCallbacks, PageStutter DEF UdpNext

LEMMA WolPromise ==
    ASSUME WolIInv, [WolNext]_vars
    PROVE  /\ [Promise!Next]_(Promise!vars)
           /\ ~busy /\ busy' => Confirmed(published'.request)
<1>1. PageIInv({}) /\ PageIInv({})'
  BY WolStep DEF WolIInv
<1>2. CASE WolWorker
  <2>1. RequestKept
    BY <1>2, WolTakeJob, WolLooks, WolSends, WolConcludes DEF WolWorker
  <2> QED
    BY <1>1, <2>1, WorkerKeepsPromise
<1>3. CASE WolConfirm
  <2>1. form \in Requests /\ ~busy /\ Take(form)
    BY <1>1, <1>3 DEF WolConfirm, WolReady, PageIInv, PageTypes, Forms
  <2>2. age <= ConfirmWindow
    BY <1>1, <1>3, ToolConstants DEF WolConfirm, WolExpired, PageIInv, PageTypes
  <2> QED
    BY <1>1, <1>3, <2>1, <2>2, TakeKeepsPromise, TakenIsConfirmed DEF WolConfirm
<1>4. CASE JobKept
  BY <1>4, NotTaken
<1> QED
  BY <1>1, <1>2, <1>3, <1>4, WolCallbacks, PageStutter DEF WolNext

LEMMA ModbusPromise ==
    ASSUME ModbusIInv, [ModbusNext]_vars
    PROVE  /\ [Promise!Next]_(Promise!vars)
           /\ ~busy /\ busy' /\ published'.request # Probe => Confirmed(published'.request)
<1>1. PageIInv(ModbusFindings) /\ PageIInv(ModbusFindings)'
  BY ModbusStep DEF ModbusIInv
<1>2. CASE ModbusWorker
  <2>1. RequestKept
    BY <1>2, ModbusTakeJob, ModbusConnects, ModbusSends, ModbusReceives, ModbusConcludes
       DEF ModbusWorker
  <2> QED
    BY <1>1, <2>1, WorkerKeepsPromise
<1>3. CASE ModbusConfirm
  <2>1. form \in Requests /\ ~busy /\ Take(form)
    BY <1>1, <1>3 DEF ModbusConfirm, ModbusReady, PageIInv, PageTypes, Forms
  <2>2. age <= ConfirmWindow
    BY <1>1, <1>3, ToolConstants DEF ModbusConfirm, ModbusExpired, PageIInv, PageTypes
  <2> QED
    BY <1>1, <1>3, <2>1, <2>2, TakeKeepsPromise, TakenIsConfirmed DEF ModbusConfirm
<1>4. CASE ModbusTest
  BY <1>1, <1>4, ToolConstants, TakeKeepsPromise DEF ModbusTest, ModbusReady
<1>5. CASE JobKept
  BY <1>5, NotTaken
<1> QED
  BY <1>1, <1>2, <1>3, <1>4, <1>5, ModbusCallbacks, PageStutter DEF ModbusNext

LEMMA NtpPromise ==
    ASSUME NtpIInv, [NtpNext]_ntpVars
    PROVE  [Promise!Next]_(Promise!vars)
<1>1. PageIInv(NtpFindings) /\ PageIInv(NtpFindings)'
  BY NtpStep DEF NtpIInv
<1>2. CASE NtpWorker
  <2>1. RequestKept
    BY <1>2, NtpTakeJob, NtpOpens, NtpNextSamples, NtpRequests, NtpReplies, NtpRecords, NtpConcludes
       DEF NtpWorker, NtpTask
  <2> QED
    BY <1>1, <2>1, WorkerKeepsPromise
<1>3. CASE NtpStart
  <2>1. form \in Requests /\ ~busy /\ Take(form)
    BY <1>1, <1>3 DEF NtpStart, PageIInv, PageTypes, Forms
  <2> QED
    BY <1>1, <2>1, TakeKeepsPromise
<1>4. CASE JobKept
  BY <1>4, NotTaken
<1> QED
  BY <1>1, <1>2, <1>3, <1>4, NtpCallbacks, PageStutter DEF NtpNext, ntpVars

\* Whichever tool runs keeps its invariant; the others' state does not change.
ToolsIInv ==
    /\ tool \in {"udp", "wol", "modbus", "ntp", "ender", "alarms"}
    /\ tool = "udp" => UdpIInv
    /\ tool = "wol" => WolIInv
    /\ tool = "modbus" => ModbusIInv
    /\ tool = "ntp" => NtpIInv
    /\ tool \in {"ender", "alarms"} => PageIInv({})

LEMMA ToolsInitially == ASSUME ToolInit PROVE ToolsIInv
<1>1. Init /\ NtpInit
  BY DEF ToolInit, NtpInit
<1> QED
  BY <1>1, UdpInitially, WolInitially, ModbusInitially, NtpInitially, PageInitially
     DEF ToolInit, ToolsIInv

\* What a step of the tools is, for the tool that runs.
LEMMA ToolsStep ==
    ASSUME ToolsIInv, [ToolNext]_toolVars
    PROVE  /\ ToolsIInv'
           /\ [Promise!Next]_(Promise!vars)
           /\ ~busy /\ busy' /\ tool # "ntp" /\ published'.request # Probe
              => Confirmed(published'.request)
<1>1. tool' = tool
  BY DEF ToolNext, toolVars
<1>2. CASE tool = "udp"
  <2>1. UdpIInv /\ [UdpNext]_vars
    BY <1>2 DEF ToolsIInv, ToolNext, toolVars
  <2> QED
    BY <1>1, <1>2, <2>1, UdpStep, UdpPromise DEF ToolsIInv
<1>3. CASE tool = "wol"
  <2>1. WolIInv /\ [WolNext]_vars
    BY <1>3 DEF ToolsIInv, ToolNext, toolVars
  <2> QED
    BY <1>1, <1>3, <2>1, WolStep, WolPromise DEF ToolsIInv
<1>4. CASE tool = "modbus"
  <2>1. ModbusIInv /\ [ModbusNext]_vars
    BY <1>4 DEF ToolsIInv, ToolNext, toolVars
  <2> QED
    BY <1>1, <1>4, <2>1, ModbusStep, ModbusPromise DEF ToolsIInv
<1>5. CASE tool = "ntp"
  <2>1. NtpIInv /\ [NtpNext]_ntpVars
    BY <1>5 DEF ToolsIInv, ToolNext, toolVars, ntpVars
  <2> QED
    BY <1>1, <1>5, <2>1, NtpStep, NtpPromise DEF ToolsIInv
<1>6. CASE tool \in {"ender", "alarms"}
  <2>1. PageIInv({}) /\ UNCHANGED vars
    BY <1>6 DEF ToolsIInv, ToolNext, toolVars
  <2>2. PageIInv({})' /\ JobKept
    BY <2>1, PageStutter
  <2> QED
    BY <1>1, <1>6, <2>2, NotTaken DEF ToolsIInv
<1> QED
  BY <1>2, <1>3, <1>4, <1>5, <1>6 DEF ToolsIInv

\* The pages and workers of the four tools agree on the job: there is a worker exactly
\* while it is busy, and what the page has drawn is the job it names.
THEOREM ToolsAgree == ToolSpec => []ToolInv
<1>1. ToolsIInv => ToolInv
  BY PageBookkeeping DEF ToolsIInv, UdpIInv, WolIInv, ModbusIInv, NtpIInv
<1> QED
  BY <1>1, ToolsInitially, ToolsStep, PTL DEF ToolSpec

\* What each tool reports of a job that has ended is true.
THEOREM ToolsReportHonestly == ToolSpec => []ReportsHonest
<1>1. ToolsIInv => ReportsHonest
  BY DEF ToolsIInv, ReportsHonest, UdpIInv, WolIInv, ModbusIInv, NtpIInv
<1> QED
  BY <1>1, ToolsInitially, ToolsStep, PTL DEF ToolSpec

\* Nothing is sent that was not confirmed as it is, no longer than the window ago, however
\* the form changes and the tick wraps.
THEOREM ToolsSendConfirmed == ToolSpec => SentIfConfirmed
<1>1. ASSUME ToolsIInv, [ToolNext]_toolVars
      PROVE  [~busy /\ busy' /\ tool # "ntp" /\ published'.request # Probe
              => Confirmed(published'.request)]_toolVars
  BY <1>1, ToolsStep
<1> QED
  BY <1>1, ToolsInitially, ToolsStep, PTL DEF ToolSpec, SentIfConfirmed

\* The safety part of ImplementsToolJob: one request at a time, and the result on record is
\* that of the request it names.  That every request ends is left to TLC.
THEOREM ToolsKeepPromise == ToolSpec => Promise!SafeSpec
<1>1. ToolInit => Promise!Init
  <2>1. NoJob.request = NoRequest
    BY EmptyJob DEF NoJob, Statuses
  <2> QED
    BY <2>1 DEF ToolInit, NtpInit, Init, Promise!Init
<1> QED
  BY <1>1, ToolsInitially, ToolsStep, PTL DEF ToolSpec, Promise!SafeSpec

-----------------------------------------------------------------------------
(* The printer console.                                                    *)

\* The variables stay in their domains.
TaskTypes ==
    /\ connTask \in {"none", "check", "wait", "close", "unflag", "open", "opened", "configure", "publish",
                     "flag", "pend", "last close", "ended"}
    /\ opened \in 0..MaxOpens /\ hdl \in 0..MaxOpens /\ opens \in 0..MaxOpens
    /\ lost \in {"here", "pulled", "reported"}
FlagTypes ==
    /\ connected \in BOOLEAN /\ initPending \in BOOLEAN /\ stopRequested \in BOOLEAN
    /\ handle \in BOOLEAN /\ sems \in BOOLEAN /\ connSem \in BOOLEAN /\ doneSem \in BOOLEAN
    /\ hostStarted \in BOOLEAN /\ cdcReady \in BOOLEAN /\ power \in BOOLEAN
    /\ tickTimer \in BOOLEAN /\ moving \in BOOLEAN /\ quiet \in BOOLEAN /\ plugged \in BOOLEAN
LvglTypes ==
    /\ lvgl \in [at : {"idle", "lower", "again", "look", "send", "rest", "join", "release", "start"}, n : Nat]
    /\ sinceSetup \in 0..RetryTicks
SetupTypes == setup \in [to : 0..MaxOpens, n : 0..SetupCommands, missed : 0..SetupCommands]
EnderShape == TaskTypes /\ FlagTypes /\ LvglTypes /\ SetupTypes

\* The task and what it has open belong to the handle, until the task has said that it
\* ended; what is released was nobody's any more.
HandleOwns ==
    /\ Alive => handle
    /\ opened # 0 => Alive
    /\ handle => sems /\ cdcReady
    /\ cdcReady => hostStarted
    /\ hostStarted <=> power
    /\ doneSem => handle /\ ~Alive
    /\ lvgl.at \in {"release", "start"} => ~handle

\* Where the task is says what it has open and published, and whether it was told to stop.
TaskAgrees ==
    /\ connTask \in {"configure", "publish", "flag", "pend"} => opened # 0
    /\ connTask \in {"flag", "pend"} => hdl = opened
    /\ connTask \in {"open", "opened", "configure", "publish", "flag"} => ~connected
    /\ connected /\ connTask \in {"check", "wait"} => opened # 0 /\ hdl = opened
    /\ connTask = "last close" => stopRequested
    /\ lvgl.at = "join" => stopRequested

\* A token for the task stands for a loss that was reported or for the wish to stop.
TokenMeans ==
    /\ connSem /\ ~stopRequested => lost = "reported" /\ opened # 0
    /\ connTask = "close" /\ ~stopRequested => ~connSem /\ lost = "reported"

\* How far the setup of the connection in use has come: the commands tried on it.
Tried == setup.n + setup.missed
Settled == connected /\ connTask \in {"check", "wait"} /\ ~initPending /\ ~stopRequested
SetupProgress ==
    /\ lvgl.at \in {"look", "send"} => lvgl.n < SetupCommands /\ Tried <= lvgl.n
    /\ Settled /\ lvgl.at \in {"look", "send"} /\ lvgl.n > 0 => setup.to = hdl /\ Tried = lvgl.n
    /\ Settled /\ lvgl.at \in {"idle", "rest"} => setup.to = hdl /\ Tried = SetupCommands
    /\ Settled => lvgl.at # "lower"

EnderIInv == EnderShape /\ HandleOwns /\ TaskAgrees /\ TokenMeans /\ SetupProgress

\* The constants, one by one.
LEMMA EnderConstants ==
    /\ SetupCommands \in Nat /\ SetupCommands > 0 /\ 0 \in 0..SetupCommands
    /\ RetryTicks \in Nat /\ RetryTicks > 0 /\ 0 \in 0..RetryTicks
    /\ MaxOpens \in Nat /\ MaxOpens > 0 /\ 0 \in 0..MaxOpens
  BY EnderAssumption

\* The count of connections is a number.
LEMMA OpensRange == ASSUME TaskTypes PROVE opens \in Nat
<1>1. opens \in 0..MaxOpens /\ MaxOpens \in Nat
  BY EnderConstants DEF TaskTypes
<1> QED
  BY <1>1

\* The page is left and nothing is open.
LEMMA EnderInitially == EnderInit => EnderIInv
<1> SUFFICES ASSUME EnderInit PROVE EnderIInv
  OBVIOUS
<1>1. TaskTypes
  BY EnderConstants DEF EnderInit, TaskTypes
<1>5. FlagTypes
  BY DEF EnderInit, FlagTypes
<1>2. LvglTypes
  BY EnderConstants DEF EnderInit, LvglTypes, AtRest
<1>3. SetupTypes
  BY EnderConstants DEF EnderInit, SetupTypes, NoSetup
<1>4. HandleOwns /\ TaskAgrees /\ TokenMeans /\ SetupProgress
  BY DEF EnderInit, HandleOwns, TaskAgrees, TokenMeans, SetupProgress, Settled, Alive, AtRest
<1> QED
  BY <1>1, <1>2, <1>3, <1>4, <1>5 DEF EnderIInv, EnderShape

\* Where the LVGL task and the setup are.
LEMMA SetupRanges ==
  ASSUME TaskTypes, LvglTypes, SetupTypes
  PROVE  /\ lvgl = [at |-> lvgl.at, n |-> lvgl.n] /\ lvgl.n \in Nat /\ hdl \in 0..MaxOpens
         /\ setup = [to |-> setup.to, n |-> setup.n, missed |-> setup.missed]
         /\ setup.to \in 0..MaxOpens /\ setup.n \in 0..SetupCommands /\ setup.missed \in 0..SetupCommands
         /\ setup.n \in Nat /\ setup.missed \in Nat
<1>1. /\ lvgl = [at |-> lvgl.at, n |-> lvgl.n] /\ lvgl.n \in Nat /\ hdl \in 0..MaxOpens
      /\ setup = [to |-> setup.to, n |-> setup.n, missed |-> setup.missed]
      /\ setup.to \in 0..MaxOpens /\ setup.n \in 0..SetupCommands /\ setup.missed \in 0..SetupCommands
  BY DEF TaskTypes, LvglTypes, SetupTypes
<1> QED
  BY <1>1, EnderConstants

\* A command that is tried on a connection, delivered or not, is counted for it.
LEMMA CommandTried ==
  ASSUME TaskTypes, LvglTypes, SetupTypes, lvgl.n < SetupCommands, Tried <= lvgl.n,
         \/ setup' = [SetupFor(hdl) EXCEPT !.n = @ + 1]
         \/ setup' = [SetupFor(hdl) EXCEPT !.missed = @ + 1]
  PROVE  /\ SetupTypes' /\ setup'.to = hdl /\ Tried' <= lvgl.n + 1
         /\ hdl = setup.to => Tried' = Tried + 1
         /\ hdl # setup.to => Tried' = 1
<1> DEFINE before == SetupFor(hdl)
<1>1. /\ before = [to |-> hdl, n |-> before.n, missed |-> before.missed]
      /\ before.n \in Nat /\ before.missed \in Nat /\ before.n + before.missed <= lvgl.n
      /\ hdl = setup.to => before.n + before.missed = Tried
      /\ hdl # setup.to => before.n + before.missed = 0
  BY SetupRanges DEF SetupFor, NoSetup, Tried
<1> HIDE DEF before
<1>2. /\ before.n + 1 \in 0..SetupCommands /\ before.missed + 1 \in 0..SetupCommands
      /\ before.n \in 0..SetupCommands /\ before.missed \in 0..SetupCommands
  BY <1>1, SetupRanges, EnderConstants
<1>3. CASE setup' = [before EXCEPT !.n = @ + 1]
  <2>1. setup' = [to |-> hdl, n |-> before.n + 1, missed |-> before.missed]
    BY <1>1, <1>3
  <2>2. Tried' = before.n + 1 + before.missed
    BY <2>1 DEF Tried
  <2> QED
    BY <1>1, <1>2, <2>1, <2>2, SetupRanges DEF SetupTypes
<1>4. CASE setup' = [before EXCEPT !.missed = @ + 1]
  <2>1. setup' = [to |-> hdl, n |-> before.n, missed |-> before.missed + 1]
    BY <1>1, <1>4
  <2>2. Tried' = before.n + (before.missed + 1)
    BY <2>1 DEF Tried
  <2> QED
    BY <1>1, <1>2, <2>1, <2>2, SetupRanges DEF SetupTypes
<1> QED
  BY <1>3, <1>4 DEF before

\* A command of the setup goes to the connection that is published, or its turn passes; the
\* connection in use cannot be without a handle meanwhile.
LEMMA SetupSent ==
  ASSUME TaskTypes, FlagTypes, LvglTypes, SetupTypes, HandleOwns, TaskAgrees, SetupProgress, SendGcode
  PROVE  (SetupTypes /\ SetupProgress)'
<1>1. /\ lvgl.at \in {"look", "send"} /\ lvgl.n < SetupCommands /\ Tried <= lvgl.n
      /\ Settled /\ lvgl.n > 0 => setup.to = hdl /\ Tried = lvgl.n
  BY DEF SendGcode, SetupProgress
<1>2. Settled => connected /\ cdcReady /\ hdl # 0
  BY DEF Settled, TaskAgrees, HandleOwns, Alive
<1>3. Settled' = Settled /\ hdl' = hdl
  BY DEF SendGcode, Elsewhere, Settled, enderTask
<1>8. Tried \in Nat /\ lvgl.n \in Nat /\ Tried <= lvgl.n + 1
  BY <1>1, SetupRanges DEF Tried
<1>4. CASE lvgl.at = "look" /\ lvgl' = [lvgl EXCEPT !.at = "send"] /\ setup' = setup
  <2>1. lvgl'.at = "send" /\ lvgl'.n = lvgl.n /\ Tried' = Tried
    BY <1>4, SetupRanges DEF Tried
  <2> QED
    BY <1>1, <1>3, <1>4, <2>1 DEF SetupProgress, SetupTypes
<1>5. ASSUME lvgl' = NextCommand(lvgl.n + 1)
      PROVE  /\ lvgl'.n = lvgl.n + 1 /\ lvgl'.at \in {"look", "rest"}
             /\ lvgl'.at = "look" => lvgl.n + 1 < SetupCommands
             /\ lvgl'.at = "rest" => lvgl.n + 1 = SetupCommands
  BY <1>1, <1>5, SetupRanges, EnderConstants DEF NextCommand
<1>6. CASE ~Settled /\ lvgl' = NextCommand(lvgl.n + 1) /\ setup' = setup
  <2>1. Tried' = Tried
    BY <1>6 DEF Tried
  <2> QED
    BY <1>3, <1>5, <1>6, <1>8, <2>1 DEF SetupProgress, SetupTypes
<1>7. CASE /\ lvgl.at = "send" /\ lvgl' = NextCommand(lvgl.n + 1)
           /\ \/ setup' = [SetupFor(hdl) EXCEPT !.n = @ + 1]
              \/ setup' = [SetupFor(hdl) EXCEPT !.missed = @ + 1]
  <2>1. /\ SetupTypes' /\ setup'.to = hdl /\ Tried' <= lvgl.n + 1
        /\ hdl = setup.to => Tried' = Tried + 1
        /\ hdl # setup.to => Tried' = 1
    BY <1>1, <1>7, CommandTried
  <2>2. Settled => Tried' = lvgl.n + 1
    <3>1. CASE lvgl.n > 0
      BY <1>1, <2>1, <3>1
    <3>2. CASE lvgl.n = 0
      BY <1>1, <1>8, <2>1, <3>2
    <3> QED
      BY <1>8, <3>1, <3>2
  <2> QED
    BY <1>3, <1>5, <1>7, <2>1, <2>2 DEF SetupProgress
<1> QED
  BY <1>2, <1>4, <1>6, <1>7 DEF SendGcode

\* The setup begins with nothing sent.
LEMMA SetupBegun ==
  ASSUME TaskTypes, LvglTypes, SetupTypes, BeginSetup
  PROVE  SetupTypes' /\ SetupProgress'
<1>1. lvgl' = [at |-> "look", n |-> 0] /\ setup' = [to |-> setup.to, n |-> 0, missed |-> 0]
  BY DEF BeginSetup, NoSetup
<1>2. lvgl'.at = "look" /\ lvgl'.n = 0 /\ Tried' = 0
  BY <1>1 DEF Tried
<1> QED
  BY <1>1, <1>2, SetupRanges, EnderConstants DEF SetupProgress, SetupTypes

\* The LVGL task stays within its tick.
LEMMA SendGoesOn ==
  ASSUME LvglTypes, SendGcode
  PROVE  lvgl'.at \in {"look", "send", "rest"}
<1>1. CASE lvgl' = [lvgl EXCEPT !.at = "send"]
  BY <1>1 DEF LvglTypes
<1>2. CASE lvgl' = NextCommand(lvgl.n + 1)
  <2>1. lvgl'.at = "rest" \/ lvgl'.at = "look"
    BY <1>2 DEF NextCommand
  <2> QED
    BY <2>1
<1> QED
  BY <1>1, <1>2 DEF SendGcode

\* What the steps do to each part of the invariant, action by action.
LEMMA TaskTypesKept ==
  ASSUME TaskTypes, EnderNext
  PROVE  TaskTypes'
<1> USE EnderConstants DEF TaskTypes, Alive, EnderBusy, AtRest, enderTask, owned, port, ui
<1>1. CASE Plug
  BY <1>1 DEF Plug
<1>2. CASE Unplug
  BY <1>2 DEF Unplug
<1>3. CASE Disconnected
  BY <1>3 DEF Disconnected
<1>4. CASE PrinterAnswers
  BY <1>4 DEF PrinterAnswers
<1>5. CASE CheckStop
  BY <1>5 DEF CheckStop, TaskOnly
<1>6. CASE AwaitLoss
  BY <1>6 DEF AwaitLoss, TaskOnly
<1>7. CASE CloseLost
  BY <1>7 DEF CloseLost, TaskOnly
<1>8. CASE Unflag
  BY <1>8 DEF Unflag, TaskOnly
<1>9. CASE OpenPrinter
  BY <1>9 DEF OpenPrinter, TaskOnly
<1>10. CASE OpenReturned
  <2>1. CASE stopRequested
    BY <1>10, <2>1 DEF OpenReturned, TaskOnly
  <2>2. CASE ~stopRequested
    BY <1>10, <2>2 DEF OpenReturned, TaskOnly
  <2> QED
    BY <2>1, <2>2
<1>11. CASE ConfigureBridge
  BY <1>11 DEF ConfigureBridge, TaskOnly
<1>12. CASE PublishHandle
  BY <1>12 DEF PublishHandle, TaskOnly
<1>13. CASE RaiseFlags
  BY <1>13 DEF RaiseFlags, TaskOnly
<1>14. CASE LastClose
  <2>1. opened' = 0 /\ hdl' = 0 /\ lost' = "here" /\ connTask' = "ended" /\ opens' = opens
    BY <1>14 DEF LastClose
  <2> QED
    BY <2>1
<1>15. CASE EnderTick
  BY <1>15 DEF EnderTick, Elsewhere
<1>16. CASE BeginSetup
  BY <1>16 DEF BeginSetup, Elsewhere
<1>17. CASE SendGcode
  BY <1>17 DEF SendGcode, Elsewhere, NextCommand
<1>18. CASE TickEnd
  BY <1>18 DEF TickEnd, Elsewhere
<1>19. CASE HoldOrLetGo
  BY <1>19 DEF HoldOrLetGo, Elsewhere
<1>20. CASE EnderStop
  BY <1>20 DEF EnderStop, StopBegins
<1>21. CASE EnderShow
  BY <1>21 DEF EnderShow, StopBegins
<1>22. CASE JoinTask
  BY <1>22 DEF JoinTask
<1>23. CASE JoinTimesOut
  BY <1>23 DEF JoinTimesOut, Elsewhere
<1>24. CASE ReleaseFails
  BY <1>24 DEF ReleaseFails
<1>25. CASE EnderReleased
  BY <1>25 DEF EnderReleased
<1>26. CASE EnderStart
  <2>1. hdl' = 0 /\ connTask' \in {"check", connTask} /\ UNCHANGED <<opened, opens, lost>>
    BY <1>26 DEF EnderStart
  <2> QED
    BY <2>1
<1> QED
  BY <1>1, <1>2, <1>3, <1>4, <1>5, <1>6, <1>7, <1>8, <1>9, <1>10, <1>11, <1>12, <1>13, <1>14, <1>15, <1>16, <1>17, <1>18, <1>19, <1>20, <1>21, <1>22, <1>23, <1>24, <1>25, <1>26 DEF EnderNext, ConnTask, EnderLvgl

\* The flags.
LEMMA FlagTypesKept ==
  ASSUME FlagTypes, EnderNext
  PROVE  FlagTypes'
<1> USE EnderConstants DEF FlagTypes, Alive, EnderBusy, AtRest, enderTask, owned, port, ui
<1>1. CASE Plug
  BY <1>1 DEF Plug
<1>2. CASE Unplug
  <2>1. plugged' = FALSE
    BY <1>2 DEF Unplug
  <2>2. UNCHANGED <<connected, initPending, stopRequested, handle, sems, connSem, doneSem, hostStarted, cdcReady, power, tickTimer, moving, quiet>>
    BY <1>2 DEF Unplug
  <2> QED
    BY <2>1, <2>2, ZenonT(60)
<1>3. CASE Disconnected
  BY <1>3 DEF Disconnected
<1>4. CASE PrinterAnswers
  BY <1>4, ZenonT(60) DEF PrinterAnswers
<1>5. CASE CheckStop
  <2>1. UNCHANGED <<connected, initPending, stopRequested, handle, sems, connSem, doneSem, hostStarted, cdcReady, power, tickTimer, moving, quiet, plugged>>
    BY <1>5 DEF CheckStop, TaskOnly
  <2> QED
    BY <2>1
<1>6. CASE AwaitLoss
  BY <1>6, ZenonT(60) DEF AwaitLoss, TaskOnly
<1>7. CASE CloseLost
  BY <1>7 DEF CloseLost, TaskOnly
<1>8. CASE Unflag
  BY <1>8, ZenonT(60) DEF Unflag, TaskOnly
<1>9. CASE OpenPrinter
  BY <1>9 DEF OpenPrinter, TaskOnly
<1>10. CASE OpenReturned
  <2>1. UNCHANGED <<connected, initPending, stopRequested, handle, sems, connSem, doneSem, hostStarted, cdcReady, power, tickTimer, moving, quiet, plugged>>
    BY <1>10 DEF OpenReturned, TaskOnly
  <2> QED
    BY <2>1
<1>11. CASE ConfigureBridge
  BY <1>11 DEF ConfigureBridge, TaskOnly
<1>12. CASE PublishHandle
  BY <1>12 DEF PublishHandle, TaskOnly
<1>13. CASE RaiseFlags
  <2>1. connected' \in BOOLEAN /\ initPending' \in BOOLEAN /\ UNCHANGED <<stopRequested, doneSem, owned, ui, connSem, plugged>>
    BY <1>13 DEF RaiseFlags, TaskOnly
  <2> QED
    BY <2>1
<1>14. CASE LastClose
  BY <1>14 DEF LastClose
<1>15. CASE EnderTick
  BY <1>15 DEF EnderTick, Elsewhere
<1>16. CASE BeginSetup
  BY <1>16, ZenonT(60) DEF BeginSetup, Elsewhere
<1>17. CASE SendGcode
  BY <1>17 DEF SendGcode, Elsewhere, NextCommand
<1>18. CASE TickEnd
  BY <1>18 DEF TickEnd, Elsewhere
<1>19. CASE HoldOrLetGo
  BY <1>19 DEF HoldOrLetGo, Elsewhere
<1>20. CASE EnderStop
  BY <1>20 DEF EnderStop, StopBegins
<1>21. CASE EnderShow
  BY <1>21 DEF EnderShow, StopBegins
<1>22. CASE JoinTask
  BY <1>22, ZenonT(60) DEF JoinTask
<1>23. CASE JoinTimesOut
  BY <1>23 DEF JoinTimesOut, Elsewhere
<1>24. CASE ReleaseFails
  <2>1. cdcReady' \in BOOLEAN /\ UNCHANGED <<connected, initPending, stopRequested, handle, sems, connSem, doneSem, hostStarted, power, ui, plugged>>
    BY <1>24 DEF ReleaseFails
  <2> QED
    BY <2>1
<1>25. CASE EnderReleased
  BY <1>25 DEF EnderReleased
<1>26. CASE EnderStart
  <2>1. /\ handle' \in BOOLEAN /\ hostStarted' \in BOOLEAN /\ cdcReady' \in BOOLEAN /\ power' \in BOOLEAN
        /\ tickTimer' \in BOOLEAN
    BY <1>26 DEF EnderStart
  <2>2. sems' = TRUE /\ quiet' = TRUE /\ moving' = FALSE
    BY <1>26 DEF EnderStart
  <2>3. UNCHANGED <<connected, initPending, stopRequested, connSem, doneSem, plugged>>
    BY <1>26 DEF EnderStart
  <2> QED
    BY <2>1, <2>2, <2>3
<1> QED
  BY <1>1, <1>2, <1>3, <1>4, <1>5, <1>6, <1>7, <1>8, <1>9, <1>10, <1>11, <1>12, <1>13, <1>14, <1>15, <1>16, <1>17, <1>18, <1>19, <1>20, <1>21, <1>22, <1>23, <1>24, <1>25, <1>26 DEF EnderNext, ConnTask, EnderLvgl

\* The LVGL task.
LEMMA LvglTypesKept ==
  ASSUME LvglTypes, EnderNext
  PROVE  LvglTypes'
<1> USE EnderConstants DEF LvglTypes, Alive, EnderBusy, AtRest, enderTask, owned, port, ui
<1>1. CASE Plug
  BY <1>1 DEF Plug
<1>2. CASE Unplug
  BY <1>2 DEF Unplug
<1>3. CASE Disconnected
  BY <1>3 DEF Disconnected
<1>4. CASE PrinterAnswers
  BY <1>4 DEF PrinterAnswers
<1>5. CASE CheckStop
  BY <1>5 DEF CheckStop, TaskOnly
<1>6. CASE AwaitLoss
  BY <1>6 DEF AwaitLoss, TaskOnly
<1>7. CASE CloseLost
  BY <1>7 DEF CloseLost, TaskOnly
<1>8. CASE Unflag
  BY <1>8 DEF Unflag, TaskOnly
<1>9. CASE OpenPrinter
  BY <1>9 DEF OpenPrinter, TaskOnly
<1>10. CASE OpenReturned
  BY <1>10 DEF OpenReturned, TaskOnly
<1>11. CASE ConfigureBridge
  BY <1>11 DEF ConfigureBridge, TaskOnly
<1>12. CASE PublishHandle
  BY <1>12 DEF PublishHandle, TaskOnly
<1>13. CASE RaiseFlags
  BY <1>13 DEF RaiseFlags, TaskOnly
<1>14. CASE LastClose
  BY <1>14 DEF LastClose
<1>15. CASE EnderTick
  BY <1>15 DEF EnderTick, Elsewhere
<1>16. CASE BeginSetup
  <2>1. lvgl' = [at |-> "look", n |-> 0] /\ sinceSetup' = 0
    BY <1>16 DEF BeginSetup
  <2> QED
    BY <2>1
<1>17. CASE SendGcode
  <2>1. /\ \/ lvgl.at = "look" /\ lvgl' = [at |-> "send", n |-> lvgl.n]
           \/ /\ lvgl.at \in {"look", "send"}
              /\ lvgl' = [at |-> IF lvgl.n + 1 = SetupCommands THEN "rest" ELSE "look", n |-> lvgl.n + 1]
        /\ UNCHANGED <<enderTask, initPending, stopRequested, connSem, doneSem, owned, ui, port, opens>>
    BY <1>17 DEF SendGcode, Elsewhere, NextCommand
  <2>2. lvgl.at \in {"look", "send"} /\ lvgl'.at \in {"look", "send", "rest"}
    BY <2>1
  <2> QED
    BY <2>1, <2>2
<1>18. CASE TickEnd
  BY <1>18 DEF TickEnd, Elsewhere
<1>19. CASE HoldOrLetGo
  BY <1>19 DEF HoldOrLetGo, Elsewhere
<1>20. CASE EnderStop
  BY <1>20 DEF EnderStop, StopBegins
<1>21. CASE EnderShow
  BY <1>21 DEF EnderShow, StopBegins
<1>22. CASE JoinTask
  BY <1>22 DEF JoinTask
<1>23. CASE JoinTimesOut
  BY <1>23 DEF JoinTimesOut, Elsewhere
<1>24. CASE ReleaseFails
  BY <1>24 DEF ReleaseFails
<1>25. CASE EnderReleased
  BY <1>25 DEF EnderReleased
<1>26. CASE EnderStart
  BY <1>26 DEF EnderStart
<1> QED
  BY <1>1, <1>2, <1>3, <1>4, <1>5, <1>6, <1>7, <1>8, <1>9, <1>10, <1>11, <1>12, <1>13, <1>14, <1>15, <1>16, <1>17, <1>18, <1>19, <1>20, <1>21, <1>22, <1>23, <1>24, <1>25, <1>26 DEF EnderNext, ConnTask, EnderLvgl

\* The record of the setup.
LEMMA SetupTypesKept ==
  ASSUME TaskTypes, FlagTypes, LvglTypes, SetupTypes, HandleOwns, TaskAgrees, SetupProgress, EnderNext
  PROVE  SetupTypes'
<1> USE EnderConstants DEF TaskTypes, FlagTypes, LvglTypes, SetupTypes, HandleOwns, TaskAgrees, SetupProgress, Alive, EnderBusy, AtRest, enderTask, owned, port, ui
<1>1. CASE Plug
  BY <1>1 DEF Plug
<1>2. CASE Unplug
  BY <1>2 DEF Unplug
<1>3. CASE Disconnected
  BY <1>3 DEF Disconnected
<1>4. CASE PrinterAnswers
  BY <1>4 DEF PrinterAnswers
<1>5. CASE CheckStop
  BY <1>5 DEF CheckStop, TaskOnly
<1>6. CASE AwaitLoss
  BY <1>6 DEF AwaitLoss, TaskOnly
<1>7. CASE CloseLost
  BY <1>7 DEF CloseLost, TaskOnly
<1>8. CASE Unflag
  BY <1>8 DEF Unflag, TaskOnly
<1>9. CASE OpenPrinter
  BY <1>9 DEF OpenPrinter, TaskOnly
<1>10. CASE OpenReturned
  BY <1>10 DEF OpenReturned, TaskOnly
<1>11. CASE ConfigureBridge
  BY <1>11 DEF ConfigureBridge, TaskOnly
<1>12. CASE PublishHandle
  BY <1>12 DEF PublishHandle, TaskOnly
<1>13. CASE RaiseFlags
  BY <1>13 DEF RaiseFlags, TaskOnly
<1>14. CASE LastClose
  BY <1>14 DEF LastClose
<1>15. CASE EnderTick
  BY <1>15 DEF EnderTick, Elsewhere
<1>16. CASE BeginSetup
  BY <1>16, SetupBegun
<1>17. CASE SendGcode
  BY <1>17, SetupSent
<1>18. CASE TickEnd
  BY <1>18 DEF TickEnd, Elsewhere
<1>19. CASE HoldOrLetGo
  BY <1>19 DEF HoldOrLetGo, Elsewhere
<1>20. CASE EnderStop
  BY <1>20 DEF EnderStop, StopBegins
<1>21. CASE EnderShow
  BY <1>21 DEF EnderShow, StopBegins
<1>22. CASE JoinTask
  BY <1>22 DEF JoinTask
<1>23. CASE JoinTimesOut
  BY <1>23 DEF JoinTimesOut, Elsewhere
<1>24. CASE ReleaseFails
  BY <1>24 DEF ReleaseFails
<1>25. CASE EnderReleased
  BY <1>25 DEF EnderReleased
<1>26. CASE EnderStart
  BY <1>26 DEF EnderStart
<1> QED
  BY <1>1, <1>2, <1>3, <1>4, <1>5, <1>6, <1>7, <1>8, <1>9, <1>10, <1>11, <1>12, <1>13, <1>14, <1>15, <1>16, <1>17, <1>18, <1>19, <1>20, <1>21, <1>22, <1>23, <1>24, <1>25, <1>26 DEF EnderNext, ConnTask, EnderLvgl

\* Ownership moves only with the handle and the token that says the task ended.
LEMMA HandleOwnsKept ==
  ASSUME TaskTypes, FlagTypes, LvglTypes, HandleOwns, TaskAgrees, EnderNext
  PROVE  HandleOwns'
<1> USE EnderConstants DEF TaskTypes, FlagTypes, LvglTypes, HandleOwns, TaskAgrees, Alive, EnderBusy, AtRest, enderTask, owned, port, ui
<1>1. CASE Plug
  BY <1>1 DEF Plug
<1>2. CASE Unplug
  BY <1>2 DEF Unplug
<1>3. CASE Disconnected
  BY <1>3 DEF Disconnected
<1>4. CASE PrinterAnswers
  BY <1>4 DEF PrinterAnswers
<1>5. CASE CheckStop
  BY <1>5 DEF CheckStop, TaskOnly
<1>6. CASE AwaitLoss
  BY <1>6 DEF AwaitLoss, TaskOnly
<1>7. CASE CloseLost
  BY <1>7 DEF CloseLost, TaskOnly
<1>8. CASE Unflag
  BY <1>8 DEF Unflag, TaskOnly
<1>9. CASE OpenPrinter
  BY <1>9 DEF OpenPrinter, TaskOnly
<1>10. CASE OpenReturned
  BY <1>10 DEF OpenReturned, TaskOnly
<1>11. CASE ConfigureBridge
  BY <1>11 DEF ConfigureBridge, TaskOnly
<1>12. CASE PublishHandle
  BY <1>12 DEF PublishHandle, TaskOnly
<1>13. CASE RaiseFlags
  <2>1. CASE connTask = "flag"
    BY <1>13, <2>1 DEF RaiseFlags, TaskOnly
  <2>2. CASE connTask = "pend"
    BY <1>13, <2>2 DEF RaiseFlags, TaskOnly
  <2> QED
    BY <1>13, <2>1, <2>2 DEF RaiseFlags
<1>14. CASE LastClose
  BY <1>14 DEF LastClose
<1>15. CASE EnderTick
  BY <1>15 DEF EnderTick, Elsewhere
<1>16. CASE BeginSetup
  BY <1>16 DEF BeginSetup, Elsewhere
<1>17. CASE SendGcode
  <2>1. lvgl'.at \in {"look", "send", "rest"}
    BY <1>17, SendGoesOn
  <2>2. UNCHANGED <<enderTask, stopRequested, doneSem, owned>>
    BY <1>17 DEF SendGcode, Elsewhere
  <2> QED
    BY <2>1, <2>2
<1>18. CASE TickEnd
  BY <1>18 DEF TickEnd, Elsewhere
<1>19. CASE HoldOrLetGo
  BY <1>19 DEF HoldOrLetGo, Elsewhere
<1>20. CASE EnderStop
  BY <1>20 DEF EnderStop, StopBegins
<1>21. CASE EnderShow
  BY <1>21 DEF EnderShow, StopBegins
<1>22. CASE JoinTask
  BY <1>22 DEF JoinTask
<1>23. CASE JoinTimesOut
  BY <1>23 DEF JoinTimesOut, Elsewhere
<1>24. CASE ReleaseFails
  BY <1>24 DEF ReleaseFails
<1>25. CASE EnderReleased
  BY <1>25 DEF EnderReleased
<1>26. CASE EnderStart
  <2>1. PICK reached \in {"nothing", "page", "host", "driver", "task"} :
          /\ tickTimer' = (reached # "nothing")
          /\ hostStarted' = (reached \in {"host", "driver", "task"}) /\ power' = hostStarted'
          /\ cdcReady' = (reached \in {"driver", "task"})
          /\ handle' = (reached = "task")
          /\ connTask' = IF reached = "task" THEN "check" ELSE connTask
    BY <1>26 DEF EnderStart
  <2>2. /\ sems' = TRUE /\ hdl' = 0 /\ quiet' = TRUE /\ sinceSetup' = 0 /\ moving' = FALSE
        /\ UNCHANGED <<opened, connected, initPending, stopRequested, connSem, doneSem, port, setup, opens>>
        /\ lvgl.at = "start" /\ lvgl' = AtRest
    BY <1>26 DEF EnderStart
  <2>3. CASE reached = "task"
    BY <2>1, <2>2, <2>3
  <2>4. CASE reached # "task"
    BY <2>1, <2>2, <2>4
  <2> QED
    BY <2>3, <2>4
<1> QED
  BY <1>1, <1>2, <1>3, <1>4, <1>5, <1>6, <1>7, <1>8, <1>9, <1>10, <1>11, <1>12, <1>13, <1>14, <1>15, <1>16, <1>17, <1>18, <1>19, <1>20, <1>21, <1>22, <1>23, <1>24, <1>25, <1>26 DEF EnderNext, ConnTask, EnderLvgl

\* The task keeps to what it has open.
LEMMA TaskAgreesKept ==
  ASSUME TaskTypes, FlagTypes, LvglTypes, HandleOwns, TaskAgrees, EnderNext
  PROVE  TaskAgrees'
<1> USE EnderConstants DEF TaskTypes, FlagTypes, LvglTypes, HandleOwns, TaskAgrees, Alive, EnderBusy, AtRest, enderTask, owned, port, ui
<1>1. CASE Plug
  BY <1>1 DEF Plug
<1>2. CASE Unplug
  BY <1>2 DEF Unplug
<1>3. CASE Disconnected
  BY <1>3 DEF Disconnected
<1>4. CASE PrinterAnswers
  BY <1>4 DEF PrinterAnswers
<1>5. CASE CheckStop
  BY <1>5 DEF CheckStop, TaskOnly
<1>6. CASE AwaitLoss
  BY <1>6 DEF AwaitLoss, TaskOnly
<1>7. CASE CloseLost
  BY <1>7 DEF CloseLost, TaskOnly
<1>8. CASE Unflag
  BY <1>8 DEF Unflag, TaskOnly
<1>9. CASE OpenPrinter
  BY <1>9 DEF OpenPrinter, TaskOnly
<1>10. CASE OpenReturned
  BY <1>10 DEF OpenReturned, TaskOnly
<1>11. CASE ConfigureBridge
  BY <1>11 DEF ConfigureBridge, TaskOnly
<1>12. CASE PublishHandle
  BY <1>12 DEF PublishHandle, TaskOnly
<1>13. CASE RaiseFlags
  BY <1>13 DEF RaiseFlags, TaskOnly
<1>14. CASE LastClose
  BY <1>14 DEF LastClose
<1>15. CASE EnderTick
  BY <1>15 DEF EnderTick, Elsewhere
<1>16. CASE BeginSetup
  BY <1>16 DEF BeginSetup, Elsewhere
<1>17. CASE SendGcode
  <2>1. lvgl'.at \in {"look", "send", "rest"}
    BY <1>17, SendGoesOn
  <2>2. UNCHANGED <<enderTask, stopRequested, doneSem, owned>>
    BY <1>17 DEF SendGcode, Elsewhere
  <2> QED
    BY <2>1, <2>2
<1>18. CASE TickEnd
  BY <1>18 DEF TickEnd, Elsewhere
<1>19. CASE HoldOrLetGo
  BY <1>19 DEF HoldOrLetGo, Elsewhere
<1>20. CASE EnderStop
  BY <1>20 DEF EnderStop, StopBegins
<1>21. CASE EnderShow
  BY <1>21 DEF EnderShow, StopBegins
<1>22. CASE JoinTask
  BY <1>22 DEF JoinTask
<1>23. CASE JoinTimesOut
  BY <1>23 DEF JoinTimesOut, Elsewhere
<1>24. CASE ReleaseFails
  BY <1>24 DEF ReleaseFails
<1>25. CASE EnderReleased
  BY <1>25 DEF EnderReleased
<1>26. CASE EnderStart
  BY <1>26 DEF EnderStart
<1> QED
  BY <1>1, <1>2, <1>3, <1>4, <1>5, <1>6, <1>7, <1>8, <1>9, <1>10, <1>11, <1>12, <1>13, <1>14, <1>15, <1>16, <1>17, <1>18, <1>19, <1>20, <1>21, <1>22, <1>23, <1>24, <1>25, <1>26 DEF EnderNext, ConnTask, EnderLvgl

\* The token is set with its reason and taken before the reason goes.
LEMMA TokenMeansKept ==
  ASSUME TaskTypes, FlagTypes, LvglTypes, HandleOwns, TaskAgrees, TokenMeans, EnderNext
  PROVE  TokenMeans'
<1> USE EnderConstants DEF TaskTypes, FlagTypes, LvglTypes, HandleOwns, TaskAgrees, TokenMeans, Alive, EnderBusy, AtRest, enderTask, owned, port, ui
<1>1. CASE Plug
  BY <1>1 DEF Plug
<1>2. CASE Unplug
  BY <1>2 DEF Unplug
<1>3. CASE Disconnected
  <2>1. opened # 0 /\ lost = "pulled" /\ lost' = "reported" /\ UNCHANGED <<opened, connTask, stopRequested>>
    BY <1>3 DEF Disconnected
  <2>2. connTask = "close" => stopRequested
    BY <2>1
  <2> QED
    BY <2>1, <2>2
<1>4. CASE PrinterAnswers
  BY <1>4 DEF PrinterAnswers
<1>5. CASE CheckStop
  BY <1>5 DEF CheckStop, TaskOnly
<1>6. CASE AwaitLoss
  BY <1>6 DEF AwaitLoss, TaskOnly
<1>7. CASE CloseLost
  BY <1>7 DEF CloseLost, TaskOnly
<1>8. CASE Unflag
  BY <1>8 DEF Unflag, TaskOnly
<1>9. CASE OpenPrinter
  BY <1>9 DEF OpenPrinter, TaskOnly
<1>10. CASE OpenReturned
  BY <1>10 DEF OpenReturned, TaskOnly
<1>11. CASE ConfigureBridge
  BY <1>11 DEF ConfigureBridge, TaskOnly
<1>12. CASE PublishHandle
  BY <1>12 DEF PublishHandle, TaskOnly
<1>13. CASE RaiseFlags
  <2>1. CASE connTask = "flag"
    BY <1>13, <2>1 DEF RaiseFlags, TaskOnly
  <2>2. CASE connTask = "pend"
    BY <1>13, <2>2 DEF RaiseFlags, TaskOnly
  <2> QED
    BY <1>13, <2>1, <2>2 DEF RaiseFlags
<1>14. CASE LastClose
  BY <1>14 DEF LastClose
<1>15. CASE EnderTick
  BY <1>15 DEF EnderTick, Elsewhere
<1>16. CASE BeginSetup
  BY <1>16 DEF BeginSetup, Elsewhere
<1>17. CASE SendGcode
  BY <1>17 DEF SendGcode, Elsewhere, NextCommand
<1>18. CASE TickEnd
  BY <1>18 DEF TickEnd, Elsewhere
<1>19. CASE HoldOrLetGo
  BY <1>19 DEF HoldOrLetGo, Elsewhere
<1>20. CASE EnderStop
  BY <1>20 DEF EnderStop, StopBegins
<1>21. CASE EnderShow
  BY <1>21 DEF EnderShow, StopBegins
<1>22. CASE JoinTask
  BY <1>22 DEF JoinTask
<1>23. CASE JoinTimesOut
  BY <1>23 DEF JoinTimesOut, Elsewhere
<1>24. CASE ReleaseFails
  BY <1>24 DEF ReleaseFails
<1>25. CASE EnderReleased
  BY <1>25 DEF EnderReleased
<1>26. CASE EnderStart
  BY <1>26 DEF EnderStart
<1> QED
  BY <1>1, <1>2, <1>3, <1>4, <1>5, <1>6, <1>7, <1>8, <1>9, <1>10, <1>11, <1>12, <1>13, <1>14, <1>15, <1>16, <1>17, <1>18, <1>19, <1>20, <1>21, <1>22, <1>23, <1>24, <1>25, <1>26 DEF EnderNext, ConnTask, EnderLvgl

\* Only the tick sends the setup, and a new connection asks for it again.
LEMMA SetupProgressKept ==
  ASSUME TaskTypes, FlagTypes, LvglTypes, SetupTypes, HandleOwns, TaskAgrees, SetupProgress, EnderNext
  PROVE  SetupProgress'
<1> USE EnderConstants DEF Settled, TaskTypes, FlagTypes, LvglTypes, SetupTypes, HandleOwns, TaskAgrees, SetupProgress, Tried, Alive, EnderBusy, AtRest, enderTask, owned, port, ui
<1>1. CASE Plug
  BY <1>1 DEF Plug
<1>2. CASE Unplug
  BY <1>2 DEF Unplug
<1>3. CASE Disconnected
  BY <1>3 DEF Disconnected
<1>4. CASE PrinterAnswers
  BY <1>4 DEF PrinterAnswers
<1>5. CASE CheckStop
  BY <1>5 DEF CheckStop, TaskOnly
<1>6. CASE AwaitLoss
  BY <1>6 DEF AwaitLoss, TaskOnly
<1>7. CASE CloseLost
  BY <1>7 DEF CloseLost, TaskOnly
<1>8. CASE Unflag
  BY <1>8 DEF Unflag, TaskOnly
<1>9. CASE OpenPrinter
  BY <1>9 DEF OpenPrinter, TaskOnly
<1>10. CASE OpenReturned
  BY <1>10 DEF OpenReturned, TaskOnly
<1>11. CASE ConfigureBridge
  BY <1>11 DEF ConfigureBridge, TaskOnly
<1>12. CASE PublishHandle
  BY <1>12 DEF PublishHandle, TaskOnly
<1>13. CASE RaiseFlags
  BY <1>13 DEF RaiseFlags, TaskOnly
<1>14. CASE LastClose
  BY <1>14 DEF LastClose
<1>15. CASE EnderTick
  BY <1>15 DEF EnderTick, Elsewhere
<1>16. CASE BeginSetup
  BY <1>16, SetupBegun
<1>17. CASE SendGcode
  BY <1>17, SetupSent
<1>18. CASE TickEnd
  BY <1>18 DEF TickEnd, Elsewhere
<1>19. CASE HoldOrLetGo
  BY <1>19 DEF HoldOrLetGo, Elsewhere
<1>20. CASE EnderStop
  BY <1>20 DEF EnderStop, StopBegins
<1>21. CASE EnderShow
  BY <1>21 DEF EnderShow, StopBegins
<1>22. CASE JoinTask
  BY <1>22 DEF JoinTask
<1>23. CASE JoinTimesOut
  BY <1>23 DEF JoinTimesOut, Elsewhere
<1>24. CASE ReleaseFails
  BY <1>24 DEF ReleaseFails
<1>25. CASE EnderReleased
  BY <1>25 DEF EnderReleased
<1>26. CASE EnderStart
  BY <1>26 DEF EnderStart
<1> QED
  BY <1>1, <1>2, <1>3, <1>4, <1>5, <1>6, <1>7, <1>8, <1>9, <1>10, <1>11, <1>12, <1>13, <1>14, <1>15, <1>16, <1>17, <1>18, <1>19, <1>20, <1>21, <1>22, <1>23, <1>24, <1>25, <1>26 DEF EnderNext, ConnTask, EnderLvgl

\* A step elsewhere changes nothing.
LEMMA EnderStutters == EnderIInv /\ UNCHANGED enderVars => EnderIInv'
<1> SUFFICES ASSUME EnderIInv, UNCHANGED enderVars PROVE EnderIInv'
  OBVIOUS
<1> USE DEF EnderIInv, EnderShape, enderVars, enderTask, owned, port, ui
<1>1. TaskTypes' /\ SetupTypes'
  BY DEF TaskTypes, SetupTypes
<1>2. FlagTypes'
  BY DEF FlagTypes
<1>3. LvglTypes'
  BY DEF LvglTypes
<1>4. HandleOwns' /\ TaskAgrees'
  BY DEF HandleOwns, TaskAgrees, Alive
<1>5. TokenMeans' /\ SetupProgress'
  BY DEF TokenMeans, SetupProgress, Settled, Tried
<1> QED
  BY <1>1, <1>2, <1>3, <1>4, <1>5

\* Every step keeps the invariant.
LEMMA EnderSteps == EnderIInv /\ [EnderNext]_enderVars => EnderIInv'
<1>1. CASE EnderIInv /\ EnderNext
  BY <1>1, TaskTypesKept, FlagTypesKept, LvglTypesKept, SetupTypesKept, HandleOwnsKept, TaskAgreesKept,
     TokenMeansKept, SetupProgressKept DEF EnderIInv, EnderShape
<1> QED
  BY <1>1, EnderStutters

\* The invariant implies what is checked.
LEMMA EnderPromise == EnderIInv => EnderInv
<1> SUFFICES ASSUME EnderIInv PROVE EnderInv
  OBVIOUS
<1> USE DEF EnderIInv, EnderShape
<1>1. EnderTypes
  <2>1. {connected, initPending, stopRequested, handle, sems, connSem, doneSem, hostStarted,
         cdcReady, power, tickTimer, moving, quiet, plugged} \subseteq BOOLEAN
    BY DEF FlagTypes
  <2>2. {opened, hdl, opens, setup.to} \subseteq 0..MaxOpens /\ {setup.n, setup.missed} \subseteq 0..SetupCommands
    BY DEF TaskTypes, SetupTypes
  <2> QED
    BY <2>1, <2>2 DEF EnderTypes, TaskTypes, LvglTypes
<1>2. OwnedInOrder
  BY DEF OwnedInOrder, HandleOwns, FlagTypes, EnderBusy
<1>3. SetupTriedOnConnection
  BY DEF SetupTriedOnConnection, SetupProgress, Settled, TaskAgrees, Tried
<1> QED
  BY <1>1, <1>2, <1>3 DEF EnderInv

\* A step ends a connection only because the printer was lost or the page stops.
LEMMA EnderKeeps == EnderIInv /\ [EnderNext]_enderVars
                      => [opened # 0 /\ opened' = 0 => lost # "here" \/ stopRequested]_enderVars
<1> SUFFICES ASSUME EnderIInv, EnderNext, opened # 0, opened' = 0 PROVE lost # "here" \/ stopRequested
  OBVIOUS
<1> USE DEF EnderIInv, EnderShape
<1>1. CASE CloseLost
  BY <1>1 DEF CloseLost, TokenMeans
<1>2. CASE LastClose
  BY <1>2 DEF LastClose, TaskAgrees
<1>3. CASE OpenReturned
  BY <1>3 DEF OpenReturned
<1>4. CASE OpenPrinter
  <2>1. opens \in Nat
    BY OpensRange
  <2>2. opens + 1 # 0
    BY <2>1
  <2> QED
    BY <1>4, <2>2 DEF OpenPrinter
<1>5. CASE Plug \/ Unplug \/ Disconnected \/ PrinterAnswers
  BY <1>5 DEF Plug, Unplug, Disconnected, PrinterAnswers, enderTask
<1>6. CASE CheckStop \/ AwaitLoss \/ Unflag \/ ConfigureBridge \/ PublishHandle \/ RaiseFlags
  BY <1>6 DEF CheckStop, AwaitLoss, Unflag, ConfigureBridge, PublishHandle, RaiseFlags
<1>7. CASE EnderTick \/ BeginSetup \/ SendGcode \/ TickEnd \/ HoldOrLetGo \/ JoinTimesOut
  BY <1>7 DEF EnderTick, BeginSetup, SendGcode, TickEnd, HoldOrLetGo, JoinTimesOut, Elsewhere, enderTask
<1>8. CASE EnderStop \/ EnderShow \/ JoinTask \/ ReleaseFails \/ EnderReleased \/ EnderStart
  BY <1>8 DEF EnderStop, EnderShow, StopBegins, JoinTask, ReleaseFails, EnderReleased, EnderStart, enderTask
<1> QED
  BY <1>1, <1>2, <1>3, <1>4, <1>5, <1>6, <1>7, <1>8 DEF EnderNext, ConnTask, EnderLvgl

\* Whatever the printer, the driver and the taps do, and however often stop cannot release
\* something: what is in use is owned in order, and a connection that needs no setup any
\* more had every command of it tried on it once, delivered or failed.
THEOREM PrinterIsOwned == EnderInit /\ [][EnderNext]_enderVars => []EnderInv
  BY EnderInitially, EnderSteps, EnderPromise, PTL

\* The safety part of EnderKept: a connection ends only because the printer was lost or the
\* page stops.  That the task ends when told to is left to TLC.
THEOREM PrinterIsKept == EnderInit /\ [][EnderNext]_enderVars => KeptWhileThere
  BY EnderInitially, EnderSteps, EnderKeeps, PTL DEF KeptWhileThere

-----------------------------------------------------------------------------
(* The alarms.                                                             *)

\* The variables stay in their domains; no day later than today is on record.
ClockTypes ==
  /\ now \in Nat /\ now <= MaxMinutes /\ ticked \in BOOLEAN
  /\ alarms \in [Alarms -> [minute : 0..MinutesPerDay - 1, enabled : BOOLEAN]]
  /\ lastDay \in [Alarms -> Int]
  /\ \A i \in Alarms : -1 <= lastDay[i] /\ lastDay[i] <= Day(now)
BellTypes ==
  /\ ringing \in [active : BOOLEAN, index : Nat]
  /\ snooze \in [until : 0..MaxMinutes + SnoozeMinutes, index : Nat]
  /\ soundHandle \in BOOLEAN /\ visual \in BOOLEAN /\ speaker \in {"off", "on", "stuck"}
PanelTypes ==
  /\ update \in {"none", "busy", "done"}
  /\ panel \in {"awake", "dimmed", "off"} /\ saver \in BOOLEAN /\ idle \in 0..3

\* The day on record for an alarm is today only if it has rung or been passed over today;
\* after a tick that found nothing to do that is so for every alarm set for this minute.
DayMeansRung ==
  /\ \A i \in Alarms : lastDay[i] = Day(now) => i \in rung \cup passedOver
  /\ ticked => \A i \in Alarms : ~Due(i)

\* The handle is set while there is a task, and a task past its loop while an alarm rings
\* has said why it is silent.
SoundAgrees ==
  /\ sound \in {"none", "start", "tone", "closing", "ending"}
  /\ soundHandle <=> sound # "none"
  /\ ringing.active /\ sound \in {"closing", "ending", "none"} => visual

AlarmIInv == ClockTypes /\ BellTypes /\ PanelTypes /\ DayMeansRung /\ SoundAgrees /\ DarkUnderSaver

\* A quotient is a number and grows with its dividend.
LEMMA DivMonotone ==
  ASSUME NEW a \in Nat, NEW b \in Nat, NEW m \in Nat, m > 0, a <= b
  PROVE  a \div m \in Nat /\ a \div m <= b \div m
<1>1. a \div m \in Nat /\ b \div m \in Nat
  OBVIOUS
<1>2. a \div m <= b \div m
  OBVIOUS
<1> QED
  BY <1>1, <1>2

\* The constants, one by one.
LEMMA AlarmConstants ==
  /\ Alarms \subseteq Nat /\ MinutesPerDay \in Nat /\ MinutesPerDay > 0
  /\ SnoozeMinutes \in Nat /\ MaxMinutes \in Nat /\ 0 \in 0..MaxMinutes + SnoozeMinutes
  BY AlarmAssumption

\* Days are numbers and do not run backwards.
LEMMA Days ==
  ASSUME NEW a \in Nat, NEW b \in Nat, a <= b
  PROVE  Day(a) \in Nat /\ Day(b) \in Nat /\ Day(a) <= Day(b)
  BY DivMonotone, AlarmConstants DEF Day

\* No alarm has rung and no day is on record.
LEMMA AlarmInitially == AlarmInit => AlarmIInv
<1> SUFFICES ASSUME AlarmInit PROVE AlarmIInv
  OBVIOUS
<1>1. now = 0 /\ 0 \in Nat /\ 0 <= 0 /\ Day(0) \in Nat
  BY Days DEF AlarmInit
<1>2. \A i \in Alarms : lastDay[i] = -1
  BY DEF AlarmInit
<1>3. ClockTypes
  <2>1. lastDay \in [Alarms -> Int]
    BY DEF AlarmInit
  <2>2. \A i \in Alarms : -1 <= lastDay[i] /\ lastDay[i] <= Day(now)
    <3>1. Day(now) \in Nat
      BY <1>1
    <3>2. \A d \in Nat : -1 <= -1 /\ -1 <= d
      OBVIOUS
    <3> QED
      BY <1>2, <3>1, <3>2
  <2>3. 0 <= MaxMinutes
    BY AlarmConstants
  <2>4. ticked \in BOOLEAN /\ alarms \in [Alarms -> [minute : 0..MinutesPerDay - 1, enabled : BOOLEAN]]
    BY DEF AlarmInit
  <2> QED
    BY <1>1, <2>1, <2>2, <2>3, <2>4 DEF ClockTypes
<1>6. DayMeansRung
  BY <1>1, <1>2 DEF AlarmInit, DayMeansRung
<1>4. BellTypes
  BY AlarmConstants DEF AlarmInit, BellTypes, AlarmQuiet, NoSnooze
<1>5. PanelTypes /\ DarkUnderSaver
  <2>1. 0 \in 0..3
    OBVIOUS
  <2> QED
    BY <2>1 DEF AlarmInit, PanelTypes, DarkUnderSaver
<1>7. SoundAgrees
  BY DEF AlarmInit, SoundAgrees, AlarmQuiet
<1> QED
  BY <1>3, <1>4, <1>5, <1>6, <1>7 DEF AlarmIInv

-----------------------------------------------------------------------------
(* What moves the clock's side.                                            *)

\* Only the tick, the minute and an edit move the days on record.
LEMMA ClockMoved ==
  ASSUME AlarmNext
  PROVE  \/ UNCHANGED <<now, ticked, settings, told>>
         \/ ticked' = FALSE /\ UNCHANGED <<now, settings, told>>
         \/ ClockTick \/ MinutePasses \/ AlarmEdited
<1>1. CASE SoundTask \/ ScreensaverTick \/ Touched \/ Idles
  BY <1>1 DEF SoundTask, ScreensaverTick, Touched, Idles
<1>2. CASE AlarmDismissed \/ AlarmSnoozed \/ UpdateMoves
  BY <1>2 DEF AlarmDismissed, AlarmSnoozed, UpdateMoves, settings
<1> QED
  BY <1>1, <1>2 DEF AlarmNext

\* What a tick does to what is on record of the alarms.
LEMMA TickRecords ==
  ASSUME ClockTypes, ClockTick
  PROVE  /\ UNCHANGED <<now, alarms>> /\ rung \subseteq rung' /\ passedOver \subseteq passedOver'
         /\ ticked' \in BOOLEAN
         /\ \/ lastDay' = lastDay
            \/ \E i \in Alarms : lastDay' = [lastDay EXCEPT ![i] = Day(now)] /\ i \in rung' \cup passedOver'
         /\ ticked' => \A i \in Alarms : ~Due(i)
<1>1. UNCHANGED <<now, alarms>> /\ ticked' \in BOOLEAN
  BY DEF ClockTick
<1>2. ASSUME NEW i, AlarmTrigger(i)
      PROVE  rung' = IF ringing.active THEN rung ELSE rung \cup {i}
  BY <1>2 DEF AlarmTrigger
<1>3. CASE SnoozeOver
  <2>1. lastDay' = lastDay /\ passedOver' = passedOver /\ rung \subseteq rung'
    BY <1>2, <1>3 DEF SnoozeOver
  <2>2. snooze' # snooze
    BY <1>3 DEF SnoozeOver, NoSnooze
  <2>3. ~ticked'
    BY <2>2 DEF ClockTick
  <2> QED
    BY <1>1, <2>1, <2>3
<1>4. CASE DayRecorded
  <2>1. PICK i \in Alarms :
          /\ FirstDue(i)
          /\ lastDay' = [lastDay EXCEPT ![i] = Day(now)]
          /\ AlarmTrigger(i)
          /\ passedOver' = IF ringing.active THEN passedOver \cup {i} ELSE passedOver
    BY <1>4 DEF DayRecorded
  <2>2. rung \subseteq rung' /\ passedOver \subseteq passedOver' /\ i \in rung' \cup passedOver'
    BY <1>2, <2>1
  <2>3. lastDay'[i] # lastDay[i]
    BY <2>1 DEF FirstDue, Due, ClockTypes
  <2>4. ~ticked'
    BY <2>3 DEF ClockTick
  <2> QED
    BY <1>1, <2>1, <2>2, <2>4
<1>5. CASE NothingDue
  <2>1. UNCHANGED <<lastDay, passedOver, rung>>
    BY <1>5 DEF NothingDue
  <2>2. ticked' => \A i \in Alarms : ~Due(i)
    BY <1>5 DEF NothingDue, ClockTick
  <2> QED
    BY <1>1, <2>1, <2>2
<1> QED
  BY <1>3, <1>4, <1>5 DEF ClockTick

\* An edit forgets the day of the alarm it changes.
LEMMA EditForgets ==
  ASSUME ClockTypes, AlarmEdited
  PROVE  /\ now' = now /\ ticked' = FALSE
         /\ alarms' \in [Alarms -> [minute : 0..MinutesPerDay - 1, enabled : BOOLEAN]]
         /\ \E i \in Alarms : /\ lastDay' = [lastDay EXCEPT ![i] = -1]
                             /\ rung' = rung \ {i} /\ passedOver' = passedOver \ {i}
<1>1. PICK i \in Alarms : EditAlarm(i) /\ rung' = rung \ {i} /\ passedOver' = passedOver \ {i}
  BY DEF AlarmEdited
<1>2. alarms[i].minute \in 0..MinutesPerDay - 1 /\ alarms[i].enabled \in BOOLEAN
  BY DEF ClockTypes
<1>3. (alarms[i].minute + 1) % MinutesPerDay \in 0..MinutesPerDay - 1
  BY <1>2, AlarmConstants
<1>4. CASE alarms' = [alarms EXCEPT ![i].minute = (@ + 1) % MinutesPerDay]
  <2>1. alarms' \in [Alarms -> [minute : 0..MinutesPerDay - 1, enabled : BOOLEAN]]
    BY <1>3, <1>4 DEF ClockTypes
  <2> QED
    BY <1>1, <2>1 DEF AlarmEdited, EditAlarm
<1>5. CASE alarms' = [alarms EXCEPT ![i].enabled = ~@]
  <2>1. alarms' \in [Alarms -> [minute : 0..MinutesPerDay - 1, enabled : BOOLEAN]]
    BY <1>2, <1>5 DEF ClockTypes
  <2> QED
    BY <1>1, <2>1 DEF AlarmEdited, EditAlarm
<1> QED
  BY <1>1, <1>4, <1>5 DEF EditAlarm

\* No day later than today is recorded.
LEMMA ClockTypesKept == ASSUME ClockTypes, AlarmNext PROVE ClockTypes'
<1>0. now \in Nat /\ Day(now) \in Nat
  BY Days DEF ClockTypes
<1>1. CASE UNCHANGED <<now, settings>> /\ ticked' \in BOOLEAN
  BY <1>1 DEF ClockTypes, settings
<1>2. CASE ClockTick
  BY <1>0, <1>2, TickRecords DEF ClockTypes
<1>3. CASE MinutePasses
  <2>1. now' = now + 1 /\ ticked' = FALSE /\ UNCHANGED settings /\ now < MaxMinutes
    BY <1>3 DEF MinutePasses
  <2>2. now' \in Nat /\ now' <= MaxMinutes
    BY <2>1, <1>0, AlarmConstants
  <2>3. Day(now) <= Day(now') /\ Day(now') \in Nat
    BY <1>0, <2>1, <2>2, Days
  <2>4. \A i \in Alarms : lastDay[i] \in Int /\ -1 <= lastDay[i] /\ lastDay[i] <= Day(now')
    BY <1>0, <2>3 DEF ClockTypes
  <2>5. Day(now)' = Day(now')
    BY DEF Day
  <2> QED
    BY <2>1, <2>2, <2>4, <2>5 DEF ClockTypes, settings
<1>4. CASE AlarmEdited
  <2>1. /\ now' = now /\ ticked' = FALSE
        /\ alarms' \in [Alarms -> [minute : 0..MinutesPerDay - 1, enabled : BOOLEAN]]
    BY <1>4, EditForgets
  <2>2. PICK i \in Alarms : lastDay' = [lastDay EXCEPT ![i] = -1]
    BY <1>4, EditForgets
  <2>3. lastDay' \in [Alarms -> Int] /\ \A j \in Alarms : -1 <= lastDay'[j] /\ lastDay'[j] <= Day(now)
    BY <1>0, <2>2 DEF ClockTypes
  <2>4. Day(now)' = Day(now)
    BY <2>1 DEF Day
  <2> QED
    BY <2>1, <2>3, <2>4 DEF ClockTypes
<1> QED
  BY <1>1, <1>2, <1>3, <1>4, ClockMoved DEF ClockTypes

\* A recorded day stays true to what rang.
LEMMA DayMeansRungKept == ASSUME ClockTypes, DayMeansRung, AlarmNext PROVE DayMeansRung'
<1>0. now \in Nat /\ Day(now) \in Nat
  BY Days DEF ClockTypes
<1>1. CASE UNCHANGED <<now, settings, told>> /\ (ticked' = ticked \/ ~ticked')
  BY <1>1 DEF DayMeansRung, settings, told, Due
<1>2. CASE ClockTick
  <2>1. Day(now)' = Day(now)
    BY <1>2, TickRecords DEF Day
  <2>2. \A i \in Alarms : lastDay'[i] = Day(now) => i \in rung' \cup passedOver'
    BY <1>2, TickRecords DEF DayMeansRung, ClockTypes
  <2>3. ticked' => lastDay' = lastDay
    BY <1>2 DEF ClockTick
  <2>4. ticked' => \A i \in Alarms : ~Due(i)'
    BY <1>2, <2>1, <2>3, TickRecords DEF Due
  <2> QED
    BY <2>1, <2>2, <2>4 DEF DayMeansRung
<1>3. CASE MinutePasses
  <2>1. now' = now + 1 /\ ticked' = FALSE /\ UNCHANGED settings
    BY <1>3 DEF MinutePasses
  <2>2. Day(now)' = Day(now + 1) /\ Day(now) <= Day(now + 1) /\ Day(now + 1) \in Nat
    <3>1. now + 1 \in Nat /\ now <= now + 1
      BY <1>0
    <3> QED
      BY <1>0, <2>1, <3>1, Days DEF Day
  <2>3. CASE Day(now + 1) # Day(now)
    <3>1. \A i \in Alarms : lastDay[i] \in Int /\ lastDay[i] <= Day(now)
      BY DEF ClockTypes
    <3>2. \A i \in Alarms : lastDay[i] # Day(now + 1)
      BY <1>0, <2>2, <2>3, <3>1
    <3> QED
      BY <2>1, <2>2, <3>2 DEF DayMeansRung, settings
  <2>4. CASE Day(now + 1) = Day(now)
    BY <1>3, <2>1, <2>2, <2>4 DEF DayMeansRung, settings, told, MinutePasses
  <2> QED
    BY <2>3, <2>4
<1>4. CASE AlarmEdited
  <2>1. Day(now)' = Day(now)
    BY <1>4, EditForgets DEF Day
  <2>3. PICK i \in Alarms : /\ lastDay' = [lastDay EXCEPT ![i] = -1]
                            /\ rung' = rung \ {i} /\ passedOver' = passedOver \ {i}
    BY <1>4, EditForgets
  <2>4. lastDay'[i] = -1 /\ -1 # Day(now)
    BY <1>0, <2>3 DEF ClockTypes
  <2>5. \A j \in Alarms \ {i} : lastDay'[j] = lastDay[j] /\ (j \in rung' \cup passedOver' <=> j \in rung \cup passedOver)
    BY <2>3 DEF ClockTypes
  <2>2. \A j \in Alarms : lastDay'[j] = Day(now) => j \in rung' \cup passedOver'
    BY <2>4, <2>5 DEF DayMeansRung
  <2> QED
    BY <1>4, <2>1, <2>2, EditForgets DEF DayMeansRung
<1> QED
  BY <1>1, <1>2, <1>3, <1>4, ClockMoved

-----------------------------------------------------------------------------
(* The panel, the bell and its sound.                                      *)

\* However the backlight takes it, a screen that stays dark keeps its saver.
LEMMA ClosesOrStays ==
  ASSUME PanelTypes, DarkUnderSaver, ScreensaverClose
  PROVE  /\ panel' \in {"awake", "dimmed", "off"} /\ saver' \in BOOLEAN
         /\ DarkUnderSaver'
  BY DEF PanelTypes, DarkUnderSaver, ScreensaverClose, SetPower

\* An alarm that rings has a sound task or a reason to be silent, and lights the screen or
\* keeps the saver.
LEMMA TriggerMeans ==
  ASSUME NEW i \in Nat, PanelTypes, BellTypes, SoundAgrees, DarkUnderSaver, AlarmTrigger(i)
  PROVE  /\ ringing' \in [active : BOOLEAN, index : Nat]
         /\ {soundHandle', visual'} \subseteq BOOLEAN /\ speaker' \in {"off", "on", "stuck"}
         /\ panel' \in {"awake", "dimmed", "off"} /\ saver' \in BOOLEAN /\ idle' \in 0..3
         /\ SoundAgrees' /\ DarkUnderSaver'
<1>1. CASE ringing.active
  BY <1>1 DEF AlarmTrigger, backlight, voice, PanelTypes, BellTypes, SoundAgrees, DarkUnderSaver
<1>2. CASE ~ringing.active
  <2>1. idle' = 0 /\ ScreensaverClose /\ ringing' = [active |-> TRUE, index |-> i]
    BY <1>2 DEF AlarmTrigger
  <2>2. /\ {soundHandle', visual'} \subseteq BOOLEAN /\ speaker' \in {"off", "on", "stuck"}
        /\ sound' \in {"none", "start", "tone", "closing", "ending"}
        /\ soundHandle' <=> sound' # "none"
        /\ sound' \in {"closing", "ending", "none"} => visual'
    <3>1. CASE soundHandle /\ UNCHANGED voice /\ visual' = (sound \in {"closing", "ending"})
      <4>1. visual' \in BOOLEAN
        BY <3>1
      <4>2. sound' \in {"closing", "ending"} => visual'
        BY <3>1 DEF voice
      <4>3. sound' # "none"
        BY <3>1 DEF voice, SoundAgrees
      <4> QED
        BY <3>1, <4>1, <4>2, <4>3 DEF voice, BellTypes, SoundAgrees
    <3>2. CASE ~soundHandle /\ UNCHANGED speaker /\ visual' = FALSE /\ soundHandle' = TRUE /\ sound' = "start"
      BY <3>2 DEF BellTypes
    <3>3. CASE ~soundHandle /\ UNCHANGED voice /\ visual' = TRUE
      BY <3>3 DEF voice, BellTypes, SoundAgrees
    <3> QED
      BY <1>2, <3>1, <3>2, <3>3 DEF AlarmTrigger
  <2>3. ringing' \in [active : BOOLEAN, index : Nat]
    BY <2>1
  <2> QED
    BY <2>1, <2>2, <2>3, ClosesOrStays DEF SoundAgrees
<1> QED
  BY <1>1, <1>2

\* The clock's tick rings, or leaves the bell alone; a snooze that is over is used up.
LEMMA TickRings ==
  ASSUME ClockTypes, PanelTypes, BellTypes, SoundAgrees, DarkUnderSaver, ClockTick
  PROVE  (BellTypes /\ PanelTypes /\ SoundAgrees /\ DarkUnderSaver)'
<1>1. update' = update /\ (snooze' = snooze \/ snooze' = NoSnooze)
  BY DEF ClockTick, SnoozeOver, DayRecorded, NothingDue
<1>2. snooze' \in [until : 0..MaxMinutes + SnoozeMinutes, index : Nat]
  BY <1>1, AlarmConstants DEF NoSnooze, BellTypes
<1>3. CASE \E i \in Nat : AlarmTrigger(i)
  BY <1>1, <1>2, <1>3, TriggerMeans DEF BellTypes, PanelTypes
<1>4. CASE NothingDue
  BY <1>1, <1>2, <1>4 DEF NothingDue, backlight, voice, PanelTypes, BellTypes, SoundAgrees, DarkUnderSaver
<1>5. CASE SnoozeOver
  <2>1. snooze.index \in Nat
    BY DEF BellTypes
  <2> QED
    BY <1>3, <1>5, <2>1 DEF SnoozeOver
<1>6. CASE DayRecorded
  BY <1>3, <1>6, AlarmConstants DEF DayRecorded
<1> QED
  BY <1>4, <1>5, <1>6 DEF ClockTick

\* The bell, the sound task and the screen keep their agreement, action by action.
LEMMA BellKept ==
  ASSUME ClockTypes, PanelTypes, BellTypes, SoundAgrees, DarkUnderSaver, AlarmNext
  PROVE  (BellTypes /\ PanelTypes /\ SoundAgrees /\ DarkUnderSaver)'
<1>1. CASE ClockTick
  BY <1>1, TickRings
<1>2. CASE MinutePasses
  BY <1>2 DEF MinutePasses, voice, backlight, BellTypes, PanelTypes, SoundAgrees, DarkUnderSaver
<1>3. CASE AlarmDismissed
  <2>1. ringing' = AlarmQuiet /\ idle' = 0 /\ UNCHANGED <<panel, saver, snooze, voice, update, visual>>
    BY <1>3 DEF AlarmDismissed
  <2> QED
    BY <2>1 DEF AlarmQuiet, voice, BellTypes, PanelTypes, SoundAgrees, DarkUnderSaver
<1>4. CASE AlarmSnoozed
  <2>1. /\ ringing' = AlarmQuiet /\ idle' = 0 /\ UNCHANGED <<panel, saver, voice, update, visual>>
        /\ snooze' = [until |-> now + SnoozeMinutes, index |-> ringing.index]
    BY <1>4 DEF AlarmSnoozed
  <2>2. now + SnoozeMinutes \in 0..MaxMinutes + SnoozeMinutes /\ ringing.index \in Nat
    BY AlarmConstants DEF ClockTypes, BellTypes
  <2> QED
    BY <2>1, <2>2 DEF AlarmQuiet, voice, BellTypes, PanelTypes, SoundAgrees, DarkUnderSaver
<1>5. CASE AlarmEdited
  BY <1>5 DEF AlarmEdited, voice, BellTypes, PanelTypes, SoundAgrees, DarkUnderSaver
<1>6. CASE SoundTask
  <2>1. UNCHANGED <<ringing, snooze, update, panel, saver, idle>>
    BY <1>6 DEF SoundTask
  <2>2. {soundHandle', visual'} \subseteq BOOLEAN /\ speaker' \in {"off", "on", "stuck"} /\ SoundAgrees'
    <3>1. CASE SoundRefused /\ UNCHANGED soundHandle
      BY <2>1, <3>1 DEF SoundRefused, BellTypes, SoundAgrees
    <3>2. CASE SoundSetUp /\ UNCHANGED soundHandle
      BY <2>1, <3>2 DEF SoundSetUp, BellTypes, SoundAgrees
    <3>3. CASE ToneEnds /\ UNCHANGED soundHandle
      BY <2>1, <3>3 DEF ToneEnds, BellTypes, SoundAgrees
    <3>4. CASE SpeakerClosed /\ UNCHANGED soundHandle
      BY <2>1, <3>4 DEF SpeakerClosed, BellTypes, SoundAgrees
    <3>5. CASE SoundEnds
      BY <2>1, <3>5 DEF SoundEnds, BellTypes, SoundAgrees
    <3> QED
      BY <1>6, <3>1, <3>2, <3>3, <3>4, <3>5 DEF SoundTask
  <2> QED
    BY <2>1, <2>2 DEF BellTypes, PanelTypes, DarkUnderSaver
<1>7. CASE ScreensaverTick
  <2>1. UNCHANGED <<ringing, snooze, voice, update, visual>>
    BY <1>7 DEF ScreensaverTick
  <2>2. /\ panel' \in {"awake", "dimmed", "off"} /\ saver' \in BOOLEAN /\ idle' \in 0..3
        /\ DarkUnderSaver'
    <3>1. CASE TickInhibited
      BY <3>1, ClosesOrStays DEF TickInhibited
    <3>2. CASE TickSaver
      BY <3>2, ClosesOrStays DEF TickSaver, SetPower, PanelTypes, DarkUnderSaver
    <3>3. CASE TickShows
      BY <3>3 DEF TickShows, SetPower, PanelTypes, DarkUnderSaver
    <3> QED
      BY <1>7, <3>1, <3>2, <3>3 DEF ScreensaverTick
  <2> QED
    BY <2>1, <2>2 DEF BellTypes, PanelTypes, SoundAgrees, voice
<1>8. CASE Touched
  BY <1>8, ClosesOrStays DEF Touched, voice, BellTypes, PanelTypes, SoundAgrees
<1>9. CASE Idles
  BY <1>9 DEF Idles, voice, BellTypes, PanelTypes, SoundAgrees, DarkUnderSaver
<1>10. CASE UpdateMoves
  BY <1>10 DEF UpdateMoves, voice, backlight, BellTypes, PanelTypes, SoundAgrees, DarkUnderSaver
<1> QED
  BY <1>1, <1>2, <1>3, <1>4, <1>5, <1>6, <1>7, <1>8, <1>9, <1>10 DEF AlarmNext

\* Every step keeps the invariant.
LEMMA AlarmSteps == AlarmIInv /\ [AlarmNext]_alarmVars => AlarmIInv'
<1>1. CASE AlarmIInv /\ AlarmNext
  BY <1>1, ClockTypesKept, DayMeansRungKept, BellKept DEF AlarmIInv
<1>2. CASE AlarmIInv /\ UNCHANGED alarmVars
  <2>1. ClockTypes' /\ DayMeansRung'
    BY <1>2 DEF AlarmIInv, alarmVars, ClockTypes, DayMeansRung, Due
  <2>2. BellTypes' /\ PanelTypes'
    BY <1>2 DEF AlarmIInv, alarmVars, BellTypes, PanelTypes
  <2>3. SoundAgrees' /\ DarkUnderSaver'
    BY <1>2 DEF AlarmIInv, alarmVars, SoundAgrees, DarkUnderSaver
  <2> QED
    BY <2>1, <2>2, <2>3 DEF AlarmIInv
<1> QED
  BY <1>1, <1>2

\* The invariant implies what is checked.
LEMMA AlarmPromise == AlarmIInv => AlarmInv
<1> SUFFICES ASSUME AlarmIInv PROVE AlarmInv
  OBVIOUS
<1> USE DEF AlarmIInv
<1>1. AlarmTypes
  <2>1. now \in 0..MaxMinutes /\ Day(now) \in Nat /\ Day(now) <= Day(MaxMinutes) /\ Day(MaxMinutes) \in Nat
    BY Days, AlarmConstants DEF ClockTypes
  <2>2. \A i \in Alarms : lastDay[i] \in -1..Day(MaxMinutes)
    <3>1. \A i \in Alarms : lastDay[i] \in Int /\ -1 <= lastDay[i] /\ lastDay[i] <= Day(now)
      BY DEF ClockTypes
    <3>2. ASSUME NEW d \in Int, NEW m \in Nat, NEW n \in Nat, -1 <= d, d <= n, n <= m PROVE d \in -1..m
      BY <3>2
    <3> QED
      BY <2>1, <3>1, <3>2
  <2>3. lastDay \in [Alarms -> -1..Day(MaxMinutes)]
    BY <2>2 DEF ClockTypes
  <2>4. ringing.active \in BOOLEAN /\ snooze.until \in 0..MaxMinutes + SnoozeMinutes
    BY DEF BellTypes
  <2> QED
    BY <2>1, <2>3, <2>4 DEF AlarmTypes, ClockTypes, BellTypes, PanelTypes
<1>2. DueAlarmRings
  BY DEF DueAlarmRings, DayMeansRung, Due
<1>3. AlarmIsHeard
  BY DEF AlarmIsHeard, SoundAgrees
<1> QED
  BY <1>1, <1>2, <1>3 DEF AlarmInv

\* For any alarms, any length of day and snooze: an enabled alarm set for this minute has
\* rung or was passed over by one that rang, it is heard or has a reason to be silent, and
\* a dark screen is under the saver whose touch lights it.
THEOREM AlarmsRing == AlarmSpec => []AlarmInv
  BY AlarmInitially, AlarmSteps, AlarmPromise, PTL DEF AlarmSpec
=============================================================================
