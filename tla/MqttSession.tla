---------------------------- MODULE MqttSession ----------------------------
(***************************************************************************)
(* A session of the MQTT console, src/main/mqtt_tool.c.  Three tasks share *)
(* it under mqtt_lock: the LVGL task runs the buttons and the page, the    *)
(* client library's task delivers events, and one worker performs actions, *)
(* writes the metadata log to the SD card and tears the session down.  A   *)
(* step is one critical section, or one call made outside of it.           *)
(*                                                                         *)
(* A log entry is its number in the session.  The three session buffers    *)
(* are one: they are allocated and released together.  event_status_       *)
(* revision is only compared with the value the worker read: sameRevision. *)
(* The UI's message ring, the saved receive and the forms are left out.    *)
(***************************************************************************)
EXTENDS Integers, Sequences

CONSTANTS
    LogLimit,      \* MQTT_MESSAGE_LIMIT: pending log entries
    MaxSessions,   \* bound on the sessions opened
    MaxActions,    \* bound on the actions of a session
    MaxEntries     \* bound on the receives logged in a session

ASSUME MqttConstants ==
    /\ LogLimit \in Nat \ {0}
    /\ MaxSessions \in Nat /\ MaxActions \in Nat /\ MaxEntries \in Nat

VARIABLES
    ui,                              \* where the LVGL task is in a handler
    screen, sd, storageCb, logging,  \* screen_visible, screen_sd_available, ...
    session,                         \* number of the last client created
    client, running, stopping,       \* client, client_running, client_stopping
    connected, failed,               \* broker_connected, connection_failed
    actions, pending, actionBusy,    \* actions accepted, pending_action, action_busy
    worker, notified,                \* mqtt_cleanup_worker, its notification
    action, sameRevision,            \* perform_action
    entry, entryCb, oldRing, firstError,  \* the worker's locals
    cleanup, cleanupLog, cleanupCb,  \* cleanup_client, ..._enabled, ..._error_cb
    buffers, logRing,                \* rings, the queue of log_ring
    accepted, dropped,               \* entries queued so far, log_dropped
    logError, reported,              \* log_error, log_error_reported
    status, dirty,                   \* async_status, status_dirty
    sdk, net, alive, outstanding, acked,  \* the client library
    saved, appendFailed, reports     \* card and callbacks, for this session

NoClient == 0
NoAction == [number |-> 0, client |-> NoClient, publish |-> FALSE]
NoStatus == [kind |-> "none", session |-> 0, action |-> 0]

page == <<screen, sd, storageCb, logging>>
clients == <<session, client, running, stopping>>
link == <<connected, failed>>
queue == <<actions, pending, actionBusy>>
local == <<action, entry, entryCb, oldRing, firstError>>
teardown == <<cleanup, cleanupLog, cleanupCb>>
log == <<buffers, logRing, accepted, dropped, logError>>
shown == <<status, dirty, sameRevision>>
library == <<net, alive, outstanding, acked>>
card == <<saved, appendFailed>>
reporting == <<reported, reports>>
mqttVars == <<ui, page, clients, link, queue, worker, notified, local, teardown, log,
          shown, sdk, library, card, reporting>>

Entries == 1..(MaxEntries + MaxActions)
Actions == [number : 1..MaxActions, client : 1..MaxSessions, publish : BOOLEAN]
StatusKinds == {"none", "connected", "disconnected", "received", "invalid", "acknowledged",
                "error", "queued", "refused", "ended", "ended omitted", "ended unsaved"}

MqttTypeOK ==
    /\ ui \in {"idle", "notify", "show", "homeStop", "homeNotify", "detach", "clear"}
    /\ screen \in BOOLEAN /\ sd \in BOOLEAN /\ storageCb \in BOOLEAN /\ logging \in BOOLEAN
    /\ session \in 0..MaxSessions /\ client \in {NoClient, session}
    /\ running \in BOOLEAN /\ stopping \in BOOLEAN
    /\ connected \in BOOLEAN /\ failed \in BOOLEAN
    /\ actions \in 0..MaxActions /\ pending \in Actions \cup {NoAction}
    /\ actionBusy \in BOOLEAN /\ notified \in BOOLEAN
    /\ worker \in {"wait", "act", "call", "push", "accepted", "refused", "release",
                   "recheck", "append", "appendFailed", "decide", "report", "stop", "take",
                   "drain", "free", "finalReport", "finish"}
    /\ action \in Actions \cup {NoAction} /\ sameRevision \in BOOLEAN
    /\ entry \in Entries \cup {0} /\ entryCb \in BOOLEAN
    /\ oldRing \in Seq(Entries) /\ firstError \in BOOLEAN
    /\ cleanup \in {NoClient, session} /\ cleanupLog \in BOOLEAN /\ cleanupCb \in BOOLEAN
    /\ buffers \in {"none", "session", "taken"}
    /\ logRing \in Seq(Entries) /\ Len(logRing) <= LogLimit
    /\ accepted \in Entries \cup {0} /\ dropped \in Entries \cup {0}
    /\ logError \in BOOLEAN /\ reported \in BOOLEAN
    /\ status \in [kind : StatusKinds, session : 0..MaxSessions, action : 0..MaxActions]
    /\ dirty \in BOOLEAN
    /\ sdk \in {"idle", "notify", "connected", "disconnected", "received"}
    /\ net \in {"none", "connecting", "up", "lost", "over"} /\ alive \in BOOLEAN
    /\ outstanding \subseteq 1..MaxActions /\ acked \subseteq 1..MaxActions
    /\ saved \in Seq(Entries) /\ appendFailed \in BOOLEAN /\ reports \in 0..2

MqttInit ==
    /\ ui = "idle" /\ screen = FALSE /\ sd = FALSE /\ storageCb = FALSE /\ logging = FALSE
    /\ session = 0 /\ client = NoClient /\ running = FALSE /\ stopping = FALSE
    /\ connected = FALSE /\ failed = FALSE
    /\ actions = 0 /\ pending = NoAction /\ actionBusy = FALSE
    /\ worker = "wait" /\ notified = FALSE
    /\ action = NoAction /\ sameRevision = FALSE
    /\ entry = 0 /\ entryCb = FALSE /\ oldRing = <<>> /\ firstError = FALSE
    /\ cleanup = NoClient /\ cleanupLog = FALSE /\ cleanupCb = FALSE
    /\ buffers = "none" /\ logRing = <<>> /\ accepted = 0 /\ dropped = 0
    /\ logError = FALSE /\ reported = FALSE
    /\ status = NoStatus /\ dirty = FALSE
    /\ sdk = "idle" /\ net = "none" /\ alive = FALSE /\ outstanding = {} /\ acked = {}
    /\ saved = <<>> /\ appendFailed = FALSE /\ reports = 0

-----------------------------------------------------------------------------
\* Status and log.
StatusOf(kind, number) == [kind |-> kind, session |-> session, action |-> number]

PublishStatus(kind, number) ==
    status' = StatusOf(kind, number) /\ dirty' = TRUE /\ sameRevision' = FALSE

\* set_async_status()
SetAsyncStatus(kind, number) ==
    IF ~stopping /\ ~failed THEN PublishStatus(kind, number) ELSE UNCHANGED shown

\* push_message_locked() writes a log entry.
WritesLog == IF stopping THEN cleanupLog ELSE logging /\ sd
Queues == buffers = "session" /\ WritesLog /\ ~logError

\* The metadata queue keeps the latest entries and counts the ones it drops.
PushEntry ==
    LET number == accepted + 1
        full == Len(logRing) = LogLimit
    IN  /\ accepted' = number
        /\ logRing' = Append(IF full THEN Tail(logRing) ELSE logRing, number)
        /\ dropped' = IF full THEN dropped + 1 ELSE dropped
        /\ UNCHANGED <<buffers, logError>>

\* append_log(): the row is synced and closed, or it is not known to be saved.
RowSaved(number) == saved' = Append(saved, number) /\ UNCHANGED appendFailed
RowFails == appendFailed' = TRUE /\ UNCHANGED saved

\* record_log_error()
RecordLogError ==
    /\ logError' = TRUE /\ logging' = FALSE /\ cleanupLog' = FALSE
    /\ logRing' = <<>>
    /\ UNCHANGED <<buffers, accepted, dropped, screen, sd, storageCb, cleanup, cleanupCb>>

-----------------------------------------------------------------------------
\* The LVGL task.  Between two critical sections of a handler the other tasks
\* may run, other handlers do not.

\* mqtt_tool_show(), its first critical section.
ShowBegins ==
    /\ ui = "idle" /\ ~screen
    /\ ui' = "show"
    /\ sd' \in BOOLEAN /\ storageCb' = TRUE /\ logging' = FALSE
    /\ IF running THEN UNCHANGED <<logError, reported, dropped>>
       ELSE logError' = FALSE /\ reported' = FALSE /\ dropped' = 0
    /\ UNCHANGED <<screen, clients, link, queue, worker, notified, local, teardown, buffers,
                   logRing, accepted, shown, sdk, library, card, reports>>

\* ensure_buffers() allocates what is missing, if it can.
EnsureBuffers == buffers' \in {buffers, "session"}

ShowEnds ==
    /\ ui = "show"
    /\ ui' = "idle" /\ screen' = TRUE
    /\ IF stopping THEN UNCHANGED <<buffers, status, dirty>>
       ELSE EnsureBuffers /\ status' = NoStatus /\ dirty' = FALSE
    /\ UNCHANGED <<sd, storageCb, logging, clients, link, queue, worker, notified, local,
                   teardown, logRing, accepted, dropped, logError, sameRevision, sdk, library,
                   card, reporting>>

\* mqtt_tick()
Tick ==
    /\ ui = "idle" /\ screen /\ ~stopping
    /\ EnsureBuffers /\ dirty' = FALSE
    /\ UNCHANGED <<ui, page, clients, link, queue, worker, notified, local, teardown, logRing,
                   accepted, dropped, logError, status, sameRevision, sdk, library, card,
                   reporting>>

ConnectResets ==
    /\ logError' = FALSE /\ reported' = FALSE /\ dropped' = 0
    /\ status' = NoStatus /\ dirty' = FALSE
    /\ connected' = FALSE /\ failed' = FALSE
    /\ buffers' = "session"

Connectable == ui = "idle" /\ screen /\ ~stopping /\ ~running

\* connect_clicked() when no session is running: a new client is started.
Connect ==
    /\ Connectable /\ session < MaxSessions
    /\ ConnectResets
    /\ session' = session + 1 /\ client' = session + 1 /\ running' = TRUE
    /\ alive' = TRUE /\ net' = "connecting" /\ outstanding' = {} /\ acked' = {}
    /\ actions' = 0 /\ accepted' = 0
    /\ saved' = <<>> /\ appendFailed' = FALSE /\ reports' = 0
    /\ UNCHANGED <<ui, page, stopping, pending, actionBusy, worker, notified, local, teardown,
                   logRing, sameRevision, sdk>>

\* The client cannot be created, or destroy_unstarted_client().
ConnectFails ==
    /\ Connectable
    /\ ConnectResets
    /\ UNCHANGED <<ui, page, clients, queue, worker, notified, local, teardown, logRing,
                   accepted, sameRevision, sdk, library, card, reports>>

\* begin_client_stop()
BeginStop ==
    /\ cleanup' = client /\ cleanupLog' = (logging /\ sd) /\ cleanupCb' = storageCb
    /\ client' = NoClient /\ stopping' = TRUE
    /\ connected' = FALSE /\ logging' = FALSE
    /\ UNCHANGED <<screen, sd, storageCb, session, running, failed>>

StopUnchanged ==
    UNCHANGED <<queue, worker, notified, local, log, shown, sdk, library, card, reporting>>

\* connect_clicked() in a session.
Disconnect ==
    /\ ui = "idle" /\ screen /\ running /\ ~stopping /\ client # NoClient
    /\ ui' = "notify"
    /\ BeginStop /\ StopUnchanged

\* mqtt_tool_stop()
HomeBegins ==
    /\ ui = "idle" /\ screen
    /\ screen' = FALSE
    /\ IF running THEN /\ ui' = IF stopping THEN "detach" ELSE "homeStop"
                       /\ UNCHANGED <<logging, buffers, logRing>>
       ELSE ui' = "detach" /\ logging' = FALSE /\ buffers' = "none" /\ logRing' = <<>>
    /\ UNCHANGED <<sd, storageCb, clients, link, queue, worker, notified, local, teardown,
                   accepted, dropped, logError, shown, sdk, library, card, reporting>>

HomeStops ==
    /\ ui = "homeStop"
    /\ ui' = "homeNotify"
    /\ BeginStop /\ StopUnchanged

HomeEnds ==
    /\ ui = "detach"
    /\ ui' = "idle" /\ storageCb' = FALSE
    /\ UNCHANGED <<screen, sd, logging, clients, link, queue, worker, notified, local, teardown,
                   log, shown, sdk, library, card, reporting>>

\* xTaskNotifyGive() of begin_client_stop() and queue_action()
UiNotifies ==
    /\ ui \in {"notify", "homeNotify"}
    /\ ui' = IF ui = "notify" THEN "idle" ELSE "detach"
    /\ notified' = TRUE
    /\ UNCHANGED <<page, clients, link, queue, worker, local, teardown, log, shown, sdk,
                   library, card, reporting>>

\* log_clicked()
LogClicked ==
    /\ ui = "idle" /\ screen /\ ~stopping /\ sd
    /\ ~(running /\ logError)
    /\ logging' = ~logging
    /\ UNCHANGED <<ui, screen, sd, storageCb, clients, link, queue, worker, notified, local,
                   teardown, log, shown, sdk, library, card, reporting>>

\* subscribe_clicked(), publish_clicked() and queue_action()
QueueAction ==
    /\ ui = "idle" /\ screen
    /\ client # NoClient /\ running /\ connected /\ ~stopping /\ ~actionBusy
    /\ actions < MaxActions
    /\ \E publish \in BOOLEAN :
         pending' = [number |-> actions + 1, client |-> client, publish |-> publish]
    /\ actions' = actions + 1 /\ actionBusy' = TRUE
    /\ ui' = "notify"
    /\ UNCHANGED <<page, clients, link, worker, notified, local, teardown, log, shown, sdk,
                   library, card, reporting>>

\* clear_clicked(): "if (history_text)", then the write and the critical section.
ClearBegins ==
    /\ ui = "idle" /\ screen /\ buffers = "session"
    /\ ui' = "clear"
    /\ UNCHANGED <<page, clients, link, queue, worker, notified, local, teardown, log, shown,
                   sdk, library, card, reporting>>

ClearEnds ==
    /\ ui = "clear" \/ (ui = "idle" /\ screen /\ buffers # "session")
    /\ ui' = "idle"
    /\ dirty' = (dirty /\ failed)
    /\ UNCHANGED <<page, clients, link, queue, worker, notified, local, teardown, log, status,
                   sameRevision, sdk, library, card, reporting>>

UiStep ==
    \/ ShowBegins \/ Tick \/ Connect \/ ConnectFails \/ Disconnect \/ HomeBegins
    \/ LogClicked \/ QueueAction \/ ClearBegins \/ ClearEnds
    \/ ShowEnds \/ HomeStops \/ HomeEnds \/ UiNotifies

-----------------------------------------------------------------------------
\* The client library's task: mqtt_event().
SdkUnchanged == UNCHANGED <<ui, page, clients, queue, worker, local, teardown, card, reporting>>

EventConnected ==
    /\ sdk = "idle" /\ alive /\ net = "connecting"
    /\ net' = "up" /\ sdk' = "connected"
    /\ IF stopping THEN UNCHANGED link ELSE connected' = TRUE /\ failed' = FALSE
    /\ UNCHANGED <<notified, log, shown, alive, outstanding, acked>> /\ SdkUnchanged

EventDisconnected ==
    /\ sdk = "idle" /\ alive /\ net \in {"connecting", "up", "lost"}
    /\ net' = "over" /\ sdk' = "disconnected"
    /\ connected' = FALSE
    /\ UNCHANGED <<failed, notified, log, shown, alive, outstanding, acked>> /\ SdkUnchanged

\* The acknowledgment of an action; it may arrive before the call has returned.
EventAcknowledged ==
    /\ sdk = "idle" /\ alive /\ net = "up"
    /\ \E number \in outstanding :
         /\ outstanding' = outstanding \ {number} /\ acked' = acked \cup {number}
         /\ SetAsyncStatus("acknowledged", number)
    /\ UNCHANGED <<link, notified, log, sdk, net, alive>> /\ SdkUnchanged

\* handle_data() completes a receive.
EventData ==
    /\ sdk = "idle" /\ alive /\ net = "up" /\ buffers = "session"
    /\ IF Queues THEN accepted < MaxEntries /\ PushEntry /\ sdk' = "notify"
       ELSE sdk' = "received" /\ UNCHANGED log
    /\ UNCHANGED <<link, notified, shown, library>> /\ SdkUnchanged

DataNotifies ==
    /\ sdk = "notify"
    /\ sdk' = "received" /\ notified' = TRUE
    /\ UNCHANGED <<link, log, shown, library>> /\ SdkUnchanged

EventInvalid ==
    /\ sdk = "idle" /\ alive /\ net = "up" /\ buffers = "session"
    /\ SetAsyncStatus("invalid", 0)
    /\ UNCHANGED <<link, notified, log, sdk, library>> /\ SdkUnchanged

EventStatus ==
    /\ sdk \in {"connected", "disconnected", "received"}
    /\ sdk' = "idle"
    /\ SetAsyncStatus(sdk, 0)
    /\ UNCHANGED <<link, notified, log, library>> /\ SdkUnchanged

EventError ==
    /\ sdk = "idle" /\ alive /\ net \in {"connecting", "up"}
    /\ net' \in {net, "lost"}
    /\ IF stopping THEN UNCHANGED <<link, shown>>
       ELSE connected' = FALSE /\ failed' = TRUE /\ PublishStatus("error", 0)
    /\ UNCHANGED <<notified, log, sdk, alive, outstanding, acked>> /\ SdkUnchanged

SdkStep ==
    \/ EventConnected \/ EventDisconnected \/ EventAcknowledged \/ EventData
    \/ EventInvalid \/ EventError \/ DataNotifies \/ EventStatus

-----------------------------------------------------------------------------
\* The worker.

\* Faulty selection for mutation: cleanup comes before a pending action.
TakeCleanupFirst ==
    /\ worker = "wait" /\ notified
    /\ notified' = FALSE
    /\ \/ /\ cleanup # NoClient
          /\ worker' = "stop" /\ entryCb' = cleanupCb
          /\ UNCHANGED <<pending, action, entry, logRing>>
       \/ /\ cleanup = NoClient /\ pending # NoAction
          /\ action' = pending /\ pending' = NoAction /\ worker' = "act"
          /\ UNCHANGED <<entry, entryCb, logRing>>
       \/ /\ cleanup = NoClient /\ pending = NoAction /\ logRing # <<>>
          /\ entry' = Head(logRing) /\ logRing' = Tail(logRing)
          /\ entryCb' = storageCb /\ worker' = "append"
          /\ UNCHANGED <<pending, action>>
       \/ /\ cleanup = NoClient /\ pending = NoAction /\ logRing = <<>>
          /\ UNCHANGED <<worker, pending, action, entry, entryCb, logRing>>
    /\ UNCHANGED <<ui, page, clients, link, actions, actionBusy, oldRing, firstError, teardown,
                   buffers, accepted, dropped, logError, shown, sdk, library, card, reporting>>

\* One notification, one choice: an action, else the cleanup, else a log entry.
Take ==
    /\ worker = "wait" /\ notified
    /\ notified' = FALSE
    /\ \/ /\ pending # NoAction
          /\ action' = pending /\ pending' = NoAction /\ worker' = "act"
          /\ UNCHANGED <<entry, entryCb, logRing>>
       \/ /\ pending = NoAction /\ cleanup # NoClient
          /\ worker' = "stop" /\ entryCb' = cleanupCb
          /\ UNCHANGED <<pending, action, entry, logRing>>
       \/ /\ pending = NoAction /\ cleanup = NoClient /\ logRing # <<>>
          /\ entry' = Head(logRing) /\ logRing' = Tail(logRing)
          /\ entryCb' = storageCb /\ worker' = "append"
          /\ UNCHANGED <<pending, action>>
       \/ /\ pending = NoAction /\ cleanup = NoClient /\ logRing = <<>>
          /\ UNCHANGED <<worker, pending, action, entry, entryCb, logRing>>
    /\ UNCHANGED <<ui, page, clients, link, actions, actionBusy, oldRing, firstError, teardown,
                   buffers, accepted, dropped, logError, shown, sdk, library, card, reporting>>

WorkerUnchanged == UNCHANGED <<ui, screen, sd, storageCb, actions, pending, sdk>>
Goes(from, to) == worker = from /\ worker' = to

\* perform_action(): an action that comes too late is dropped.
ActionStarts ==
    /\ worker = "act"
    /\ IF stopping THEN worker' = "release" /\ UNCHANGED sameRevision
       ELSE worker' = "call" /\ sameRevision' = TRUE
    /\ UNCHANGED <<logging, clients, link, actionBusy, notified, local, teardown, log, status,
                   dirty, library, card, reporting>> /\ WorkerUnchanged

\* esp_mqtt_client_enqueue() or _subscribe(); the broker may acknowledge it.
ActionCalls ==
    /\ worker = "call"
    /\ \/ /\ worker' = IF action.publish THEN "push" ELSE "accepted"
          /\ outstanding' \in {outstanding, outstanding \cup {action.number}}
       \/ worker' = "refused" /\ UNCHANGED outstanding
    /\ UNCHANGED <<logging, clients, link, actionBusy, notified, local, teardown, log, shown,
                   net, alive, acked, card, reporting>> /\ WorkerUnchanged

ActionLogs ==
    /\ Goes("push", "accepted")
    /\ IF Queues THEN PushEntry /\ notified' = TRUE ELSE UNCHANGED <<log, notified>>
    /\ UNCHANGED <<logging, clients, link, actionBusy, local, teardown, shown, library, card,
                   reporting>> /\ WorkerUnchanged

\* Faulty result for mutation: the event status is not compared.
ResultIgnoringEvents ==
    /\ worker \in {"accepted", "refused"} /\ worker' = "release"
    /\ IF ~stopping /\ ~failed
       THEN /\ status' = StatusOf(IF worker = "accepted" THEN "queued" ELSE "refused",
                                  action.number)
            /\ dirty' = TRUE
       ELSE UNCHANGED <<status, dirty>>
    /\ UNCHANGED <<logging, clients, link, actionBusy, notified, local, teardown, log,
                   sameRevision, library, card, reporting>> /\ WorkerUnchanged

\* A newer status of the event task is not overwritten.
ActionResult ==
    /\ worker \in {"accepted", "refused"} /\ worker' = "release"
    /\ IF ~stopping /\ ~failed /\ sameRevision
       THEN /\ status' = StatusOf(IF worker = "accepted" THEN "queued" ELSE "refused",
                                  action.number)
            /\ dirty' = TRUE
       ELSE UNCHANGED <<status, dirty>>
    /\ UNCHANGED <<logging, clients, link, actionBusy, notified, local, teardown, log,
                   sameRevision, library, card, reporting>> /\ WorkerUnchanged

ActionEnds ==
    /\ Goes("release", "recheck")
    /\ actionBusy' = FALSE /\ action' = NoAction /\ sameRevision' = FALSE
    /\ UNCHANGED <<logging, clients, link, notified, entry, entryCb, oldRing, firstError,
                   teardown, log, status, dirty, library, card, reporting>> /\ WorkerUnchanged

\* notify_pending_work()
Recheck ==
    /\ Goes("recheck", "wait")
    /\ notified' = (notified \/ pending # NoAction \/ cleanup # NoClient \/ logRing # <<>>)
    /\ entry' = 0 /\ entryCb' = FALSE
    /\ UNCHANGED <<logging, clients, link, actionBusy, action, oldRing, firstError,
                   teardown, log, shown, library, card, reporting>> /\ WorkerUnchanged

AppendEntry ==
    /\ worker = "append"
    /\ \/ RowSaved(entry) /\ worker' = "recheck"
       \/ RowFails /\ worker' = "appendFailed"
    /\ UNCHANGED <<logging, clients, link, actionBusy, notified, local, teardown, log, shown,
                   library, reporting>> /\ WorkerUnchanged

EntryFails ==
    /\ Goes("appendFailed", "decide")
    /\ RecordLogError
    /\ UNCHANGED <<ui, actions, pending, sdk, clients, link, actionBusy, notified, local,
                   shown, library, card, reporting>>

\* Once the session is stopping, its cleanup reports the error.
DecideReport ==
    /\ worker = "decide"
    /\ IF ~stopping /\ ~reported THEN worker' = "report" /\ reported' = TRUE
       ELSE worker' = "recheck" /\ UNCHANGED reported
    /\ UNCHANGED <<logging, clients, link, actionBusy, notified, local, teardown, log, shown,
                   library, card, reports>> /\ WorkerUnchanged

\* error_cb() of the session, called by the worker.
Report(next) ==
    /\ worker' = next
    /\ reports' = IF entryCb THEN reports + 1 ELSE reports
    /\ UNCHANGED <<logging, clients, link, actionBusy, notified, local, teardown, log, shown,
                   library, card, reported>> /\ WorkerUnchanged

ReportError ==
    \/ worker = "report" /\ Report("recheck")
    \/ worker = "finalReport" /\ Report("finish")

\* esp_mqtt_client_stop() waits for the library's task, _destroy() frees it.
DestroyClient ==
    /\ Goes("stop", "take")
    /\ sdk = "idle"
    /\ net' = "over" /\ alive' = FALSE
    /\ UNCHANGED <<logging, clients, link, actionBusy, notified, local, teardown, log, shown,
                   outstanding, acked, card, reporting>> /\ WorkerUnchanged

\* The worker takes the buffers over.
TakeBuffers ==
    /\ Goes("take", "drain")
    /\ oldRing' = logRing /\ logRing' = <<>> /\ firstError' = logError
    /\ buffers' = "taken"
    /\ UNCHANGED <<logging, clients, link, actionBusy, notified, action, entry, entryCb,
                   teardown, accepted, dropped, logError, shown, library, card,
                   reporting>> /\ WorkerUnchanged

\* The accepted entries are written, up to the first failure.
Drain ==
    /\ worker = "drain"
    /\ IF firstError \/ oldRing = <<>>
       THEN worker' = "free" /\ UNCHANGED <<page, teardown, log, oldRing, firstError, card>>
       ELSE /\ oldRing' = Tail(oldRing)
            /\ \/ /\ RowSaved(Head(oldRing))
                  /\ UNCHANGED <<worker, page, teardown, log, firstError>>
               \/ /\ RowFails /\ RecordLogError
                  /\ firstError' = TRUE
                  /\ UNCHANGED worker
    /\ UNCHANGED <<ui, actions, pending, sdk, clients, link, actionBusy, notified, action,
                   entry, entryCb, shown, library, reporting>>

ReleaseBuffers ==
    /\ worker = "free"
    /\ buffers' = "none" /\ oldRing' = <<>>
    /\ IF firstError /\ ~reported THEN worker' = "finalReport" /\ reported' = TRUE
       ELSE worker' = "finish" /\ UNCHANGED reported
    /\ UNCHANGED <<logging, clients, link, actionBusy, notified, action, entry, entryCb,
                   firstError, teardown, logRing, accepted, dropped, logError, shown, library,
                   card, reports>> /\ WorkerUnchanged

EndedStatus == IF firstError THEN "ended unsaved"
               ELSE IF dropped > 0 THEN "ended omitted" ELSE "ended"

\* Idle state and completion status are published together.
FinishCleanup ==
    /\ Goes("finish", "wait")
    /\ cleanup' = NoClient /\ cleanupLog' = FALSE /\ cleanupCb' = FALSE
    /\ running' = FALSE /\ stopping' = FALSE /\ connected' = FALSE /\ failed' = FALSE
    /\ IF screen THEN status' = StatusOf(EndedStatus, 0) /\ dirty' = TRUE
       ELSE UNCHANGED <<status, dirty>>
    /\ entryCb' = FALSE /\ firstError' = FALSE
    /\ UNCHANGED <<logging, session, client, actionBusy, notified, action, entry, oldRing,
                   log, sameRevision, library, card, reporting>> /\ WorkerUnchanged

WorkerStep ==
    \/ Take \/ ActionStarts \/ ActionCalls \/ ActionLogs \/ ActionResult \/ ActionEnds
    \/ Recheck \/ AppendEntry \/ EntryFails \/ DecideReport \/ ReportError \/ DestroyClient
    \/ TakeBuffers \/ Drain \/ ReleaseBuffers \/ FinishCleanup

MqttNext == UiStep \/ SdkStep \/ WorkerStep
MqttSpec == MqttInit /\ [][MqttNext]_mqttVars

-----------------------------------------------------------------------------
\* No task holds or uses a client that the worker has destroyed: the handle of
\* the page, of a queued action and of the action in a library call is alive.
ClientAlive ==
    /\ client # NoClient => alive /\ client = session
    /\ pending # NoAction => alive /\ pending.client = session
    /\ worker \in {"call", "push", "accepted", "refused"} => alive /\ action.client = session
    /\ sdk # "idle" => alive

\* A worker that sleeps has nothing to do, or somebody is about to wake it.
NoLostWakeup ==
    worker = "wait" /\ ~notified /\ ui \notin {"notify", "homeNotify"} /\ sdk # "notify" =>
        pending = NoAction /\ cleanup = NoClient /\ logRing = <<>>

\* While no write has failed every accepted entry is on the card, in work, in
\* the queue or counted as dropped, and the card has them in order.
InWork == IF worker = "append" THEN 1 ELSE 0
EntriesAccounted ==
    /\ running /\ ~appendFailed =>
         accepted = Len(saved) + InWork + Len(logRing) + Len(oldRing) + dropped
    /\ \A i \in 1..(Len(saved) - 1) : saved[i] < saved[i + 1]

\* The page says "Disconnected" without a warning only if every entry the session
\* accepted is on the card.
CleanEndMeansSaved ==
    status.kind = "ended" /\ status.session = session =>
        ~appendFailed /\ Len(saved) = accepted

\* The first storage error of a session is reported once, at the latest when the
\* session ends, to the page that was open when it began to stop.
ErrorReportedOnce ==
    /\ reports <= 1
    /\ ~running /\ appendFailed => reports = 1

\* A result of the worker never replaces the acknowledgment it belongs to.
NewerStatusSurvives ==
    [][status' # status /\ status'.kind = "queued" => status'.action \notin acked]_mqttVars

\* A connection error stays on the page until the session ends.
ErrorSurvives == failed => status.kind = "error"

\* Actions can only be queued for a broker that is connected, in a session that
\* nobody is stopping; a status that waits to be shown is of this session.
LateEventsHarmless ==
    /\ connected => running /\ ~stopping
    /\ running /\ ~stopping /\ dirty => status.session = session /\ status.kind \notin
         {"ended", "ended omitted", "ended unsaved"}

\* A session is busy, which blocks restarts and new sessions, until its client is
\* gone, its buffers are released and its callback has returned.
BusyThroughCleanup ==
    ~running => /\ ~alive /\ sdk = "idle" /\ client = NoClient /\ pending = NoAction
                /\ worker = "wait" /\ logRing = <<>> /\ oldRing = <<>>

\* The session's bookkeeping: types, no worker asleep on work, no status or flag of
\* an ended or failed connection outlived, nothing left when a session is idle; the
\* client outlives its users, every entry is accounted for, and errors are reported once.
MqttInv ==
    /\ MqttTypeOK /\ NoLostWakeup /\ ErrorSurvives /\ LateEventsHarmless /\ BusyThroughCleanup
    /\ ClientAlive /\ EntriesAccounted /\ CleanEndMeansSaved /\ ErrorReportedOnce

\* CLEAR writes to the history only while it is allocated.
HistoryNotReleased == ui = "clear" => buffers # "none"

=============================================================================
