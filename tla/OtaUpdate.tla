----------------------------- MODULE OtaUpdate -----------------------------
(***************************************************************************)
(* Over-the-air updates of src/main/main.c: the System page and its timers *)
(* on the LVGL task, the update worker, the health check that confirms a   *)
(* new image, and the record of updates in NVS, across resets.             *)
(*                                                                         *)
(* The worker and the LVGL task interleave at every shared variable; the   *)
(* device may be reset between any two steps, NVS calls included.  The     *)
(* download is one step per outcome: its verification is in the manifest   *)
(* code.  The boot loader and esp_ota_* are external (CONFIG_BOOTLOADER_   *)
(* APP_ROLLBACK_ENABLE).  An image is its version, ordered by release.     *)
(***************************************************************************)
EXTENDS Integers, FiniteSets

CONSTANTS
    Versions,     \* released versions
    Factory,      \* the version flashed by cable
    Minimum,      \* Minimum[v]: the manifest's minimum_predecessor of v
    NoVersion, NoResult,
    MaxRuns,      \* bound on the updates started
    MaxResets     \* bound on the resets the updater did not ask for

ASSUME OtaConstants ==
    /\ Versions \subseteq Nat /\ NoVersion \notin Versions /\ Factory \in Versions
    /\ Minimum \in [Versions -> Nat]
    /\ MaxRuns \in Nat /\ MaxResets \in Nat

Slots == {0, 1}
Other(s) == 1 - s
ImageStates == {"untracked", "new", "pending", "valid", "aborted"}
FinalKinds == {"Installed", "Rolled back", "Did not activate"}
Kinds == FinalKinds \cup {"Health pending", "State unavailable", "Not confirmed"}
Results == [kind : Kinds, version : Versions]
ASSUME ResultConstant == NoResult \notin Results

VARIABLES
    image, otaState, bootSlot,          \* flash: the two slots and otadata
    pendingKey, resultKey,              \* NVS: ota_pending and ota_result
    running,                            \* esp_ota_get_running_partition()
    nvsReady, storageReady,             \* nvs_init_error == ESP_OK, internal_ready
    lastResult,                         \* ota_last_result
    saving, erasing,                    \* ota_record_result in progress, its step
    health,                             \* the confirm_running_ota timer
    markFailed,                         \* validation was tried and failed
    page, button, status,               \* what the user sees
    busy, done, ok,                     \* ota_busy, ota_done, ota_ok
    worker, success, target, notified,  \* ota_update_task
    work,                               \* restart_blocker() has a reason
    confirmed, rolledBack,              \* history: versions confirmed, rolled back
    runs, resets

flash == <<image, otaState, bootSlot>>
nvs == <<pendingKey, resultKey>>
boot == <<running, nvsReady>>
recorder == <<lastResult, saving, erasing>>
ui == <<page, button, status>>
flags == <<busy, done, ok>>
task == <<worker, success, target, notified>>
history == <<confirmed, rolledBack>>
bounds == <<runs, resets>>
vars == <<flash, nvs, boot, storageReady, recorder, health, markFailed, ui,
          flags, task, work, history, bounds>>

FlashType ==
    /\ image \in [Slots -> Versions \cup {NoVersion}]
    /\ otaState \in [Slots -> ImageStates]
    /\ bootSlot \in Slots /\ running \in Slots
    /\ confirmed \subseteq Versions /\ rolledBack \subseteq Versions

RecordType ==
    /\ pendingKey \in Versions \cup {NoVersion}
    /\ resultKey \in Results \cup {NoResult}
    /\ lastResult \in Results \cup {NoResult}
    /\ saving \in Results \cup {NoResult} /\ erasing \in BOOLEAN
    /\ nvsReady \in BOOLEAN /\ storageReady \in BOOLEAN
    /\ health \in {"waiting", "retry", "deleted"} /\ markFailed \in BOOLEAN

UiType ==
    /\ page \in {"system", "other"} /\ button \in BOOLEAN
    /\ status \in {"none", "refused", "checking", "failed", "installed"}
    /\ busy \in BOOLEAN /\ done \in BOOLEAN /\ ok \in BOOLEAN
    /\ work \in BOOLEAN

TaskType ==
    /\ worker \in {"none", "fetch", "begin", "download", "setOk", "setDone",
                   "release", "recordPending", "restart", "wait"}
    /\ success \in BOOLEAN
    /\ target \in Versions \cup {NoVersion}
    /\ notified \in 0..1
    /\ runs \in 0..MaxRuns /\ resets \in 0..MaxResets

OtaTypeOK == FlashType /\ RecordType /\ UiType /\ TaskType

Init ==
    /\ image = [s \in Slots |-> IF s = 0 THEN Factory ELSE NoVersion]
    /\ otaState = [s \in Slots |-> "untracked"]
    /\ bootSlot = 0 /\ running = 0
    /\ pendingKey = NoVersion /\ resultKey = NoResult
    /\ nvsReady \in BOOLEAN /\ storageReady \in BOOLEAN
    /\ lastResult = NoResult /\ saving = NoResult /\ erasing = FALSE
    /\ health = "waiting" /\ markFailed = FALSE
    /\ page = "other" /\ button = FALSE /\ status = "none"
    /\ busy = FALSE /\ done = FALSE /\ ok = FALSE
    /\ worker = "none" /\ success = FALSE /\ target = NoVersion /\ notified = 0
    /\ work \in BOOLEAN
    /\ confirmed = {} /\ rolledBack = {}
    /\ runs = 0 /\ resets = 0

\* Handlers of the LVGL task do not overlap; one that saves a result returns
\* only after its NVS calls.
UiFree == saving = NoResult

-----------------------------------------------------------------------------
\* The result record.

\* Faulty verdict for mutation: a matching version counts as installed.
MatchIsInstalled(state) == "Installed"

\* What ota_load_result() makes of the state of the running image.
MatchingVerdict(state) ==
    CASE state = "untracked" -> "State unavailable"
      [] state \in {"new", "pending"} -> "Health pending"
      [] state = "valid" -> "Installed"
      [] OTHER -> "Not confirmed"

Verdict(slot, states) ==
    IF image[slot] = pendingKey THEN MatchingVerdict(states[slot])
    ELSE IF \E s \in Slots : states[s] = "aborted" /\ image[s] = pendingKey
    THEN "Rolled back" ELSE "Did not activate"

\* ota_record_result(): remember it, then save it and erase the pending version.
RecordResult(result) ==
    /\ lastResult' = result
    /\ saving' = result
    /\ erasing' = FALSE

NothingToRecord == saving' = NoResult /\ erasing' = FALSE

\* ota_load_result() for a running slot; NVS may be unavailable or fail to open.
LoadResult(slot, states, ready, last) ==
    LET result == [kind |-> Verdict(slot, states), version |-> pendingKey]
    IN  \/ lastResult' = last /\ NothingToRecord
        \/ /\ ready /\ pendingKey = NoVersion
           /\ lastResult' = IF resultKey = NoResult THEN last ELSE resultKey
           /\ NothingToRecord
        \/ /\ ready /\ pendingKey # NoVersion
           /\ IF result.kind \in FinalKinds THEN RecordResult(result)
              ELSE lastResult' = result /\ NothingToRecord

\* nvs_set_str("ota_result") succeeds, or an NVS error ends the recording.
SaveResult ==
    /\ saving # NoResult /\ ~erasing
    /\ \/ resultKey' = saving /\ erasing' = TRUE /\ UNCHANGED saving
       \/ saving' = NoResult /\ UNCHANGED <<resultKey, erasing>>
    /\ UNCHANGED <<flash, pendingKey, boot, storageReady, lastResult, health, markFailed,
                   ui, flags, task, work, history, bounds>>

\* nvs_erase_key("ota_pending")
ErasePending ==
    /\ erasing
    /\ pendingKey' \in {NoVersion, pendingKey}
    /\ saving' = NoResult /\ erasing' = FALSE
    /\ UNCHANGED <<flash, resultKey, boot, storageReady, lastResult, health, markFailed,
                   ui, flags, task, work, history, bounds>>

-----------------------------------------------------------------------------
\* The health check.

\* validate_running_ota(), called when ota_busy is clear.
MarkValid ==
    \/ /\ otaState' = [otaState EXCEPT ![running] = "valid"]
       /\ confirmed' = confirmed \cup {image[running]}
       /\ RecordResult([kind |-> "Installed", version |-> image[running]])
       /\ UNCHANGED markFailed
    \/ markFailed' = TRUE /\ UNCHANGED <<otaState, confirmed, recorder>>

Validate(storage) ==
    \/ /\ otaState[running] = "valid"
       /\ LoadResult(running, otaState, nvsReady, lastResult)
       /\ UNCHANGED <<otaState, confirmed, markFailed>>
    \/ /\ otaState[running] = "pending" /\ nvsReady /\ storage
       /\ MarkValid
    \/ /\ otaState[running] # "valid"
       /\ ~(otaState[running] = "pending" /\ nvsReady /\ storage)
       /\ UNCHANGED <<otaState, confirmed, markFailed, recorder>>

\* Faulty timer for mutation: it does not wait for the update to end.
HealthTimerIgnoringBusy ==
    /\ UiFree /\ health # "deleted"
    /\ health' = "deleted"
    /\ Validate(storageReady)
    /\ UNCHANGED <<image, bootSlot, nvs, boot, storageReady, ui, flags, task, work,
                   rolledBack, bounds>>

\* Faulty timer for mutation: it gives up when an update is in progress.
HealthTimerOnce ==
    /\ UiFree /\ health # "deleted"
    /\ health' = "deleted"
    /\ IF busy THEN UNCHANGED <<otaState, recorder, markFailed, confirmed>>
               ELSE Validate(storageReady)
    /\ UNCHANGED <<image, bootSlot, nvs, boot, storageReady, ui, flags, task, work,
                   rolledBack, bounds>>

\* confirm_running_ota(): after the health window, then every 250 ms while busy.
HealthTimer ==
    /\ UiFree /\ health # "deleted"
    /\ IF busy
       THEN health' = "retry" /\ UNCHANGED <<otaState, recorder, markFailed, confirmed>>
       ELSE health' = "deleted" /\ Validate(storageReady)
    /\ UNCHANGED <<image, bootSlot, nvs, boot, storageReady, ui, flags, task, work,
                   rolledBack, bounds>>

\* storage_format_clicked(), second tap: format and mount, then look again.
FormatClicked ==
    /\ UiFree /\ page = "system" /\ ~storageReady /\ ~busy
    /\ storageReady' \in BOOLEAN
    /\ IF storageReady' /\ health # "waiting"
       THEN Validate(TRUE)
       ELSE UNCHANGED <<otaState, recorder, markFailed, confirmed>>
    /\ UNCHANGED <<image, bootSlot, nvs, boot, health, ui, flags, task, work,
                   rolledBack, bounds>>

-----------------------------------------------------------------------------
\* The System page and the updater's button and timer.
OpenSystem ==
    /\ UiFree /\ page = "other"
    /\ page' = "system"
    /\ button' = ~busy
    /\ status' = IF busy THEN "checking" ELSE "none"
    /\ UNCHANGED <<flash, nvs, boot, storageReady, recorder, health, markFailed,
                   flags, task, work, history, bounds>>

LeavePage ==
    /\ UiFree /\ page = "system"
    /\ page' = "other" /\ button' = FALSE /\ status' = "none"
    /\ UNCHANGED <<flash, nvs, boot, storageReady, recorder, health, markFailed,
                   flags, task, work, history, bounds>>

HomeClicked == ~busy /\ LeavePage

\* What the restart would interrupt: an application, started from its page, or
\* background work (weather, alarms) that the screen saver and clock start.
StartWork ==
    /\ UiFree /\ ~work
    /\ page = "other" \/ ~busy
    /\ work' = TRUE
    /\ UNCHANGED <<flash, nvs, boot, storageReady, recorder, health, markFailed, ui,
                   flags, task, history, bounds>>

WorkEnds ==
    /\ work
    /\ work' = FALSE
    /\ UNCHANGED <<flash, nvs, boot, storageReady, recorder, health, markFailed, ui,
                   flags, task, history, bounds>>

\* ota_clicked() with Wi-Fi up (which needs NVS) and no restart blocker.
StartUpdate ==
    /\ UiFree /\ page = "system" /\ button /\ ~busy
    /\ nvsReady /\ ~work /\ runs < MaxRuns
    /\ busy' = TRUE /\ done' = FALSE /\ ok' = FALSE
    /\ status' = "checking" /\ button' = FALSE
    /\ IF worker = "none" THEN worker' = "fetch" /\ UNCHANGED notified
       ELSE notified' = notified + 1 /\ UNCHANGED worker
    /\ runs' = runs + 1
    /\ UNCHANGED <<flash, nvs, boot, storageReady, recorder, health, markFailed, page,
                   success, target, work, history, resets>>

\* ota_clicked() without Wi-Fi, or with a restart blocker.
UpdateRefused ==
    /\ UiFree /\ page = "system" /\ button /\ ~busy
    /\ status' = "refused"
    /\ UNCHANGED <<flash, nvs, boot, storageReady, recorder, health, markFailed, page,
                   button, flags, task, work, history, bounds>>

\* ota_clicked() when the task cannot be created: the earlier result is forgotten.
CreateFails ==
    /\ UiFree /\ page = "system" /\ button /\ ~busy
    /\ nvsReady /\ ~work /\ worker = "none"
    /\ done' = FALSE /\ ok' = FALSE
    /\ status' = "refused"
    /\ UNCHANGED <<flash, nvs, boot, storageReady, recorder, health, markFailed, page,
                   button, busy, task, work, history, bounds>>

ShowCompletion ==
    /\ done' = FALSE
    /\ status' = IF ok THEN "installed" ELSE "failed"
    /\ button' = (button \/ ~ok)
    /\ UNCHANGED <<flash, nvs, boot, storageReady, recorder, health, markFailed, page,
                   busy, ok, task, work, history, bounds>>

\* Faulty tick for mutation: a failure is shown before the worker lets go.
TickIgnoringOwner == UiFree /\ page = "system" /\ done /\ ShowCompletion

\* ota_tick(): a failure is only shown once the worker has released ota_busy.
Tick ==
    /\ UiFree /\ page = "system" /\ done
    /\ ok \/ ~busy
    /\ ShowCompletion

-----------------------------------------------------------------------------
\* The worker.
WorkerUnchanged == UNCHANGED <<boot, storageReady, recorder, health, markFailed, ui,
                               work, history, bounds>>
Finish(result) == worker' = "setOk" /\ success' = result

\* ota_manifest_check(): newer than the running version, which is new enough.
Eligible(v) == v > image[running] /\ image[running] >= Minimum[v]

Fetch ==
    /\ worker = "fetch"
    /\ \/ \E v \in Versions : /\ Eligible(v)
                              /\ target' = v /\ worker' = "begin" /\ UNCHANGED success
       \/ Finish(FALSE) /\ UNCHANGED target
    /\ UNCHANGED <<flash, nvs, flags, notified>> /\ WorkerUnchanged

\* Faulty begin for mutation: rollback is not configured.
BeginUnconfirmed ==
    /\ worker = "begin"
    /\ \/ /\ image' = [image EXCEPT ![Other(running)] = NoVersion]
          /\ worker' = "download" /\ UNCHANGED success
       \/ Finish(FALSE) /\ UNCHANGED image
    /\ UNCHANGED <<otaState, bootSlot, nvs, flags, target, notified>> /\ WorkerUnchanged

\* esp_https_ota_begin() and the first write: the SDK refuses while the running
\* image is unconfirmed, and erases the other slot.
Begin ==
    /\ worker = "begin"
    /\ \/ /\ otaState[running] # "pending"
          /\ image' = [image EXCEPT ![Other(running)] = NoVersion]
          /\ worker' = "download" /\ UNCHANGED success
       \/ Finish(FALSE) /\ UNCHANGED image
    /\ UNCHANGED <<otaState, bootSlot, nvs, flags, target, notified>> /\ WorkerUnchanged

\* A verified image is selected for the next boot; otherwise the download is
\* aborted, or the image is complete and cannot be selected.
Install ==
    /\ worker = "download"
    /\ \/ /\ image' = [image EXCEPT ![Other(running)] = target]
          /\ otaState' = [otaState EXCEPT ![Other(running)] = "new"]
          /\ bootSlot' = Other(running)
          /\ Finish(TRUE)
       \/ /\ image' \in {image, [image EXCEPT ![Other(running)] = target]}
          /\ Finish(FALSE)
          /\ UNCHANGED <<otaState, bootSlot>>
    /\ UNCHANGED <<nvs, flags, target, notified>> /\ WorkerUnchanged

SetOk ==
    /\ worker = "setOk"
    /\ ok' = success
    /\ worker' = "setDone"
    /\ UNCHANGED <<flash, nvs, busy, done, success, target, notified>> /\ WorkerUnchanged

SetDone ==
    /\ worker = "setDone"
    /\ done' = TRUE
    /\ worker' = IF success THEN "recordPending" ELSE "release"
    /\ UNCHANGED <<flash, nvs, busy, ok, success, target, notified>> /\ WorkerUnchanged

Release ==
    /\ worker = "release"
    /\ busy' = FALSE
    /\ worker' = "wait"
    /\ UNCHANGED <<flash, nvs, done, ok, success, target, notified>> /\ WorkerUnchanged

\* ota_record_pending(); an NVS error is only logged.
RecordPending ==
    /\ worker = "recordPending"
    /\ pendingKey' \in {target, pendingKey}
    /\ worker' = "restart"
    /\ UNCHANGED <<flash, resultKey, flags, success, target, notified>> /\ WorkerUnchanged

\* ulTaskNotifyTake(pdTRUE, portMAX_DELAY)
Wait ==
    /\ worker = "wait" /\ notified > 0
    /\ notified' = 0
    /\ worker' = "fetch"
    /\ UNCHANGED <<flash, nvs, flags, success, target>> /\ WorkerUnchanged

WorkerStep ==
    \/ Fetch \/ Begin \/ Install \/ SetOk \/ SetDone \/ Release \/ RecordPending \/ Wait

-----------------------------------------------------------------------------
\* The boot loader: a new image gets one boot; one that was never confirmed is
\* marked aborted and the other slot is started.
BootedSlot == IF otaState[bootSlot] = "pending" THEN Other(bootSlot) ELSE bootSlot
BootedStates ==
    IF otaState[bootSlot] = "new" THEN [otaState EXCEPT ![bootSlot] = "pending"]
    ELSE IF otaState[bootSlot] = "pending" THEN [otaState EXCEPT ![bootSlot] = "aborted"]
    ELSE otaState

\* Reset, boot loader and app_main() up to the launcher.
Boot ==
    /\ otaState' = BootedStates
    /\ bootSlot' = BootedSlot /\ running' = BootedSlot
    /\ rolledBack' = rolledBack \cup
         (IF otaState[bootSlot] = "pending" THEN {image[bootSlot]} ELSE {})
    /\ nvsReady' \in BOOLEAN /\ storageReady' \in BOOLEAN
    /\ LoadResult(BootedSlot, BootedStates, nvsReady', NoResult)
    /\ health' = "waiting" /\ markFailed' = FALSE
    /\ page' = "other" /\ button' = FALSE /\ status' = "none"
    /\ busy' = FALSE /\ done' = FALSE /\ ok' = FALSE
    /\ worker' = "none" /\ success' = FALSE /\ target' = NoVersion /\ notified' = 0
    /\ work' \in BOOLEAN
    /\ UNCHANGED <<image, nvs, confirmed, runs>>

Reset == resets < MaxResets /\ resets' = resets + 1 /\ Boot

\* esp_restart() of the worker, two seconds after the installation.
Restart == worker = "restart" /\ Boot /\ UNCHANGED resets

Next ==
    \/ SaveResult \/ ErasePending \/ HealthTimer \/ FormatClicked
    \/ OpenSystem \/ HomeClicked \/ StartWork \/ WorkEnds
    \/ StartUpdate \/ UpdateRefused \/ CreateFails \/ Tick
    \/ WorkerStep \/ Reset \/ Restart

Spec == Init /\ [][Next]_vars

\* Tasks and timers run; the user, the network and the power do as they like.
Fairness == WF_vars(SaveResult \/ ErasePending) /\ WF_vars(HealthTimer)
            /\ WF_vars(WorkerStep \/ Restart)
FairSpec == Spec /\ Fairness

-----------------------------------------------------------------------------
\* While an image is on trial, or selected to be, the other slot still holds a
\* complete image the boot loader can return to.
FallbackKept ==
    otaState[bootSlot] \in {"new", "pending"} =>
        /\ image[Other(bootSlot)] # NoVersion
        /\ otaState[Other(bootSlot)] \in {"untracked", "valid"}

\* "Installed" is only ever said of a version that passed the health check and
\* "Rolled back" of one the boot loader returned from, whatever resets, NVS
\* errors and later updates come between the event and its record.
ToldTruth(result) ==
    /\ result.kind = "Installed" => result.version \in confirmed
    /\ result.kind = "Rolled back" => result.version \in rolledBack
ResultsTruthful ==
    \A result \in {resultKey, lastResult, saving} \ {NoResult} : ToldTruth(result)

\* The page invites a tap or reports a failure only when the updater is free,
\* and reports an installation only when the new image is selected.
StatusTruthful ==
    /\ button \/ status = "failed" => ~busy
    /\ status = "installed" => busy /\ image[bootSlot] = target /\ target # NoVersion

\* The restart never interrupts an application or background work: the user
\* cannot leave the System page while the updater is busy.
RestartInterruptsNothing == busy => ~work

\* The System page, the worker and the rest of the tablet agree on who owns the updater.
UpdaterOwned == StatusTruthful /\ RestartInterruptsNothing

\* The record of an update survives until after the restart: it is not resolved
\* against the image that is about to be left.
PendingSurvivesUpdate ==
    [][busy /\ pendingKey # NoVersion => pendingKey' # NoVersion]_vars

\* A new image on a device in order is eventually confirmed, unless a reset or
\* a failed confirmation comes first, even if an update is tried meanwhile.
HealthyImageConfirmed ==
    (otaState[running] = "pending" /\ nvsReady /\ storageReady)
        ~> (otaState[running] # "pending" \/ markFailed)

-----------------------------------------------------------------------------
\* The inductive invariant behind the safety properties.

\* The worker has selected a new image and not yet restarted.
Installed == success /\ worker \in {"setOk", "setDone", "recordPending", "restart"}
OnTrial == otaState[bootSlot] \in {"new", "pending"}

WorkerInv ==
    /\ worker \in {"recordPending", "restart"} => success
    /\ worker = "release" => ~success
    /\ notified = 1 => worker = "wait"
    /\ busy <=> (worker \notin {"none", "wait"} \/ notified = 1)
    /\ ok => Installed
    /\ worker \in {"begin", "download"} => target \in Versions /\ target > image[running]
    /\ Installed => target \in Versions /\ image[bootSlot] = target

FlashInv ==
    /\ image[running] \in Versions
    /\ IF Installed
       THEN /\ bootSlot = Other(running) /\ otaState[bootSlot] = "new"
            /\ otaState[running] \in {"untracked", "valid"}
       ELSE bootSlot = running /\ otaState[running] \in {"untracked", "pending", "valid"}
    /\ worker = "download" => otaState[running] # "pending"

\* Confirmed versions only go up, so an image on trial, or one that was aborted,
\* is newer than all of them.
ConfirmedInv ==
    /\ \A s \in Slots : otaState[s] = "aborted" /\ image[s] # NoVersion =>
         s # running /\ image[s] > image[running]
    /\ otaState[running] = "valid" => image[running] \in confirmed
    /\ \A v \in confirmed : v <= image[running]
    /\ OnTrial =>
         /\ otaState[Other(bootSlot)] = "valid" => image[Other(bootSlot)] \in confirmed
         /\ \A v \in confirmed : v < image[bootSlot] /\ v <= image[Other(bootSlot)]
         /\ image[Other(bootSlot)] < image[bootSlot]

\* A pending record names a version that is on trial or whose fate is known.
PendingInv ==
    /\ pendingKey = NoVersion \/ pendingKey \in confirmed \cup rolledBack
         \/ (OnTrial /\ pendingKey = image[bootSlot])
    /\ erasing => saving # NoResult
    /\ busy => saving = NoResult

UiInv ==
    /\ status = "installed" => Installed
    /\ busy => page = "system"

IInv ==
    /\ OtaTypeOK /\ WorkerInv /\ FlashInv /\ FallbackKept /\ ConfirmedInv /\ PendingInv
    /\ UiInv /\ StatusTruthful /\ RestartInterruptsNothing /\ ResultsTruthful
=============================================================================
