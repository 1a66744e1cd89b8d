# Verification of Tab5OS

Tab5OS is the firmware of an ESP32-P4 tablet: one LVGL user-interface task, a set of
FreeRTOS workers, the lwIP and NimBLE host tasks, and SD-card, SPIFFS and NVS storage.
This directory holds TLA+ modules translated from `src/main`, the TLC runs that check
them on small instances, and the theorems TLAPS proves about them for every instance.

`PROJECT.json` lists the components, the runs, the mutants (one plausible bug for every
property, which the run must find), the source lines each definition stands for, the
hazards and the theorems. To check a run: `tlc -config X.cfg M`; to check the proofs:
`tlapm M.tla`.

## The system

### How the parts interact

* The **LVGL task** runs every button callback and timer of every page. It owns the
  widgets, and everything that only it touches needs no lock. `clear_content()` tears a
  page down; the launcher then builds the next.
* A page that needs the network starts a **worker task** per request (HTTP, Network,
  Modbus, UDP, NTP, Wake-on-LAN, weather, chat, ebooks) or shares one long-lived worker
  (MQTT, OTA). Pages and workers share a few fields under a spinlock or as atomics: a busy
  flag, a cancel flag, a job and its result. The page polls with an LVGL timer.
* The **lwIP thread** runs the resolver's callbacks; the **SDK's MQTT task** and the
  **NimBLE host task** deliver events. They take the same locks.
* **Storage**: documents kept by replacement (`storage_commit_replace_file`), files
  published once (`storage_commit_new_file`), and append-only CSV logs
  (`storage_repair_csv_tail`). `sd_ready` is cleared by any task that meets an error that
  means the card is gone. Settings and the update record are in NVS.
* `restart_blocker()` asks every component whether it is busy before an update restarts
  the tablet.

### Inventory

State, operations, what is hard, and what must hold. *(checked)* means a module here.

| Component | State and operations | What is hard | What must hold |
|---|---|---|---|
| Resolver `network_resolver.c` *(checked)* | two slots of pointers into callers' stacks, ids; call, dispatch, found | lwIP answers after the caller gave up and its frame is gone | an answer only reaches the call that asked for it |
| Replacement `storage_io.c` *(checked)* | temporary, final, backup; commit, recover | power loss or an ambiguous error between any two calls | the document is the old or the new one, success is durable |
| CSV logs `storage_io.c`, writers *(checked)* | file and what is durable of it; repair, append, sync | torn rows, failed syncs, retries | lines stay whole, a confirmed row stays |
| Notes `main.c` *(checked)* | editor state, text; open, edit, save, leave | saving after a failed load | no unseen note is replaced |
| Rides `main.c` *(checked)* | open ride, published rides, history index | power loss between publish and index | index and rides agree, nothing is overwritten |
| Updates and boot health `main.c`, `ota_manifest.c` *(checked)* | image slots, boot selection, NVS record, worker, page | reset at any point, health timer against update | a fallback exists, reports are true |
| MQTT console `mqtt_tool.c` *(checked in part)* | session, client handle, action, log ring, cleanup | three tasks, coalesced notifications, late events | no use of a destroyed client, no entry lost unseen |
| HTTP console `http_tool.c` *(checked)* | request, result slot, confirmation, log | page left and reopened in flight, tick wrap | clear text only after confirmation, honest outcomes |
| Network page `network_tool.c` *(checked)* | one operation, cancel flag, result | check and use in different critical sections | one worker, no lost or foreign result |
| Ping `network_ping.c` *(checked)* | socket, deadlines, nonce | late, copied and foreign replies | only own replies count, verdicts are honest |
| Ring and KICKR links `main.c` *(checked)* | per profile: enabled, connecting, connected, stopping, handle | taps against host events, one connection procedure | off means no link, flags and links agree |
| Ring history and readings `main.c` *(checked)* | pending/active sync, day, sample queue, checkpoint | late replies, requests timed out and retried, midnight, failed appends | rows in order, none lost or repeated once confirmed, no sample misdated |
| Govee reports `main.c` | last report under a lock | none | shown report is one that came |
| HTTP transport `http_transport.c` | deadline, cancel callback, parser state | stop races with data; end of body against time-out | a stop is never taken for the end of a body |
| BLE explorer `ble_tool.c` *(checked in part)* | scan, one GATT session, flags under `tool_lock` | host events against page, calls made outside the lock | one operation, values of the peer that is connected |
| Modbus TCP, UDP, NTP, WoL *(checked)* | one job, confirmation, deadline, revision | cancel, deadline and late answers race; tick wraps | sent only if confirmed, honest reports, every job ends |
| Modbus RTU, serial log viewer | one exchange on UART1; a log on show | UART1 shared with the terminal | as Modbus TCP |
| UART terminal `uart_tool.c` *(checked)* | driver buffer, capture window, log | bytes come in the middle of a callback or are lost unseen, the card fails | frozen window and published log are all the driver had and took |
| Ender 3 `ender3_tool.c` *(checked in part)* | connection task, CDC driver, USB host, power | unplugging at any step, releases that time out | released in order, the task ends, the whole setup is tried on its printer |
| Bench pins: GPIO, servo, scope, SPI, I2C, signals *(checked in part)* | pin owner, sampling task, armed write, capture | failed cleanups, page left while sampling | one owner, outputs off on exit, captures whole |
| Launcher, restart blockers `main.c` *(checked in part)* | current page, busy flags | work begun after the check | nothing is interrupted |
| Alarms, screen saver `main.c` *(checked)* | alarms, snooze, sound task, backlight | update or other alarm at the minute, backlight or amplifier refuses | a due alarm rings, is heard and seen |
| Wi-Fi, weather, voice, chat, browser | busy flag, result | as Network page | one request, its own result |
| Gallery, ebooks, files, captures | download task, page | card lost during a download | files whole |
| Calculators, codecs | none (pure functions) | widths, boundaries | equal to their references |
| Remote desktop, PSRAM shim, relay, board support | I/O, vendored or outside the tablet | - | - |

## The modules

A module has the source's names where TLA+ allows it. One action is one handler or, where
another task or a power loss can come in between, one critical section, one external call
or one file-system call of it. Operators commented as *faulty* or *mutant* are used by
the mutants alone.

An `MC*` module instantiates what its run checks. Components that share no state are
checked side by side in one run: the run's specification conjoins their initial states,
its first state chooses a component (`part`, `tool`, `recorder`, `app`), only that one
takes steps, and the others rest in a fixed initial state. The states of such a run are
the sum, not the product, of its components', and each component meets exactly the
behaviours of its own specification.

| Run | Components | States, about |
|---|---|---|
| `resolver` | NetworkResolver | 3.7 million |
| `network` | NetworkOperation, PingRun | 150 000 |
| `system` | OtaUpdate, ProductLink | 410 000 |
| `mqtt` | MqttSession | 3.4 million |
| `http` | HttpConsole | 6.6 million |
| `tools` | UdpConsole, WakeOnLan, ModbusTcp, NtpSession, EnderPrinter, AlarmClock | 580 000 |
| `records` | RideRecorder, CsvLog, RingHealth, UartTerminal | 4.9 million |
| `pages` | NoteEditor (with StorageReplace), BleExplorer, BenchPins (with ScopeSampler, I2cInspector) | 1.8 million |
| `mqtt_clear`, `links_restart`, `ble_busy`, `scope_csv` | the violations, findings 1 to 4 | |

### NetworkResolver (proofs in CallbackProofs)

`network_resolve_host()` is the sequence Call, Attach, Submit, (Poll, Read)*, Detach,
Return of a caller `c`; `lookup[c]` is the struct on its stack, which a finished call
leaves behind as `NoLookup`. The lwIP thread is Dispatch (`lookup_dispatch`), Query*
(`dns_gethostbyname_addrtype`) and LookupFound (`lookup_found`, `lookup_result`). The
DNS server and lwIP's tables are external. Bound: `IdNotReused`, that 2^32 - 1 lookups do
not pass while one is in flight.

*Run `resolver`*: two callers (HTTP with its transport, Network; an update excludes both,
so there are never more), two slots, two names, a literal and a malformed string, one
mailbox entry and one query, three ids so that ids wrap, two addresses for an array of one.
Callers and names are interchangeable (symmetry). It checks `SlotOwnership`,
`AnswerMatchesRequest` and `NoWriteAfterReturn`. With two callers no call fails with
EBUSY: `AllSlotsTaken` never happens here, and only the proof covers it.

*Proved*: `TypeCorrect`, `SlotsAreOwned`, `AnswersMatch` and `NoStrayWrite` (the action
property), for any number of callers, slots, names and ids. `IInv` adds to the properties that a published lookup has a name and an id
(`LiveLookups`) and that whatever lwIP still holds under that id is a query for that name
(`OneNamePerId`): without it a late answer for an old name could not be told apart.

### StorageReplace, DurableDocument, StorageReplaceProofs

`StorageReplace` is `storage_commit_replace_file()` and `storage_recover_replace()`, one
step per file-system call. Any call may fail, and a failing one may still have taken
effect; power may be lost between any two. `DurableDocument` is the promise: the document
changes in one step from the old to the requested content, and success means it did.
`ImplementsDurable` is the refinement, `Document` (the final file, or else the backup) its
mapping. Assumed of the FAT driver: a rename or remove that returned is atomic and
durable; data is durable after the sync.

*Proved*: `Refinement` (`Spec => Durable!Spec`), `PublishedIsComplete` (no torn file is
published or kept as backup) and `RecoveryIsComplete`, for every set of contents. `IInv`
says where each step has left the three files (`CommitInv`): the publishing rename is only
reached with a synced temporary file and no final one, and the rollback only meets a final
file that is absent or already the requested one.

TLC checks this module through its two clients:

* **NoteEditor** (*run `pages`*) adds the editor (`notes_clicked`, `load_note`,
  `save_note`, `notes_leave`); a note that is too long or has NUL bytes is a content
  outside `Texts`. Checked: `NoteInv` (the types, `IInv` and recovery under the editor's
  use, and `SessionKnowsDocument`), `ForeignKept`, `ImplementsDurable`. Three texts and one
  foreign note: old, new and a third, so that "either" is told from "any".
  *Proved* (PagesProofs): `NotesAreSafe`, `ForeignNotesAreKept` and `NotesAreDurable`, for
  any texts. `NoteIInv` adds that only an open editor saves and that what it saves or has
  loaded is a text it can show (`SavesFromEditor`); the steps of the replacement itself are
  the lemmas of StorageReplaceProofs. A save that is refused is a stutter of the document.
* **RideRecorder** (*run `records`*) adds `ride_start`, `cycling_tick`, `ride_stop`,
  `ride_append_summary`. The document is the index, a sequence of ride names. Checked:
  `RideInv` (the types, `IInv`, `IndexMatchesRides`), `SavedMeansBoth` and `RidesKept` (with
  `HistoryGrows`). Two names with one clock reading and one with another give a suffix
  collision and a clock set back; one sample per ride tells synced from unsynced.
  *Proved* (RecordsProofs): `RidesAreIndexed`, `SavedIsBoth` and `RidesAreKept`, for any
  names; of the contents of the index it is assumed that one more name can be appended
  (`RideConstants`). `RideIInv` adds where `ride_stop` can be while the index is written
  (`RideSteps`), that the open ride has a name no published one has (`RideNamed`), and that
  the requested index is the old one and the ride just published (`IndexRequested`). Here the
  replacement goes straight from recovered to writing, so each of its steps is used and not
  its `Spec`.

### CsvLog, DurableLog (proofs in RecordsProofs)

`storage_repair_csv_tail()` and the writers that call it before a row: the HTTP and MQTT
logs, and the ring's log, which repairs again after a failure ("mend") and repeats the row.
A row is its number, `RowBytes` times, and a newline. `survivors` are the contents a power
loss may leave: every content since the last confirmed sync. `ScanBlocks` is the
block-wise search, a recursive function.

*Run `records`*: three rows, four faults (two per row that fails and its repair), rows of
two bytes and blocks of two, so that newlines fall on either side of a block boundary.
Checked: `LogInv` (types; lines whole and in order, `LinesWhole`, `RowsInOrder`; the scan
against its definition, `RepairKeepsLines`; confirmed rows kept, `ConfirmedKept`), and
`ImplementsLog`: seen as rows (`StoredRows`), the bytes implement the abstract log
**DurableLog**, in which a row is only added behind the others, is confirmed only while it
is there and is then neither added again nor lost, and a power loss takes the last rows at
most. The repair, its syncs and a torn write are no steps of it.

*Proved*: `LogsKeepRows`, for any row and block sizes. `CsvIInv` asks of *every* content the
card may have after a power loss what `LogInv` asks of the file (`Kept`): bytes of a line
agree and its last is the newline (`RowsAlike`, `RowsEnd`), only the first line is a header
(`RowsNumbered`), numbers ascend (`RowsAscend`), and each confirmed row is there. `CsvSteps`
says what each step of an append leaves for the next: after the repair the file ends a line,
after the sync it is the only content. A torn line never ends in a newline, so the repair
cuts it (`SoundEnd`, `RepairCuts`). That the block-wise scan finds the last newline
(`ScanFinds`) is shown for its recursive function by the least length at which it could
differ (`LeastNat`: every nonempty set of naturals has a least element), as the
induction theorems of the library are out of the provers' reach.
`LogsAreDurable` is the refinement. `PromiseIInv` adds that what a power loss may leave has
no whole line the file has not (`SurvivorsBehind`) and that a row about to be written was
not confirmed (`RowFresh`); the lemmas say what a write adds (`WriteAdds`), that the repair
takes no row (`RepairKeepsEntries`) and what a power loss leaves (`SurvivorIsFirst`).

### OtaUpdate (proofs in SystemProofs)

Two image slots with the boot loader's states, the NVS keys of the update record, the OTA
worker step by step (`ota_task`, `ota_install`), the System page (`ota_clicked`,
`ota_tick`, Home), the health timer and `app_main`'s resolution of the last update. A reset
may come at any step and the boot loader then falls back from an image on trial. External:
boot loader, NVS (a call fails or not), the download (succeeds, fails, or delivers the
manifest's version). An image flashed by cable is "untracked". `work` stands for whatever
`restart_blocker()` reports.

*Run `system`*: three versions, three updates, four resets. Checked: `FallbackKept`,
`ResultsTruthful`, `UpdaterOwned` (`StatusTruthful`, `RestartInterruptsNothing`),
`PendingSurvivesUpdate` and the liveness property `HealthyImageConfirmed`. Three updates let a record of one meet
the outcome of the next; four resets allow one in each and one in the recovery.
Fairness: tasks and timers run (saving the result, the health timer, the worker and its
restart); nothing is assumed of user, network or power. "Installed" and "Rolled back" are
truthful; "did not activate" is not claimed: after NVS errors it can be said of a version
that was rolled back. If the System page is left between the worker's stores of `ota_done`
and `ota_busy`, `ota_done` stays set, which only keeps the display awake.

*Proved*: `OtaTypeCorrect`, `FallbackIsKept`, `ResultsAreTruthful`, `UpdaterIsOwned` and
`PendingIsKept`, for any versions and bounds. `IInv` ties the worker's step to the flash (`WorkerInv`, `FlashInv`), orders versions - confirmed ones only go up, so one on
trial is newer than all of them - (`ConfirmedInv`) and says what a pending record can name
(`PendingInv`); the order is what keeps a stale record from being read as success.

### MqttSession (proofs in CallbackProofs)

Three tasks: LVGL (connect, disconnect, publish, subscribe, CLEAR, Home), the SDK's event
task and the session worker, which alone destroys clients. One step per critical section
under `mqtt_lock` and per external call. A log entry is its number. The event revision is
reduced to `sameRevision` (has the status changed since the action was taken). Left out:
the message view, the receive assembly, forms and the saved profile. Assumed:
`esp_mqtt_client_stop()` joins the SDK's task.

*Run `mqtt`*: two sessions with one action and two received messages each and a log ring of
one entry, which overflows. Checked: `MqttInv` (types, `NoLostWakeup`, `ErrorSurvives`,
`LateEventsHarmless`, `BusyThroughCleanup`, `ClientAlive`, `EntriesAccounted`,
`CleanEndMeansSaved`, `ErrorReportedOnce`) and `NewerStatusSurvives`.

*Proved*: `MqttSessionIsSound` and `AcknowledgmentsSurvive`, for any queue length and number of
sessions, actions and receives. `MqttIInv` adds whose client it is from CONNECT to the end of
the cleanup (`OneSession`), that a session runs unstopped only with its page up or being left,
so there is a callback to report to (`PageOfSession`), that an action is the last one accepted
and an early acknowledgment takes its turn (`OneAction`), what is known of a failed append at
each step of the worker (`ErrorsKnown`), and where the accepted entries are (`EntriesPlaced`,
`EntriesInOrder`): the status "ended" is clean because they are then all on the card.

*Run `mqtt_clear`* (a violation, finding 1 below).

### HttpConsole, HttpProofs

The page and one worker per request under `http_lock`. SEND and CLEAR, which take the lock
twice, are two steps. A request stands for its form and so for its hash. The LVGL tick
wraps at `TickWidth`; assumed is that the page's 200 ms timer runs within `TimerGap`, and
`ConfirmWindow + TimerGap < TickWidth` (5 s against 2^32 ms). A callback that only shows a
message and returns is a stuttering step.

*Run `http`*: two clear-text requests (a confirmation for the other) and a secure one, two
requests in flight over two visits, a tick of four values. Checked: `HttpInv` (types,
`SlotFree`, `BusyThroughLog`, `ResultNamesRequest`, `LogErrorReported`,
`CancelledOnRequest`, `ClearedStaysAway`) and `ClearTextConfirmed`.

*Proved*: `HttpConsoleAgrees` and `ClearTextIsConfirmed`, for any requests, bounds and tick
width. `HttpIInv` adds what the worker's step says of the page's fields (`WorkerAgrees`),
that the three places a job can be in hold different jobs (`JobsApart`), and that the age of
an armed confirmation is the tick's distance from it and at most the window plus one timer
period (`ArmedAge`): that is where `ConfirmWindow + TimerGap < TickWidth` is needed, or a
tick that has come round would revive an expired confirmation.

### NetworkOperation, NetworkProofs

`network_tool.c`: start, cancel, Home, the page's tick and the worker, one step per
critical section; `ui` says which section of a callback is next. LVGL gives no click to a
disabled button (external). `start_operation()` looks at `operation_done` in one section
and clears it in another; that is harmless only because the start buttons are disabled
while an operation or its result is in flight, and this is the heart of `NetIInv`
(`OneAtATime`, `WorkIsNewest`, `CancelsSeen`, `CancelDecides`).

*Run `network`*: two operations, three starts, three visits. Checked: `NetIInv`,
`ResultIsNewest`, `CompletionShown` and the liveness property `ResultShown` (half of
`AnsweredInTheEnd`, the other half is the ping's `RunEnds`). Fairness: the
worker ends (all its waits have deadlines), LVGL finishes a callback (weak) and runs the
timer of an open page again and again (strong, as taps can come between).

*Proved*: `NetworkInvariant` and from it `NetworkTypes`, `NetworkOneWorker`,
`NetworkCancelDecides`, `NetworkCompletionShown`, for any operations and bounds; and
`NetworkResultIsNewest`, with `ResultIsCurrent`: between two operations the result on record
is the newest one's.

### PingRun (proofs in NetworkProofs)

`network_ping_run()`: a probe is sent, its reply awaited until the probe's or the run's
deadline, a pause, the next. A reply carries the run's nonce and the probe's number. The
network loses, delays, copies and reorders, and replies to an earlier run still arrive. The
clock advances at any point. Left out: the sums of reply times.

*Run `network`*: two runs of two probes, two copies of a reply, a run time shorter than two
full probes and the pause, so that the run's deadline cuts the second. Checked: `PingInv`
(types, `CountsAnswers`, `LossShown`, `CompleteMeansAll`, `CancelStops`) and the liveness
property `RunEnds` under fairness of the worker's task and the clock.

*Proved*: `PingIsHonest`, for any number of runs, probes, copies and any times. `PingIInv`
says by the worker's next call how many probes are out (`ProbesOut`), that only earlier
probes are counted until the pause (`CountedEarlier`), so no copy counts twice, and what a
run that was told to stop can still do (`StopSeen`).

### ProductLink (proofs in SystemProofs)

The flags of the ring and KICKR profiles between the LVGL task (`*_toggle_clicked`) and the
NimBLE host task (`govee_gap_event`, `kickr_gap_event`), with `ble_scan()` run by both. One
step per critical section and per call of the host stack. The stack is external: one
connection procedure for both profiles, events in order, calls that may be refused;
`refused` remembers that a `ble_gap_terminate()` was.

*Run `system`*: both profiles with one device each, five taps (on, off, on, off, on).
Checked: `LinkInv` (types, `ConnectedIsReal`, `ConnectingIsReal`, `LinkKnown`) and
`OffLinksDown`. Fairness: both tasks finish what they began and take their events in
order; a connection procedure ends, a closing link closes. `LinkKnown` and `OffLinksDown`
claim nothing once the stack has refused to end a link, as the code ignores that refusal.
With two devices of one profile `LinkKnown` does not hold, because DISCONNECT compares no
handle: on, dial, off before the CONNECT event, the host task drops the link, on, the
second device connects, the DISCONNECT of the first clears the flags of the second. The
run has one device of each profile, as a user of one ring and one trainer would.

*Proved*: `LinkFlagsTrue` (a flag is only set for what is there) for any profiles and
devices, and `LinksKnown` (no open link is forgotten) for one device of each profile, which
the counterexample above shows is needed. `LinkIInv` adds what the tasks carry between two
calls (`TasksOK`), that a handle is of its own profile and the event behind it still true or
followed by its end (`HandlesOK`), and that a device being dialled has no link and no event
of an earlier one in the queue (`DialsOK`).

*Run `links_restart`* (a violation, finding 2 below).

### ToolJob, ToolPage and the four network tools, ToolsProofs

`udp_tool.c`, `wol_tool.c`, `modbus_tool.c` (TCP) and `ntp_tool.c` share a pattern: a form,
a confirmation that expires (not for NTP), one worker per job, a deadline, a cancel flag
and a page that redraws when the revision changes. `ToolPage` has the page and the shared
fields under `job_lock`; **UdpConsole**, **WakeOnLan**, **ModbusTcp** and **NtpSession**
add the worker of each file, one step per call of the socket and per critical section. What
differs is kept: whether the confirmation's last instant counts, whether the worker or the
page looks at the cancel flag last, which error wins. `ToolJob` is the abstract job: one
request is taken, it ends, the result is that request's. Sockets are external.

In NtpSession the tablet's clock may be out of range or set at any time: no request is built
then, a note is made and the burst ends (`NtpRequest`). `Parsed` judges a datagram as
`ntp_parse_response()` does, the clock first, then the shape, then the origin: any datagram,
also a late or a foreign one, can reject the sample or end the burst, but only the reply to
the sample's own request can be valid or a refusal by the server.

*Run `tools`*: two requests (a confirmation for the other) and Modbus' connection test; a
confirmation of two units, a tick of four values, so that it wraps; two NTP samples and two
unmatched replies. Checked: `ToolInv` (types, one worker, what is drawn is what was
published), `ReportsHonest` (a status of cancelled, timed out, received or done is true of
what was handed to and taken from the network; of a burst also that a valid sample is the reply to
its own request and that no sample follows one that ended it), `SentIfConfirmed`, and the
refinement `ImplementsToolJob` with its liveness: every job ends. Fairness: the worker's task runs and
the clock reaches the deadline.

*Proved*, for any requests, windows and tick width: `ToolsAgree`, `ToolsReportHonestly`,
`ToolsSendConfirmed`, and the safety half of the refinement, `ToolsKeepPromise` (that a job
ends is TLC's). `PageIInv` adds to the types that a page with its timer sees an armed
confirmation before the tick comes round (`ArmedIsFresh`); the `*Stage` invariant of each
tool says what the worker's copy of the job can hold at each of its calls.

### EnderPrinter (proofs in ToolsProofs)

The connection task of `ender3_tool.c`, the CDC driver's callbacks and the LVGL task's
start, stop, tick and buttons. `ender3_tool_stop()` releases task, driver, host, power and
semaphores in order and returns where a release fails or times out; the next start or
stop resumes there. Left out: moves, the position read-back, the transcript.

*Run `tools`*: two setup commands, one retry, two opens. Checked: `EnderInv` (types;
`OwnedInOrder`: nothing is released under what still needs it; `SetupTriedOnConnection`: once
a connection needs no setup any more, each command of it was tried once on that very
connection) and `EnderKept`: a connection
ends only because it was lost or stopped (`KeptWhileThere`), and a stopped task ends
(`TaskEnds`, under fairness of the connection task alone). A command is tried, not
delivered: `cdc_acm_host_data_tx_blocking()` may fail, which `send_gcode()` only logs, and the
setup goes on with the next one. So a settled connection can have missed a command
(`setup.missed`), until the retry for a printer that has not answered sends them all again.

*Proved*, for any numbers of setup commands, retries and opens: `PrinterIsOwned`, and
`PrinterIsKept`, the safety half of `EnderKept`. `EnderIInv` adds what the handle keeps from
being released (`HandleOwns`), what is open and published at each call of the task
(`TaskAgrees`), that a token for the task stands for a loss or for the wish to stop
(`TokenMeans`), and how far the setup has come (`SetupProgress`).

### AlarmClock (proofs in ToolsProofs)

`alarm_check`, `alarm_trigger`, snooze, dismissal, edits, `alarm_sound_task`, and
`screensaver_tick`, with the calls for the backlight and the speaker's amplifier, which may
fail. The tick runs at least once a minute, for it runs every second. `rung` and `passedOver` are history.

*Run `tools`*: two alarms in the same or successive minutes of a day of two, three
minutes (so the next day comes), a snooze of one minute, one edit, one refused call, of the
backlight or of the amplifier. Checked: `AlarmInv` (types; `DueAlarmRings`, which excepts an
alarm passed over for another that rings, and the minutes of an update, where `alarm_check` returns;
`AlarmIsHeard`, which excepts the alarm that starts while the sound task of the last one
is ending, as the code starts no new one then; `DarkUnderSaver`) and the liveness property
`AlarmShows`: a ringing alarm ends up on a lit screen or is dismissed, and when none rings the
sound task ends and the speaker is off, unless switching it off was refused ("stuck":
`main.c:2585` only logs that, and nothing tries again before the next alarm). Fairness: the
timer of the screen saver and the sound task run.

*Proved*: `AlarmsRing`, for any alarms, length of day, snooze and bounds. `AlarmIInv` adds that
an alarm has today on record only if it has rung or been passed over today (`DayMeansRung`),
and what the sound task, its handle and its flag say of each other (`SoundAgrees`).

### RingHealth (proofs in RecordsProofs)

`ring_request_history`, `ring_handle_history`, `ring_history_finished`, the Measure button
and `ring_health_tick`, which drains the queue into `HR.CSV` and asks for the next day. The
fields of a request that are set after its write (`main.c:1180`) are a step of their own.
A ring that answers late or not at all, and a card that fails, are external. The clock moves:
`Midnight` may come between any two steps, and each request counts its day back from the clock
as it is then (`RequestHistory`). `reached` is how far the sync has come, `hidden` the samples
that a newer row may keep out of the log.

*Run `records`*: three days with no, one and two samples, of which a sync asks for yesterday's
and today's, one midnight, a queue of two, two links, two taps (off and on again under one link, or a manual
reading and one of them), two troubles (a card that fails and one more). Checked:
`RingInv`: types; `LogSortedOnce` (rows in order, a confirmed row never again),
`HistoryKept` (a sample once handled is queued or logged until it is in the log for good),
`OnItsDay`. The exceptions the comments name are what the code really does: a sample that
arrives before its request is on record, after its request timed out, or whose answer is
ignored in part because the ring is switched off and on again under its link (`sure`); one that
had not been handled when a newer manual reading came, and one of a day that a sync passed over
because midnight came between two of its requests (`hidden`): the next day's samples raise the
checkpoint over it, so that a later sync which does ask for the day has it dropped.

*Proved*: `RingHistoryIsSafe`, for any days, samples, queue, links and manual readings, and
any number of rows of the log that are looked at to find its end. `RingIInv` says that at most
one request is out and its answer is of the day `reached`, whatever day the clock shows
by then (`OneRequest`, `AnswersDue`, `DaySettled`); that until a request is blurred by one of the
exceptions, the log and the queue leave out no promised sample - one that is not hidden - that
is older than one they hold (`LogClosed`, `QueueInOrder`, `DaysCovered`, `NextCovered`), so the
checkpoint, the newest row's time, hides none of them; and that what is owed is queued behind
nothing newer or is logged and not newer than the checkpoint (`OwedKept`).

### UartTerminal (proofs in RecordsProofs)

The terminal's timer, taps and Home of `uart_tool.c`, each of which first reads the driver in
a bounded number of passes; bytes arrive between any two reads. A byte is its number. It may be
lost whenever it comes, in the driver's full buffer or before, in the hardware's: no event
queue is installed, so the code cannot tell (`docs/serial-terminal.md:38`). `delivered` is what
the driver had, `traffic` what was read from it and what it accepted to send.

*Run `records`*: a driver buffer of two bytes, reads of one, one read per call, a window of two,
three bytes, two log names, one send: the buffer overflows, a callback leaves bytes behind, and
a window overflows or is frozen with a gap inside. Checked: `UartInv`: types; `FrozenIsExact` (a
frozen window is all the driver had from its start to the tap, and none from before);
`LogIsExact` (a published log is all the traffic between START LOG and its end: a log that
lost a row is never published).

*Proved*: `SerialRecordsAreExact`, for any sizes of the driver's buffer, reads and window, and
any bytes, names and sends. `UartIInv` adds that while a window collects, its bytes and those
still in the driver are the ones delivered since it began (`WindowExact`).

### BleExplorer (proofs in PagesProofs)

Every callback of `ble_tool.c`: the page's taps in two steps (the critical section, then the
call to the stack with what was read in it) and the host task's events. The stack is
external: one procedure per operation, completions in any order with a disconnect, calls
that may be refused. `refused` and `forgot` are history. Left out: names, UUIDs, list
bounds, the evidence file.

*Run `pages`*: two services, two values, two links, so that a call prepared for the first
meets the second. Checked: `BleInv`: types; `BusyUnlessForgotten`, `OneOperation`,
`OfThisPeer`.

*Proved*: `BleExplorerAgrees`, for any services, values and links. `BleIInv` adds what the
stack is doing and for which link (`BleSteps`, `ProcsOnLinks`), that the flags are about the
only link there is (`OneLink`), that a callback between its two steps is about the connection
in use or about one that has ended (`LvOfThisLink`), and that an operation is the one the page
has set up (`OperationAgrees`). The proof found what two links do not show: once Home has
forgotten a link (`forgot`), a failed connection keeps the values of the one before
(`ble_tool.c:551`), so `OfThisPeer` makes no promise after that.

*Run `ble_busy`* (a violation, finding 3 below).

### BenchPins, ScopeSampler, I2cInspector (proofs in PagesProofs)

`ScopeSampler` is the sampling task against the scope page (`scope_task`, `scope_release`,
the controls, chart and capture); `I2cInspector` the register driver, the watch, its CSV
capture and the confirmed write; `BenchPins` composes both with GPIO, Servo Toy, SPI and
the signal generator, the page changes of `clear_content` and the checks on entering. A
pin stands for the pins of the same tools and is configured as whoever did so last: drivers
do not ask each other, which is what makes ownership worth checking. Every cleanup may fail.

*Run `pages`*: two inputs (one shared with SPI, one with I2C), one rate and one calibration,
a chart and a ring of two points, two I2C targets, two SPI modes. Checked: `OneOwner` (a
driver that holds a pin finds it as it configured it, and a pin so configured is held) and
`BenchInv`: types, `QuietWhenClosed`, `OneInput`, `ArmedAsDrafted`, `PublishedWhole`,
`TransferAsLabelled`, `ReleasedAtHome`. `OneOwner` says nothing of what SPI still holds
after a stop that failed: no page asks for it (`SpiKeepsPins` would not hold).

*Proved*: `BenchIsSafe` and `PinsHaveOneOwner`, for any inputs, buffers, targets and
settings. `BenchIInv` adds that the ring holds samples of the input the task reads and the
ADC is claimed exactly where the task says so (`SamplerKnown`), which tool can have
configured which pin and what page it is on then (`PinsByTool`), and that the settings of SPI
change only without a device (`DeviceAsChosen`).

*Run `scope_csv`* (a violation, finding 4 below).

## Findings

1. `mqtt_clear`: `clear_clicked()` (`mqtt_tool.c:1528`) tests and writes the history
   without `mqtt_lock`, while the cleanup worker may release it in between.
2. `links_restart`: a link that is closing is forgotten when its profile is switched on
   and off once more (`main.c:7773`), so `restart_blocker()` reports no Bluetooth session,
   against `docs/architecture.md`.
3. `ble_busy`: `ble_tool_stop()` (`ble_tool.c:1361`) assigns `stopping` instead of keeping it:
   leaving the explorer, and then opening and leaving it once more while the connection that
   came up meanwhile is being ended, makes `ble_tool_busy()` false with the link up.
4. `scope_csv`: selecting another channel or rate while the scope is held (`main.c:2121`) lets
   the old samples be saved under the new selection, against `docs/data-formats.md`.

## What is proved and what is checked

TLAPS proves safety only, from the assumptions each module states of its constants, for
every value of them. Every proof of an invariant has the same shape: a strengthening
(`*IInv`, in the module it strengthens or in the proof module, checked by TLC before it was proved) holds at first,
one lemma for each action or group of actions shows that it stays, and the property follows.

| Proof module | About | Theorems |
|---|---|---|
| CallbackProofs | NetworkResolver, MqttSession | all their safety properties |
| StorageReplaceProofs | StorageReplace | refinement of DurableDocument, no torn file |
| SystemProofs | OtaUpdate, ProductLink | all their safety properties, `LinkKnown` for one device each |
| NetworkProofs | NetworkOperation, PingRun | all their safety properties |
| ToolsProofs | ToolPage and the four tools, EnderPrinter, AlarmClock | all their safety properties, the safety half of `ToolJob` |
| HttpProofs | HttpConsole | all its safety properties |
| PagesProofs | NoteEditor, BenchPins with its parts, BleExplorer | all their safety properties |
| RecordsProofs | RideRecorder, CsvLog, UartTerminal, RingHealth | all their safety properties, refinement of DurableLog |

Model checking alone covers all liveness properties (`AnsweredInTheEnd`,
`HealthyImageConfirmed`, `OffLinksDown`, `EnderKept`, `AlarmShows` and the answer that
`ToolJob` promises): fairness and ENABLED are beyond TLAPS. Every invariant and every action
property of a passing run is a theorem. Configurations say `CHECK_DEADLOCK FALSE` where the model may stop
because its bounds are used up (taps, requests, rows, runs).

The bounds are chosen so that one of everything can meet the next of it: a second session,
link, request or run for what the first left behind, a queue, ring or buffer that overflows,
a fault in an operation and another in its repair. `CONSTANTS` whose comment says *bound*
limit only how long a run is.

## Not modelled

* **HTTP transport** (`http_transport.c`): its outcomes are a choice in HttpConsole and
  OtaUpdate. Planned.
* **Modbus RTU**, the **MQTT receive assembly**, the **ebook download**: planned.
* **Manifest parser and download** (`ota_manifest.c`), **Govee**, **Wi-Fi, weather, voice,
  chat, browser**, **gallery, files, viewers**: one step per outcome where another part
  depends on them, else parsing and drawing on one task, or the pattern of NetworkOperation.
* **Calculators and codecs**: pure functions; floating point and long byte strings are out
  of TLC's reach, and `tests/` compares them with references.
* **Remote desktop, PSRAM shim, relay, `components/`**: peripheral or vendored code, or code
  outside the tablet.

## Plan

1. **HttpTransport**: `stopped()`, `read_guarded`, `write_guarded`, `poll_guarded` and the
   framing flags: a stop or time-out is never the end of a body.
2. **NetworkOperation over its parts**: its worker runs PingRun and NetworkResolver through
   their abstract outcomes; HttpConsole as a further implementation of `ToolJob`.
3. **Modbus RTU** with UartTerminal as the other user of UART1; the **ebook download**; the
   MQTT **receive assembly**; the evidence file of the BLE explorer.
4. **Pure data**: version order, IPv4 and subnet arithmetic, Modbus framing, as operators
   against reference definitions over bounded inputs.

Theorems still worth proving: that the serial log of UartTerminal and the ring's log as
RingHealth has it implement DurableLog as CsvLog does.
