---------------------------- MODULE I2cInspector ----------------------------
(* The I2C inspector: the register driver (i2c_register.c), the saved read *)
(* (i2c_result.c), and the page's watch, CSV capture and confirmed write   *)
(* (main.c).  All of it runs in the LVGL task, one handler at a time; what *)
(* makes it hard is that every call on the bus and on the card may fail,   *)
(* cleaning up included, in any order with the user's taps.                *)
(*                                                                         *)
(* A transaction is one step: its outcome says how far it came and what    *)
(* its cleanup left behind.  A target is an address with a register, a     *)
(* value and a speed, the draft that the page's controls change.  A        *)
(* capture is open or not; its rows matter as far as one may be cut short. *)
(* The card may go at any time, so that any call on it can fail.           *)
EXTENDS Naturals

CONSTANTS
  Targets,      \* drafts: what is read from or written to
  NoTarget      \* none

ASSUME I2cAssumption == NoTarget \notin Targets

VARIABLES
  bus,          \* what the driver holds: "free", "bus", "device" (and the bus)
  draft,        \* i2c_selected_address and _register, i2c_write_value, speed
  armed,        \* the write confirmation: i2c_write_armed, and its age
  watching,     \* i2c_watch_enabled
  recording,    \* i2c_capture_file is open
  published     \* the last capture published: "none", "whole" or "torn"

i2cVars == <<bus, draft, armed, watching, recording, published>>

Disarmed == [on |-> FALSE, target |-> NoTarget, fresh |-> FALSE]

I2cInit ==
  /\ bus = "free"
  /\ draft \in Targets
  /\ armed = Disarmed
  /\ watching = FALSE
  /\ recording = FALSE
  /\ published = "none"

-----------------------------------------------------------------------------
(* The register driver.                                                    *)

I2cBusy == bus # "free"

\* What i2c_register_stop may leave: the device removed or not, then the
\* bus deleted or not.
StopLeaves(held) ==
  CASE held = "device" -> {"device", "bus", "free"}
    [] held = "bus" -> {"bus", "free"}
    [] OTHER -> {"free"}

\* What a transaction may leave: begin() stops what is still held, makes
\* the bus and then the device, and every step after the first stop, the
\* transaction included, is followed by another stop.
Transact == bus' \in StopLeaves(bus) \cup StopLeaves("device")

-----------------------------------------------------------------------------
(* The capture.                                                            *)

\* i2c_capture_finish: only a healthy stop commits the file, and the commit
\* may fail; what is not published stays a TMP.
FinishCapture(healthy, rows) ==
  /\ recording' = FALSE
  /\ \/ recording /\ healthy /\ published' = rows
     \/ UNCHANGED published

StopCapture == FinishCapture(TRUE, "whole")

\* i2c_capture_log: a row after every watched read.  Without a card, or
\* when the row or the periodic sync fails, the capture ends.
LogRow ==
  \/ UNCHANGED <<recording, published>>
  \/ recording /\ \E rows \in {"whole", "torn"} : FinishCapture(FALSE, rows)

-----------------------------------------------------------------------------
(* Reading and writing.                                                    *)

\* READ ONCE: the watch stops and the capture is finished first.
ReadClicked ==
  /\ armed' = Disarmed /\ watching' = FALSE
  /\ StopCapture
  /\ Transact
  /\ UNCHANGED draft

WatchClicked ==
  /\ armed' = Disarmed
  /\ watching' = ~watching
  /\ IF watching THEN StopCapture /\ UNCHANGED bus ELSE LogRow /\ Transact
  /\ UNCHANGED draft

\* The capture's button stops it, or opens a file and starts the watch with
\* a first row, which may end it again.  The file cannot always be opened,
\* nor its header written.
CaptureStops ==
  /\ recording
  /\ armed' = Disarmed
  /\ StopCapture
  /\ UNCHANGED <<bus, draft, watching>>

CaptureStarts ==
  /\ ~recording
  /\ armed' = Disarmed /\ watching' = TRUE
  /\ recording' \in BOOLEAN
  /\ Transact
  /\ UNCHANGED <<draft, published>>

CaptureNotStarted ==
  /\ ~recording
  /\ armed' = Disarmed
  /\ UNCHANGED <<bus, draft, watching, recording, published>>

\* The controls of the draft.  A scan goes through i2c_register_stop before
\* and after, and selects the first address that answered.
Edited(target) == draft' = target /\ armed' = Disarmed

DraftClicked(target) ==
  /\ target # draft
  /\ Edited(target)
  /\ UNCHANGED <<bus, watching, recording, published>>

ScanClicked ==
  /\ \/ bus' \in StopLeaves(bus) /\ armed' = Disarmed /\ UNCHANGED draft
     \/ bus' \in StopLeaves("bus") /\ \E target \in Targets : Edited(target)
  /\ UNCHANGED <<watching, recording, published>>

\* COPY READ, CLEAR READ and the length of a one-shot read cancel the
\* confirmation too; the read they are about is not modelled.
ResultClicked ==
  /\ armed' = Disarmed
  /\ UNCHANGED <<bus, draft, watching, recording, published>>

\* The first tap, or one after the five seconds, arms the write as it reads
\* now; the watch and the capture end.
ArmWrite ==
  /\ ~(armed.on /\ armed.fresh)
  /\ armed' = [on |-> TRUE, target |-> draft, fresh |-> TRUE]
  /\ watching' = FALSE
  /\ StopCapture
  /\ UNCHANGED <<bus, draft>>

\* The second tap within the five seconds writes.
ConfirmWrite ==
  /\ armed.on /\ armed.fresh
  /\ armed' = Disarmed
  /\ Transact
  /\ UNCHANGED <<draft, watching, recording, published>>

\* i2c_tick, once a second: an old confirmation is withdrawn, and the watch
\* reads.
I2cTick ==
  /\ watching \/ (armed.on /\ ~armed.fresh)
  /\ armed' = IF armed.on /\ ~armed.fresh THEN Disarmed ELSE armed
  /\ IF watching THEN LogRow /\ Transact ELSE UNCHANGED <<bus, recording, published>>
  /\ UNCHANGED <<draft, watching>>

I2cControls ==
  \/ ReadClicked \/ WatchClicked \/ ScanClicked
  \/ CaptureStops \/ CaptureStarts \/ CaptureNotStarted
  \/ \E target \in Targets : DraftClicked(target)
  \/ ResultClicked \/ ArmWrite \/ ConfirmWrite \/ I2cTick

\* I2C_WRITE_CONFIRM_MS pass.
ConfirmationAges ==
  /\ armed.on /\ armed.fresh
  /\ armed' = [armed EXCEPT !.fresh = FALSE]
  /\ UNCHANGED <<bus, draft, watching, recording, published>>

\* What leaving any page does (clear_content): the capture is finished, the
\* watch and the confirmation end, and the bus is stopped, or not.
I2cLeave ==
  /\ StopCapture
  /\ watching' = FALSE
  /\ armed' = Disarmed
  /\ bus' \in StopLeaves(bus)
  /\ UNCHANGED draft

-----------------------------------------------------------------------------
(* What the inspector promises.                                            *)

\* The variables stay in their domains.
I2cTypes ==
  /\ bus \in {"free", "bus", "device"}
  /\ draft \in Targets
  /\ armed \in [on : BOOLEAN, target : Targets \cup {NoTarget}, fresh : BOOLEAN]
  /\ {watching, recording} \subseteq BOOLEAN
  /\ published \in {"none", "whole", "torn"}

\* What is confirmed is what was armed: nothing about the write can change
\* between the two taps.
ArmedAsDrafted == armed.on => armed.target = draft

\* No published capture has a row that was cut short, whatever failed before
\* it was stopped (docs/data-formats.md: failures never retry publication).
PublishedWhole == published # "torn"
=============================================================================
