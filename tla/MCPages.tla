------------------------------- MODULE MCPages -------------------------------
(* Three applications whose state only their page and its callbacks change,  *)
(* on small instances: the notes, the Bluetooth explorer and the bench       *)
(* tools.  The first state chooses the application.                          *)
EXTENDS NoteEditor, BleExplorer, BenchPins, TLC

\* An input of each kind: shared with SPI, and shared with I2C.
MCScopePins == 0 :> "G18" @@ 1 :> "G54"

VARIABLE app
pageVars == <<allVars, bleVars, pinsVars, app>>

PagesInit ==
    /\ NoteInit /\ BleInit /\ PinsInit
    /\ app \in {"notes", "ble", "bench"}
    /\ app # "notes" => sdReady /\ final = Absent /\ backup = Absent
    /\ app # "bench" => draft = CHOOSE target \in Targets : TRUE
PagesNext ==
    /\ UNCHANGED app
    /\ \/ app = "notes" /\ NoteNext /\ UNCHANGED <<bleVars, pinsVars>>
       \/ app = "ble" /\ BleNext /\ UNCHANGED <<allVars, pinsVars>>
       \/ app = "bench" /\ PinsNext /\ UNCHANGED <<allVars, bleVars>>

PagesSpec == PagesInit /\ [][PagesNext]_pageVars
==============================================================================
