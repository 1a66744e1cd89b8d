------------------------------ MODULE MCRecords ------------------------------
(* What is recorded on the card, on small instances: rides and their index,  *)
(* the append-only CSV logs, the ring's heart rates and the serial logs.     *)
(* Each has its own files, so one run checks them side by side: the first    *)
(* state chooses the recorder.                                               *)
EXTENDS RideRecorder, CsvLog, RingHealth, UartTerminal

CONSTANTS early0, early1, late0

\* Two names under one clock reading, one under another: two suffix collisions and up to
\* three rides in the index.
SomeNames == {early0, early1, late0}
SomeClock == [n \in SomeNames |-> IF n = late0 THEN 2 ELSE 1]
SomeSuffix == [n \in SomeNames |-> IF n = early1 THEN 1 ELSE 0]
Indexes == UNION {[1..k -> SomeNames] : k \in 0..4}

\* Nothing of the first day, a sample of the day a run begins on, and two of the
\* day after it.
SomePackets == <<0, 1, 2>>

VARIABLE recorder
recordVars == <<allVars, csvVars, ringVars, uartVars, recorder>>

RecordsInit ==
    /\ RideInit /\ CsvInit /\ RingInit /\ UartInit
    /\ recorder \in {"rides", "csv", "ring", "uart"}
    /\ recorder # "rides" => sdReady
    /\ recorder # "csv" => ~ring
RecordsNext ==
    /\ UNCHANGED recorder
    /\ \/ recorder = "rides" /\ RideNext /\ UNCHANGED <<csvVars, ringVars, uartVars>>
       \/ recorder = "csv" /\ CsvNext /\ UNCHANGED <<allVars, ringVars, uartVars>>
       \/ recorder = "ring" /\ RingNext /\ UNCHANGED <<allVars, csvVars, uartVars>>
       \/ recorder = "uart" /\ UartNext /\ UNCHANGED <<allVars, csvVars, ringVars>>

RecordsSpec == RecordsInit /\ [][RecordsNext]_recordVars
==============================================================================
