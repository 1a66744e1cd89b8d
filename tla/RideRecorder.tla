---------------------------- MODULE RideRecorder ----------------------------
(***************************************************************************)
(* Ride recording of src/main/main.c (ride_start, cycling_tick, ride_stop, *)
(* ride_abort, ride_append_summary), a client of StorageReplace for the    *)
(* history index and of storage_commit_new_file() for the rides.           *)
(*                                                                         *)
(* A ride is recorded into <name>.TMP, published as <name>.CSV, and then   *)
(* appended to SUMMARY.CSV by rewriting that file.  The index document is  *)
(* the sequence of its rows; a row is the ride it describes.  The handlers *)
(* run on the LVGL task, so only a power loss comes between their calls.   *)
(***************************************************************************)
EXTENDS StorageReplace, Sequences, FiniteSets

CONSTANTS
    Names,     \* file names: a clock reading and a two-digit suffix
    Clock,     \* Clock[n]: the clock reading in the name n
    Suffix,    \* Suffix[n]: its suffix, tried in increasing order
    MaxSamples \* bound on the samples of one ride

\* A ride is described by one row at most.
OneRowEach(document) == \A i, j \in 1..Len(document) : document[i] = document[j] => i = j

\* A <name>.TMP: its samples, and those of them a power loss leaves.
Parts == [written : 0..MaxSamples, synced : 0..MaxSamples]

ASSUME RideConstants ==
    /\ Contents \subseteq Seq(Names)
    /\ \A s \in Contents \cup {<<>>}, n \in Names : OneRowEach(Append(s, n)) => Append(s, n) \in Contents
    /\ NoRequest \notin Names /\ Absent \notin Parts /\ Absent \notin 0..MaxSamples
    /\ Suffix \in [Names -> Nat]
    /\ \A m, n \in Names : Clock[m] = Clock[n] /\ Suffix[m] = Suffix[n] => m = n
    /\ MaxSamples \in Nat

VARIABLES
    ridePart,   \* ridePart[n]: <n>.TMP, as samples written and synced, or Absent
    rideFile,   \* rideFile[n]: the samples of <n>.CSV, or Absent
    recording,  \* the ride whose stream is open (ride_file), or NoRequest
    stopping,   \* the step of ride_stop in progress
    notice,     \* what ride_notice last told the user about a ride
    sdReady

rideVars == <<ridePart, rideFile, recording, stopping, notice, sdReady>>
allVars == <<vars, rideVars>>

Notices == {"none", "saved", "notIndexed", "retained"}

RideTypeOK ==
    /\ TypeOK
    /\ ridePart \in [Names -> Parts \cup {Absent}]
    /\ rideFile \in [Names -> 0..MaxSamples \cup {Absent}]
    /\ recording \in Names \cup {NoRequest}
    /\ stopping \in {"no", "close", "statFinal", "publish", "index", "indexing"}
    /\ notice \in Notices
    /\ sdReady \in BOOLEAN

RideInit ==
    /\ Init
    /\ final = Absent /\ backup = Absent
    /\ ridePart = [n \in Names |-> Absent]
    /\ rideFile = [n \in Names |-> Absent]
    /\ recording = NoRequest
    /\ stopping = "no"
    /\ notice = "none"
    /\ sdReady \in BOOLEAN

RecordError == sdReady' \in {sdReady, FALSE}
Idle == step = "idle" /\ stopping = "no"

-----------------------------------------------------------------------------
\* ride_start(): the first suffix whose CSV and TMP are both free; O_EXCL
\* refuses a TMP that an earlier ride left behind (UnpublishedName, for
\* mutation, forgets O_EXCL).
UnpublishedName(n) == rideFile[n] = Absent
Free(n) == rideFile[n] = Absent /\ ridePart[n] = Absent
NextFree(n) == /\ Free(n)
               /\ \A m \in Names : Clock[m] = Clock[n] /\ Suffix[m] < Suffix[n] => ~Free(m)

RideStart(n) ==
    /\ Idle /\ recording = NoRequest /\ sdReady
    /\ NextFree(n)
    /\ ridePart' = [ridePart EXCEPT ![n] = [written |-> 0, synced |-> 0]]
    /\ recording' = n
    /\ notice' = "none"
    /\ UNCHANGED <<vars, rideFile, stopping, sdReady>>

\* A folder, stat, open or fdopen error, or no suffix left: nothing is recorded.
\* After an fdopen error the new file is removed, if the card lets it.
RideStartFails ==
    /\ Idle /\ recording = NoRequest /\ sdReady
    /\ \/ UNCHANGED ridePart
       \/ \E n \in Names : /\ NextFree(n)
                           /\ ridePart' = [ridePart EXCEPT ![n] = [written |-> 0, synced |-> 0]]
    /\ notice' = "none"
    /\ RecordError
    /\ UNCHANGED <<vars, rideFile, recording, stopping>>

\* ride_abort(): close the stream and leave the TMP on the card.
RideAbort ==
    /\ recording' = NoRequest
    /\ stopping' = "no"
    /\ notice' = "retained"
    /\ RecordError

\* cycling_tick(): once a second a sample, every RIDE_FLUSH_MS also a sync.
Sample(sync) ==
    LET part == ridePart[recording]
        n == part.written + 1
    IN  /\ Idle /\ recording # NoRequest /\ sdReady
        /\ n <= MaxSamples
        /\ ridePart' = [ridePart EXCEPT ![recording] =
                          [written |-> n, synced |-> IF sync THEN n ELSE part.synced]]
        /\ UNCHANGED <<vars, rideFile, recording, stopping, notice, sdReady>>

\* A failed header, sample or sync, or a card already known to be gone.
SampleFails ==
    /\ Idle /\ recording # NoRequest
    /\ RideAbort
    /\ UNCHANGED <<vars, ridePart, rideFile>>

\* ride_stop(): Stop & save, or KICKR Bluetooth switched off during a ride.
RideStop ==
    /\ Idle /\ recording # NoRequest /\ sdReady
    /\ stopping' = "close"
    /\ UNCHANGED <<vars, ridePart, rideFile, recording, notice, sdReady>>

\* storage_commit_new_file(): close_synced, stat and rename.  Every failure
\* keeps the TMP and aborts the ride.
CloseRide ==
    /\ stopping = "close"
    /\ \/ /\ ridePart' = [ridePart EXCEPT ![recording].synced = ridePart[recording].written]
          /\ stopping' = "statFinal"
          /\ UNCHANGED <<recording, notice, sdReady>>
       \/ RideAbort /\ UNCHANGED ridePart
       \/ /\ RideAbort
          /\ ridePart' = [ridePart EXCEPT ![recording].synced = ridePart[recording].written]
    /\ UNCHANGED <<vars, rideFile>>

StatRide ==
    /\ stopping = "statFinal"
    /\ \/ /\ rideFile[recording] = Absent
          /\ stopping' = "publish"
          /\ UNCHANGED <<recording, notice, sdReady>>
       \/ RideAbort
    /\ UNCHANGED <<vars, ridePart, rideFile>>

MoveRide ==
    /\ rideFile' = [rideFile EXCEPT ![recording] = ridePart[recording].synced]
    /\ ridePart' = [ridePart EXCEPT ![recording] = Absent]

\* Faulty publication for mutation: the ride is indexed even if the rename failed.
PublishRideRegardless ==
    /\ stopping = "publish"
    /\ MoveRide \/ UNCHANGED <<ridePart, rideFile>>
    /\ stopping' = "index"
    /\ UNCHANGED <<vars, recording, notice, sdReady>>

PublishRide ==
    /\ stopping = "publish"
    /\ \/ MoveRide /\ stopping' = "index" /\ UNCHANGED <<recording, notice, sdReady>>
       \/ MoveRide /\ RideAbort
       \/ UNCHANGED <<ridePart, rideFile>> /\ RideAbort
    /\ UNCHANGED vars

-----------------------------------------------------------------------------
\* ride_append_summary(): recover the index, copy it with the new row, replace.
IndexRecover ==
    /\ stopping = "index" /\ step = "idle" /\ sdReady
    /\ CallRecover
    /\ stopping' = "indexing"
    /\ UNCHANGED <<ridePart, rideFile, recording, notice, sdReady>>

RideDone(told) ==
    /\ recording' = NoRequest
    /\ stopping' = "no"
    /\ notice' = told

\* The card is gone by now, or the folder cannot be made.
IndexRefused ==
    /\ stopping = "index"
    /\ RideDone("notIndexed")
    /\ RecordError
    /\ UNCHANGED <<vars, ridePart, rideFile>>

Rows(document) == IF document = Absent THEN <<>> ELSE document

\* The recovery succeeded: remove TMP, read the index, write it with the row.
IndexWrite ==
    /\ stopping = "indexing" /\ step = "recovered"
    /\ tmp' = Torn
    /\ request' = Append(Rows(final), recording)
    /\ reply' = "none"
    /\ Goto("writing")
    /\ UNCHANGED <<final, backup, rideVars>>

\* The recovery failed, or a file could not be removed, opened or read.
IndexUnavailable ==
    /\ stopping = "indexing"
    /\ RecoverReturns
    /\ RideDone("notIndexed")
    /\ RecordError
    /\ UNCHANGED <<ridePart, rideFile>>

\* Faulty notice for mutation: the outcome of the index update is ignored.
IndexAlwaysSaved ==
    /\ stopping = "indexing"
    /\ ReplaceReturns
    /\ RideDone("saved")
    /\ RecordError
    /\ UNCHANGED <<ridePart, rideFile>>

IndexReturns ==
    /\ stopping = "indexing"
    /\ ReplaceReturns
    /\ IF step = "done" THEN RideDone("saved") /\ UNCHANGED sdReady
                        ELSE RideDone("notIndexed") /\ RecordError
    /\ UNCHANGED <<ridePart, rideFile>>

FileStep ==
    /\ WriteFails \/ WriteSucceeds \/ CommitStep \/ RecoverStep
    /\ UNCHANGED rideVars

\* ride_load_history(): the Cycling page also recovers the index.
LoadHistory ==
    /\ stopping = "no" /\ sdReady
    /\ CallRecover
    /\ UNCHANGED rideVars

HistoryLoaded ==
    /\ stopping = "no"
    /\ RecoverReturns
    /\ RecordError
    /\ UNCHANGED <<ridePart, rideFile, recording, stopping, notice>>

\* Any task that meets an I/O error takes the card out of use.
CardLost ==
    /\ sdReady
    /\ sdReady' = FALSE
    /\ UNCHANGED <<vars, ridePart, rideFile, recording, stopping, notice>>

\* Unsynced samples are gone after a power loss, and so may be a file that was
\* never synced at all.
AfterPowerLoss(part) ==
    IF part = Absent THEN {Absent}
    ELSE {[part EXCEPT !.written = part.synced]} \cup (IF part.synced = 0 THEN {Absent} ELSE {})

Reboot ==
    /\ PowerLoss
    /\ ridePart' \in {f \in [Names -> Parts \cup {Absent}] :
                        \A n \in Names : f[n] \in AfterPowerLoss(ridePart[n])}
    /\ recording' = NoRequest
    /\ stopping' = "no"
    /\ notice' = "none"
    /\ sdReady' \in BOOLEAN
    /\ UNCHANGED rideFile

RideNext ==
    \/ \E n \in Names : RideStart(n)
    \/ RideStartFails \/ SampleFails \/ RideStop
    \/ \E sync \in BOOLEAN : Sample(sync)
    \/ CloseRide \/ StatRide \/ PublishRide
    \/ IndexRefused \/ IndexRecover \/ IndexWrite \/ IndexUnavailable \/ IndexReturns
    \/ FileStep
    \/ LoadHistory \/ HistoryLoaded \/ CardLost \/ Reboot

RideSpec == RideInit /\ [][RideNext]_allVars

-----------------------------------------------------------------------------
Indexed == {Rows(Document)[i] : i \in 1..Len(Rows(Document))}

\* Every row of the history index describes a published ride, and no ride has
\* two rows: publish first, then index, and never retry after an unclear error.
IndexMatchesRides ==
    /\ \A n \in Indexed : rideFile[n] # Absent
    /\ Cardinality(Indexed) = Len(Rows(Document))

\* The index, its files and the ride in progress keep their types and agree.
RideInv == RideTypeOK /\ IInv /\ IndexMatchesRides

\* "Ride saved safely" is only said of a ride that is published and indexed.
SavedMeansBoth ==
    [][notice' = "saved" /\ notice # "saved" =>
         rideFile[recording] # Absent /\ recording \in Indexed]_allVars

\* A published ride is never touched again, and synced samples are never lost:
\* a TMP that was left behind is not reused, also when the clock is set back.
\* History only grows, one row at a time, whatever fails: the old rows stay in
\* front of the new one, also after a power loss.
HistoryGrows ==
    [][\/ Rows(Document') = Rows(Document)
       \/ \E n \in Names : Rows(Document') = Append(Rows(Document), n)]_allVars
RidesKept ==
    /\ HistoryGrows
    /\ [][\A n \in Names :
         /\ rideFile[n] # Absent => rideFile'[n] = rideFile[n]
         /\ ridePart[n] # Absent =>
              \/ ridePart[n].synced = 0
              \/ ridePart'[n] # Absent /\ ridePart'[n].synced >= ridePart[n].synced
              \/ rideFile'[n] # Absent /\ rideFile'[n] >= ridePart[n].synced]_allVars
=============================================================================
