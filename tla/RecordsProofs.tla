---------------------------- MODULE RecordsProofs ----------------------------
(***************************************************************************)
(* Proofs about what is recorded on the card: the rides and their index,   *)
(* the serial terminal's records, and the ring's heart-rate history.       *)
(***************************************************************************)
EXTENDS RideRecorder, UartTerminal, RingHealth, CsvLog, StorageReplaceProofs,
        FiniteSetTheorems, FunctionTheorems, SequenceTheorems, WellFoundedInduction

(***************************************************************************)
(* The inductive invariant of the ride recorder.                           *)
(***************************************************************************)

\* Where ride_stop() is says what the file protocol may be doing for it.
RideSteps ==
    /\ stopping # "no" => recording \in Names
    /\ stopping \in {"close", "statFinal", "publish", "index"} => step = "idle"
    /\ stopping = "no" => step \in {"idle"} \cup RecoverSteps
    /\ stopping = "indexing" => step # "idle"

\* A ride is recorded under a name no published ride has, until it is published.
RideNamed ==
    recording \in Names =>
        IF stopping \in {"index", "indexing"}
        THEN rideFile[recording] # Absent
        ELSE ridePart[recording] # Absent /\ rideFile[recording] = Absent

\* Only samples that were written are synced.
SyncedAreWritten ==
    \A n \in Names : ridePart[n] # Absent => ridePart[n].synced <= ridePart[n].written

\* An index whose rows are different published rides.
Listed(listing) ==
    /\ OneRowEach(listing)
    /\ \A i \in 1..Len(listing) : rideFile[listing[i]] # Absent

\* The index on the card is one, and so is the one that is to replace it: the
\* old one with the ride just published behind it, until it is published itself.
IndexListed == Listed(Rows(Document))
IndexRequested ==
    request # NoRequest =>
        /\ stopping = "indexing"
        /\ Listed(request)
        /\ request # <<>> /\ request[Len(request)] = recording
        /\ Document = request \/ request = Append(Rows(Document), recording)
NotYetIndexed ==
    stopping \in {"index", "indexing"} /\ request = NoRequest => recording \notin Indexed

RideIInv == RideTypeOK /\ IInv /\ RideSteps /\ RideNamed /\ SyncedAreWritten
            /\ IndexListed /\ IndexRequested /\ NotYetIndexed

-----------------------------------------------------------------------------
\* To the files the recorder does what the replace protocol does; where it
\* recovers and then rewrites the index, it does so without returning between.
LEMMA RideFiles == [RideNext]_allVars => [Next]_vars \/ IndexWrite
<1> SUFFICES ASSUME [RideNext]_allVars PROVE [Next]_vars \/ IndexWrite
  OBVIOUS
<1>1. CASE (\E n \in Names : RideStart(n)) \/ RideStartFails \/ SampleFails \/ RideStop
  BY <1>1 DEF RideStart, RideStartFails, SampleFails, RideStop
<1>2. CASE (\E sync \in BOOLEAN : Sample(sync)) \/ CloseRide \/ StatRide \/ PublishRide
  BY <1>2 DEF Sample, CloseRide, StatRide, PublishRide
<1>3. CASE IndexRefused \/ CardLost \/ UNCHANGED allVars
  BY <1>3 DEF IndexRefused, CardLost, allVars
<1>4. CASE IndexRecover \/ IndexUnavailable \/ IndexReturns
  BY <1>4 DEF IndexRecover, IndexUnavailable, IndexReturns, Next
<1>5. CASE FileStep \/ LoadHistory \/ HistoryLoaded \/ Reboot
  BY <1>5 DEF FileStep, LoadHistory, HistoryLoaded, Reboot, Next
<1> QED
  BY <1>1, <1>2, <1>3, <1>4, <1>5 DEF RideNext

\* The index with the new row is a document that may be written.
LEMMA NewIndex ==
    ASSUME IInv, IndexListed, IndexRequested, NotYetIndexed, RideSteps, RideNamed, IndexWrite
    PROVE  /\ final = Document
           /\ recording \in Names /\ rideFile[recording] # Absent
           /\ Rows(Document) \in Contents \cup {<<>>}
           /\ Rows(Document) \in Seq(Names)
           /\ request' = Append(Rows(Document), recording)
           /\ Listed(request')
           /\ request' \in Contents
<1> DEFINE listing == Rows(Document)
<1>1. step = "recovered" /\ stopping = "indexing" /\ request = NoRequest
  BY DEF IndexWrite, IInv, CommitInv, CommitSteps
<1>2. final = Document
  BY <1>1 DEF IInv, CommitInv, Document
<1>3. recording \in Names /\ rideFile[recording] # Absent
  BY <1>1 DEF RideSteps, RideNamed
<1>4. final \in Contents \cup {Absent}
  BY DEF IInv, TypeOK, NeverTorn
<1>5. listing \in Contents \cup {<<>>} /\ listing \in Seq(Names)
  BY <1>2, <1>4, RideConstants DEF Rows
<1>6. request' = Append(listing, recording)
  BY <1>2 DEF IndexWrite
<1>7. Listed(listing)
  BY DEF IndexListed
<1>8. \A i \in 1..Len(listing) : listing[i] # recording
  BY <1>1 DEF NotYetIndexed, Indexed
<1>9. /\ Len(request') = Len(listing) + 1 /\ Len(listing) \in Nat
      /\ \A i \in 1..Len(listing) : request'[i] = listing[i]
      /\ request'[Len(listing) + 1] = recording
  <2> HIDE DEF listing
  <2> QED
    BY <1>3, <1>5, <1>6
<1>10. OneRowEach(request')
  <2> HIDE DEF listing
  <2> SUFFICES ASSUME NEW i \in 1..Len(request'), NEW j \in 1..Len(request'), request'[i] = request'[j]
               PROVE  i = j
    BY DEF OneRowEach
  <2>1. i \in 1..Len(listing) \/ i = Len(listing) + 1
    BY <1>9
  <2>2. j \in 1..Len(listing) \/ j = Len(listing) + 1
    BY <1>9
  <2>3. CASE i \in 1..Len(listing) /\ j \in 1..Len(listing)
    BY <2>3, <1>7, <1>9 DEF Listed, OneRowEach
  <2>4. CASE i = Len(listing) + 1 \/ j = Len(listing) + 1
    BY <2>1, <2>2, <2>4, <1>8, <1>9
  <2> QED
    BY <2>1, <2>2, <2>3, <2>4
<1>11. \A i \in 1..Len(request') : rideFile[request'[i]] # Absent
  <2> HIDE DEF listing
  <2> SUFFICES ASSUME NEW i \in 1..Len(request') PROVE rideFile[request'[i]] # Absent
    OBVIOUS
  <2>1. i \in 1..Len(listing) \/ i = Len(listing) + 1
    BY <1>9
  <2> QED
    BY <2>1, <1>3, <1>7, <1>9 DEF Listed
<1>12. request' \in Contents
  BY <1>3, <1>5, <1>6, <1>10, RideConstants
<1> QED
  BY <1>2, <1>3, <1>5, <1>6, <1>10, <1>11, <1>12 DEF Listed

\* So the invariant of the protocol holds under the recorder's use of it.
LEMMA RideKeepsFiles ==
    ASSUME IInv, IndexListed, IndexRequested, NotYetIndexed, RideSteps, RideNamed, [RideNext]_allVars
    PROVE  IInv'
<1>1. CASE [Next]_vars
  BY <1>1, NextIInv
<1>2. CASE IndexWrite
  <2>1. request' \in Contents
    BY <1>2, NewIndex
  <2>2. /\ tmp' = Torn /\ final' = final /\ backup' = backup
        /\ step' = "writing" /\ reply' = "none"
    BY <1>2 DEF IndexWrite, Goto
  <2> QED
    BY <2>1, <2>2, StorageConstants DEF IInv, TypeOK, NeverTorn, CommitInv, CommitSteps, RecoverSteps
<1> QED
  BY <1>1, <1>2, RideFiles

\* And the index changes only to what replaces it.
LEMMA IndexChanges ==
    ASSUME IInv, [RideNext]_allVars
    PROVE  Document' = Document \/ (request # NoRequest /\ Document' = request)
<1>1. CASE [Next]_vars
  BY <1>1, StepRefines
  DEF Durable!Next, Durable!vars, Durable!Begin, Durable!Publish, Durable!Succeed, Durable!Fail, Durable!PowerLoss
<1>2. CASE IndexWrite
  BY <1>2 DEF IndexWrite, Document
<1> QED
  BY <1>1, <1>2, RideFiles

-----------------------------------------------------------------------------
\* A ride that is being recorded has its temporary file, with the samples of a
\* file: 0..MaxSamples of them, some of them synced.
LEMMA RecordingPart ==
    ASSUME RideTypeOK, RideNamed, recording \in Names, stopping \notin {"index", "indexing"}
    PROVE  /\ ridePart[recording] \in Parts
           /\ ridePart[recording].written \in 0..MaxSamples
           /\ ridePart[recording].synced \in 0..MaxSamples
           /\ rideFile[recording] = Absent
<1>1. ridePart[recording] # Absent /\ rideFile[recording] = Absent
  BY DEF RideNamed
<1>2. ridePart[recording] \in Parts
  BY <1>1 DEF RideTypeOK
<1> QED
  BY <1>1, <1>2 DEF Parts

LEMMA NewPart == [written |-> 0, synced |-> 0] \in Parts
BY RideConstants DEF Parts

LEMMA ErrorKnown == ASSUME sdReady \in BOOLEAN, RecordError PROVE sdReady' \in BOOLEAN
<1>1. sdReady' = sdReady \/ sdReady' = FALSE
  BY DEF RecordError
<1> QED
  BY <1>1

LEMMA CardKnown == ASSUME sdReady \in BOOLEAN, [RideNext]_allVars PROVE sdReady' \in BOOLEAN
<1>1. CASE RecordError
  BY <1>1, ErrorKnown
<1>2. CASE sdReady' = sdReady
  BY <1>2
<1>3. RecordError \/ sdReady' = sdReady \/ sdReady' \in BOOLEAN
  BY DEF RideNext, RideStart, RideStartFails, SampleFails, RideStop, Sample, CloseRide, StatRide, PublishRide,
      RideAbort, IndexRefused, IndexRecover, IndexWrite, IndexUnavailable, IndexReturns, FileStep,
      LoadHistory, HistoryLoaded, CardLost, Reboot, allVars, rideVars
<1> QED
  BY <1>1, <1>2, <1>3

LEMMA RideTypesKept ==
    ASSUME RideTypeOK, RideSteps, RideNamed, [RideNext]_allVars, IInv'
    PROVE  RideTypeOK'
<1>0. TypeOK'
  BY DEF IInv
<1> DEFINE Typed == /\ ridePart \in [Names -> Parts \cup {Absent}]
                    /\ rideFile \in [Names -> 0..MaxSamples \cup {Absent}]
                    /\ recording \in Names \cup {NoRequest}
                    /\ stopping \in {"no", "close", "statFinal", "publish", "index", "indexing"}
                    /\ notice \in Notices
<1>s. SUFFICES Typed'
  BY <1>0, CardKnown DEF RideTypeOK
<1>t. Typed
  BY DEF RideTypeOK
<1>1. ASSUME NEW n \in Names, RideStart(n) PROVE Typed'
  BY <1>t, <1>1, NewPart DEF RideStart, Notices
<1>2. CASE RideStartFails
  BY <1>t, <1>2, NewPart DEF RideStartFails, Notices
<1>3. CASE SampleFails \/ RideStop
  BY <1>t, <1>3 DEF SampleFails, RideStop, RideAbort, Notices
<1>4. ASSUME NEW sync \in BOOLEAN, Sample(sync) PROVE Typed'
  <2>1. recording \in Names /\ stopping = "no"
    BY <1>4, <1>t DEF Sample, Idle
  <2>2. ridePart[recording].written \in 0..MaxSamples /\ ridePart[recording].synced \in 0..MaxSamples
    BY <2>1, RecordingPart
  <2>3. ridePart[recording].written + 1 \in 0..MaxSamples
    BY <1>4, <2>2, RideConstants DEF Sample
  <2>4. ridePart' \in [Names -> Parts \cup {Absent}]
    <3> DEFINE new == [written |-> ridePart[recording].written + 1,
                       synced |-> IF sync THEN ridePart[recording].written + 1 ELSE ridePart[recording].synced]
    <3>1. new \in Parts
      BY <2>2, <2>3 DEF Parts
    <3>2. ridePart' = [ridePart EXCEPT ![recording] = new]
      BY <1>4 DEF Sample
    <3> QED
      BY <1>t, <3>1, <3>2
  <2> QED
    BY <1>t, <1>4, <2>4 DEF Sample
<1>5. CASE CloseRide
  <2>1. recording \in Names /\ stopping = "close"
    BY <1>5 DEF CloseRide, RideSteps
  <2>2. ridePart[recording] \in Parts /\ ridePart[recording].written \in 0..MaxSamples
    BY <2>1, RecordingPart
  <2>3. [ridePart[recording] EXCEPT !.synced = ridePart[recording].written] \in Parts
    BY <2>2 DEF Parts
  <2>4. [ridePart EXCEPT ![recording].synced = ridePart[recording].written] \in [Names -> Parts \cup {Absent}]
    BY <2>3, <1>t
  <2> QED
    BY <1>t, <1>5, <2>4 DEF CloseRide, RideAbort, Notices
<1>6. CASE StatRide
  BY <1>t, <1>6 DEF StatRide, RideAbort, Notices
<1>7. CASE PublishRide
  <2>1. recording \in Names /\ stopping = "publish"
    BY <1>7 DEF PublishRide, RideSteps
  <2>2. ridePart[recording].synced \in 0..MaxSamples
    BY <2>1, RecordingPart
  <2> QED
    BY <1>t, <1>7, <2>2 DEF PublishRide, MoveRide, RideAbort, Notices
<1>8. CASE IndexRefused \/ IndexUnavailable \/ IndexReturns
  BY <1>t, <1>8 DEF IndexRefused, IndexUnavailable, IndexReturns, RideDone, Notices
<1>9. CASE IndexRecover \/ IndexWrite \/ FileStep \/ LoadHistory
  BY <1>t, <1>9 DEF IndexRecover, IndexWrite, FileStep, LoadHistory, rideVars
<1>10. CASE HistoryLoaded \/ CardLost
  BY <1>t, <1>10 DEF HistoryLoaded, CardLost
<1>11. CASE Reboot
  BY <1>t, <1>11 DEF Reboot, Notices
<1>12. CASE UNCHANGED allVars
  BY <1>t, <1>12 DEF allVars, rideVars
<1> HIDE DEF Typed
<1> QED
  BY <1>1, <1>2, <1>3, <1>4, <1>5, <1>6, <1>7, <1>8, <1>9, <1>10, <1>11, <1>12 DEF RideNext

-----------------------------------------------------------------------------
LEMMA RideStepsKept ==
    ASSUME RideTypeOK, RideSteps, [RideNext]_allVars
    PROVE  RideSteps'
<1> USE DEF RideSteps, RecoverSteps, Goto
<1>t. /\ recording \in Names \cup {NoRequest}
      /\ stopping \in {"no", "close", "statFinal", "publish", "index", "indexing"}
  BY DEF RideTypeOK
<1>1. CASE (\E n \in Names : RideStart(n)) \/ RideStartFails \/ SampleFails \/ RideStop
  BY <1>t, <1>1 DEF RideStart, RideStartFails, SampleFails, RideStop, RideAbort, Idle, vars
<1>2. CASE (\E sync \in BOOLEAN : Sample(sync)) \/ CardLost \/ UNCHANGED allVars
  BY <1>t, <1>2 DEF Sample, CardLost, allVars, rideVars, vars
<1>3. CASE CloseRide \/ StatRide \/ PublishRide
  BY <1>t, <1>3 DEF CloseRide, StatRide, PublishRide, RideAbort, vars
<1>4. CASE IndexRefused \/ IndexRecover \/ IndexWrite
  BY <1>t, <1>4 DEF IndexRefused, IndexRecover, CallRecover, IndexWrite, RideDone, rideVars, vars
<1>5. CASE IndexUnavailable \/ IndexReturns
  BY <1>t, <1>5 DEF IndexUnavailable, IndexReturns, RecoverReturns, ReplaceReturns, RideDone
<1>6. CASE FileStep
  <2>1. rideVars' = rideVars
    BY <1>6 DEF FileStep
  <2>2. step # "idle" /\ step' # "idle"
    BY <1>6 DEF FileStep, WriteFails, WriteSucceeds, CommitStep, CloseSynced, StatFinal, RemoveBackup, MoveFinal,
        Publish, Restore, RecoverStep, RecoverStatFinal, RecoverBackup
  <2>3. step \in RecoverSteps => step' \in RecoverSteps
    BY <1>6 DEF FileStep, WriteFails, WriteSucceeds, CommitStep, CloseSynced, StatFinal, RemoveBackup, MoveFinal,
        Publish, Restore, RecoverStep, RecoverStatFinal, RecoverBackup
  <2> QED
    BY <1>t, <2>1, <2>2, <2>3 DEF rideVars
<1>7. CASE LoadHistory \/ HistoryLoaded \/ Reboot
  BY <1>t, <1>7 DEF LoadHistory, HistoryLoaded, Reboot, CallRecover, RecoverReturns, PowerLoss, rideVars
<1> QED
  BY <1>1, <1>2, <1>3, <1>4, <1>5, <1>6, <1>7 DEF RideNext

LEMMA RideNamedKept ==
    ASSUME RideTypeOK, RideSteps, RideNamed, [RideNext]_allVars
    PROVE  RideNamed'
<1>t. /\ recording \in Names \cup {NoRequest} /\ NoRequest \notin Names
      /\ ridePart \in [Names -> Parts \cup {Absent}]
      /\ rideFile \in [Names -> 0..MaxSamples \cup {Absent}]
      /\ Absent \notin Parts
      /\ Absent \notin 0..MaxSamples
  BY RideConstants DEF RideTypeOK
<1>1. ASSUME NEW n \in Names, RideStart(n) PROVE RideNamed'
  <2>1. ridePart'[n] # Absent
    BY <1>1, <1>t, NewPart DEF RideStart
  <2> QED
    BY <1>1, <2>1 DEF RideStart, RideNamed, NextFree, Free, Idle
<1>2. CASE RideStartFails \/ SampleFails
  BY <1>t, <1>2 DEF RideStartFails, SampleFails, RideAbort, RideNamed
<1>3. CASE RideStop \/ StatRide
  BY <1>t, <1>3 DEF RideStop, StatRide, RideNamed, RideAbort, Idle
<1>4. ASSUME NEW sync \in BOOLEAN, Sample(sync) PROVE RideNamed'
  <2>1. recording \in Names /\ stopping = "no"
    BY <1>4, <1>t DEF Sample, Idle
  <2> DEFINE new == [written |-> ridePart[recording].written + 1,
                     synced |-> IF sync THEN ridePart[recording].written + 1 ELSE ridePart[recording].synced]
  <2>2. ridePart' = [ridePart EXCEPT ![recording] = new]
    BY <1>4 DEF Sample
  <2>3. new # Absent
    <3>1. ridePart'[recording] = new
      BY <1>t, <2>1, <2>2
    <3>2. ridePart[recording].written \in 0..MaxSamples /\ ridePart[recording].synced \in 0..MaxSamples
      BY <2>1, RecordingPart
    <3>3. ridePart[recording].written + 1 \in 0..MaxSamples
      BY <1>4, <3>2, RideConstants DEF Sample
    <3>4. new \in Parts
      BY <3>2, <3>3 DEF Parts
    <3> QED
      BY <1>t, <3>4
  <2> QED
    BY <1>4, <1>t, <2>1, <2>2, <2>3 DEF Sample, RideNamed
<1>5. CASE CloseRide
  <2>1. recording \in Names /\ stopping = "close"
    BY <1>5 DEF CloseRide, RideSteps
  <2>2. ridePart[recording] \in Parts /\ ridePart[recording].written \in 0..MaxSamples
    BY <2>1, RecordingPart
  <2>3. [ridePart[recording] EXCEPT !.synced = ridePart[recording].written] \in Parts
    BY <2>2 DEF Parts
  <2>4. [ridePart EXCEPT ![recording].synced = ridePart[recording].written][recording] # Absent
    BY <2>1, <2>3, <1>t
  <2> QED
    BY <1>t, <1>5, <2>1, <2>4 DEF CloseRide, RideAbort, RideNamed
<1>6. CASE PublishRide
  <2>1. recording \in Names /\ stopping = "publish"
    BY <1>6 DEF PublishRide, RideSteps
  <2>2. ridePart[recording].synced \in 0..MaxSamples
    BY <2>1, RecordingPart
  <2>3. MoveRide => rideFile'[recording] # Absent
    BY <1>t, <2>1, <2>2 DEF MoveRide
  <2> QED
    BY <1>t, <1>6, <2>1, <2>3 DEF PublishRide, RideAbort, RideNamed
<1>7. CASE IndexRefused \/ IndexUnavailable \/ IndexReturns
  BY <1>t, <1>7 DEF IndexRefused, IndexUnavailable, IndexReturns, RideDone, RideNamed
<1>8. CASE IndexRecover \/ IndexWrite \/ FileStep \/ LoadHistory
  BY <1>t, <1>8 DEF IndexRecover, IndexWrite, FileStep, LoadHistory, rideVars, RideNamed
<1>9. CASE HistoryLoaded \/ CardLost \/ Reboot \/ UNCHANGED allVars
  BY <1>t, <1>9 DEF HistoryLoaded, CardLost, Reboot, allVars, rideVars, RideNamed
<1> QED
  BY <1>1, <1>2, <1>3, <1>4, <1>5, <1>6, <1>7, <1>8, <1>9 DEF RideNext

-----------------------------------------------------------------------------
\* What a step may do to the two files of a ride: begin the temporary file, let
\* it grow, publish what it holds, or lose one that was never synced.
PartBegins(n) ==
    /\ ridePart[n] = Absent /\ ridePart'[n] = [written |-> 0, synced |-> 0]
    /\ rideFile'[n] = rideFile[n]
PartGrows(n) ==
    /\ ridePart[n] # Absent /\ ridePart'[n] # Absent
    /\ ridePart[n].synced <= ridePart'[n].synced /\ ridePart'[n].synced <= ridePart'[n].written
    /\ rideFile'[n] = rideFile[n]
PartPublished(n) ==
    /\ ridePart[n] # Absent /\ ridePart'[n] = Absent
    /\ rideFile[n] = Absent /\ rideFile'[n] = ridePart[n].synced
PartLost(n) ==
    /\ ridePart[n] # Absent /\ ridePart[n].synced = 0 /\ ridePart'[n] = Absent
    /\ rideFile'[n] = rideFile[n]
PartSame(n) == ridePart'[n] = ridePart[n] /\ rideFile'[n] = rideFile[n]
PartMoves(n) == PartBegins(n) \/ PartGrows(n) \/ PartPublished(n) \/ PartLost(n) \/ PartSame(n)

LEMMA PartOf ==
    ASSUME RideTypeOK, NEW n \in Names, ridePart[n] # Absent
    PROVE  ridePart[n] \in Parts /\ ridePart[n].written \in Nat /\ ridePart[n].synced \in Nat
<1>1. ridePart[n] \in Parts
  BY DEF RideTypeOK
<1> QED
  BY <1>1 DEF Parts

LEMMA SampleMoves ==
    ASSUME RideTypeOK, RideNamed, SyncedAreWritten, NEW sync \in BOOLEAN, Sample(sync), NEW n \in Names
    PROVE  PartGrows(n) \/ PartSame(n)
<1>t. ridePart \in [Names -> Parts \cup {Absent}] /\ recording \in Names \cup {NoRequest} /\ Absent \notin Parts
  BY RideConstants DEF RideTypeOK
<1>1. recording \in Names /\ stopping = "no"
  BY <1>t DEF Sample, Idle
<1>2. /\ ridePart[recording] \in Parts
      /\ ridePart[recording].written \in 0..MaxSamples /\ ridePart[recording].synced \in 0..MaxSamples
  BY <1>1, RecordingPart
<1>3. ridePart[recording].synced <= ridePart[recording].written
  BY <1>1, <1>2, <1>t DEF SyncedAreWritten
<1> DEFINE new == [written |-> ridePart[recording].written + 1,
                   synced |-> IF sync THEN ridePart[recording].written + 1 ELSE ridePart[recording].synced]
<1>4. ridePart' = [ridePart EXCEPT ![recording] = new] /\ rideFile' = rideFile
  BY DEF Sample
<1>5. new \in Parts
  <2>1. ridePart[recording].written + 1 \in 0..MaxSamples
    BY <1>2, RideConstants DEF Sample
  <2> QED
    BY <1>2, <2>1 DEF Parts
<1>6. ridePart[recording].synced <= new.synced /\ new.synced <= new.written
  BY <1>2, <1>3
<1>7. n # recording => PartSame(n)
  BY <1>t, <1>4 DEF PartSame
<1>8. n = recording => PartGrows(n)
  <2> HIDE DEF new
  <2> QED
    BY <1>t, <1>1, <1>2, <1>4, <1>5, <1>6 DEF PartGrows
<1> QED
  BY <1>7, <1>8

LEMMA CloseMoves ==
    ASSUME RideTypeOK, RideSteps, RideNamed, SyncedAreWritten, CloseRide, NEW n \in Names
    PROVE  PartGrows(n) \/ PartSame(n)
<1>t. ridePart \in [Names -> Parts \cup {Absent}] /\ Absent \notin Parts
  BY RideConstants DEF RideTypeOK
<1>1. recording \in Names /\ stopping = "close"
  BY DEF CloseRide, RideSteps
<1>2. /\ ridePart[recording] \in Parts
      /\ ridePart[recording].written \in 0..MaxSamples /\ ridePart[recording].synced \in 0..MaxSamples
  BY <1>1, RecordingPart
<1>3. ridePart[recording].synced <= ridePart[recording].written
  BY <1>1, <1>2, <1>t DEF SyncedAreWritten
<1> DEFINE new == [ridePart[recording] EXCEPT !.synced = ridePart[recording].written]
<1>4. /\ rideFile' = rideFile
      /\ ridePart' = ridePart \/ ridePart' = [ridePart EXCEPT ![recording] = new]
  BY DEF CloseRide
<1>5. new \in Parts /\ new.synced = ridePart[recording].written /\ new.written = ridePart[recording].written
  BY <1>2 DEF Parts
<1>6. ridePart[recording].synced <= new.synced /\ new.synced <= new.written
  BY <1>2, <1>3, <1>5
<1>7. ridePart' = ridePart \/ n # recording => PartSame(n)
  BY <1>t, <1>4 DEF PartSame
<1>8. n = recording /\ ridePart' # ridePart => PartGrows(n)
  <2> HIDE DEF new
  <2> QED
    BY <1>t, <1>1, <1>2, <1>4, <1>5, <1>6 DEF PartGrows
<1> QED
  BY <1>7, <1>8

LEMMA RebootMoves ==
    ASSUME RideTypeOK, SyncedAreWritten, Reboot, NEW n \in Names
    PROVE  PartGrows(n) \/ PartLost(n) \/ PartSame(n)
<1>1. rideFile' = rideFile /\ ridePart'[n] \in AfterPowerLoss(ridePart[n])
  BY DEF Reboot
<1>2. CASE ridePart[n] = Absent
  BY <1>1, <1>2 DEF AfterPowerLoss, PartSame
<1>3. CASE ridePart[n] # Absent
  <2>1. ridePart[n] \in Parts /\ ridePart[n].written \in Nat /\ ridePart[n].synced \in Nat
    BY <1>3, PartOf
  <2>2. CASE ridePart'[n] = [ridePart[n] EXCEPT !.written = ridePart[n].synced]
    <3>1. ridePart'[n] \in Parts /\ ridePart'[n].synced = ridePart[n].synced /\ ridePart'[n].written = ridePart[n].synced
      BY <2>1, <2>2 DEF Parts
    <3>2. ridePart'[n] # Absent
      BY <3>1, RideConstants
    <3> QED
      BY <1>1, <1>3, <2>1, <3>1, <3>2 DEF PartGrows
  <2>3. CASE ridePart[n].synced = 0 /\ ridePart'[n] = Absent
    BY <1>1, <1>3, <2>3 DEF PartLost
  <2> QED
    BY <1>1, <1>3, <2>2, <2>3 DEF AfterPowerLoss
<1> QED
  BY <1>2, <1>3

LEMMA RideMoves ==
    ASSUME RideTypeOK, RideSteps, RideNamed, SyncedAreWritten, [RideNext]_allVars, NEW n \in Names
    PROVE  PartMoves(n)
<1>t. /\ ridePart \in [Names -> Parts \cup {Absent}]
      /\ rideFile \in [Names -> 0..MaxSamples \cup {Absent}]
  BY DEF RideTypeOK
<1>1. ASSUME NEW m \in Names, RideStart(m) PROVE PartMoves(n)
  BY <1>1, <1>t DEF RideStart, NextFree, Free, PartMoves, PartBegins, PartSame
<1>2. CASE RideStartFails
  BY <1>2, <1>t DEF RideStartFails, NextFree, Free, PartMoves, PartBegins, PartSame
<1>3. CASE SampleFails \/ RideStop \/ StatRide
  BY <1>3 DEF SampleFails, RideStop, StatRide, PartMoves, PartSame
<1>4. ASSUME NEW sync \in BOOLEAN, Sample(sync) PROVE PartMoves(n)
  BY <1>4, SampleMoves DEF PartMoves
<1>5. CASE CloseRide
  BY <1>5, CloseMoves DEF PartMoves
<1>6. CASE PublishRide
  <2>1. recording \in Names /\ stopping = "publish"
    BY <1>6 DEF PublishRide, RideSteps
  <2>2. ridePart[recording] # Absent /\ rideFile[recording] = Absent
    BY <2>1 DEF RideNamed
  <2>3. CASE MoveRide
    BY <1>t, <2>1, <2>2, <2>3 DEF MoveRide, PartMoves, PartPublished, PartSame
  <2>4. CASE UNCHANGED <<ridePart, rideFile>>
    BY <2>4 DEF PartMoves, PartSame
  <2> QED
    BY <1>6, <2>3, <2>4 DEF PublishRide
<1>7. CASE IndexRefused \/ IndexUnavailable \/ IndexReturns \/ IndexRecover \/ IndexWrite
  BY <1>7 DEF IndexRefused, IndexUnavailable, IndexReturns, IndexRecover, IndexWrite, rideVars, PartMoves, PartSame
<1>8. CASE FileStep \/ LoadHistory \/ HistoryLoaded \/ CardLost \/ UNCHANGED allVars
  BY <1>8 DEF FileStep, LoadHistory, HistoryLoaded, CardLost, allVars, rideVars, PartMoves, PartSame
<1>9. CASE Reboot
  BY <1>9, RebootMoves DEF PartMoves
<1> QED
  BY <1>1, <1>2, <1>3, <1>4, <1>5, <1>6, <1>7, <1>8, <1>9 DEF RideNext

LEMMA SyncedKept ==
    ASSUME RideTypeOK, SyncedAreWritten, \A n \in Names : PartMoves(n)
    PROVE  SyncedAreWritten'
<1> SUFFICES ASSUME NEW n \in Names, ridePart'[n] # Absent
             PROVE  ridePart'[n].synced <= ridePart'[n].written
  BY DEF SyncedAreWritten
<1> QED
  BY DEF SyncedAreWritten, PartMoves, PartBegins, PartGrows, PartPublished, PartLost, PartSame

\* A published ride stays as it is.
LEMMA FilesKept ==
    ASSUME NEW n \in Names, PartMoves(n), rideFile[n] # Absent
    PROVE  rideFile'[n] = rideFile[n]
BY DEF PartMoves, PartBegins, PartGrows, PartPublished, PartLost, PartSame

\* So rows that describe published rides go on doing so.
LEMMA ListedKept ==
    ASSUME NEW listing \in Seq(Names), Listed(listing), \A n \in Names : PartMoves(n)
    PROVE  \A i \in 1..Len(listing) : rideFile'[listing[i]] # Absent
<1> SUFFICES ASSUME NEW i \in 1..Len(listing) PROVE rideFile'[listing[i]] # Absent
  OBVIOUS
<1>1. listing[i] \in Names
  OBVIOUS
<1>2. rideFile[listing[i]] # Absent
  BY DEF Listed
<1> QED
  BY <1>1, <1>2, FilesKept

-----------------------------------------------------------------------------
LEMMA DocumentTypes ==
    ASSUME IInv
    PROVE  /\ Document \in Contents \cup {Absent}
           /\ Rows(Document) \in Seq(Names)
           /\ request # NoRequest => request \in Seq(Names) /\ Rows(request) = request
<1>1. Document \in Contents \cup {Absent}
  BY DEF IInv, TypeOK, NeverTorn, Document
<1>2. request # NoRequest => request \in Contents
  BY DEF IInv, TypeOK
<1> QED
  BY <1>1, <1>2, RideConstants, StorageConstants DEF Rows

\* A file operation leaves the requested index alone, whatever it does.
LEMMA FileStepKeepsRequest == ASSUME FileStep PROVE request' = request /\ rideVars' = rideVars
BY DEF FileStep, WriteFails, WriteSucceeds, CommitStep, CloseSynced, StatFinal, RemoveBackup, MoveFinal,
    Publish, Restore, RecoverStep, RecoverStatFinal, RecoverBackup

\* An index that is being written stays the same until its replacement returns.
LEMMA RequestMoves ==
    ASSUME IInv, RideSteps, IndexRequested, [RideNext]_allVars
    PROVE  \/ request' = NoRequest
           \/ IndexWrite
           \/ request' = request /\ stopping' = stopping /\ recording' = recording
           \/ request' = request /\ request = NoRequest
<1>r. step \in {"idle", "recover", "recovered", "recoverFailed"} => request = NoRequest
  BY DEF IInv, CommitInv, CommitSteps
<1>1. CASE (\E n \in Names : RideStart(n)) \/ RideStartFails \/ SampleFails \/ RideStop
  BY <1>1, <1>r DEF RideStart, RideStartFails, SampleFails, RideStop, Idle, vars
<1>2. CASE (\E sync \in BOOLEAN : Sample(sync)) \/ CardLost \/ UNCHANGED allVars
  BY <1>2 DEF Sample, CardLost, allVars, rideVars, vars
<1>3. CASE CloseRide \/ StatRide \/ PublishRide \/ IndexRefused \/ IndexRecover
  BY <1>3, <1>r DEF CloseRide, StatRide, PublishRide, IndexRefused, IndexRecover, CallRecover, RideSteps, vars
<1>4. CASE IndexUnavailable \/ IndexReturns \/ LoadHistory \/ HistoryLoaded
  BY <1>4, <1>r DEF IndexUnavailable, IndexReturns, RecoverReturns, ReplaceReturns, LoadHistory, HistoryLoaded,
      CallRecover, rideVars
<1>5. CASE FileStep
  BY <1>5, FileStepKeepsRequest DEF rideVars
<1>6. CASE Reboot
  BY <1>6 DEF Reboot, PowerLoss
<1> QED
  BY <1>1, <1>2, <1>3, <1>4, <1>5, <1>6 DEF RideNext

\* ride_stop() comes to the index by publishing the ride.
LEMMA IndexingMoves ==
    ASSUME [RideNext]_allVars, stopping' \in {"index", "indexing"}
    PROVE  \/ PublishRide /\ MoveRide /\ recording' = recording
           \/ IndexWrite
           \/ stopping \in {"index", "indexing"} /\ request' = request /\ recording' = recording
<1>1. CASE (\E n \in Names : RideStart(n)) \/ RideStartFails \/ SampleFails \/ RideStop
  BY <1>1 DEF RideStart, RideStartFails, SampleFails, RideStop, RideAbort, Idle
<1>2. CASE (\E sync \in BOOLEAN : Sample(sync)) \/ CardLost \/ UNCHANGED allVars
  BY <1>2 DEF Sample, CardLost, Idle, allVars, rideVars, vars
<1>3. CASE CloseRide \/ StatRide \/ IndexRefused \/ IndexRecover
  BY <1>3 DEF CloseRide, StatRide, IndexRefused, IndexRecover, CallRecover, RideAbort, RideDone, vars
<1>4. CASE PublishRide
  BY <1>4 DEF PublishRide, RideAbort
<1>5. CASE IndexUnavailable \/ IndexReturns \/ LoadHistory \/ HistoryLoaded
  BY <1>5 DEF IndexUnavailable, IndexReturns, LoadHistory, HistoryLoaded, RideDone, rideVars
<1>6. CASE FileStep
  BY <1>6, FileStepKeepsRequest DEF rideVars
<1>7. CASE Reboot
  BY <1>7 DEF Reboot
<1> QED
  BY <1>1, <1>2, <1>3, <1>4, <1>5, <1>6, <1>7 DEF RideNext

LEMMA ListedNext ==
    ASSUME IInv, IndexListed, IndexRequested, [RideNext]_allVars, \A n \in Names : PartMoves(n)
    PROVE  /\ IndexListed'
           /\ request # NoRequest => \A i \in 1..Len(request) : rideFile'[request[i]] # Absent
<1>1. Rows(Document) \in Seq(Names) /\ Listed(Rows(Document))
  BY DocumentTypes DEF IndexListed
<1>2. \A i \in 1..Len(Rows(Document)) : rideFile'[Rows(Document)[i]] # Absent
  BY <1>1, ListedKept
<1>3. ASSUME request # NoRequest
      PROVE  /\ request \in Seq(Names) /\ Rows(request) = request /\ OneRowEach(request)
             /\ \A i \in 1..Len(request) : rideFile'[request[i]] # Absent
  <2>1. request \in Seq(Names) /\ Rows(request) = request /\ Listed(request)
    BY <1>3, DocumentTypes DEF IndexRequested
  <2>2. \A i \in 1..Len(request) : rideFile'[request[i]] # Absent
    BY <2>1, ListedKept
  <2> QED
    BY <2>1, <2>2 DEF Listed
<1>4. CASE Document' = Document
  <2>1. Rows(Document)' = Rows(Document)
    BY <1>4 DEF Rows
  <2> QED
    BY <1>1, <1>2, <1>3, <2>1 DEF IndexListed, Listed, OneRowEach
<1>5. CASE request # NoRequest /\ Document' = request
  <2>1. Rows(Document)' = request
    BY <1>3, <1>5 DEF Rows
  <2> QED
    BY <1>3, <1>5, <2>1 DEF IndexListed, Listed, OneRowEach
<1> QED
  BY <1>4, <1>5, IndexChanges

LEMMA RequestedNext ==
    ASSUME IInv, RideSteps, RideNamed, IndexListed, IndexRequested, NotYetIndexed, [RideNext]_allVars,
           \A n \in Names : PartMoves(n)
    PROVE  IndexRequested'
<1>1. CASE request' = NoRequest
  BY <1>1 DEF IndexRequested
<1>2. CASE IndexWrite
  <2>1. /\ Rows(Document) \in Seq(Names) /\ recording \in Names
        /\ request' = Append(Rows(Document), recording) /\ Listed(request')
    BY <1>2, NewIndex
  <2>2. Document' = Document /\ UNCHANGED rideVars /\ stopping = "indexing"
    BY <1>2 DEF IndexWrite, Document
  <2>3. Rows(Document)' = Rows(Document)
    BY <2>2 DEF Rows
  <2>4. request' # <<>> /\ request'[Len(request')] = recording
    BY <2>1
  <2> QED
    BY <2>1, <2>2, <2>3, <2>4 DEF IndexRequested, Listed, rideVars
<1>3. CASE request # NoRequest /\ request' = request /\ stopping' = stopping /\ recording' = recording
  <2>1. /\ stopping = "indexing" /\ OneRowEach(request)
        /\ request # <<>> /\ request[Len(request)] = recording
        /\ Document = request \/ request = Append(Rows(Document), recording)
    BY <1>3 DEF IndexRequested, Listed
  <2>2. \A i \in 1..Len(request) : rideFile'[request[i]] # Absent
    BY <1>3, ListedNext
  <2>3. Listed(request)'
    BY <1>3, <2>1, <2>2 DEF Listed, OneRowEach
  <2>4. Document' = request \/ request = Append(Rows(Document)', recording)
    BY <2>1, IndexChanges DEF Rows
  <2> QED
    BY <1>3, <2>1, <2>3, <2>4 DEF IndexRequested
<1> QED
  BY <1>1, <1>2, <1>3, RequestMoves

LEMMA NotYetNext ==
    ASSUME IInv, RideSteps, RideNamed, IndexListed, IndexRequested, NotYetIndexed, [RideNext]_allVars
    PROVE  NotYetIndexed'
<1> SUFFICES ASSUME stopping' \in {"index", "indexing"}, request' = NoRequest
             PROVE  recording' \notin Indexed'
  BY DEF NotYetIndexed
<1>1. CASE PublishRide /\ recording' = recording
  <2>1. recording \in Names /\ stopping = "publish"
    BY <1>1 DEF PublishRide, RideSteps
  <2>2. rideFile[recording] = Absent
    BY <2>1 DEF RideNamed
  <2>3. Document' = Document
    BY <1>1 DEF PublishRide, vars, Document
  <2>4. Indexed' = Indexed
    BY <2>3 DEF Indexed, Rows
  <2> QED
    BY <1>1, <2>2, <2>4 DEF Indexed, IndexListed, Listed
<1>2. CASE IndexWrite
  <2>1. request' \in Contents
    BY <1>2, NewIndex
  <2> QED
    BY <2>1, StorageConstants
<1>3. CASE stopping \in {"index", "indexing"} /\ request' = request /\ recording' = recording
  <2>1. Document' = Document
    BY <1>3, IndexChanges
  <2>2. Indexed' = Indexed
    BY <2>1 DEF Indexed, Rows
  <2> QED
    BY <1>3, <2>2 DEF NotYetIndexed
<1> QED
  BY <1>1, <1>2, <1>3, IndexingMoves

LEMMA RideInitially == RideInit => RideIInv
<1> SUFFICES ASSUME RideInit PROVE RideIInv
  OBVIOUS
<1>1. IInv
  BY InitIInv DEF RideInit
<1>2. RideTypeOK
  BY <1>1 DEF RideInit, RideTypeOK, IInv, Notices
<1>3. RideSteps /\ RideNamed /\ SyncedAreWritten
  BY RideConstants DEF RideInit, Init, RideSteps, RideNamed, SyncedAreWritten
<1>4. Document = Absent /\ request = NoRequest
  BY DEF RideInit, Init, Document
<1>5. Rows(Document) = <<>>
  BY <1>4 DEF Rows
<1> QED
  BY <1>1, <1>2, <1>3, <1>4, <1>5
  DEF RideIInv, IndexListed, Listed, OneRowEach, IndexRequested, NotYetIndexed, RideInit

LEMMA RideStep == RideIInv /\ [RideNext]_allVars => RideIInv'
<1> SUFFICES ASSUME RideIInv, [RideNext]_allVars PROVE RideIInv'
  OBVIOUS
<1> USE DEF RideIInv
<1>1. IInv'
  BY RideKeepsFiles
<1>2. RideTypeOK'
  BY <1>1, RideTypesKept
<1>3. RideSteps'
  BY RideStepsKept
<1>4. RideNamed'
  BY RideNamedKept
<1>5. \A n \in Names : PartMoves(n)
  BY RideMoves
<1>6. SyncedAreWritten'
  BY <1>5, SyncedKept
<1>7. IndexListed' /\ IndexRequested'
  BY <1>5, ListedNext, RequestedNext
<1>8. NotYetIndexed'
  BY NotYetNext
<1> QED
  BY <1>1, <1>2, <1>3, <1>4, <1>6, <1>7, <1>8

LEMMA RideIInvAlways == RideSpec => []RideIInv
BY RideInitially, RideStep, PTL DEF RideSpec

-----------------------------------------------------------------------------
\* Different rows are counted by their number.
LEMMA RowsCount ==
    ASSUME NEW listing \in Seq(Names), OneRowEach(listing)
    PROVE  Cardinality({listing[i] : i \in 1..Len(listing)}) = Len(listing)
<1> DEFINE S == {listing[i] : i \in 1..Len(listing)}
<1> DEFINE f == [i \in 1..Len(listing) |-> listing[i]]
<1>1. f \in Bijection(1..Len(listing), S)
  <2>1. f \in [1..Len(listing) -> S]
    OBVIOUS
  <2>2. \A i, j \in 1..Len(listing) : f[i] = f[j] => i = j
    BY DEF OneRowEach
  <2>3. \A s \in S : \E i \in 1..Len(listing) : f[i] = s
    OBVIOUS
  <2> QED
    BY <2>1, <2>2, <2>3, Fun_IsBij
<1>2. Len(listing) \in Nat
  OBVIOUS
<1>3. ExistsBijection(1..Len(listing), S)
  BY <1>1, Fun_ExistsBij
<1> QED
  BY <1>2, <1>3, FS_CountingElements

\* The rows of the history index are different rides, and every one of them is
\* published (ride_stop publishes first and appends the row after it).
THEOREM RidesAreIndexed == RideSpec => []RideInv
<1>1. RideIInv => RideInv
  <2> SUFFICES ASSUME RideIInv PROVE IndexMatchesRides
    BY DEF RideIInv, RideInv
  <2> DEFINE listing == Rows(Document)
  <2>1. listing \in Seq(Names)
    BY DocumentTypes DEF RideIInv
  <2>2. OneRowEach(listing) /\ \A i \in 1..Len(listing) : rideFile[listing[i]] # Absent
    BY DEF RideIInv, IndexListed, Listed
  <2>3. Indexed = {listing[i] : i \in 1..Len(listing)}
    BY DEF Indexed
  <2> HIDE DEF listing
  <2>4. Cardinality(Indexed) = Len(listing)
    BY <2>1, <2>2, <2>3, RowsCount
  <2>5. \A n \in Indexed : rideFile[n] # Absent
    BY <2>2, <2>3
  <2> USE DEF listing
  <2> QED
    BY <2>4, <2>5 DEF IndexMatchesRides
<1> QED
  BY <1>1, RideIInvAlways, PTL

\* "Ride saved safely" is said only of a ride whose file is published and whose
\* row is in the index on the card.
THEOREM SavedIsBoth == RideSpec => SavedMeansBoth
<1>1. ASSUME RideIInv, [RideNext]_allVars, notice' = "saved", notice # "saved"
      PROVE  rideFile[recording] # Absent /\ recording \in Indexed
  <2>1. IndexReturns /\ step = "done"
    BY <1>1 DEF RideNext, RideStart, RideStartFails, SampleFails, RideStop, RideAbort, Sample, CloseRide,
        StatRide, PublishRide, IndexRefused, IndexRecover, IndexWrite, IndexUnavailable, IndexReturns,
        RideDone, FileStep, LoadHistory, HistoryLoaded, CardLost, Reboot, allVars, rideVars
  <2>2. request \in Contents /\ final = request
    BY <1>1, <2>1 DEF RideIInv, IInv, CommitInv, CommitSteps
  <2>3. request # NoRequest /\ Document = request
    BY <2>2, StorageConstants DEF Document
  <2>4. request \in Seq(Names) /\ Rows(Document) = request
    BY <1>1, <2>3, DocumentTypes DEF RideIInv
  <2>5. /\ recording \in Names /\ rideFile[recording] # Absent
        /\ request # <<>> /\ request[Len(request)] = recording
    BY <1>1, <2>1, <2>3 DEF RideIInv, IndexRequested, RideSteps, RideNamed, IndexReturns
  <2>6. Len(request) \in 1..Len(request)
    BY <2>4, <2>5
  <2> QED
    BY <2>4, <2>5, <2>6 DEF Indexed
<1> QED
  BY <1>1, RideIInvAlways, PTL DEF RideSpec, SavedMeansBoth

\* A published ride is never touched again, synced samples are never lost, and
\* the history only grows by one row at its end, also through a power loss.
THEOREM RidesAreKept == RideSpec => RidesKept
<1>1. ASSUME RideIInv, [RideNext]_allVars
      PROVE  \/ Rows(Document') = Rows(Document)
             \/ \E n \in Names : Rows(Document') = Append(Rows(Document), n)
  <2>1. CASE Document' = Document
    BY <2>1
  <2>2. CASE request # NoRequest /\ Document' = request
    <3>1. Rows(request) = request
      BY <1>1, <2>2, DocumentTypes DEF RideIInv
    <3>2. recording \in Names /\ (Document = request \/ request = Append(Rows(Document), recording))
      BY <1>1, <2>2 DEF RideIInv, IndexRequested, RideSteps
    <3> QED
      BY <2>2, <3>1, <3>2
  <2> QED
    BY <1>1, <2>1, <2>2, IndexChanges DEF RideIInv
<1>2. ASSUME RideIInv, [RideNext]_allVars
      PROVE  \A n \in Names :
               /\ rideFile[n] # Absent => rideFile'[n] = rideFile[n]
               /\ ridePart[n] # Absent =>
                    \/ ridePart[n].synced = 0
                    \/ ridePart'[n] # Absent /\ ridePart'[n].synced >= ridePart[n].synced
                    \/ rideFile'[n] # Absent /\ rideFile'[n] >= ridePart[n].synced
  <2> TAKE n \in Names
  <2>1. PartMoves(n)
    BY <1>2, RideMoves DEF RideIInv
  <2>2. rideFile[n] # Absent => rideFile'[n] = rideFile[n]
    BY <2>1, FilesKept
  <2>3. ASSUME ridePart[n] # Absent
        PROVE  \/ ridePart[n].synced = 0
               \/ ridePart'[n] # Absent /\ ridePart'[n].synced >= ridePart[n].synced
               \/ rideFile'[n] # Absent /\ rideFile'[n] >= ridePart[n].synced
    <3>1. ridePart[n] \in Parts /\ ridePart[n].synced \in 0..MaxSamples
      BY <1>2, <2>3 DEF RideIInv, RideTypeOK, Parts
    <3>2. ridePart[n].synced # Absent
      BY <3>1, RideConstants
    <3> QED
      BY <2>1, <2>3, <3>1, <3>2 DEF PartMoves, PartBegins, PartGrows, PartPublished, PartLost, PartSame
  <2> QED
    BY <2>2, <2>3
<1> QED
  BY <1>1, <1>2, RideIInvAlways, PTL DEF RideSpec, RidesKept, HistoryGrows

(***************************************************************************)
(* The serial terminal.  Copied(r, s, a, b) says that r is what s has      *)
(* behind position a up to position b.                                     *)
(***************************************************************************)

Copied(r, s, a, b) ==
    /\ a <= b /\ b <= Len(s) /\ Len(r) = b - a
    /\ \A i \in 1..Len(r) : r[i] = s[a + i]

UartReading == {"tick", "start capture", "freeze", "stop"}
WindowStates == {"empty", "active", "frozen", "overflow", "error"}
LogStates == {"none", "tmp", "csv"}

UartFlags == running \in BOOLEAN /\ pageOpen \in BOOLEAN
UartShape ==
    /\ fifo \in Seq(Nat) /\ Len(fifo) <= RxBuffer /\ delivered \in Seq(Nat)
    /\ arrived \in 0..MaxBytes /\ sends \in 0..MaxSends
    /\ capture \in [state : WindowStates, bytes : Seq(Nat)] /\ Len(capture.bytes) <= CaptureMax
    /\ window \in [from : Nat, upto : Nat]
    /\ doing \in [step : UartReading \cup {"idle", "close"}, pass : Nat]
LogShape ==
    /\ log \in 0..LogNames /\ logs \in [1..LogNames -> [state : LogStates, rows : Seq(Nat)]]
    /\ traffic \in Seq(Nat) /\ span \in [1..LogNames -> [from : Nat, upto : Nat]]

\* A callback runs while the driver does, and no window collects that is to be
\* started or whose driver is about to go.
Callbacks ==
    /\ doing.step = "idle" => doing = UartIdle
    /\ doing.step # "idle" => running
    /\ ~running \/ doing.step \in {"start capture", "close"} => capture.state # "active"

\* While a window collects, its bytes are the ones the driver had since it began, up
\* to those that are still in its buffer.
Reached == window.from + Len(capture.bytes)
WindowExact ==
    capture.state = "active" =>
        /\ Copied(capture.bytes, delivered, window.from, Reached)
        /\ Copied(fifo, delivered, Reached, Len(delivered))
        /\ doing.step \in {"freeze", "stop"} => window.upto <= Len(delivered)
WindowFrozen ==
    capture.state = "frozen" =>
        Copied(capture.bytes, delivered, window.from, Reached) /\ window.upto <= Reached

\* The open log is a temporary file with the traffic since its start, a published one
\* has it up to its end, and a name no log has taken has no rows.
LogOpen ==
    log # 0 =>
        /\ running /\ logs[log].state = "tmp"
        /\ Copied(logs[log].rows, traffic, span[log].from, Len(traffic))
LogPublishedAt(n) == Copied(logs[n].rows, traffic, span[n].from, span[n].upto)
LogsExact ==
    \A n \in 1..LogNames :
        /\ logs[n].state = "csv" => LogPublishedAt(n)
        /\ logs[n].state = "none" => logs[n].rows = <<>>

UartIInv ==
    /\ UartFlags /\ UartShape /\ LogShape
    /\ Callbacks /\ WindowExact /\ WindowFrozen /\ LogOpen /\ LogsExact

LEMMA UartFacts ==
    /\ RxBuffer \in Nat /\ Chunk \in Nat /\ Passes \in Nat /\ CaptureMax \in Nat
    /\ LogNames \in Nat /\ MaxBytes \in Nat /\ MaxSends \in Nat
    /\ 0 \in 0..MaxBytes /\ 0 \in 0..MaxSends /\ 0 \in 0..LogNames
    /\ 0 < Chunk /\ 0 < CaptureMax
BY UartAssumption

\* What was copied stays so while the original grows at its end.
LEMMA CopiedStays ==
    ASSUME NEW r \in Seq(Nat), NEW s \in Seq(Nat), NEW t \in Seq(Nat),
           NEW a \in Nat, NEW b \in Nat, Copied(r, s, a, b)
    PROVE  Copied(r, s \o t, a, b)
<1>1. /\ Len(r) \in Nat /\ Len(s) \in Nat /\ Len(t) \in Nat
      /\ Len(s \o t) = Len(s) + Len(t)
      /\ \A i \in 1..Len(s) + Len(t) :
            (s \o t)[i] = IF i <= Len(s) THEN s[i] ELSE t[i - Len(s)]
  BY LenProperties, ConcatProperties
<1>2. a <= b /\ b <= Len(s) /\ Len(r) = b - a /\ \A i \in 1..Len(r) : r[i] = s[a + i]
  BY DEF Copied
<1>3. b <= Len(s \o t)
  BY <1>1, <1>2
<1>4. ASSUME NEW i \in 1..Len(r) PROVE r[i] = (s \o t)[a + i]
  <2>1. a + i \in 1..Len(s) + Len(t) /\ a + i <= Len(s)
    BY <1>1, <1>2
  <2> QED
    BY <1>1, <1>2, <2>1
<1> QED
  BY <1>2, <1>3, <1>4 DEF Copied

\* Two copies one behind the other are one.
LEMMA CopiedJoined ==
    ASSUME NEW r \in Seq(Nat), NEW q \in Seq(Nat), NEW s \in Seq(Nat),
           NEW a \in Nat, NEW b \in Nat, NEW c \in Nat, Copied(r, s, a, b), Copied(q, s, b, c)
    PROVE  Copied(r \o q, s, a, c)
<1>1. /\ Len(r) \in Nat /\ Len(q) \in Nat /\ Len(s) \in Nat
      /\ Len(r \o q) = Len(r) + Len(q)
      /\ \A i \in 1..Len(r) + Len(q) :
            (r \o q)[i] = IF i <= Len(r) THEN r[i] ELSE q[i - Len(r)]
  BY LenProperties, ConcatProperties
<1>2. /\ a <= b /\ b <= Len(s) /\ Len(r) = b - a /\ \A i \in 1..Len(r) : r[i] = s[a + i]
      /\ b <= c /\ c <= Len(s) /\ Len(q) = c - b /\ \A i \in 1..Len(q) : q[i] = s[b + i]
  BY DEF Copied
<1>3. a <= c /\ Len(r \o q) = c - a
  BY <1>1, <1>2
<1>4. ASSUME NEW i \in 1..Len(r \o q) PROVE (r \o q)[i] = s[a + i]
  <2>1. i \in 1..Len(r) + Len(q)
    BY <1>1
  <2>2. CASE i <= Len(r)
    <3>1. i \in 1..Len(r)
      BY <1>1, <2>1, <2>2
    <3> QED
      BY <1>1, <1>2, <2>1, <2>2, <3>1
  <2>3. CASE ~(i <= Len(r))
    <3>1. i - Len(r) \in 1..Len(q) /\ b + (i - Len(r)) = a + i
      BY <1>1, <1>2, <2>1, <2>3
    <3> QED
      BY <1>1, <1>2, <2>1, <2>3, <3>1
  <2> QED
    BY <2>2, <2>3
<1> QED
  BY <1>2, <1>3, <1>4 DEF Copied

\* What is appended to the original is copied by appending it to the copy.
LEMMA CopiedGrows ==
    ASSUME NEW r \in Seq(Nat), NEW s \in Seq(Nat), NEW t \in Seq(Nat),
           NEW a \in Nat, Copied(r, s, a, Len(s))
    PROVE  Copied(r \o t, s \o t, a, Len(s \o t))
<1>1. /\ Len(t) \in Nat /\ Len(s) \in Nat /\ s \o t \in Seq(Nat) /\ Len(s \o t) \in Nat
      /\ Len(s \o t) = Len(s) + Len(t)
      /\ \A i \in 1..Len(s) + Len(t) :
            (s \o t)[i] = IF i <= Len(s) THEN s[i] ELSE t[i - Len(s)]
  BY LenProperties, ConcatProperties
<1>2. ASSUME NEW i \in 1..Len(t) PROVE t[i] = (s \o t)[Len(s) + i]
  <2>1. Len(s) + i \in 1..Len(s) + Len(t) /\ ~(Len(s) + i <= Len(s)) /\ Len(s) + i - Len(s) = i
    BY <1>1
  <2> QED
    BY <1>1, <2>1
<1>3. Copied(t, s \o t, Len(s), Len(s \o t))
  <2>1. Len(s) <= Len(s \o t) /\ Len(s \o t) <= Len(s \o t) /\ Len(t) = Len(s \o t) - Len(s)
    BY <1>1
  <2> QED
    BY <1>2, <2>1 DEF Copied
<1>4. Copied(r, s \o t, a, Len(s))
  BY <1>1, CopiedStays
<1> QED
  BY <1>1, <1>3, <1>4, CopiedJoined

\* An empty copy, and a copy as the subsequence it is.
Between(s, a, b) == SubSeq(s, a + 1, b)
LEMMA CopiedNothing ==
    ASSUME NEW s \in Seq(Nat), NEW a \in Nat, a <= Len(s)
    PROVE  Copied(<<>>, s, a, a)
<1>1. Len(<<>>) = 0 /\ Len(s) \in Nat
  BY LenProperties
<1> QED
  BY <1>1 DEF Copied
LEMMA CopiedIsSubSeq ==
    ASSUME NEW r \in Seq(Nat), NEW s \in Seq(Nat), NEW a \in Nat, NEW b \in Nat, Copied(r, s, a, b)
    PROVE  r = Between(s, a, b)
<1>1. /\ a <= b /\ b <= Len(s) /\ Len(r) = b - a /\ Len(s) \in Nat
      /\ \A i \in 1..Len(r) : r[i] = s[a + i]
  BY LenProperties DEF Copied
<1>2. \A i \in a + 1..b : s[i] \in Nat
  <2> TAKE i \in a + 1..b
  <2>1. i \in 1..Len(s)
    BY <1>1
  <2> QED
    BY <2>1, ElementOfSeq
<1>3. a + 1 \in Int /\ b \in Int
  OBVIOUS
<1>4. /\ SubSeq(s, a + 1, b) \in Seq(Nat)
      /\ Len(SubSeq(s, a + 1, b)) = IF a + 1 <= b THEN b - (a + 1) + 1 ELSE 0
      /\ \A i \in 1..b - (a + 1) + 1 : SubSeq(s, a + 1, b)[i] = s[a + 1 + i - 1]
  BY <1>2, <1>3, SubSeqProperties
<1>5. Len(SubSeq(s, a + 1, b)) = Len(r)
  BY <1>1, <1>4
<1>6. ASSUME NEW i \in 1..Len(r) PROVE r[i] = SubSeq(s, a + 1, b)[i]
  <2>1. i \in 1..b - (a + 1) + 1 /\ a + 1 + i - 1 = a + i
    BY <1>1
  <2> QED
    BY <1>1, <1>4, <2>1
<1> QED
  BY <1>4, <1>5, <1>6, SeqEqual DEF Between

\* What a pass takes from the driver's buffer, and what it leaves there.
LEMMA ChunkTaken ==
    ASSUME UartShape, fifo # <<>>, NEW n, n = Least(Len(fifo), Chunk)
    PROVE  /\ n \in 1..Len(fifo)
           /\ Head2(fifo, n) \in Seq(Nat) /\ Len(Head2(fifo, n)) = n
           /\ \A i \in 1..n : Head2(fifo, n)[i] = fifo[i]
           /\ SubSeq(fifo, n + 1, Len(fifo)) \in Seq(Nat)
           /\ Len(SubSeq(fifo, n + 1, Len(fifo))) = Len(fifo) - n
           /\ \A i \in 1..Len(fifo) - n : SubSeq(fifo, n + 1, Len(fifo))[i] = fifo[n + i]
<1>0. fifo \in Seq(Nat)
  BY DEF UartShape
<1>1. fifo \in Seq(Nat) /\ Len(fifo) \in Nat /\ Len(fifo) > 0
  BY <1>0, EmptySeq
<1>2. n \in 1..Len(fifo)
  BY <1>1, UartFacts DEF Least
<1>3. \A i \in 1..n : fifo[i] \in Nat
  BY <1>1, <1>2
<1>4. /\ Head2(fifo, n) \in Seq(Nat) /\ Len(Head2(fifo, n)) = n
      /\ \A i \in 1..n : Head2(fifo, n)[i] = fifo[i]
  BY <1>2, <1>3, SubSeqProperties DEF Head2
<1>5. \A i \in n + 1..Len(fifo) : fifo[i] \in Nat
  BY <1>1, <1>2
<1> DEFINE left == SubSeq(fifo, n + 1, Len(fifo))
<1>6. n + 1 \in Int /\ Len(fifo) \in Int
  BY <1>1, <1>2
<1>7. /\ left \in Seq(Nat)
      /\ Len(left) = IF n + 1 <= Len(fifo) THEN Len(fifo) - (n + 1) + 1 ELSE 0
      /\ \A i \in 1..Len(fifo) - (n + 1) + 1 : left[i] = fifo[n + 1 + i - 1]
  BY <1>5, <1>6, SubSeqProperties
<1> HIDE DEF left
<1>8. Len(left) = Len(fifo) - n
  BY <1>1, <1>2, <1>7
<1>9. \A i \in 1..Len(fifo) - n : left[i] = fifo[n + i]
  <2> TAKE i \in 1..Len(fifo) - n
  <2>1. Len(fifo) - (n + 1) + 1 = Len(fifo) - n /\ n + 1 + i - 1 = n + i
    BY <1>1, <1>2
  <2> QED
    BY <1>7, <2>1
<1> QED
  BY <1>2, <1>4, <1>7, <1>8, <1>9 DEF left

\* capture_received(): the bytes are appended, or they are too many.
LEMMA CapturedBytes ==
    ASSUME UartShape, NEW bytes \in Seq(Nat), Len(bytes) \in Nat
    PROVE  /\ Captured(bytes) \in [state : WindowStates, bytes : Seq(Nat)]
           /\ Len(Captured(bytes).bytes) <= CaptureMax
           /\ Captured(bytes).state = "active" =>
                /\ capture.state = "active" /\ Len(bytes) <= CaptureMax - Len(capture.bytes)
                /\ Captured(bytes).bytes = capture.bytes \o bytes
           /\ Captured(bytes).state = "frozen" => Captured(bytes) = capture
<1>1. /\ capture \in [state : WindowStates, bytes : Seq(Nat)]
      /\ capture.bytes \in Seq(Nat) /\ capture.state \in WindowStates
      /\ Len(capture.bytes) \in Nat /\ Len(capture.bytes) <= CaptureMax
  <2>1. capture \in [state : WindowStates, bytes : Seq(Nat)] /\ Len(capture.bytes) <= CaptureMax
    BY DEF UartShape
  <2>2. capture.bytes \in Seq(Nat) /\ capture.state \in WindowStates
    BY <2>1
  <2> QED
    BY <2>1, <2>2, LenProperties
<1>2. CASE capture.state # "active"
  BY <1>1, <1>2 DEF Captured
<1>3. CASE capture.state = "active" /\ Len(bytes) > CaptureMax - Len(capture.bytes)
  <2>1. Captured(bytes) = [state |-> "overflow", bytes |-> <<>>]
    BY <1>3 DEF Captured, Failed
  <2> QED
    BY <2>1, UartFacts DEF WindowStates
<1>4. CASE capture.state = "active" /\ ~(Len(bytes) > CaptureMax - Len(capture.bytes))
  <2>1. Captured(bytes) = [capture EXCEPT !.bytes = capture.bytes \o bytes]
    BY <1>4 DEF Captured
  <2>2. capture.bytes \o bytes \in Seq(Nat) /\ Len(capture.bytes \o bytes) = Len(capture.bytes) + Len(bytes)
    BY <1>1
  <2>3. /\ Captured(bytes) \in [state : WindowStates, bytes : Seq(Nat)]
        /\ Captured(bytes).bytes = capture.bytes \o bytes /\ Captured(bytes).state = "active"
    BY <1>1, <1>4, <2>1, <2>2
  <2>4. Len(bytes) <= CaptureMax - Len(capture.bytes)
    BY <1>1, <1>4, UartFacts
  <2>5. Len(capture.bytes) + Len(bytes) <= CaptureMax
    BY <1>1, <2>4, UartFacts
  <2> QED
    BY <1>4, <2>2, <2>3, <2>4, <2>5
<1> QED
  BY <1>2, <1>3, <1>4

\* How a callback that has read leaves the window.
LEMMA WindowAfterRead ==
    ASSUME Callbacks, ReadDone
    PROVE  /\ UNCHANGED <<running, pageOpen, fifo, arrived, delivered, files, sends>>
           /\ doing' = UartIdle \/ (doing.step = "stop" /\ doing' = [doing EXCEPT !.step = "close"])
           /\ \/ capture' = capture /\ window' = window
                /\ (doing.step \in {"freeze", "stop"} => capture.state # "active")
              \/ /\ capture' = [state |-> "error", bytes |-> <<>>] /\ window' = window
              \/ /\ doing.step = "start capture" /\ fifo = <<>> /\ capture.state # "active"
                 /\ capture' = [state |-> "active", bytes |-> <<>>]
                 /\ window' = [from |-> Len(delivered), upto |-> 0]
              \/ /\ doing.step \in {"freeze", "stop"} /\ fifo = <<>> /\ capture.state = "active"
                 /\ capture' = [capture EXCEPT !.state = "frozen"] /\ window' = window
<1>1. UNCHANGED <<running, pageOpen, fifo, arrived, delivered, files, sends>>
  BY DEF ReadDone, driver
<1>2. PICK drained \in {"all", "error", "more"} : AfterRead(drained) /\ (drained = "all" => fifo = <<>>)
  BY DEF ReadDone
<1>3. window' = IF capture'.state = "active" /\ doing.step = "start capture"
                THEN [from |-> Len(delivered), upto |-> 0] ELSE window
  BY DEF ReadDone
<1>4. CASE doing.step = "tick"
  <2>1. /\ doing' = UartIdle
        /\ capture' = IF drained = "error" THEN Failed(capture, "error") ELSE capture
    BY <1>2, <1>4 DEF AfterRead
  <2> QED
    BY <1>1, <1>3, <1>4, <2>1 DEF Failed
<1>5. CASE doing.step = "start capture"
  <2>1. /\ doing' = UartIdle
        /\ capture' = IF drained = "all" THEN [state |-> "active", bytes |-> <<>>] ELSE capture
    BY <1>2, <1>5 DEF AfterRead
  <2>2. capture.state # "active"
    BY <1>5 DEF Callbacks
  <2> QED
    BY <1>1, <1>2, <1>3, <1>5, <2>1, <2>2
<1>6. CASE doing.step \in {"freeze", "stop"}
  <2>1. /\ doing' = IF doing.step = "stop" THEN [doing EXCEPT !.step = "close"] ELSE UartIdle
        /\ capture' = IF drained # "all" THEN Failed(capture, "error")
                      ELSE IF capture.state = "active" THEN [capture EXCEPT !.state = "frozen"]
                      ELSE capture
    BY <1>2, <1>6 DEF AfterRead
  <2>2. window' = window
    BY <1>3, <1>6
  <2>3. CASE drained = "all" /\ capture.state = "active"
    BY <1>1, <1>2, <1>6, <2>1, <2>2, <2>3
  <2>4. CASE capture.state # "active"
    BY <1>1, <1>6, <2>1, <2>2, <2>4 DEF Failed
  <2>5. CASE drained # "all" /\ capture.state = "active"
    BY <1>1, <1>6, <2>1, <2>2, <2>5 DEF Failed
  <2> QED
    BY <2>3, <2>4, <2>5
<1> QED
  BY <1>4, <1>5, <1>6 DEF ReadDone

\* A chunk goes into the traffic, and into the open log or the log is given up.
LEMMA LogRecorded ==
    ASSUME LogShape, LogOpen, LogsExact, running' = running,
           NEW bytes \in Seq(Nat), Shown(bytes)
    PROVE  LogShape' /\ LogOpen' /\ LogsExact'
<1>1. /\ traffic' = traffic \o bytes /\ span' = span
      /\ \/ log' = log /\ logs' = logs /\ log = 0
         \/ log' = log /\ logs' = [logs EXCEPT ![log].rows = @ \o bytes] /\ log # 0
         \/ log' = 0 /\ logs' = [logs EXCEPT ![log].rows = <<>>] /\ log # 0
  BY DEF Shown, LogRecord
<1>2. /\ traffic \in Seq(Nat) /\ traffic' \in Seq(Nat)
      /\ log \in Nat /\ log \in 0..LogNames /\ (log # 0 => log \in 1..LogNames)
      /\ \A n \in 1..LogNames : /\ logs[n] \in [state : LogStates, rows : Seq(Nat)]
                                /\ span[n].from \in Nat /\ span[n].upto \in Nat
  <2>1. traffic \in Seq(Nat) /\ log \in 0..LogNames
    BY DEF LogShape
  <2>2. \A n \in 1..LogNames : span[n].from \in Nat /\ span[n].upto \in Nat
    BY DEF LogShape
  <2>3. \A n \in 1..LogNames : logs[n] \in [state : LogStates, rows : Seq(Nat)]
    BY DEF LogShape
  <2>4. log \in Nat /\ (log # 0 => log \in 1..LogNames)
    BY <2>1, UartFacts
  <2> QED
    BY <1>1, <2>1, <2>2, <2>3, <2>4, ConcatProperties
<1>3. /\ log' \in 0..LogNames
      /\ \A n \in 1..LogNames : /\ logs'[n].state = logs[n].state
                                /\ logs'[n].rows \in Seq(Nat)
                                /\ n # log => logs'[n] = logs[n]
      /\ log # 0 /\ log' = log => logs'[log].rows = logs[log].rows \o bytes
      /\ logs' \in [1..LogNames -> [state : LogStates, rows : Seq(Nat)]]
  <2>0. logs \in [1..LogNames -> [state : LogStates, rows : Seq(Nat)]]
    BY DEF LogShape
  <2>1. CASE log' = log /\ logs' = logs /\ log = 0
    BY <1>2, <2>0, <2>1
  <2>2. CASE log' = log /\ logs' = [logs EXCEPT ![log].rows = @ \o bytes] /\ log # 0
    <3>1. logs[log].rows \o bytes \in Seq(Nat)
      BY <1>2, <2>2, ConcatProperties
    <3> QED
      BY <1>2, <2>0, <2>2, <3>1
  <2>3. CASE log' = 0 /\ logs' = [logs EXCEPT ![log].rows = <<>>] /\ log # 0
    <3>1. <<>> \in Seq(Nat)
      OBVIOUS
    <3> QED
      BY <1>2, <2>0, <2>3, <3>1, UartFacts
  <2> QED
    BY <1>1, <2>1, <2>2, <2>3
<1>4. LogShape'
  BY <1>1, <1>2, <1>3 DEF LogShape
<1>5. LogOpen'
  <2> SUFFICES ASSUME log' # 0 PROVE LogOpen'
    BY DEF LogOpen
  <2>1. log' = log /\ log # 0 /\ log \in 1..LogNames
    BY <1>1, <1>2
  <2>2. running /\ logs[log].state = "tmp" /\ Copied(logs[log].rows, traffic, span[log].from, Len(traffic))
    BY <2>1 DEF LogOpen
  <2>3. Copied(logs[log].rows \o bytes, traffic \o bytes, span[log].from, Len(traffic \o bytes))
    BY <1>2, <2>1, <2>2, CopiedGrows
  <2> QED
    BY <1>1, <1>3, <2>1, <2>2, <2>3 DEF LogOpen
<1>6. LogsExact'
  <2> SUFFICES ASSUME NEW n \in 1..LogNames
               PROVE  /\ logs'[n].state = "csv" => Copied(logs'[n].rows, traffic', span'[n].from, span'[n].upto)
                      /\ logs'[n].state = "none" => logs'[n].rows = <<>>
    BY DEF LogsExact, LogPublishedAt
  <2>1. CASE n = log
    <3>1. logs'[n].state = "tmp"
      BY <1>2, <1>3, <2>1 DEF LogOpen
    <3> QED
      BY <3>1
  <2>2. CASE n # log
    <3>1. logs'[n] = logs[n]
      BY <1>3, <2>2
    <3>2. ASSUME logs[n].state = "csv" PROVE Copied(logs[n].rows, traffic \o bytes, span[n].from, span[n].upto)
      <4>1. Copied(logs[n].rows, traffic, span[n].from, span[n].upto)
        BY <3>2 DEF LogsExact, LogPublishedAt
      <4> QED
        BY <1>2, <4>1, CopiedStays
    <3> QED
      BY <1>1, <3>1, <3>2 DEF LogsExact
  <2> QED
    BY <2>1, <2>2
<1> QED
  BY <1>4, <1>5, <1>6

\* The log's end: published with all of the traffic since its start, or given up.
LEMMA LogPublished ==
    ASSUME LogShape, LogOpen, LogsExact, PublishLog
    PROVE  LogShape' /\ LogOpen' /\ LogsExact' /\ log' = 0
<1>1. /\ traffic' = traffic /\ log' = 0
      /\ \/ log # 0 /\ logs' = [logs EXCEPT ![log].state = "csv"] /\ span' = [span EXCEPT ![log].upto = Len(traffic)]
         \/ log # 0 /\ logs' = [logs EXCEPT ![log].rows = <<>>] /\ span' = span
         \/ log = 0 /\ logs' = logs /\ span' = span
  BY DEF PublishLog
<1>2. /\ traffic \in Seq(Nat) /\ Len(traffic) \in Nat /\ (log # 0 => log \in 1..LogNames)
      /\ logs \in [1..LogNames -> [state : LogStates, rows : Seq(Nat)]]
      /\ span \in [1..LogNames -> [from : Nat, upto : Nat]]
  BY LenProperties, UartFacts DEF LogShape
<1>3. LogOpen' /\ log' \in 0..LogNames
  BY <1>1, UartFacts DEF LogOpen
<1>4. CASE log # 0 /\ logs' = [logs EXCEPT ![log].state = "csv"] /\ span' = [span EXCEPT ![log].upto = Len(traffic)]
  <2>1. logs' \in [1..LogNames -> [state : LogStates, rows : Seq(Nat)]] /\ span' \in [1..LogNames -> [from : Nat, upto : Nat]]
    BY <1>2, <1>4 DEF LogStates
  <2>2. /\ logs'[log].state = "csv" /\ logs'[log].rows = logs[log].rows
        /\ span'[log].from = span[log].from /\ span'[log].upto = Len(traffic)
        /\ \A n \in 1..LogNames : n # log => logs'[n] = logs[n] /\ span'[n] = span[n]
    BY <1>2, <1>4
  <2>3. LogsExact'
    <3> SUFFICES ASSUME NEW n \in 1..LogNames
                 PROVE  /\ logs'[n].state = "csv" => Copied(logs'[n].rows, traffic', span'[n].from, span'[n].upto)
                        /\ logs'[n].state = "none" => logs'[n].rows = <<>>
      BY DEF LogsExact, LogPublishedAt
    <3>1. CASE n = log
      BY <1>1, <1>4, <2>2, <3>1 DEF LogOpen
    <3>2. CASE n # log
      BY <1>1, <2>2, <3>2 DEF LogsExact, LogPublishedAt
    <3> QED
      BY <3>1, <3>2
  <2> QED
    BY <1>1, <1>2, <1>3, <2>1, <2>3 DEF LogShape
<1>5. CASE log # 0 /\ logs' = [logs EXCEPT ![log].rows = <<>>] /\ span' = span
  <2>0. <<>> \in Seq(Nat)
    OBVIOUS
  <2>1. logs' \in [1..LogNames -> [state : LogStates, rows : Seq(Nat)]]
    BY <1>2, <1>5, <2>0
  <2>2. /\ logs'[log].state = "tmp"
        /\ \A n \in 1..LogNames : n # log => logs'[n] = logs[n]
    BY <1>2, <1>5 DEF LogOpen
  <2>3. LogsExact'
    BY <1>1, <1>5, <2>2 DEF LogsExact, LogPublishedAt
  <2> QED
    BY <1>1, <1>2, <1>3, <1>5, <2>1, <2>3 DEF LogShape
<1>6. CASE log = 0 /\ logs' = logs /\ span' = span
  BY <1>1, <1>2, <1>3, <1>6 DEF LogShape, LogsExact, LogPublishedAt
<1> QED
  BY <1>1, <1>4, <1>5, <1>6

\* START LOG takes a name without rows; its traffic begins here.
LEMMA LogStarted ==
    ASSUME LogShape, LogOpen, LogsExact, UartLogStart
    PROVE  LogShape' /\ LogOpen' /\ LogsExact'
<1>1. PICK n \in FreeNames, opened \in BOOLEAN :
        /\ logs' = [logs EXCEPT ![n].state = "tmp"]
        /\ log' = IF opened THEN n ELSE 0
        /\ span' = [span EXCEPT ![n].from = Len(traffic)]
  BY DEF UartLogStart
<1>2. /\ running /\ running' = running /\ traffic' = traffic /\ log = 0
      /\ n \in 1..LogNames /\ logs[n].state = "none" /\ logs[n].rows = <<>>
  BY <1>1 DEF UartLogStart, driver, FreeNames, LogsExact
<1>3. /\ traffic \in Seq(Nat) /\ Len(traffic) \in Nat
      /\ logs \in [1..LogNames -> [state : LogStates, rows : Seq(Nat)]]
      /\ span \in [1..LogNames -> [from : Nat, upto : Nat]]
  BY LenProperties DEF LogShape
<1>4. /\ logs' \in [1..LogNames -> [state : LogStates, rows : Seq(Nat)]]
      /\ span' \in [1..LogNames -> [from : Nat, upto : Nat]]
      /\ logs'[n].state = "tmp" /\ logs'[n].rows = <<>> /\ span'[n].from = Len(traffic)
      /\ \A m \in 1..LogNames : m # n => logs'[m] = logs[m] /\ span'[m] = span[m]
  BY <1>1, <1>2, <1>3 DEF LogStates
<1>5. log' \in 0..LogNames /\ (log' # 0 => log' = n)
  BY <1>1, <1>2, UartFacts
<1>6. Len(traffic) <= Len(traffic)
  BY <1>3
<1>7. Copied(<<>>, traffic, Len(traffic), Len(traffic))
  BY <1>3, <1>6, CopiedNothing
<1>8. LogOpen'
  BY <1>2, <1>4, <1>5, <1>7 DEF LogOpen
<1>9. LogsExact'
  BY <1>2, <1>4 DEF LogsExact, LogPublishedAt
<1> QED
  BY <1>2, <1>3, <1>4, <1>5, <1>8, <1>9 DEF LogShape

\* Where nothing of the logs moves, and the driver does not go under an open one.
LEMMA LogsSame ==
    ASSUME LogShape, LogOpen, LogsExact, UNCHANGED files, running => running'
    PROVE  LogShape' /\ LogOpen' /\ LogsExact'
<1>1. log' = log /\ logs' = logs /\ traffic' = traffic /\ span' = span
  BY DEF files
<1> QED
  BY <1>1 DEF LogShape, LogOpen, LogsExact, LogPublishedAt

\* What a pass reads is a sequence of bytes.
LEMMA PassReads ==
    ASSUME UartShape, ReadPass
    PROVE  \E head \in Seq(Nat) :
             /\ Len(head) \in Nat /\ capture' = Captured(head) /\ Shown(head)
             /\ fifo' \in Seq(Nat) /\ Len(fifo') <= Len(fifo) /\ Len(fifo) = Len(head) + Len(fifo')
             /\ \A i \in 1..Len(head) : head[i] = fifo[i]
             /\ \A i \in 1..Len(fifo') : fifo'[i] = fifo[Len(head) + i]
<1> DEFINE n == Least(Len(fifo), Chunk)
<1> DEFINE head == Head2(fifo, n)
<1>1. /\ fifo # <<>> /\ fifo' = SubSeq(fifo, n + 1, Len(fifo))
      /\ capture' = Captured(head) /\ Shown(head)
  BY DEF ReadPass
<1>2. /\ n \in 1..Len(fifo) /\ head \in Seq(Nat) /\ Len(head) = n
      /\ \A i \in 1..n : head[i] = fifo[i]
      /\ SubSeq(fifo, n + 1, Len(fifo)) \in Seq(Nat)
      /\ Len(SubSeq(fifo, n + 1, Len(fifo))) = Len(fifo) - n
      /\ \A i \in 1..Len(fifo) - n : SubSeq(fifo, n + 1, Len(fifo))[i] = fifo[n + i]
  BY <1>1, ChunkTaken
<1>3. Len(fifo) \in Nat
  BY LenProperties DEF UartShape
<1> HIDE DEF n, head
<1>4. fifo' \in Seq(Nat) /\ Len(fifo') = Len(fifo) - n
  BY <1>1, <1>2
<1>5. /\ Len(head) \in Nat /\ Len(fifo') <= Len(fifo) /\ Len(fifo) = Len(head) + Len(fifo')
  BY <1>2, <1>3, <1>4
<1>6. \A i \in 1..Len(fifo') : fifo'[i] = fifo[Len(head) + i]
  BY <1>1, <1>2, <1>4
<1>7. \A i \in 1..Len(head) : head[i] = fifo[i]
  BY <1>2
<1> QED
  BY <1>1, <1>2, <1>4, <1>5, <1>6, <1>7

LEMMA LogsKept ==
    ASSUME UartShape, LogShape, LogOpen, LogsExact, [UartNext]_uartVars
    PROVE  LogShape' /\ LogOpen' /\ LogsExact'
<1> DEFINE Kept == LogShape' /\ LogOpen' /\ LogsExact'
<1> SUFFICES Kept
  OBVIOUS
<1>1. CASE Arrive \/ UartTick \/ UartCapture \/ UartClear \/ UartStart \/ UartShow \/ UartLeave
  <2>1. UNCHANGED files
    BY <1>1 DEF Arrive, UartTick, UartCapture, UartClear, UartStart, UartShow, UartLeave
  <2>2. running' = running \/ running'
    BY <1>1 DEF Arrive, UartTick, UartCapture, UartClear, UartStart, UartShow, UartLeave, driver
  <2> QED
    BY <2>1, <2>2, LogsSame
<1>2. CASE ReadPass
  <2>1. running' = running
    BY <1>2 DEF ReadPass
  <2> QED
    BY <1>2, <2>1, PassReads, LogRecorded
<1>3. CASE ReadDone
  BY <1>3, LogsSame DEF ReadDone, driver
<1>4. ASSUME NEW home \in BOOLEAN, UartStop(home) PROVE Kept
  BY <1>4, LogsSame DEF UartStop, driver
<1>5. CASE UartClose
  BY <1>5, LogPublished DEF UartClose
<1>6. CASE UartLogStart
  BY <1>6, LogStarted
<1>7. CASE UartLogStop
  BY <1>7, LogPublished DEF UartLogStop
<1>8. CASE UartSend
  <2>1. <<Sent>> \in Seq(Nat) /\ Shown(<<Sent>>) /\ running' = running
    BY <1>8 DEF UartSend, Sent, driver
  <2> QED
    BY <2>1, LogRecorded
<1>9. CASE UNCHANGED uartVars
  BY <1>9, LogsSame DEF uartVars, driver
<1> HIDE DEF Kept
<1> QED
  BY <1>1, <1>2, <1>3, <1>4, <1>5, <1>6, <1>7, <1>8, <1>9 DEF UartNext

LEMMA UartFlagsKept == UartFlags /\ Callbacks /\ [UartNext]_uartVars => UartFlags'
<1> SUFFICES ASSUME UartFlags, Callbacks, [UartNext]_uartVars PROVE UartFlags'
  OBVIOUS
<1> USE DEF UartFlags
<1>1. CASE Arrive \/ UartTick \/ UartCapture \/ UartClear \/ UartStart
  BY <1>1 DEF Arrive, UartTick, UartCapture, UartClear, UartStart, driver
<1>2. CASE ReadPass
  BY <1>2 DEF ReadPass
<1>3. CASE ReadDone
  BY <1>3 DEF ReadDone, driver
<1>4. ASSUME NEW home \in BOOLEAN, UartStop(home) PROVE UartFlags'
  BY <1>4 DEF UartStop, driver
<1>5. CASE UartClose \/ UartLogStart \/ UartLogStop
  BY <1>5 DEF UartClose, UartLogStart, UartLogStop, driver
<1>6. CASE UartSend \/ UartShow \/ UartLeave \/ UNCHANGED uartVars
  BY <1>6 DEF UartSend, UartShow, UartLeave, uartVars, driver
<1> QED
  BY <1>1, <1>2, <1>3, <1>4, <1>5, <1>6 DEF UartNext

LEMMA UartShapeKept == UartShape /\ Callbacks /\ [UartNext]_uartVars => UartShape'
<1> SUFFICES ASSUME UartShape, Callbacks, [UartNext]_uartVars PROVE UartShape'
  OBVIOUS
<1>a. arrived \in Nat /\ Len(fifo) \in Nat /\ Len(delivered) \in Nat /\ UartIdle \in [step : UartReading \cup {"idle", "close"}, pass : Nat]
  BY UartFacts, LenProperties DEF UartShape, UartIdle
<1>d. doing \in [step : UartReading \cup {"idle", "close"}, pass : Nat] /\ doing.pass \in Nat
  BY DEF UartShape
<1>0. CASE Arrive
  <2>1. arrived' \in 0..MaxBytes /\ arrived + 1 \in Nat
    BY <1>0, <1>a, UartFacts DEF Arrive, UartShape
  <2>2. fifo' \in Seq(Nat) /\ Len(fifo') <= RxBuffer /\ delivered' \in Seq(Nat)
    <3>1. CASE Len(fifo) < RxBuffer /\ fifo' = Append(fifo, arrived + 1) /\ delivered' = Append(delivered, arrived + 1)
      BY <1>a, <2>1, <3>1, AppendProperties, UartFacts DEF UartShape
    <3>2. CASE UNCHANGED <<fifo, delivered>>
      BY <3>2 DEF UartShape
    <3> QED
      BY <1>0, <3>1, <3>2 DEF Arrive
  <2> QED
    BY <1>0, <2>1, <2>2 DEF Arrive, UartShape
<1>1. CASE UartTick
  <2>1. doing' \in [step : UartReading \cup {"idle", "close"}, pass : Nat]
    BY <1>1 DEF UartTick, Begin, UartReading
  <2> QED
    BY <1>1, <2>1 DEF UartTick, driver, UartShape
<1>12. CASE UartStart
  BY <1>12 DEF UartStart, UartShape
<1>2. CASE UartCapture
  <2>1. window' \in [from : Nat, upto : Nat]
    BY <1>2, <1>a DEF UartCapture, UartShape
  <2> QED
    BY <1>2, <2>1 DEF UartCapture, Begin, driver, UartShape, UartReading
<1>3. CASE UartClear
  <2>1. Nothing \in [state : WindowStates, bytes : Seq(Nat)] /\ Len(Nothing.bytes) <= CaptureMax
    BY UartFacts DEF Nothing, WindowStates
  <2> QED
    BY <1>3, <2>1 DEF UartClear, driver, UartShape
<1>4. CASE ReadPass
  <2>1. PICK head \in Seq(Nat) :
          /\ Len(head) \in Nat /\ capture' = Captured(head)
          /\ fifo' \in Seq(Nat) /\ Len(fifo') <= Len(fifo)
    BY <1>4, PassReads
  <2>2. Len(fifo') <= RxBuffer
    BY <1>a, <2>1, LenProperties, UartFacts DEF UartShape
  <2>3. capture' \in [state : WindowStates, bytes : Seq(Nat)] /\ Len(capture'.bytes) <= CaptureMax
    BY <2>1, CapturedBytes
  <2>4. doing' = [doing EXCEPT !.pass = @ + 1] /\ UNCHANGED <<arrived, delivered, window, sends>>
    BY <1>4 DEF ReadPass
  <2>5. doing' \in [step : UartReading \cup {"idle", "close"}, pass : Nat]
    BY <1>d, <2>4
  <2> QED
    BY <2>1, <2>2, <2>3, <2>4, <2>5 DEF UartShape
<1>5. CASE ReadDone
  <2>1. UNCHANGED <<fifo, arrived, delivered, sends>>
    BY <1>5, WindowAfterRead
  <2>2. doing' \in [step : UartReading \cup {"idle", "close"}, pass : Nat]
    <3>1. [doing EXCEPT !.step = "close"] \in [step : UartReading \cup {"idle", "close"}, pass : Nat]
      BY <1>d
    <3> QED
      BY <1>5, <1>a, <3>1, WindowAfterRead
  <2>3. window' \in [from : Nat, upto : Nat]
    <3>1. window \in [from : Nat, upto : Nat] /\ [from |-> Len(delivered), upto |-> 0] \in [from : Nat, upto : Nat]
      BY <1>a DEF UartShape
    <3>2. window' = window \/ window' = [from |-> Len(delivered), upto |-> 0]
      BY <1>5, WindowAfterRead
    <3> QED
      BY <3>1, <3>2
  <2>4. capture' \in [state : WindowStates, bytes : Seq(Nat)] /\ Len(capture'.bytes) <= CaptureMax
    <3>1. \A w \in {"active", "error"} :
             [state |-> w, bytes |-> <<>>] \in [state : WindowStates, bytes : Seq(Nat)] /\ Len(<<>>) <= CaptureMax
      BY UartFacts DEF WindowStates
    <3>2. capture \in [state : WindowStates, bytes : Seq(Nat)] /\ Len(capture.bytes) <= CaptureMax
      BY DEF UartShape
    <3>3. CASE capture' = capture
      BY <3>2, <3>3
    <3>4. CASE capture' = [capture EXCEPT !.state = "frozen"]
      <4>1. capture' \in [state : WindowStates, bytes : Seq(Nat)] /\ capture'.bytes = capture.bytes
        BY <3>2, <3>4 DEF WindowStates
      <4> QED
        BY <3>2, <4>1
    <3>5. CASE \E w \in {"active", "error"} : capture' = [state |-> w, bytes |-> <<>>]
      BY <3>1, <3>5
    <3> QED
      BY <1>5, <3>3, <3>4, <3>5, WindowAfterRead
  <2> QED
    BY <2>1, <2>2, <2>3, <2>4 DEF UartShape
<1>6. ASSUME NEW home \in BOOLEAN, UartStop(home) PROVE UartShape'
  <2>1. window' \in [from : Nat, upto : Nat]
    BY <1>6, <1>a DEF UartStop, UartShape
  <2>2. doing' \in [step : UartReading \cup {"idle", "close"}, pass : Nat]
    BY <1>6 DEF UartStop, UartReading
  <2> QED
    BY <1>6, <2>1, <2>2 DEF UartStop, driver, UartShape
<1>7. CASE UartClose
  <2>1. <<>> \in Seq(Nat) /\ Len(<<>>) <= RxBuffer
    BY UartFacts
  <2> QED
    BY <1>7, <1>a, <2>1 DEF UartClose, UartShape
<1>8. CASE UartLogStart \/ UartLogStop \/ UartShow \/ UartLeave \/ UNCHANGED uartVars
  BY <1>8 DEF UartLogStart, UartLogStop, UartShow, UartLeave, uartVars, driver, UartShape
<1>10. CASE UartSend
  <2>1. sends' \in 0..MaxSends
    BY <1>10, UartFacts DEF UartSend, UartShape
  <2> QED
    BY <1>10, <2>1 DEF UartSend, driver, UartShape
<1> QED
  BY <1>0, <1>1, <1>2, <1>3, <1>4, <1>5, <1>6, <1>7, <1>8, <1>10, <1>12 DEF UartNext

LEMMA CallbacksKept == UartShape /\ Callbacks /\ [UartNext]_uartVars => Callbacks'
<1> SUFFICES ASSUME UartShape, Callbacks, [UartNext]_uartVars PROVE Callbacks'
  OBVIOUS
<1> USE DEF Callbacks, UartIdle
<1>1. CASE UartTick
  BY <1>1 DEF UartTick, Begin, driver
<1>10. CASE Arrive \/ UartLeave \/ UNCHANGED uartVars
  <2>1. UNCHANGED <<running, doing, capture>>
    BY <1>10 DEF Arrive, UartLeave, uartVars, driver
  <2> QED
    BY <2>1
<1>2. CASE UartCapture
  BY <1>2 DEF UartCapture, Begin, driver
<1>3. CASE UartClear
  BY <1>3 DEF UartClear, driver, Nothing
<1>4. CASE UartStart
  BY <1>4 DEF UartStart
<1>5. CASE ReadPass
  <2>1. running' = running /\ doing' = [doing EXCEPT !.pass = @ + 1] /\ doing.step \in UartReading
    BY <1>5 DEF ReadPass, UartReading
  <2>2. doing'.step = doing.step
    BY <2>1 DEF UartShape
  <2>3. capture.state # "active" => capture' = capture
    BY <1>5 DEF ReadPass, Captured
  <2> QED
    BY <2>1, <2>2, <2>3 DEF UartReading
<1>6. CASE ReadDone
  <2>1. running' = running /\ running
    BY <1>6, WindowAfterRead DEF ReadDone
  <2>2. CASE doing' = UartIdle
    BY <2>1, <2>2
  <2>3. CASE doing.step = "stop" /\ doing' = [doing EXCEPT !.step = "close"]
    <3>1. doing'.step = "close"
      BY <2>3 DEF UartShape
    <3>2. capture'.state # "active"
      <4>1. CASE capture' = capture /\ capture.state # "active"
        BY <4>1
      <4>2. CASE capture' = [state |-> "error", bytes |-> <<>>]
        BY <4>2
      <4>3. CASE capture' = [capture EXCEPT !.state = "frozen"]
        BY <4>3 DEF UartShape
      <4> QED
        BY <1>6, <2>3, <4>1, <4>2, <4>3, WindowAfterRead
    <3> QED
      BY <2>1, <3>1, <3>2
  <2> QED
    BY <1>6, <2>2, <2>3, WindowAfterRead
<1>7. ASSUME NEW home \in BOOLEAN, UartStop(home) PROVE Callbacks'
  BY <1>7 DEF UartStop, driver
<1>8. CASE UartClose
  BY <1>8 DEF UartClose
<1>9. CASE UartLogStart \/ UartLogStop \/ UartSend \/ UartShow
  BY <1>9 DEF UartLogStart, UartLogStop, UartSend, UartShow, driver
<1> QED
  BY <1>1, <1>2, <1>3, <1>4, <1>5, <1>6, <1>7, <1>8, <1>9, <1>10 DEF UartNext

LEMMA WindowSizes ==
    ASSUME UartShape
    PROVE  /\ fifo \in Seq(Nat) /\ delivered \in Seq(Nat) /\ capture.bytes \in Seq(Nat)
           /\ Len(fifo) \in Nat /\ Len(delivered) \in Nat /\ Len(capture.bytes) \in Nat
           /\ window.from \in Nat /\ window.upto \in Nat /\ Reached \in Nat
<1>1. fifo \in Seq(Nat) /\ delivered \in Seq(Nat) /\ capture.bytes \in Seq(Nat)
      /\ window.from \in Nat /\ window.upto \in Nat
  BY DEF UartShape
<1>2. Len(fifo) \in Nat /\ Len(delivered) \in Nat /\ Len(capture.bytes) \in Nat
  BY <1>1, LenProperties
<1> QED
  BY <1>1, <1>2 DEF Reached

\* What the driver's buffer takes in stays in order behind the window.
LEMMA WindowArrives ==
    ASSUME UartShape, WindowExact, WindowFrozen, Arrive
    PROVE  WindowExact' /\ WindowFrozen'
<1>1. UNCHANGED <<capture, window, doing>> /\ Reached' = Reached
  BY DEF Arrive, Reached
<1>2. CASE UNCHANGED <<fifo, delivered>>
  BY <1>1, <1>2 DEF WindowExact, WindowFrozen
<1>3. CASE fifo' = Append(fifo, arrived + 1) /\ delivered' = Append(delivered, arrived + 1)
  <2>1. arrived + 1 \in Nat
    BY UartFacts DEF UartShape
  <2>2. <<arrived + 1>> \in Seq(Nat)
    BY <2>1
  <2>3. fifo' = fifo \o <<arrived + 1>> /\ delivered' = delivered \o <<arrived + 1>>
    BY <1>3, <2>1, WindowSizes, AppendIsConcat
  <2>4. Len(delivered) \in Nat /\ Len(delivered') = Len(delivered) + 1
    BY <1>3, WindowSizes, <2>1, AppendProperties
  <2>5. ASSUME Copied(capture.bytes, delivered, window.from, Reached)
        PROVE  Copied(capture.bytes, delivered', window.from, Reached)
    BY <2>2, <2>3, <2>5, WindowSizes, CopiedStays
  <2>6. ASSUME Copied(fifo, delivered, Reached, Len(delivered))
        PROVE  Copied(fifo', delivered', Reached, Len(delivered'))
    BY <2>2, <2>3, <2>6, WindowSizes, CopiedGrows
  <2>7. window.upto <= Len(delivered) => window.upto <= Len(delivered')
    BY <2>4, WindowSizes
  <2> QED
    BY <1>1, <2>5, <2>6, <2>7 DEF WindowExact, WindowFrozen
<1> QED
  BY <1>2, <1>3 DEF Arrive

\* A pass moves the next bytes of the driver's buffer into the window.
LEMMA WindowReads ==
    ASSUME UartShape, WindowExact, WindowFrozen, ReadPass
    PROVE  WindowExact' /\ WindowFrozen'
<1>1. PICK head \in Seq(Nat) :
        /\ Len(head) \in Nat /\ capture' = Captured(head)
        /\ fifo' \in Seq(Nat) /\ Len(fifo') <= Len(fifo) /\ Len(fifo) = Len(head) + Len(fifo')
        /\ \A i \in 1..Len(head) : head[i] = fifo[i]
        /\ \A i \in 1..Len(fifo') : fifo'[i] = fifo[Len(head) + i]
  BY PassReads
<1>2. doing'.step = doing.step /\ UNCHANGED <<delivered, window>>
  BY DEF ReadPass, UartShape
<1>3. /\ Captured(head).state = "active" =>
           capture.state = "active" /\ Captured(head).bytes = capture.bytes \o head
      /\ Captured(head).state = "frozen" => Captured(head) = capture
  BY <1>1, CapturedBytes
<1>4. WindowFrozen'
  <2> SUFFICES ASSUME capture'.state = "frozen" PROVE WindowFrozen'
    BY DEF WindowFrozen
  <2>1. capture' = capture
    BY <1>1, <1>3
  <2> QED
    BY <1>2, <2>1 DEF WindowFrozen, Reached
<1>5. WindowExact'
  <2> SUFFICES ASSUME capture'.state = "active" PROVE WindowExact'
    BY DEF WindowExact
  <2>1. capture.state = "active" /\ capture'.bytes = capture.bytes \o head
    BY <1>1, <1>3
  <2>2. /\ Copied(capture.bytes, delivered, window.from, Reached)
        /\ Copied(fifo, delivered, Reached, Len(delivered))
    BY <2>1 DEF WindowExact
  <2> DEFINE next == Reached + Len(head)
  <2>3. next \in Nat /\ Len(fifo') \in Nat
    BY <1>1, WindowSizes, LenProperties
  <2>4. /\ Reached <= Len(delivered) /\ Len(fifo) = Len(delivered) - Reached
        /\ \A i \in 1..Len(fifo) : fifo[i] = delivered[Reached + i]
    BY <2>2 DEF Copied
  <2>5. Copied(head, delivered, Reached, next)
    <3>1. Reached <= next /\ next <= Len(delivered) /\ Len(head) = next - Reached
      BY <1>1, <2>3, <2>4, WindowSizes
    <3>2. \A i \in 1..Len(head) : head[i] = delivered[Reached + i]
      <4> TAKE i \in 1..Len(head)
      <4>1. i \in 1..Len(fifo)
        BY <1>1, <2>3, WindowSizes
      <4> QED
        BY <1>1, <2>4, <4>1
    <3> QED
      BY <3>1, <3>2 DEF Copied
  <2>6. Copied(fifo', delivered, next, Len(delivered))
    <3>1. next <= Len(delivered) /\ Len(delivered) <= Len(delivered) /\ Len(fifo') = Len(delivered) - next
      BY <1>1, <2>3, <2>4, WindowSizes
    <3>2. \A i \in 1..Len(fifo') : fifo'[i] = delivered[next + i]
      <4> TAKE i \in 1..Len(fifo')
      <4>1. Len(head) \in Nat /\ Len(fifo) \in Nat /\ Len(fifo') \in Nat /\ Reached \in Nat
            /\ Len(fifo) = Len(head) + Len(fifo')
        BY <1>1, <2>3, WindowSizes
      <4>2. Len(head) + i \in 1..Len(fifo) /\ Reached + (Len(head) + i) = next + i
        BY <4>1
      <4> QED
        BY <1>1, <2>4, <4>2
    <3> QED
      BY <3>1, <3>2 DEF Copied
  <2>7. Reached' = next
    <3>1. Len(capture.bytes \o head) = Len(capture.bytes) + Len(head)
      BY WindowSizes, ConcatProperties
    <3>2. Reached' = window.from + (Len(capture.bytes) + Len(head))
      BY <1>2, <2>1, <3>1 DEF Reached
    <3> QED
      BY <1>1, <3>2, WindowSizes DEF Reached
  <2> HIDE DEF next
  <2>8. Copied(capture.bytes \o head, delivered, window.from, next)
    BY <2>2, <2>3, <2>5, WindowSizes, CopiedJoined
  <2>9. doing.step \in {"freeze", "stop"} => window.upto <= Len(delivered)
    BY <2>1 DEF WindowExact
  <2> QED
    BY <1>2, <2>1, <2>6, <2>7, <2>8, <2>9 DEF WindowExact
<1> QED
  BY <1>4, <1>5

\* FREEZE and STOP keep a window only if the driver's buffer was emptied, after the tap;
\* START begins one only with an empty buffer.
LEMMA WindowEnds ==
    ASSUME UartShape, Callbacks, WindowExact, WindowFrozen, ReadDone
    PROVE  WindowExact' /\ WindowFrozen'
<1>1. delivered' = delivered /\ fifo' = fifo
  BY WindowAfterRead
<1>2. doing'.step \notin {"freeze", "stop"}
  <2>1. [doing EXCEPT !.step = "close"].step = "close"
    BY DEF UartShape
  <2>2. doing' = UartIdle \/ doing' = [doing EXCEPT !.step = "close"]
    BY WindowAfterRead
  <2>3. CASE doing' = UartIdle
    BY <2>3 DEF UartIdle
  <2>4. CASE doing' = [doing EXCEPT !.step = "close"]
    BY <2>1, <2>4
  <2> QED
    BY <2>2, <2>3, <2>4
<1>3. CASE capture' = capture /\ window' = window
  BY <1>1, <1>2, <1>3 DEF WindowExact, WindowFrozen, Reached
<1>4. CASE capture' = [state |-> "error", bytes |-> <<>>]
  BY <1>4 DEF WindowExact, WindowFrozen
<1>5. CASE /\ fifo = <<>> /\ capture' = [state |-> "active", bytes |-> <<>>]
           /\ window' = [from |-> Len(delivered), upto |-> 0]
  <2>1. /\ capture'.state = "active" /\ capture'.bytes = <<>> /\ window'.from = Len(delivered)
        /\ Len(<<>>) = 0
    BY <1>5
  <2>2. Reached' = Len(delivered) + 0
    BY <2>1 DEF Reached
  <2>3. Reached' = Len(delivered) /\ Len(delivered) <= Len(delivered)
    BY <2>2, WindowSizes
  <2>4. Copied(<<>>, delivered, Len(delivered), Len(delivered))
    BY <2>3, WindowSizes, CopiedNothing
  <2>5. WindowExact'
    BY <1>1, <1>2, <1>5, <2>1, <2>3, <2>4 DEF WindowExact
  <2> QED
    BY <2>1, <2>5 DEF WindowFrozen
<1>6. CASE /\ doing.step \in {"freeze", "stop"} /\ fifo = <<>> /\ capture.state = "active"
           /\ capture' = [capture EXCEPT !.state = "frozen"] /\ window' = window
  <2>1. capture'.state = "frozen" /\ capture'.bytes = capture.bytes
    BY <1>6 DEF UartShape
  <2>2. /\ Copied(capture.bytes, delivered, window.from, Reached)
        /\ Copied(fifo, delivered, Reached, Len(delivered)) /\ window.upto <= Len(delivered)
    BY <1>6 DEF WindowExact
  <2>3. Len(fifo) = 0 /\ Len(fifo) = Len(delivered) - Reached
    BY <1>6, <2>2 DEF Copied
  <2>4. window.upto <= Reached
    <3>1. /\ Reached <= Len(delivered) /\ Reached \in Nat /\ Len(delivered) \in Nat /\ window.upto \in Nat
      BY <2>2, WindowSizes DEF Copied
    <3>2. Len(delivered) = Reached
      BY <2>3, <3>1
    <3> QED
      BY <2>2, <3>2
  <2>5. Reached' = Reached
    BY <1>6, <2>1 DEF Reached
  <2> QED
    BY <1>1, <1>6, <2>1, <2>2, <2>4, <2>5 DEF WindowExact, WindowFrozen
<1> QED
  BY <1>3, <1>4, <1>5, <1>6, WindowAfterRead

\* Where nothing of the window moves but the callback in progress.
LEMMA WindowSame ==
    ASSUME WindowExact, WindowFrozen, UNCHANGED <<capture, window, fifo, delivered>>,
           capture.state = "active" /\ doing'.step \in {"freeze", "stop"} => doing' = doing
    PROVE  WindowExact' /\ WindowFrozen'
BY DEF WindowExact, WindowFrozen, Reached

\* The tap on FREEZE or STOP: what the driver has by now belongs to the window.
LEMMA WindowTapped ==
    ASSUME UartShape, WindowExact, capture.state = "active",
           UNCHANGED <<capture, fifo, delivered>>, window' = [window EXCEPT !.upto = Len(delivered)]
    PROVE  WindowExact' /\ WindowFrozen'
<1>1. window'.from = window.from /\ window'.upto = Len(delivered)
  BY DEF UartShape
<1>2. Len(delivered) <= Len(delivered)
  BY WindowSizes
<1> QED
  BY <1>1, <1>2 DEF WindowExact, WindowFrozen, Reached

LEMMA WindowKept ==
    ASSUME UartShape, Callbacks, WindowExact, WindowFrozen, [UartNext]_uartVars
    PROVE  WindowExact' /\ WindowFrozen'
<1> DEFINE Exact == WindowExact /\ WindowFrozen
<1> SUFFICES Exact'
  OBVIOUS
<1>1. CASE Arrive \/ ReadPass \/ ReadDone
  BY <1>1, WindowArrives, WindowReads, WindowEnds
<1>2. CASE UartTick
  BY <1>2, WindowSame DEF UartTick, Begin, driver
<1>3. CASE UartCapture
  <2>1. CASE capture.state # "active"
    <3>1. UNCHANGED <<capture, window, fifo, delivered>>
      BY <1>3, <2>1 DEF UartCapture, driver
    <3> QED
      BY <2>1, <3>1, WindowSame
  <2>2. CASE capture.state = "active"
    BY <1>3, <2>2, WindowTapped DEF UartCapture, driver
  <2> QED
    BY <2>1, <2>2
<1>4. CASE UartClear
  BY <1>4 DEF UartClear, Nothing, WindowExact, WindowFrozen
<1>5. ASSUME NEW home \in BOOLEAN, UartStop(home) PROVE Exact'
  <2>1. CASE capture.state # "active"
    <3>1. UNCHANGED <<capture, window, fifo, delivered>>
      BY <1>5, <2>1 DEF UartStop, driver
    <3> QED
      BY <2>1, <3>1, WindowSame
  <2>2. CASE capture.state = "active"
    BY <1>5, <2>2, WindowTapped DEF UartStop, driver
  <2> QED
    BY <2>1, <2>2
<1>6. CASE UartClose
  <2>1. capture.state # "active" /\ capture' = capture /\ window' = window /\ delivered' = delivered
    BY <1>6 DEF UartClose, Callbacks
  <2> QED
    BY <2>1 DEF WindowExact, WindowFrozen, Reached
<1>7. CASE UartStart \/ UartLogStart \/ UartLogStop
  <2>1. UNCHANGED <<capture, window, fifo, delivered, doing>>
    BY <1>7 DEF UartStart, UartLogStart, UartLogStop, driver
  <2> QED
    BY <2>1, WindowSame
<1>8. CASE UartSend \/ UartShow \/ UartLeave \/ UNCHANGED uartVars
  <2>1. UNCHANGED <<capture, window, fifo, delivered, doing>>
    BY <1>8 DEF UartSend, UartShow, UartLeave, driver, uartVars
  <2> QED
    BY <2>1, WindowSame
<1> HIDE DEF Exact
<1> QED
  BY <1>1, <1>2, <1>3, <1>4, <1>5, <1>6, <1>7, <1>8 DEF UartNext

LEMMA UartInitially == UartInit => UartIInv
<1> SUFFICES ASSUME UartInit PROVE UartIInv
  OBVIOUS
<1>1. UartFlags
  BY DEF UartInit, UartFlags
<1>2. <<>> \in Seq(Nat) /\ Len(<<>>) = 0
  OBVIOUS
<1>3. capture \in [state : WindowStates, bytes : Seq(Nat)] /\ Len(capture.bytes) <= CaptureMax /\ capture.state = "empty"
  BY <1>2, UartFacts DEF UartInit, Nothing, WindowStates
<1>4. doing \in [step : UartReading \cup {"idle", "close"}, pass : Nat] /\ window \in [from : Nat, upto : Nat]
  BY DEF UartInit, UartIdle
<1>5. UartShape
  BY <1>2, <1>3, <1>4, UartFacts DEF UartInit, UartShape
<1>6. Callbacks
  BY <1>3 DEF UartInit, Callbacks, UartIdle
<1>7. LogShape
  BY <1>2, UartFacts DEF UartInit, NoLog, LogStates, LogShape
<1>8. LogOpen /\ LogsExact
  BY DEF UartInit, NoLog, LogOpen, LogsExact
<1> QED
  BY <1>1, <1>3, <1>5, <1>6, <1>7, <1>8 DEF UartIInv, WindowExact, WindowFrozen

LEMMA UartStep == UartIInv /\ [UartNext]_uartVars => UartIInv'
<1> SUFFICES ASSUME UartIInv, [UartNext]_uartVars PROVE UartIInv'
  OBVIOUS
<1> USE DEF UartIInv
<1>1. UartFlags' /\ UartShape' /\ Callbacks'
  BY UartFlagsKept, UartShapeKept, CallbacksKept
<1>2. LogShape' /\ LogOpen' /\ LogsExact'
  BY LogsKept
<1>3. WindowExact' /\ WindowFrozen'
  BY WindowKept
<1> QED
  BY <1>1, <1>2, <1>3

\* A frozen window is every byte the driver had from its start to the tap on FREEZE or
\* STOP, whatever was lost or came in meanwhile, and a published log is every byte read
\* or accepted between START LOG and its end (uart_tool.c: receive_available,
\* capture_clicked, log_bytes, stop_log).
THEOREM SerialRecordsAreExact == UartInit /\ [][UartNext]_uartVars => []UartInv
<1>1. UartIInv => UartInv
  <2> SUFFICES ASSUME UartIInv PROVE UartInv
    OBVIOUS
  <2> USE DEF UartIInv
  <2>1. UartTypes
    <3>1. capture.state \in WindowStates /\ {pageOpen, running} \subseteq BOOLEAN
      BY DEF UartShape, UartFlags
    <3>2. \A n \in 1..LogNames : logs[n].state \in LogStates
      BY DEF LogShape
    <3> QED
      BY <3>1, <3>2 DEF UartShape, LogShape, UartTypes, WindowStates, LogStates
  <2>2. FrozenIsExact
    <3> SUFFICES ASSUME capture.state = "frozen"
                 PROVE  /\ window.upto <= Reached /\ Reached <= Len(delivered)
                        /\ capture.bytes = SubSeq(delivered, window.from + 1, Reached)
      BY DEF FrozenIsExact, Reached
    <3>1. Copied(capture.bytes, delivered, window.from, Reached) /\ window.upto <= Reached
      BY DEF WindowFrozen
    <3>2. /\ capture.bytes \in Seq(Nat) /\ delivered \in Seq(Nat)
          /\ window.from \in Nat /\ Reached \in Nat
      BY WindowSizes
    <3>3. capture.bytes = Between(delivered, window.from, Reached)
      BY <3>1, <3>2, CopiedIsSubSeq
    <3> QED
      BY <3>1, <3>3 DEF Copied, Between
  <2>3. LogIsExact
    <3>1. /\ traffic \in Seq(Nat) /\ Len(traffic) \in Nat /\ (log # 0 => log \in 1..LogNames)
          /\ \A n \in 1..LogNames : logs[n].rows \in Seq(Nat) /\ span[n].from \in Nat /\ span[n].upto \in Nat
      BY LenProperties, UartFacts DEF LogShape
    <3>2. ASSUME NEW n \in 1..LogNames, logs[n].state = "csv"
          PROVE  logs[n].rows = Between(traffic, span[n].from, span[n].upto)
      <4>1. Copied(logs[n].rows, traffic, span[n].from, span[n].upto)
        BY <3>2 DEF LogsExact, LogPublishedAt
      <4> QED
        BY <3>1, <4>1, CopiedIsSubSeq
    <3>3. ASSUME log # 0
          PROVE  logs[log].state = "tmp" /\ logs[log].rows = Between(traffic, span[log].from, Len(traffic))
      <4>1. logs[log].state = "tmp" /\ Copied(logs[log].rows, traffic, span[log].from, Len(traffic))
        BY <3>3 DEF LogOpen
      <4>2. logs[log].rows \in Seq(Nat) /\ span[log].from \in Nat
        BY <3>1, <3>3
      <4> QED
        BY <3>1, <4>1, <4>2, CopiedIsSubSeq
    <3>4. ~running => log = 0 /\ capture.state # "active"
      BY DEF LogOpen, Callbacks
    <3> QED
      BY <3>2, <3>3, <3>4 DEF LogIsExact, Between
  <2> QED
    BY <2>1, <2>2, <2>3 DEF UartInv
<1> QED
  BY <1>1, UartInitially, UartStep, PTL

(***************************************************************************)
(* The ring's history.  Times first: a sample's time grows with its day    *)
(* and its number, and readings come after the history of their day.       *)
(***************************************************************************)
History == HistoryOf(1..LastDay)

LEMMA Days ==
    /\ LastDay \in Nat \ {0} /\ SyncDays \in Nat /\ SyncDays < LastDay
    /\ QueueSlots \in Nat \ {0} /\ DayLength \in Nat /\ QueueSlots < DayLength /\ 0 < DayLength
    /\ \A d \in 1..LastDay : Stored[d] \in Nat /\ Stored[d] <= QueueSlots
<1>1. MaxReadings \in Nat /\ SyncDays \in Nat /\ QueueSlots \in Nat \ {0}
      /\ Stored \in Seq(0..QueueSlots) /\ SyncDays < LastDay
  BY RingAssumption
<1>2. LastDay \in Nat /\ \A d \in 1..LastDay : Stored[d] \in 0..QueueSlots
  BY <1>1, LenProperties, ElementOfSeq DEF LastDay
<1> QED
  BY <1>1, <1>2 DEF DayLength

LEMMA TimesInOrder ==
    ASSUME NEW d \in Nat, NEW n \in Nat
    PROVE  /\ TimeOf(d, n) \in Nat
           /\ TimeOf(d, n + 1) = TimeOf(d, n) + 1
           /\ \A m \in Nat : n < m => TimeOf(d, n) < TimeOf(d, m)
           /\ \A e, m \in Nat : d < e /\ n < DayLength => TimeOf(d, n) < TimeOf(e, m)
<1>1. \A e \in Nat : e * DayLength \in Nat
  BY Days
<1>2. ASSUME NEW e \in Nat, d < e
      PROVE  d * DayLength + DayLength <= e * DayLength
  <2>1. \E k \in Nat : e = d + 1 + k
    <3>1. e - d - 1 \in Nat /\ e = d + 1 + (e - d - 1)
      BY <1>2
    <3> QED
      BY <3>1
  <2>2. PICK k \in Nat : e = d + 1 + k
    BY <2>1
  <2>3. e * DayLength = d * DayLength + DayLength + k * DayLength
    BY <2>2, Days
  <2> QED
    BY <2>3, <1>1, Days
<1>3. d * DayLength \in Nat
  BY <1>1
<1>4. TimeOf(d, n) \in Nat /\ TimeOf(d, n + 1) = TimeOf(d, n) + 1
  BY <1>3 DEF TimeOf
<1>5. ASSUME NEW m \in Nat, n < m PROVE TimeOf(d, n) < TimeOf(d, m)
  BY <1>3, <1>5 DEF TimeOf
<1>6. ASSUME NEW e \in Nat, NEW m \in Nat, d < e, n < DayLength
      PROVE  TimeOf(d, n) < TimeOf(e, m)
  <2>1. d * DayLength + DayLength <= e * DayLength /\ e * DayLength \in Nat
    BY <1>1, <1>2, <1>6
  <2> QED
    BY <2>1, <1>3, <1>6, Days DEF TimeOf
<1> QED
  BY <1>4, <1>5, <1>6

LEMMA InHistory ==
    /\ \A days : \A t : t \in HistoryOf(days) <=> \E d \in days : \E n \in 1..Stored[d] : t = TimeOf(d, n)
    /\ \A t : t \in History <=> \E d \in 1..LastDay : \E n \in 1..Stored[d] : t = TimeOf(d, n)
BY DEF History, HistoryOf

LEMMA HistoryTimes ==
    ASSUME NEW t \in History
    PROVE  /\ t \in Nat /\ 0 < t /\ t < TimeOf(LastDay + 1, 0)
           /\ ~(t < TimeOf(1, 0))
           /\ \A d \in 1..LastDay :
                /\ t < TimeOf(d, 1) => t < TimeOf(d, 0)
                /\ t < TimeOf(d + 1, 0) => t < TimeOf(d, Stored[d] + 1)
<1>1. PICK e \in 1..LastDay : \E n \in 1..Stored[e] : t = TimeOf(e, n)
  BY InHistory
<1>2. PICK m \in 1..Stored[e] : t = TimeOf(e, m)
  BY <1>1
<1>3. e \in Nat /\ m \in Nat /\ 1 <= e /\ e <= LastDay /\ 1 <= m /\ m <= Stored[e] /\ m <= QueueSlots /\ m < DayLength
      /\ LastDay \in Nat /\ LastDay + 1 \in Nat /\ e < LastDay + 1
  <2>1. Stored[e] \in Nat /\ Stored[e] <= QueueSlots /\ LastDay \in Nat /\ QueueSlots \in Nat
        /\ QueueSlots < DayLength /\ DayLength \in Nat
    BY <1>1, Days
  <2> QED
    BY <2>1, <1>1, <1>2
<1>4. t \in Nat /\ t < TimeOf(LastDay + 1, 0) /\ TimeOf(LastDay + 1, 0) \in Nat
  BY <1>2, <1>3, TimesInOrder
<1>a. 0 \in Nat /\ 1 \in Nat
  OBVIOUS
<1>b. TimeOf(0, 0) \in Nat /\ TimeOf(1, 0) \in Nat /\ TimeOf(e, 0) \in Nat
  BY <1>a, <1>3, TimesInOrder
<1>c. TimeOf(0, 0) < TimeOf(e, m)
  BY <1>a, <1>3, TimesInOrder, Days
<1>d. TimeOf(e, 0) < TimeOf(e, m)
  BY <1>a, <1>3, TimesInOrder
<1>5. TimeOf(0, 0) \in Nat /\ TimeOf(0, 0) < t /\ TimeOf(1, 0) \in Nat /\ TimeOf(e, 0) \in Nat /\ TimeOf(e, 0) < t
  BY <1>b, <1>c, <1>d, <1>2
<1>6. TimeOf(1, 0) <= TimeOf(e, 0)
  <2>1. CASE e = 1
    BY <2>1, <1>5
  <2>2. CASE 1 < e
    BY <2>2, <1>3, <1>5, TimesInOrder, Days
  <2> QED
    BY <2>1, <2>2, <1>3
<1>7. ASSUME NEW d \in 1..LastDay
      PROVE  /\ t < TimeOf(d, 1) => t < TimeOf(d, 0)
             /\ t < TimeOf(d + 1, 0) => t < TimeOf(d, Stored[d] + 1)
  <2>0. d \in Nat /\ d + 1 \in Nat /\ Stored[d] \in Nat /\ Stored[d] + 1 \in Nat /\ 0 < Stored[d] + 1
    BY <1>7, Days
  <2>1. TimeOf(d, 1) = TimeOf(d, 0) + 1 /\ TimeOf(d, 0) \in Nat /\ TimeOf(d, Stored[d] + 1) \in Nat
        /\ TimeOf(d + 1, 0) \in Nat
    <3>1. TimeOf(d, 0 + 1) = TimeOf(d, 0) + 1 /\ TimeOf(d, 0) \in Nat
      BY <1>a, <2>0, TimesInOrder
    <3>2. TimeOf(d, 1) = TimeOf(d, 0) + 1
      <4>1. 0 + 1 = 1
        OBVIOUS
      <4> QED
        BY <3>1, <4>1
    <3>3. TimeOf(d, Stored[d] + 1) \in Nat
      BY <2>0, TimesInOrder
    <3>4. TimeOf(d + 1, 0) \in Nat
      BY <1>a, <2>0, TimesInOrder
    <3> QED
      BY <3>1, <3>2, <3>3, <3>4
  <2>2. CASE e < d
    BY <2>0, <2>1, <2>2, <1>2, <1>3, TimesInOrder
  <2>3. CASE e = d
    <3>1. TimeOf(d, 0) < t
      BY <2>3, <1>5
    <3>2. m \in Nat /\ Stored[d] + 1 \in Nat /\ m < Stored[d] + 1 /\ t = TimeOf(d, m)
      BY <2>3, <1>2, <1>3, <2>0
    <3>3. t < TimeOf(d, Stored[d] + 1)
      BY <3>2, <2>0, TimesInOrder
    <3> QED
      BY <3>1, <3>3, <2>1, <1>4
  <2>4. CASE d < e
    <3>1. TimeOf(d + 1, 0) <= TimeOf(e, 0) /\ TimeOf(d, 0) < TimeOf(e, 0)
      <4>1. TimeOf(d, 0) < TimeOf(e, 0)
        BY <2>0, <2>4, <1>3, TimesInOrder, Days
      <4>2. CASE d + 1 = e
        BY <4>1, <4>2, <1>5
      <4>3. CASE d + 1 < e
        BY <4>1, <4>3, <2>0, <2>1, <1>3, <1>5, TimesInOrder, Days, SMTT(60)
      <4> QED
        BY <4>2, <4>3, <2>0, <2>4, <1>3
    <3> QED
      BY <3>1, <2>1, <1>4, <1>5
  <2> QED
    BY <2>2, <2>3, <2>4, <2>0, <1>3
<1> QED
  BY <1>4, <1>5, <1>6, <1>7

(***************************************************************************)
(* The inductive invariant of the ring's history.                          *)
(***************************************************************************)
Times == 0..TimeOf(LastDay + 1, 0)
HeartRate == [time : Times, taken : Times, sure : BOOLEAN]
HeartRow == [time : Times, taken : Times, sure : BOOLEAN, confirmed : BOOLEAN]
GattWrite == [to : {"subscribe", "auto", "battery", "reading"}, day : {0}]
             \cup [to : {"history"}, day : 1..LastDay]
Notice == [kind : {"none"}] \cup [kind : {"header"}, total : 0..QueueSlots + 1]
          \cup [kind : {"data"}, n : 1..QueueSlots, day : 1..LastDay]
          \cup [kind : {"reading"}, ok : BOOLEAN]

InLog(time) == \E i \in 1..Len(hrLog) : hrLog[i].time = time
InQueue(time) == \E k \in 1..Len(samples) : samples[k].time = time

\* The history nothing newer hides.
Promised == HistoryOf(1..LastDay) \ hidden

\* The types of what RingTypes does not name, and sequences as such; the sync
\* has not come past the day that is due.
RingShape ==
    /\ gatt \in Seq(GattWrite) /\ air \in Seq(Notice)
    /\ samples \in Seq(HeartRate) /\ hrLog \in Seq(HeartRow)
    /\ count \in [links : Nat, taps : Nat, readings : 0..MaxReadings, troubles : Nat]
    /\ SyncDays < today /\ reached + syncing.daysAgo <= today

\* A link that is down carries nothing and has no sync due.
Quiet ==
    ~ringLink.connected =>
        gatt = <<>> /\ air = <<>> /\ (~blurred => ~syncing.pending)

\* Nothing is asked of the ring before the checkpoint is loaded, and the
\* checkpoint is the time of a row.
LoadedFirst ==
    /\ health.at \in {"drain", "requested"} => saved.loaded
    /\ \A i \in 1..Len(gatt) : gatt[i].to = "history" => saved.loaded
    /\ \A i \in 1..Len(air) : air[i].kind = "data" => saved.loaded

CheckpointIsARow ==
    /\ ~saved.loaded => saved.time = 0
    /\ 0 < saved.time => InLog(saved.time)

\* No row is newer than the checkpoint, but for that of an append that failed,
\* whose sample is still the first of the queue.
CheckpointIsNewest ==
    saved.loaded =>
        \A i \in 1..Len(hrLog) :
            \/ hrLog[i].time <= saved.time
            \/ /\ samples # <<>> /\ hrLog[i].time = samples[1].time
               /\ saved.time < samples[1].time /\ ~hrLog[i].confirmed

\* Until a request is blurred, there is at most one of them, or the chain of a
\* new link, and what is left of its answer is in order.
OneRequest ==
    ~blurred =>
        /\ \A i, j \in 1..Len(gatt) : gatt[i].to # "reading" /\ gatt[j].to # "reading" => i = j
        /\ \A i \in 1..Len(gatt), j \in 1..Len(air) :
               gatt[i].to # "reading" => air[j].kind = "reading"
        /\ \A i \in 1..Len(gatt) : InChain(gatt[i]) => ~syncing.pending
        /\ \A i, j \in 1..Len(air) :
               i < j /\ air[i].kind # "reading" /\ air[j].kind # "reading" =>
                   air[j].kind = "data" /\ (air[i].kind = "data" => air[i].n < air[j].n)

Asked ==
    \/ \E i \in 1..Len(gatt) : gatt[i].to = "history"
    \/ \E i \in 1..Len(air) : air[i].kind # "reading"

\* It is for the day the sync has reached, and so is its answer, whatever the
\* day of the clock.
AnswersDue ==
    ~blurred =>
        /\ \A i \in 1..Len(gatt) : gatt[i].to = "history" => gatt[i].day = reached
        /\ \A i \in 1..Len(air) :
               /\ air[i].kind = "header" => air[i].total = Stored[reached] + 1
               /\ air[i].kind = "none" => Stored[reached] = 0
               /\ air[i].kind = "data" => air[i].day = reached /\ air[i].n <= Stored[reached]
        /\ Asked /\ health.at = "requested" => health.day = reached
        /\ Asked /\ health.at # "requested" =>
               ~syncing.pending /\ syncing.day = reached /\ syncing.total \in {0, Stored[reached] + 1}

\* All that is promised before this time is in the log or in the queue.
Covered(bound) == \A t \in Promised : t < bound => InLog(t) \/ InQueue(t)

\* The days before the one reached are, and the days' samples before the next
\* that is handled; unless what it holds is hidden or kept already, the queue
\* has room for that one, and holds earlier ones only.
DaySettled == HistoryOf({reached}) \subseteq hidden \cup owed
DaysCovered == ~blurred => Covered(TimeOf(reached, 0))
NextCovered ==
    ~blurred =>
        \A i \in 1..Len(air) : air[i].kind = "data" =>
            \/ Covered(TimeOf(reached, air[i].n))
            \/ \E j \in 1..i - 1 : air[j].kind = "data" /\ air[j].n = air[i].n - 1
RoomForNext ==
    ~blurred /\ ~DaySettled =>
        /\ \A i \in 1..Len(gatt) : gatt[i].to = "history" => samples = <<>>
        /\ \A i \in 1..Len(air) : air[i].kind = "data" =>
               /\ Len(samples) < air[i].n
               /\ \A k \in 1..Len(samples) : samples[k].time < TimeOf(reached, air[i].n)

\* The queue and the log leave out nothing that is promised.
QueueInOrder ==
    ~blurred =>
        \A k \in 1..Len(samples) : \A t \in Promised : t < samples[k].time =>
            InLog(t) \/ \E j \in 1..k - 1 : samples[j].time = t

LogClosed ==
    ~blurred =>
        \A i \in 1..Len(hrLog) :
            \A t \in Promised : t <= hrLog[i].time => \E j \in 1..i : hrLog[j].time = t

\* A sample of doubtful date comes from a blurred request only.
AllSure ==
    ~blurred => /\ \A k \in 1..Len(samples) : samples[k].sure
                /\ \A i \in 1..Len(hrLog) : hrLog[i].sure

\* What is owed is in the queue behind nothing newer, or in the log and not
\* after the checkpoint.
QueuedFor(t) ==
    /\ saved.loaded /\ saved.time < t
    /\ \E k \in 1..Len(samples) :
           samples[k].sure /\ samples[k].time = t /\ \A j \in 1..k - 1 : samples[j].time < t
LoggedFor(t) ==
    /\ \E i \in 1..Len(hrLog) : hrLog[i].sure /\ hrLog[i].time = t
    /\ saved.loaded => t <= saved.time
OwedKept == \A t \in owed : QueuedFor(t) \/ LoggedFor(t)
OwedSure == \A i \in 1..Len(hrLog) : hrLog[i].time \in owed => hrLog[i].sure

RingStore ==
    /\ CheckpointIsARow /\ CheckpointIsNewest /\ LogSortedOnce /\ OnItsDay
    /\ QueueInOrder /\ LogClosed /\ AllSure /\ OwedKept /\ OwedSure
RingExchange ==
    Quiet /\ LoadedFirst /\ OneRequest /\ AnswersDue /\ DaysCovered /\ NextCovered /\ RoomForNext
RingIInv == RingTypes /\ RingShape /\ RingStore /\ RingExchange

(***************************************************************************)
(* What is stored: the queue, the log, the checkpoint and what is owed.    *)
(***************************************************************************)
LEMMA Seqs ==
    ASSUME RingShape
    PROVE  /\ Len(gatt) \in Nat /\ Len(air) \in Nat /\ Len(samples) \in Nat /\ Len(hrLog) \in Nat
           /\ \A i \in 1..Len(gatt) : gatt[i] \in GattWrite
           /\ \A i \in 1..Len(air) : air[i] \in Notice
           /\ \A i \in 1..Len(samples) : samples[i] \in HeartRate
           /\ \A i \in 1..Len(hrLog) : hrLog[i] \in HeartRow
BY LenProperties, ElementOfSeq DEF RingShape

LEMMA TimesAreNats == Times \subseteq Nat /\ 0 \in Times
<1>1. TimeOf(LastDay + 1, 0) \in Nat
  <2>1. LastDay + 1 \in Nat /\ 0 \in Nat
    BY Days
  <2> QED
    BY <2>1, TimesInOrder
<1> QED
  BY <1>1 DEF Times

LEMMA StoreTimes ==
    ASSUME RingShape
    PROVE  /\ \A i \in 1..Len(samples) : /\ samples[i].time \in Nat /\ samples[i].taken \in Nat
                                         /\ samples[i].sure \in BOOLEAN
           /\ \A i \in 1..Len(hrLog) : /\ hrLog[i].time \in Nat /\ hrLog[i].taken \in Nat
                                       /\ hrLog[i].sure \in BOOLEAN /\ hrLog[i].confirmed \in BOOLEAN
<1>1. ASSUME NEW i \in 1..Len(samples)
      PROVE  /\ samples[i].time \in Nat /\ samples[i].taken \in Nat
             /\ samples[i].sure \in BOOLEAN
  <2>1. samples[i] \in HeartRate
    BY Seqs
  <2> QED
    BY <2>1, TimesAreNats DEF HeartRate
<1>2. ASSUME NEW i \in 1..Len(hrLog)
      PROVE  /\ hrLog[i].time \in Nat /\ hrLog[i].taken \in Nat
             /\ hrLog[i].sure \in BOOLEAN /\ hrLog[i].confirmed \in BOOLEAN
  <2>1. hrLog[i] \in HeartRow
    BY Seqs
  <2> QED
    BY <2>1, TimesAreNats DEF HeartRow
<1> QED
  BY <1>1, <1>2

LEMMA PromisedIsHistory ==
    /\ \A t \in Promised : t \in History /\ t \notin hidden
    /\ \A t \in History : t \notin hidden => t \in Promised
BY DEF Promised, History

LEMMA PromisedLess == ASSUME hidden \subseteq hidden' PROVE Promised' \subseteq Promised
BY DEF Promised

LEMMA StoreRests ==
    ASSUME RingStore, UNCHANGED <<samples, hrLog, saved, owed>>, blurred => blurred',
           hidden \subseteq hidden'
    PROVE  RingStore'
<1>1. (CheckpointIsARow /\ CheckpointIsNewest /\ LogSortedOnce /\ OnItsDay)'
  BY DEF RingStore, CheckpointIsARow, CheckpointIsNewest, LogSortedOnce, OnItsDay, InLog
<1>2. (QueueInOrder /\ LogClosed /\ AllSure)'
  BY PromisedLess DEF RingStore, QueueInOrder, LogClosed, AllSure, InLog
<1>3. (OwedKept /\ OwedSure)'
  BY DEF RingStore, OwedKept, OwedSure, QueuedFor, LoggedFor
<1> QED
  BY <1>1, <1>2, <1>3 DEF RingStore

\* The first sample leaves the queue.
LEMMA QueueAdvances ==
    ASSUME RingShape, samples # <<>>, samples' = Tail(samples)
    PROVE  /\ samples' \in Seq(HeartRate)
           /\ Len(samples) \in Nat \ {0} /\ Len(samples') = Len(samples) - 1
           /\ Head(samples) = samples[1]
           /\ \A k \in 1..Len(samples') : k + 1 \in 1..Len(samples) /\ samples'[k] = samples[k + 1]
<1>1. samples \in Seq(HeartRate) /\ Len(samples) \in Nat
  BY Seqs DEF RingShape
<1>2. Len(samples) # 0
  BY <1>1, EmptySeq
<1>3. samples' \in Seq(HeartRate) /\ Len(samples') = Len(samples) - 1
      /\ \A k \in 1..Len(samples') : samples'[k] = samples[k + 1]
  BY <1>1, HeadTailProperties
<1>4. Head(samples) = samples[1]
  BY DEF Head
<1> QED
  BY <1>1, <1>2, <1>3, <1>4

\* A row is added to the log.
LEMMA LogGrows ==
    ASSUME RingShape, NEW entry \in HeartRow, hrLog' = Append(hrLog, entry)
    PROVE  /\ hrLog' \in Seq(HeartRow) /\ Len(hrLog') = Len(hrLog) + 1
           /\ \A i \in 1..Len(hrLog) : i \in 1..Len(hrLog') /\ hrLog'[i] = hrLog[i]
           /\ hrLog'[Len(hrLog) + 1] = entry /\ Len(hrLog) + 1 \in 1..Len(hrLog')
<1>1. hrLog \in Seq(HeartRow) /\ Len(hrLog) \in Nat
  BY Seqs DEF RingShape
<1> QED
  BY <1>1, AppendProperties

\* A sample is added to the queue.
LEMMA QueueGrows ==
    ASSUME RingShape, NEW sample \in HeartRate, samples' = Append(samples, sample)
    PROVE  /\ samples' \in Seq(HeartRate) /\ Len(samples') = Len(samples) + 1
           /\ \A i \in 1..Len(samples) : i \in 1..Len(samples') /\ samples'[i] = samples[i]
           /\ samples'[Len(samples) + 1] = sample /\ Len(samples) + 1 \in 1..Len(samples')
<1>1. samples \in Seq(HeartRate) /\ Len(samples) \in Nat
  BY Seqs DEF RingShape
<1> QED
  BY <1>1, AppendProperties

LEMMA RowOfSample ==
    ASSUME NEW sample \in HeartRate, NEW ok \in BOOLEAN
    PROVE  /\ Row(sample, ok) \in HeartRow
           /\ Row(sample, ok).time = sample.time /\ Row(sample, ok).taken = sample.taken
           /\ Row(sample, ok).sure = sample.sure /\ Row(sample, ok).confirmed = ok
BY DEF Row, HeartRate, HeartRow

\* The first sample of the queue is newer than the checkpoint, and a row of it
\* is added to the log, confirmed or not.
LEMMA RowAdded ==
    ASSUME RingShape, RingStore, saved.loaded, samples # <<>>, saved.time \in Nat,
           saved.time < Head(samples).time,
           NEW ok \in BOOLEAN, hrLog' = Append(hrLog, Row(Head(samples), ok)),
           owed' = owed, hidden' = hidden, blurred' = blurred
    PROVE  /\ hrLog' \in Seq(HeartRow) /\ Len(hrLog') = Len(hrLog) + 1
           /\ \A i \in 1..Len(hrLog) : i \in 1..Len(hrLog') /\ hrLog'[i] = hrLog[i]
           /\ Len(hrLog) + 1 \in 1..Len(hrLog')
           /\ hrLog'[Len(hrLog) + 1].time = samples[1].time
           /\ hrLog'[Len(hrLog) + 1].sure = samples[1].sure
           /\ hrLog'[Len(hrLog) + 1].confirmed = ok
           /\ \A i \in 1..Len(hrLog') : hrLog'[i].sure => hrLog'[i].time = hrLog'[i].taken
           /\ ~blurred => \A i \in 1..Len(hrLog') : hrLog'[i].sure
           /\ LogSortedOnce' /\ LogClosed' /\ OwedSure'
<1> DEFINE s == samples[1]
           L == Len(hrLog)
<1>1. /\ s \in HeartRate /\ Head(samples) = s /\ 1 \in 1..Len(samples)
      /\ s.time \in Nat /\ s.sure \in BOOLEAN
  <2>1. Len(samples) \in Nat \ {0}
    BY EmptySeq, Seqs DEF RingShape
  <2>2. 1 \in 1..Len(samples)
    BY <2>1
  <2> QED
    BY <2>2, Seqs, StoreTimes DEF Head
<1>2. Row(s, ok) \in HeartRow
      /\ Row(s, ok).time = s.time /\ Row(s, ok).taken = s.taken
      /\ Row(s, ok).sure = s.sure /\ Row(s, ok).confirmed = ok
  BY <1>1, RowOfSample
<1>3. /\ hrLog' \in Seq(HeartRow) /\ Len(hrLog') = L + 1
      /\ \A i \in 1..L : i \in 1..Len(hrLog') /\ hrLog'[i] = hrLog[i]
      /\ hrLog'[L + 1] = Row(s, ok) /\ L + 1 \in 1..Len(hrLog')
  BY <1>1, <1>2, LogGrows
<1>4. L \in Nat /\ \A i \in 1..Len(hrLog') : i \in 1..L \/ i = L + 1
  BY <1>3, Seqs
<1>5. \A i \in 1..L : /\ hrLog[i].time \in Nat
                      /\ \/ hrLog[i].time < s.time
                         \/ hrLog[i].time = s.time /\ ~hrLog[i].confirmed
  <2>1. \A i \in 1..L : \/ hrLog[i].time <= saved.time
                        \/ hrLog[i].time = s.time /\ ~hrLog[i].confirmed
    BY DEF RingStore, CheckpointIsNewest
  <2> QED
    BY <2>1, <1>1, StoreTimes
<1> HIDE DEF s, L
<1>7. \A i \in 1..Len(hrLog') : hrLog'[i].sure => hrLog'[i].time = hrLog'[i].taken
  BY <1>1, <1>2, <1>3, <1>4 DEF RingStore, OnItsDay, s, L
<1>8. ~blurred => \A i \in 1..Len(hrLog') : hrLog'[i].sure
  BY <1>1, <1>2, <1>3, <1>4 DEF RingStore, AllSure, s, L
<1>9. LogSortedOnce'
  <2> SUFFICES ASSUME NEW i \in 1..Len(hrLog'), NEW j \in 1..Len(hrLog'), i < j
               PROVE  \/ hrLog'[i].time < hrLog'[j].time
                      \/ hrLog'[i].time = hrLog'[j].time /\ ~hrLog'[i].confirmed
    BY DEF LogSortedOnce
  <2>1. i \in 1..L
    BY <1>4
  <2>2. CASE j \in 1..L
    BY <2>1, <2>2, <1>3 DEF RingStore, LogSortedOnce, L
  <2>3. CASE j = L + 1
    BY <2>1, <2>3, <1>2, <1>3, <1>5
  <2> QED
    BY <2>2, <2>3, <1>4
<1>10. OwedSure'
  <2> SUFFICES ASSUME NEW i \in 1..Len(hrLog'), hrLog'[i].time \in owed PROVE hrLog'[i].sure
    BY DEF OwedSure
  <2>1. CASE i \in 1..L
    BY <2>1, <1>3 DEF RingStore, OwedSure, L
  <2>2. CASE i = L + 1
    <3>1. s.time \in owed
      BY <2>2, <1>2, <1>3
    <3>2. ~LoggedFor(s.time)
      BY <1>1 DEF LoggedFor, s
    <3>3. QueuedFor(s.time)
      BY <3>1, <3>2 DEF RingStore, OwedKept
    <3>4. PICK k \in 1..Len(samples) :
             samples[k].sure /\ samples[k].time = s.time /\ \A j \in 1..k - 1 : samples[j].time < s.time
      BY <3>3 DEF QueuedFor
    <3>5. k = 1
      <4>1. CASE k # 1
        <5>1. 1 \in 1..k - 1
          BY <4>1
        <5> QED
          BY <5>1, <3>4, <1>1 DEF s
      <4> QED
        BY <4>1
    <3> QED
      BY <3>4, <3>5, <2>2, <1>2, <1>3 DEF s
  <2> QED
    BY <2>1, <2>2, <1>4
<1>11. LogClosed'
  <2> SUFFICES ASSUME ~blurred, NEW i \in 1..Len(hrLog'),
                      NEW t \in Promised, t <= hrLog'[i].time
               PROVE  \E j \in 1..i : hrLog'[j].time = t
    BY PromisedLess DEF LogClosed
  <2>1. CASE i \in 1..L
    <3>1. \E j \in 1..i : hrLog[j].time = t
      BY <2>1, <1>3 DEF RingStore, LogClosed, L
    <3>2. PICK j \in 1..i : hrLog[j].time = t
      BY <3>1
    <3>3. j \in 1..L
      BY <2>1, <3>2, <1>4
    <3> QED
      BY <3>2, <3>3, <1>3
  <2>2. CASE i = L + 1
    <3>1. t <= s.time
      BY <2>2, <1>2, <1>3
    <3>2. t \in Nat
      BY PromisedIsHistory, HistoryTimes
    <3>5. CASE t = s.time
      BY <3>5, <2>2, <1>2, <1>3
    <3>6. CASE t < s.time
      <4>2. InLog(t) \/ \E j \in 1..1 - 1 : samples[j].time = t
        BY <3>6, <1>1 DEF RingStore, QueueInOrder, s
      <4>3. PICK j \in 1..L : hrLog[j].time = t
        BY <4>2 DEF InLog, L
      <4> QED
        BY <4>3, <2>2, <1>3, <1>4
    <3> QED
      BY <3>1, <3>2, <3>5, <3>6, <1>1
  <2> QED
    BY <2>1, <2>2, <1>4
<1> QED
  BY <1>1, <1>2, <1>3, <1>7, <1>8, <1>9, <1>10, <1>11 DEF s, L

\* The queue advances: what was between the second sample and an owed one
\* still is.
LEMMA QueuedStill ==
    ASSUME RingShape, samples # <<>>, samples' = Tail(samples),
           saved'.loaded = saved.loaded, NEW t, QueuedFor(t), samples[1].time # t,
           saved'.time < t
    PROVE  QueuedFor(t)'
<1>1. PICK k \in 1..Len(samples) :
         samples[k].sure /\ samples[k].time = t /\ \A j \in 1..k - 1 : samples[j].time < t
  BY DEF QueuedFor
<1>2. k # 1
  BY <1>1
<1>3. k - 1 \in 1..Len(samples') /\ samples'[k - 1] = samples[k]
  BY <1>1, <1>2, QueueAdvances
<1>4. ASSUME NEW j \in 1..(k - 1) - 1 PROVE samples'[j].time < t
  <2>1. j \in 1..Len(samples') /\ samples'[j] = samples[j + 1] /\ j + 1 \in 1..k - 1
    BY <1>1, <1>2, <1>3, <1>4, QueueAdvances
  <2> QED
    BY <2>1, <1>1
<1> QED
  BY <1>1, <1>3, <1>4 DEF QueuedFor

LEMMA DrainSaves ==
    ASSUME RingTypes, RingShape, RingStore, saved.loaded, samples # <<>>,
           saved.time < Head(samples).time,
           hrLog' = Append(hrLog, Row(Head(samples), TRUE)),
           saved' = [saved EXCEPT !.time = Head(samples).time],
           samples' = Tail(samples), owed' = owed, hidden' = hidden, blurred' = blurred
    PROVE  RingStore'
<1> DEFINE s == samples[1]
           L == Len(hrLog)
<1>0. saved \in [time : Nat, loaded : BOOLEAN] /\ saved.time \in Nat
  BY TimesAreNats DEF RingTypes, Times
<1>1. /\ hrLog' \in Seq(HeartRow) /\ Len(hrLog') = Len(hrLog) + 1
      /\ \A i \in 1..Len(hrLog) : i \in 1..Len(hrLog') /\ hrLog'[i] = hrLog[i]
      /\ Len(hrLog) + 1 \in 1..Len(hrLog')
      /\ hrLog'[Len(hrLog) + 1].time = samples[1].time
      /\ hrLog'[Len(hrLog) + 1].sure = samples[1].sure
      /\ hrLog'[Len(hrLog) + 1].confirmed = TRUE
      /\ \A i \in 1..Len(hrLog') : hrLog'[i].sure => hrLog'[i].time = hrLog'[i].taken
      /\ ~blurred => \A i \in 1..Len(hrLog') : hrLog'[i].sure
      /\ LogSortedOnce' /\ LogClosed' /\ OwedSure'
  BY <1>0, RowAdded
<1>2. /\ Len(samples) \in Nat \ {0} /\ Len(samples') = Len(samples) - 1
      /\ Head(samples) = s
      /\ \A k \in 1..Len(samples') : k + 1 \in 1..Len(samples) /\ samples'[k] = samples[k + 1]
  BY QueueAdvances DEF s
<1>3. saved'.time = s.time /\ saved'.loaded = saved.loaded /\ saved.time < s.time
  BY <1>0, <1>2
<1>4. 1 \in 1..Len(samples) /\ s.time \in Nat /\ L \in Nat
      /\ \A i \in 1..Len(hrLog') : i \in 1..L \/ i = L + 1
  BY <1>1, <1>2, Seqs, StoreTimes
<1>6. CheckpointIsARow'
  BY <1>1, <1>3 DEF CheckpointIsARow, InLog
<1>7. CheckpointIsNewest'
  <2> SUFFICES ASSUME NEW i \in 1..Len(hrLog') PROVE hrLog'[i].time <= saved'.time
    BY DEF CheckpointIsNewest
  <2>1. CASE i \in 1..L
    <3>1. hrLog[i].time \in Nat
      BY <2>1, StoreTimes
    <3>2. hrLog[i].time <= saved.time \/ hrLog[i].time = s.time
      BY <2>1 DEF RingStore, CheckpointIsNewest
    <3> QED
      BY <3>1, <3>2, <2>1, <1>0, <1>1, <1>3, <1>4
  <2>2. CASE i = L + 1
    <3>1. hrLog'[i].time = saved'.time
      BY <2>2, <1>1, <1>3
    <3>2. s.time \in Nat /\ hrLog'[i].time = s.time
      BY <3>1, <1>3, <1>4
    <3>3. \A a, b : a \in Nat /\ b = a => b <= a
      OBVIOUS
    <3>4. hrLog'[i].time <= s.time
      BY <3>2, <3>3
    <3> QED
      BY <3>4, <1>3
  <2> QED
    BY <2>1, <2>2, <1>4
<1>8. OnItsDay'
  BY <1>1, <1>2, ZenonT(60) DEF RingStore, OnItsDay
<1>9. AllSure'
  BY <1>1, <1>2 DEF RingStore, AllSure
<1>10. QueueInOrder'
  <2> SUFFICES ASSUME ~blurred, NEW k \in 1..Len(samples'),
                      NEW t \in Promised, t < samples'[k].time
               PROVE  InLog(t)' \/ \E j \in 1..k - 1 : samples'[j].time = t
    BY PromisedLess DEF QueueInOrder
  <2>2. k + 1 \in 1..Len(samples) /\ samples'[k] = samples[k + 1]
    BY <1>2
  <2>4. InLog(t) \/ \E j \in 1..(k + 1) - 1 : samples[j].time = t
    BY <2>2 DEF RingStore, QueueInOrder
  <2>5. CASE InLog(t)
    BY <2>5, <1>1, ZenonT(60) DEF InLog
  <2>6. CASE \E j \in 1..(k + 1) - 1 : samples[j].time = t
    <3>1. PICK j \in 1..(k + 1) - 1 : samples[j].time = t
      BY <2>6
    <3>2. CASE j = 1
      BY <3>1, <3>2, <1>1 DEF InLog
    <3>3. CASE j # 1
      <4>1. j - 1 \in 1..k - 1 /\ j - 1 \in 1..Len(samples') /\ (j - 1) + 1 = j
        BY <3>1, <3>3, <1>2
      <4> QED
        BY <4>1, <3>1, <1>2
    <3> QED
      BY <3>2, <3>3
  <2> QED
    BY <2>4, <2>5, <2>6
<1>11. OwedKept'
  <2> SUFFICES ASSUME NEW t \in owed PROVE QueuedFor(t)' \/ LoggedFor(t)'
    BY DEF OwedKept
  <2>1. CASE LoggedFor(t)
    <3>1. PICK i \in 1..L : hrLog[i].sure /\ hrLog[i].time = t
      BY <2>1 DEF LoggedFor
    <3>2. t \in Nat /\ t <= saved.time
      BY <2>1, <3>1, StoreTimes DEF LoggedFor
    <3>3. i \in 1..Len(hrLog') /\ hrLog'[i].sure /\ hrLog'[i].time = t
      BY <3>1, <1>1
    <3>4. t <= saved'.time
      BY <3>2, <1>0, <1>3, <1>4
    <3> QED
      BY <3>3, <3>4 DEF LoggedFor
  <2>2. CASE QueuedFor(t)
    <3>1. PICK k \in 1..Len(samples) :
             samples[k].sure /\ samples[k].time = t /\ \A j \in 1..k - 1 : samples[j].time < t
      BY <2>2 DEF QueuedFor
    <3>2. CASE k = 1
      <4>1. \E i \in 1..Len(hrLog') : hrLog'[i].sure /\ hrLog'[i].time = t
        BY <3>1, <3>2, <1>1
      <4>2. t <= saved'.time
        BY <3>1, <3>2, <1>3, <1>4
      <4> QED
        BY <4>1, <4>2 DEF LoggedFor
    <3>3. CASE k # 1
      <4>1. 1 \in 1..k - 1
        BY <3>3
      <4>2. s.time < t
        BY <4>1, <3>1
      <4>3. s.time # t
        BY <4>2, <1>4
      <4> QED
        BY <4>2, <4>3, <2>2, <1>3, QueuedStill
    <3> QED
      BY <3>2, <3>3
  <2> QED
    BY <2>1, <2>2 DEF RingStore, OwedKept
<1> QED
  BY <1>1, <1>6, <1>7, <1>8, <1>9, <1>10, <1>11 DEF RingStore

LEMMA DrainDrops ==
    ASSUME RingTypes, RingShape, RingStore, saved.loaded, samples # <<>>,
           ~(saved.time < Head(samples).time),
           hrLog' = hrLog, saved' = saved,
           samples' = Tail(samples), owed' = owed, hidden' = hidden, blurred' = blurred
    PROVE  RingStore'
<1> DEFINE s == samples[1]
<1>0. saved.time \in Nat
  BY TimesAreNats DEF RingTypes, Times
<1>2. /\ Len(samples) \in Nat \ {0} /\ Len(samples') = Len(samples) - 1
      /\ Head(samples) = s
      /\ \A k \in 1..Len(samples') : k + 1 \in 1..Len(samples) /\ samples'[k] = samples[k + 1]
  BY QueueAdvances DEF s
<1>4. 1 \in 1..Len(samples) /\ s.time \in Nat /\ s.time <= saved.time
  BY <1>0, <1>2, Seqs, StoreTimes
<1>5. (CheckpointIsARow /\ LogSortedOnce /\ OnItsDay /\ AllSure /\ LogClosed /\ OwedSure)'
  BY <1>2, PromisedLess, SMTT(60) DEF RingStore, CheckpointIsARow, LogSortedOnce, OnItsDay, AllSure, LogClosed, OwedSure, InLog
<1>7. CheckpointIsNewest'
  BY <1>0, <1>4, StoreTimes DEF RingStore, CheckpointIsNewest
<1>10. QueueInOrder'
  <2> SUFFICES ASSUME ~blurred, NEW k \in 1..Len(samples'),
                      NEW t \in Promised, t < samples'[k].time
               PROVE  InLog(t) \/ \E j \in 1..k - 1 : samples'[j].time = t
    BY PromisedLess, SMTT(60) DEF QueueInOrder, InLog
  <2>0. 0 < saved.time => \E i \in 1..Len(hrLog) : hrLog[i].time = saved.time
    BY DEF RingStore, CheckpointIsARow, InLog
  <2>2. k + 1 \in 1..Len(samples) /\ samples'[k] = samples[k + 1]
    BY <1>2
  <2>4. InLog(t) \/ \E j \in 1..(k + 1) - 1 : samples[j].time = t
    BY <2>2 DEF RingStore, QueueInOrder
  <2>6. CASE \E j \in 1..(k + 1) - 1 : samples[j].time = t
    <3>1. PICK j \in 1..(k + 1) - 1 : samples[j].time = t
      BY <2>6
    <3>2. CASE j = 1
      <4>1. t \in Nat /\ 0 < t /\ t <= saved.time
        BY <3>1, <3>2, <1>0, <1>4, PromisedIsHistory, HistoryTimes
      <4>2. 0 < saved.time
        BY <4>1, <1>0
      <4>3. PICK i \in 1..Len(hrLog) : hrLog[i].time = saved.time
        BY <4>2, <2>0
      <4>5. \E m \in 1..i : hrLog[m].time = t
        BY <4>1, <4>3 DEF RingStore, LogClosed
      <4>6. PICK m \in 1..i : hrLog[m].time = t
        BY <4>5
      <4>7. m \in 1..Len(hrLog)
        BY <4>6, Seqs
      <4> QED
        BY <4>6, <4>7 DEF InLog
    <3>3. CASE j # 1
      <4>1. j - 1 \in 1..k - 1 /\ j - 1 \in 1..Len(samples') /\ (j - 1) + 1 = j
        BY <3>1, <3>3, <1>2
      <4> QED
        BY <4>1, <3>1, <1>2
    <3> QED
      BY <3>2, <3>3
  <2> QED
    BY <2>4, <2>6
<1>11. OwedKept'
  <2> SUFFICES ASSUME NEW t \in owed PROVE QueuedFor(t)' \/ LoggedFor(t)'
    BY DEF OwedKept
  <2>1. CASE LoggedFor(t)
    BY <2>1 DEF LoggedFor
  <2>2. CASE QueuedFor(t)
    <3>1. s.time # t /\ saved'.time < t
      BY <2>2, <1>0, <1>4 DEF QueuedFor
    <3> QED
      BY <3>1, <2>2, QueuedStill
  <2> QED
    BY <2>1, <2>2 DEF RingStore, OwedKept
<1> QED
  BY <1>5, <1>7, <1>10, <1>11 DEF RingStore

LEMMA DrainFailsOnCard ==
    ASSUME RingTypes, RingShape, RingStore, saved.loaded, samples # <<>>,
           saved.time < Head(samples).time,
           hrLog' = Append(hrLog, Row(Head(samples), FALSE)),
           saved' = saved, samples' = samples, owed' = owed, hidden' = hidden, blurred' = blurred
    PROVE  RingStore'
<1> DEFINE s == samples[1]
           L == Len(hrLog)
<1>0. saved.time \in Nat /\ Head(samples) = s
  BY TimesAreNats DEF RingTypes, Times, Head
<1>1. /\ hrLog' \in Seq(HeartRow) /\ Len(hrLog') = Len(hrLog) + 1
      /\ \A i \in 1..Len(hrLog) : i \in 1..Len(hrLog') /\ hrLog'[i] = hrLog[i]
      /\ Len(hrLog) + 1 \in 1..Len(hrLog')
      /\ hrLog'[Len(hrLog) + 1].time = samples[1].time
      /\ hrLog'[Len(hrLog) + 1].sure = samples[1].sure
      /\ hrLog'[Len(hrLog) + 1].confirmed = FALSE
      /\ \A i \in 1..Len(hrLog') : hrLog'[i].sure => hrLog'[i].time = hrLog'[i].taken
      /\ ~blurred => \A i \in 1..Len(hrLog') : hrLog'[i].sure
      /\ LogSortedOnce' /\ LogClosed' /\ OwedSure'
  BY <1>0, RowAdded
<1>4. L \in Nat /\ \A i \in 1..Len(hrLog') : i \in 1..L \/ i = L + 1
  BY <1>1, Seqs
<1>5. (OnItsDay /\ AllSure)'
  BY <1>1 DEF RingStore, OnItsDay, AllSure
<1>6. CheckpointIsARow'
  BY <1>1 DEF RingStore, CheckpointIsARow, InLog
<1>7. CheckpointIsNewest'
  <2> SUFFICES ASSUME NEW i \in 1..Len(hrLog')
               PROVE  \/ hrLog'[i].time <= saved.time
                      \/ /\ samples # <<>> /\ hrLog'[i].time = samples[1].time
                         /\ saved.time < samples[1].time /\ ~hrLog'[i].confirmed
    BY DEF CheckpointIsNewest
  <2>1. CASE i \in 1..L
    BY <2>1, <1>1 DEF RingStore, CheckpointIsNewest
  <2>2. CASE i = L + 1
    BY <2>2, <1>1, <1>0
  <2> QED
    BY <2>1, <2>2, <1>4
<1>10. QueueInOrder'
  <2>1. \A t : InLog(t) => InLog(t)'
    BY <1>1 DEF InLog
  <2> QED
    BY <2>1, PromisedLess DEF RingStore, QueueInOrder
<1>11. OwedKept'
  <2>1. \A t : QueuedFor(t) => QueuedFor(t)'
    BY DEF QueuedFor
  <2>2. \A t : LoggedFor(t) => LoggedFor(t)'
    BY <1>1 DEF LoggedFor
  <2> QED
    BY <2>1, <2>2 DEF RingStore, OwedKept
<1> QED
  BY <1>1, <1>5, <1>6, <1>7, <1>10, <1>11 DEF RingStore

\* The checkpoint loaded is the newest time of the whole log: rows are in
\* order, so the newest is in the tail.
LEMMA NewestOfTail ==
    ASSUME RingShape, LogSortedOnce, saved.time = 0
    PROVE  /\ Checkpoint(hrLog) \in Times
           /\ \A i \in 1..Len(hrLog) : hrLog[i].time <= Checkpoint(hrLog)
           /\ 0 < Checkpoint(hrLog) => InLog(Checkpoint(hrLog))
<1> DEFINE L == Len(hrLog)
           tail == IF L > TailRows THEN TailOf(hrLog) ELSE hrLog
           times == {entry.time : entry \in Range(tail)} \cup {saved.time}
<1>1. L \in Nat /\ TailRows \in Nat \ {0} /\ hrLog \in Seq(HeartRow)
      /\ \A i \in 1..L : hrLog[i] \in HeartRow /\ hrLog[i].time \in Nat /\ hrLog[i].time \in Times
  <2>1. \A i \in 1..L : hrLog[i] \in HeartRow
    BY Seqs
  <2> QED
    BY <2>1, Seqs, RingAssumption, TimesAreNats DEF RingShape, HeartRow
<1>2. /\ tail \in Seq(HeartRow)
      /\ L = 0 => Len(tail) = 0
      /\ L # 0 => Len(tail) \in Nat \ {0} /\ tail[Len(tail)] = hrLog[L]
      /\ \A k \in 1..Len(tail) : \E i \in 1..L : tail[k] = hrLog[i]
  <2>1. CASE L > TailRows
    <3> DEFINE m == L - TailRows + 1
    <3>1. m \in Int /\ L \in Int /\ m <= L /\ 1 <= m /\ L - m + 1 = TailRows /\ m + TailRows - 1 = L
      BY <2>1, <1>1
    <3>2. \A i \in m..L : hrLog[i] \in HeartRow
      BY <3>1, <1>1
    <3>3. SubSeq(hrLog, m, L) \in Seq(HeartRow) /\ Len(SubSeq(hrLog, m, L)) = TailRows
          /\ \A i \in 1..TailRows : SubSeq(hrLog, m, L)[i] = hrLog[m + i - 1]
      <4>1. /\ SubSeq(hrLog, m, L) \in Seq(HeartRow)
            /\ Len(SubSeq(hrLog, m, L)) = IF m <= L THEN L - m + 1 ELSE 0
            /\ \A i \in 1..L - m + 1 : SubSeq(hrLog, m, L)[i] = hrLog[m + i - 1]
        <5> HIDE DEF m
        <5> QED
          BY <3>1, <3>2, SubSeqProperties, SMTT(60)
      <4> HIDE DEF m
      <4> QED
        BY <3>1, <4>1
    <3>4. tail = SubSeq(hrLog, m, L)
      BY <2>1 DEF TailOf
    <3>5. \A k \in 1..TailRows : m + k - 1 \in 1..L
      BY <3>1, <1>1
    <3> HIDE DEF tail, m
    <3>6. TailRows \in 1..TailRows
      BY <1>1
    <3>7. tail \in Seq(HeartRow) /\ Len(tail) = TailRows /\ \A i \in 1..TailRows : tail[i] = hrLog[m + i - 1]
      BY <3>3, <3>4
    <3>8. TailRows \in Nat \ {0} /\ L # 0 /\ tail[Len(tail)] = hrLog[L]
      BY <3>1, <3>6, <3>7, <2>1, <1>1
    <3>9. \A k \in 1..Len(tail) : \E i \in 1..L : tail[k] = hrLog[i]
      BY <3>5, <3>7
    <3> QED
      BY <3>7, <3>8, <3>9
  <2>2. CASE ~(L > TailRows)
    BY <2>2, <1>1
  <2> QED
    BY <2>1, <2>2
<1>3. times = {tail[k].time : k \in 1..Len(tail)} \cup {0}
  <2>1. DOMAIN tail = 1..Len(tail)
    BY <1>2, LenProperties
  <2> QED
    BY <2>1 DEF Range
<1>4. Checkpoint(hrLog) = CHOOSE x \in times : \A y \in times : x >= y
  BY DEF Checkpoint, Max
<1>5. \A i \in 1..L : hrLog[i].time <= hrLog[L].time
  BY <1>1 DEF LogSortedOnce
<1> HIDE DEF tail, times
<1>6. times \subseteq Nat /\ times \subseteq Times
  <2>1. \A k \in 1..Len(tail) : tail[k].time \in Times
    BY <1>1, <1>2
  <2> QED
    BY <2>1, <1>3, TimesAreNats
<1>7. \E x \in times : \A y \in times : x >= y
  <2>1. CASE L = 0
    BY <2>1, <1>2, <1>3
  <2>2. CASE L # 0
    <3>1. L \in 1..L /\ hrLog[L].time \in Nat
      BY <2>2, <1>1
    <3>2. hrLog[L].time \in times
      BY <2>2, <1>2, <1>3
    <3>3. \A y \in times : hrLog[L].time >= y
      <4> SUFFICES ASSUME NEW y \in times PROVE hrLog[L].time >= y
        OBVIOUS
      <4>1. CASE y = 0
        BY <4>1, <3>1
      <4>2. CASE y # 0
        <5>1. PICK k \in 1..Len(tail) : y = tail[k].time
          BY <4>2, <1>3
        <5>2. PICK i \in 1..L : tail[k] = hrLog[i]
          BY <1>2
        <5> QED
          BY <5>1, <5>2, <1>1, <1>5, <3>1
      <4> QED
        BY <4>1, <4>2
    <3> QED
      BY <3>2, <3>3
  <2> QED
    BY <2>1, <2>2
<1>8. Checkpoint(hrLog) \in times /\ \A y \in times : Checkpoint(hrLog) >= y
  BY <1>4, <1>7
<1>9. \A i \in 1..L : hrLog[i].time <= Checkpoint(hrLog)
  <2> SUFFICES ASSUME NEW i \in 1..L PROVE hrLog[i].time <= Checkpoint(hrLog)
    OBVIOUS
  <2>1. L # 0 /\ L \in 1..L
    BY <1>1
  <2>2. hrLog[L].time \in times
    BY <2>1, <1>2, <1>3
  <2>3. hrLog[i].time \in Nat /\ hrLog[L].time \in Nat /\ Checkpoint(hrLog) \in Nat
    BY <2>1, <1>1, <1>6, <1>8
  <2> QED
    BY <2>2, <2>3, <1>5, <1>8
<1>10. 0 < Checkpoint(hrLog) => InLog(Checkpoint(hrLog))
  <2> SUFFICES ASSUME 0 < Checkpoint(hrLog) PROVE InLog(Checkpoint(hrLog))
    OBVIOUS
  <2>1. PICK k \in 1..Len(tail) : Checkpoint(hrLog) = tail[k].time
    BY <1>3, <1>8
  <2> QED
    BY <2>1, <1>2 DEF InLog
<1> QED
  BY <1>6, <1>8, <1>9, <1>10

LEMMA LoadKeepsStore ==
    ASSUME RingTypes, RingShape, RingStore, ~saved.loaded,
           saved' = [time |-> Checkpoint(hrLog), loaded |-> TRUE],
           UNCHANGED <<samples, hrLog, owed, hidden, blurred>>
    PROVE  RingStore'
<1>1. saved.time = 0 /\ LogSortedOnce
  BY DEF RingStore, CheckpointIsARow
<1>2. /\ \A i \in 1..Len(hrLog) : hrLog[i].time <= saved'.time
      /\ 0 < saved'.time => InLog(saved'.time)
      /\ saved'.loaded
  BY <1>1, NewestOfTail
<1>3. (LogSortedOnce /\ OnItsDay /\ OwedSure)'
  BY DEF RingStore, LogSortedOnce, OnItsDay, OwedSure
<1>4. (QueueInOrder /\ LogClosed /\ AllSure)'
  BY PromisedLess DEF RingStore, QueueInOrder, LogClosed, AllSure, InLog
<1>5. (CheckpointIsARow /\ CheckpointIsNewest)'
  BY <1>2 DEF CheckpointIsARow, CheckpointIsNewest, InLog
<1>6. OwedKept'
  <2> SUFFICES ASSUME NEW t \in owed PROVE LoggedFor(t)'
    BY DEF OwedKept
  <2>1. LoggedFor(t)
    BY DEF RingStore, OwedKept, QueuedFor
  <2>2. PICK i \in 1..Len(hrLog) : hrLog[i].sure /\ hrLog[i].time = t
    BY <2>1 DEF LoggedFor
  <2> QED
    BY <2>2, <1>2 DEF LoggedFor
<1> QED
  BY <1>3, <1>4, <1>5, <1>6 DEF RingStore

\* Power is lost.
LEMMA RebootKeepsStore ==
    ASSUME RingShape, RingStore, NEW kept \in 0..Len(hrLog),
           hrLog' = SubSeq(hrLog, 1, kept),
           owed' = owed \cap {hrLog[i].time : i \in 1..kept},
           samples' = <<>>, saved' = Unloaded, hidden' = hidden, blurred' = blurred
    PROVE  hrLog' \in Seq(HeartRow) /\ RingStore'
<1>1. hrLog' \in Seq(HeartRow) /\ Len(hrLog') = kept
      /\ \A i \in 1..Len(hrLog') : i \in 1..Len(hrLog) /\ hrLog'[i] = hrLog[i]
  <2>1. Len(hrLog) \in Nat /\ kept \in Nat /\ kept \in Int /\ 1 \in Int /\ \A i \in 1..kept : i \in 1..Len(hrLog)
    BY Seqs
  <2>2. \A i \in 1..kept : hrLog[i] \in HeartRow
    BY <2>1, Seqs
  <2>3. hrLog' \in Seq(HeartRow) /\ Len(hrLog') = (IF 1 <= kept THEN kept - 1 + 1 ELSE 0)
        /\ \A i \in 1..kept - 1 + 1 : hrLog'[i] = hrLog[1 + i - 1]
    BY <2>1, <2>2, SubSeqProperties
  <2>4. Len(hrLog') = kept
    BY <2>1, <2>3
  <2> QED
    BY <2>1, <2>3, <2>4
<1>2. Len(samples') = 0 /\ 1..Len(samples') = {}
  BY EmptySeq
<1>3. saved'.time = 0 /\ ~saved'.loaded
  BY DEF Unloaded
<1>4. (CheckpointIsARow /\ CheckpointIsNewest /\ OnItsDay)'
  BY <1>1, <1>2, <1>3 DEF RingStore, CheckpointIsARow, CheckpointIsNewest, OnItsDay, InLog
<1>5. LogSortedOnce'
  BY <1>1 DEF RingStore, LogSortedOnce
<1>6. (QueueInOrder /\ AllSure /\ OwedSure)'
  BY <1>1, <1>2 DEF RingStore, QueueInOrder, AllSure, OwedSure
<1>7. LogClosed'
  <2> SUFFICES ASSUME ~blurred, NEW i \in 1..Len(hrLog'),
                      NEW t \in Promised, t <= hrLog'[i].time
               PROVE  \E j \in 1..i : hrLog'[j].time = t
    BY PromisedLess DEF LogClosed
  <2>1. PICK j \in 1..i : hrLog[j].time = t
    BY <1>1 DEF RingStore, LogClosed
  <2>2. j \in 1..Len(hrLog')
    BY <1>1
  <2> QED
    BY <2>1, <2>2, <1>1
<1>8. OwedKept'
  <2> SUFFICES ASSUME NEW t \in owed' PROVE LoggedFor(t)'
    BY DEF OwedKept
  <2>1. PICK i \in 1..kept : hrLog[i].time = t /\ t \in owed
    OBVIOUS
  <2>2. i \in 1..Len(hrLog') /\ hrLog'[i].sure /\ hrLog'[i].time = t
    BY <2>1, <1>1 DEF RingStore, OwedSure
  <2> QED
    BY <2>2, <1>3 DEF LoggedFor
<1> QED
  BY <1>1, <1>4, <1>5, <1>6, <1>7, <1>8 DEF RingStore

\* A sample added to the queue changes neither its first sample nor what stands
\* for an owed one.
LEMMA FirstStays ==
    ASSUME RingShape, NEW sample \in HeartRate, samples' = Append(samples, sample),
           UNCHANGED <<hrLog, saved>>, CheckpointIsNewest
    PROVE  CheckpointIsNewest'
<1>1. Len(samples) \in Nat /\ samples \in Seq(HeartRate)
  BY Seqs DEF RingShape
<1>2. samples # <<>> => samples' # <<>> /\ samples'[1] = samples[1]
  <2>1. samples # <<>> => Len(samples) \in Nat \ {0}
    BY <1>1, EmptySeq
  <2>2. samples # <<>> => 1 \in 1..Len(samples)
    BY <2>1
  <2> QED
    BY <2>2, <1>1, AppendProperties, QueueGrows
<1> QED
  BY <1>2 DEF CheckpointIsNewest

LEMMA OwedStays ==
    ASSUME RingShape, NEW sample \in HeartRate, samples' = Append(samples, sample),
           UNCHANGED <<hrLog, saved>>
    PROVE  \A t : (QueuedFor(t) => QueuedFor(t)') /\ (LoggedFor(t) => LoggedFor(t)')
<1> SUFFICES ASSUME NEW t
             PROVE  (QueuedFor(t) => QueuedFor(t)') /\ (LoggedFor(t) => LoggedFor(t)')
  OBVIOUS
<1>1. LoggedFor(t) => LoggedFor(t)'
  BY DEF LoggedFor
<1>2. ASSUME QueuedFor(t) PROVE QueuedFor(t)'
  <2>1. PICK k \in 1..Len(samples) :
           samples[k].sure /\ samples[k].time = t /\ \A j \in 1..k - 1 : samples[j].time < t
    BY <1>2 DEF QueuedFor
  <2>2. k \in 1..Len(samples') /\ samples'[k] = samples[k]
    BY <2>1, QueueGrows
  <2>3. \A j \in 1..k - 1 : j \in 1..Len(samples) /\ samples'[j] = samples[j]
    <3>1. \A j \in 1..k - 1 : j \in 1..Len(samples)
      BY <2>1, Seqs
    <3> QED
      BY <3>1, QueueGrows
  <2> QED
    BY <1>2, <2>1, <2>2, <2>3 DEF QueuedFor
<1> QED
  BY <1>1, <1>2

\* A sample is queued whose date is not to be relied on.
LEMMA DoubtfulQueued ==
    ASSUME RingShape, RingStore, NEW sample \in HeartRate, ~sample.sure,
           samples' = Append(samples, sample), blurred',
           UNCHANGED <<hrLog, saved, owed>>
    PROVE  RingStore'
<1>1. /\ Len(samples') = Len(samples) + 1 /\ Len(samples) \in Nat
      /\ \A i \in 1..Len(samples) : i \in 1..Len(samples') /\ samples'[i] = samples[i]
      /\ samples'[Len(samples) + 1] = sample /\ Len(samples) + 1 \in 1..Len(samples')
      /\ \A i \in 1..Len(samples') : i \in 1..Len(samples) \/ i = Len(samples) + 1
  <2>1. /\ Len(samples') = Len(samples) + 1 /\ Len(samples) \in Nat
        /\ \A i \in 1..Len(samples) : i \in 1..Len(samples') /\ samples'[i] = samples[i]
        /\ samples'[Len(samples) + 1] = sample /\ Len(samples) + 1 \in 1..Len(samples')
    BY Seqs, QueueGrows
  <2> QED
    BY <2>1
<1>4. (CheckpointIsARow /\ LogSortedOnce /\ OwedSure /\ OnItsDay)'
  BY <1>1 DEF RingStore, CheckpointIsARow, LogSortedOnce, OwedSure, OnItsDay, InLog
<1>5. (QueueInOrder /\ AllSure /\ LogClosed)'
  BY DEF QueueInOrder, AllSure, LogClosed
<1>6. CheckpointIsNewest'
  BY FirstStays DEF RingStore, CheckpointIsNewest
<1>7. OwedKept'
  BY OwedStays DEF RingStore, OwedKept
<1> QED
  BY <1>4, <1>5, <1>6, <1>7 DEF RingStore

\* A sample is queued behind all that is promised and older: a reading, which
\* adds nothing to what is owed, or one of the history, owed from now on unless
\* something newer hides it.
LEMMA SureQueued ==
    ASSUME RingTypes, RingShape, RingStore, NEW sample \in HeartRate, sample.sure,
           sample.time = sample.taken, hidden \subseteq hidden',
           ~blurred => \A t \in Promised' : t < sample.time => InLog(t) \/ InQueue(t),
           NEW new \in SUBSET {sample.time}, owed' = owed \cup new,
           new # {} => /\ ~blurred /\ saved.loaded /\ sample.time \in Promised
                       /\ \A k \in 1..Len(samples) : samples[k].time < sample.time,
           samples' = Append(samples, sample),
           UNCHANGED <<hrLog, saved, blurred>>
    PROVE  RingStore'
<1>1. /\ Len(samples') = Len(samples) + 1 /\ Len(samples) \in Nat
      /\ \A i \in 1..Len(samples) : i \in 1..Len(samples') /\ samples'[i] = samples[i]
      /\ samples'[Len(samples) + 1] = sample /\ Len(samples) + 1 \in 1..Len(samples')
      /\ \A i \in 1..Len(samples') : i \in 1..Len(samples) \/ i = Len(samples) + 1
  <2>1. /\ Len(samples') = Len(samples) + 1 /\ Len(samples) \in Nat
        /\ \A i \in 1..Len(samples) : i \in 1..Len(samples') /\ samples'[i] = samples[i]
        /\ samples'[Len(samples) + 1] = sample /\ Len(samples) + 1 \in 1..Len(samples')
    BY Seqs, QueueGrows
  <2> QED
    BY <2>1
<1>2. new # {} => sample.time \in Nat /\ 0 < sample.time
  BY PromisedIsHistory, HistoryTimes
<1>4. (CheckpointIsARow /\ LogSortedOnce /\ OnItsDay /\ LogClosed)'
  BY <1>1, PromisedLess DEF RingStore, CheckpointIsARow, LogSortedOnce, OnItsDay, LogClosed, InLog
<1>5. (AllSure /\ OwedSure)'
  BY <1>1 DEF RingStore, AllSure, OwedSure
<1>6. CheckpointIsNewest'
  BY FirstStays DEF RingStore, CheckpointIsNewest
<1>7. OwedKept'
  <2> SUFFICES ASSUME NEW t \in owed' PROVE QueuedFor(t)' \/ LoggedFor(t)'
    BY DEF OwedKept
  <2>1. CASE t \in owed
    BY <2>1, OwedStays DEF RingStore, OwedKept
  <2>2. CASE new # {} /\ t = sample.time
    <3>0. saved.time \in Nat
      BY TimesAreNats DEF RingTypes, Times
    <3>1. CASE saved.time < t
      <4>1. \A j \in 1..(Len(samples) + 1) - 1 : j \in 1..Len(samples)
        BY <1>1
      <4>2. \A j \in 1..(Len(samples) + 1) - 1 : samples'[j].time < t
        BY <4>1, <2>2, <1>1
      <4> QED
        BY <4>2, <3>1, <2>2, <1>1 DEF QueuedFor
    <3>2. CASE ~(saved.time < t)
      <4>1. 0 < saved.time /\ t <= saved.time
        BY <3>0, <3>2, <2>2, <1>2
      <4>2. PICK i \in 1..Len(hrLog) : hrLog[i].time = saved.time
        BY <4>1 DEF RingStore, CheckpointIsARow, InLog
      <4>3. \E j \in 1..i : hrLog[j].time = t
        BY <4>1, <4>2, <2>2 DEF RingStore, LogClosed
      <4>4. PICK j \in 1..i : hrLog[j].time = t
        BY <4>3
      <4>5. j \in 1..Len(hrLog)
        BY <4>4, Seqs
      <4>6. hrLog[j].sure
        BY <4>5, <2>2 DEF RingStore, AllSure
      <4> QED
        BY <4>1, <4>4, <4>5, <4>6 DEF LoggedFor
    <3> QED
      BY <3>1, <3>2
  <2> QED
    BY <2>1, <2>2
<1>8. QueueInOrder'
  <2> SUFFICES ASSUME ~blurred, NEW k \in 1..Len(samples'),
                      NEW t \in Promised', t < samples'[k].time
               PROVE  InLog(t) \/ \E j \in 1..k - 1 : samples'[j].time = t
    BY DEF QueueInOrder, InLog
  <2>1. CASE k \in 1..Len(samples)
    <3>1. \A j \in 1..k : j \in 1..Len(samples) /\ samples'[j] = samples[j]
      BY <2>1, <1>1
    <3>2. k \in 1..k /\ \A j \in 1..k - 1 : j \in 1..k
      BY <2>1, <1>1
    <3>3. InLog(t) \/ \E j \in 1..k - 1 : samples[j].time = t
      BY <2>1, <3>1, <3>2, PromisedLess DEF RingStore, QueueInOrder
    <3> QED
      BY <3>1, <3>2, <3>3
  <2>2. CASE k = Len(samples) + 1
    <3>1. t < sample.time
      BY <2>2, <1>1
    <3>2. InLog(t) \/ \E j \in 1..Len(samples) : samples[j].time = t
      BY <3>1 DEF InQueue
    <3>3. \A j \in 1..Len(samples) : j \in 1..k - 1 /\ samples'[j] = samples[j]
      BY <2>2, <1>1
    <3> QED
      BY <3>2, <3>3
  <2> QED
    BY <2>1, <2>2, <1>1
<1> QED
  BY <1>4, <1>5, <1>6, <1>7, <1>8 DEF RingStore

(***************************************************************************)
(* The types.                                                              *)
(***************************************************************************)
LEMMA HistoryTimeKnown ==
    ASSUME NEW d \in 0..LastDay, NEW n \in Nat, n < DayLength
    PROVE  TimeOf(d, n) \in Times
<1>1. LastDay \in Nat /\ d \in Nat /\ d < LastDay + 1 /\ LastDay + 1 \in Nat /\ 0 \in Nat
  BY Days
<1>2. TimeOf(d, n) \in Nat /\ TimeOf(LastDay + 1, 0) \in Nat /\ TimeOf(d, n) < TimeOf(LastDay + 1, 0)
  BY <1>1, TimesInOrder
<1> QED
  BY <1>2 DEF Times

LEMMA ReadingTimeKnown == ASSUME RingTypes, RingShape, count.readings < MaxReadings PROVE Now \in Times
<1>1. count.readings \in Nat /\ MaxReadings \in Nat /\ QueueSlots \in Nat /\ today \in 0..LastDay
  BY RingAssumption DEF RingTypes, RingShape
<1>2. QueueSlots + 1 + count.readings \in Nat /\ QueueSlots + 1 + count.readings < DayLength
  BY <1>1 DEF DayLength
<1> QED
  BY <1>1, <1>2, HistoryTimeKnown DEF Now

LEMMA HistoryKnown == ASSUME NEW days \in SUBSET (1..LastDay) PROVE HistoryOf(days) \subseteq Times
<1> SUFFICES ASSUME NEW t \in HistoryOf(days) PROVE t \in Times
  OBVIOUS
<1>1. PICK d \in days : \E n \in 1..Stored[d] : t = TimeOf(d, n)
  BY DEF HistoryOf
<1>2. PICK n \in 1..Stored[d] : t = TimeOf(d, n)
  BY <1>1
<1>3. d \in 0..LastDay /\ n \in Nat /\ n < DayLength
  BY <1>1, <1>2, Days
<1> QED
  BY <1>2, <1>3, HistoryTimeKnown

\* What the ring answers: nothing, or the whole of the day from its first
\* sample on, behind a header.
LEMMA AnswerShape ==
    ASSUME NEW write \in GattWrite, ~InChain(write), NEW answer \in Answers(write)
    PROVE  /\ answer \in Seq(Notice) /\ Len(answer) \in Nat
           /\ write.to # "history" => \A i \in 1..Len(answer) : answer[i].kind = "reading"
           /\ write.to = "history" =>
                  \A i \in 1..Len(answer) :
                      \/ i = 1 /\ answer[i].kind = "header" /\ answer[i].total = Stored[write.day] + 1
                      \/ i = 1 /\ answer[i].kind = "none" /\ Stored[write.day] = 0
                      \/ /\ 1 < i /\ answer[i].kind = "data" /\ answer[i].n = i - 1
                         /\ answer[i].n <= Stored[write.day] /\ answer[i].day = write.day
<1>0. <<>> \in Seq(Notice) /\ Len(<<>>) = 0
  BY EmptySeq
<1>1. CASE write.to # "history"
  <2>1. answer \in {<<>>, <<[kind |-> "reading", ok |-> TRUE]>>, <<[kind |-> "reading", ok |-> FALSE]>>}
    BY <1>1 DEF Answers
  <2>2. CASE answer = <<>>
    BY <2>2, <1>0, <1>1
  <2>3. ASSUME NEW good \in BOOLEAN, answer = <<[kind |-> "reading", ok |-> good]>>
        PROVE  answer \in Seq(Notice) /\ Len(answer) = 1 /\ answer[1].kind = "reading"
    <3>1. [kind |-> "reading", ok |-> good] \in Notice
      BY DEF Notice
    <3> QED
      BY <2>3, <3>1
  <2>4. answer # <<>> => answer \in Seq(Notice) /\ Len(answer) = 1 /\ answer[1].kind = "reading"
    BY <2>1, <2>3
  <2>5. CASE answer # <<>>
    <3>1. answer \in Seq(Notice) /\ Len(answer) = 1 /\ answer[1].kind = "reading"
      BY <2>4, <2>5
    <3>2. \A i \in 1..Len(answer) : i = 1
      BY <3>1
    <3> QED
      BY <1>1, <3>1, <3>2
  <2> QED
    BY <2>2, <2>5
<1>2. CASE write.to = "history"
  <2> DEFINE n == Stored[write.day]
             item(i) == [kind |-> "data", n |-> i, day |-> write.day]
             data == [i \in 1..n |-> item(i)]
             header(total) == [kind |-> "header", total |-> total]
  <2>1. write.day \in 1..LastDay /\ n \in Nat /\ n <= QueueSlots /\ QueueSlots \in Nat
    <3>1. write.day \in 1..LastDay
      BY <1>2 DEF GattWrite
    <3> QED
      BY <3>1, Days
  <2>2. answer \in {<<>>} \cup
                   IF n = 0 THEN {<<[kind |-> "none"]>>, <<header(1)>>}
                   ELSE {<<header(n + 1)>> \o data}
    BY <1>2 DEF Answers
  <2>3. CASE answer = <<>>
    BY <2>3, <1>0, <1>2
  <2>4. CASE n = 0 /\ answer = <<[kind |-> "none"]>>
    <3>1. [kind |-> "none"] \in Notice
      BY DEF Notice
    <3>2. answer \in Seq(Notice) /\ Len(answer) = 1 /\ answer[1].kind = "none"
      BY <2>4, <3>1
    <3> QED
      BY <3>2, <2>4, <1>2
  <2>5. CASE n = 0 /\ answer = <<header(1)>>
    <3>1. header(1) \in Notice
      BY <2>1 DEF Notice
    <3>2. answer \in Seq(Notice) /\ Len(answer) = 1 /\ answer[1].kind = "header" /\ answer[1].total = 1
      BY <2>5, <3>1
    <3> QED
      BY <3>2, <2>5, <1>2
  <2>6. CASE n # 0 /\ answer = <<header(n + 1)>> \o data
    <3>1. header(n + 1) \in Notice
      BY <2>1 DEF Notice
    <3>2. \A i \in 1..n : item(i) \in Notice
      BY <2>1 DEF Notice
    <3>3. <<header(n + 1)>> \in Seq(Notice) /\ Len(<<header(n + 1)>>) = 1 /\ <<header(n + 1)>>[1] = header(n + 1)
      BY <3>1
    <3>4. data \in Seq(Notice) /\ Len(data) = n /\ \A i \in 1..n : data[i] = item(i)
      BY <2>1, <3>2
    <3> HIDE DEF header, data, item
    <3>5. /\ answer \in Seq(Notice) /\ Len(answer) = 1 + n
          /\ \A i \in 1..1 + n : answer[i] = IF i <= 1 THEN <<header(n + 1)>>[i] ELSE data[i - 1]
      BY <2>6, <3>3, <3>4, ConcatProperties
    <3>6. answer[1].kind = "header" /\ answer[1].total = n + 1
      BY <3>3, <3>5, <2>1 DEF header
    <3>7. ASSUME NEW i \in 1..Len(answer), i # 1
          PROVE  1 < i /\ answer[i].kind = "data" /\ answer[i].n = i - 1
                 /\ answer[i].n <= n /\ answer[i].day = write.day
      <4>1. i - 1 \in 1..n /\ 1 < i
        BY <3>5, <3>7, <2>1
      <4>2. answer[i] = item(i - 1)
        BY <4>1, <3>4, <3>5, <3>7
      <4> QED
        BY <4>1, <4>2 DEF item
    <3> QED
      BY <3>5, <3>6, <3>7, <1>2, <2>1
  <2> QED
    BY <2>2, <2>3, <2>4, <2>5, <2>6
<1> QED
  BY <1>1, <1>2

\* The types as one record each, and the queue by its length.
LEMMA RingTypeFacts ==
    RingTypes /\ RingShape <=>
        /\ RingShape
        /\ ringLink \in [enabled : BOOLEAN, connected : BOOLEAN]
        /\ measuring \in BOOLEAN /\ blurred \in BOOLEAN /\ card \in BOOLEAN
        /\ syncing \in [active : BOOLEAN, pending : BOOLEAN, daysAgo : 0..SyncDays,
                        total : 0..QueueSlots + 1, day : 0..LastDay]
        /\ Len(samples) <= QueueSlots
        /\ saved \in [time : Times, loaded : BOOLEAN]
        /\ health.at \in {"idle", "load", "drain", "requested", "measure"}
        /\ health.day \in 0..LastDay
        /\ owed \subseteq Times
        /\ today \in 1..LastDay /\ reached \in 1..LastDay /\ hidden \subseteq Times
<1>1. RingShape => Range(samples) \subseteq HeartRate
  <2> SUFFICES ASSUME RingShape PROVE Range(samples) \subseteq HeartRate
    OBVIOUS
  <2>1. DOMAIN samples = 1..Len(samples)
    BY LenProperties DEF RingShape
  <2> QED
    BY <2>1, Seqs DEF Range
<1> QED
  BY <1>1 DEF RingTypes, Times, HeartRate

LEMMA WritesAreKnown ==
    ASSUME RingTypes, RingShape
    PROVE  /\ <<>> \in Seq(GattWrite) /\ <<>> \in Seq(Notice) /\ <<>> \in Seq(HeartRate)
           /\ <<Write("subscribe")>> \in Seq(GattWrite)
           /\ gatt # <<>> => Tail(gatt) \in Seq(GattWrite) /\ Head(gatt) \in GattWrite
           /\ air # <<>> => Tail(air) \in Seq(Notice) /\ Head(air) \in Notice
           /\ \A w \in {"auto", "battery", "reading"} : Write(w) \in GattWrite
           /\ today - syncing.daysAgo \in 1..LastDay /\ reached <= today - syncing.daysAgo
           /\ [to |-> "history", day |-> today - syncing.daysAgo] \in GattWrite
           /\ At("idle").at = "idle" /\ At("idle").day = 0
<1>1. <<>> \in Seq(GattWrite) /\ <<>> \in Seq(Notice) /\ <<>> \in Seq(HeartRate)
  BY EmptySeq
<1>2. \A w \in {"subscribe", "auto", "battery", "reading"} : Write(w) \in GattWrite
  BY DEF Write, GattWrite
<1>3. <<Write("subscribe")>> \in Seq(GattWrite)
  BY <1>2
<1>4. today - syncing.daysAgo \in 1..LastDay /\ reached <= today - syncing.daysAgo
  <2>1. syncing.daysAgo \in 0..SyncDays /\ today \in 1..LastDay /\ reached \in 1..LastDay
    BY RingTypeFacts
  <2>2. reached + syncing.daysAgo <= today /\ SyncDays \in Nat /\ LastDay \in Nat
    BY Days DEF RingShape
  <2> QED
    BY <2>1, <2>2
<1>5. [to |-> "history", day |-> today - syncing.daysAgo] \in GattWrite
  BY <1>4 DEF GattWrite
<1> QED
  BY <1>1, <1>2, <1>3, <1>4, <1>5, HeadTailProperties DEF RingShape, At

LEMMA TypesPrimed ==
    ASSUME gatt' \in Seq(GattWrite), air' \in Seq(Notice),
           samples' \in Seq(HeartRate), hrLog' \in Seq(HeartRow),
           count' \in [links : Nat, taps : Nat, readings : 0..MaxReadings, troubles : Nat],
           ringLink' \in [enabled : BOOLEAN, connected : BOOLEAN],
           measuring' \in BOOLEAN, blurred' \in BOOLEAN, card' \in BOOLEAN,
           syncing' \in [active : BOOLEAN, pending : BOOLEAN, daysAgo : 0..SyncDays,
                         total : 0..QueueSlots + 1, day : 0..LastDay],
           Len(samples') <= QueueSlots,
           saved' \in [time : Times, loaded : BOOLEAN],
           health'.at \in {"idle", "load", "drain", "requested", "measure"},
           health'.day \in 0..LastDay,
           owed' \subseteq Times,
           today' \in 1..LastDay, reached' \in 1..LastDay, hidden' \subseteq Times,
           SyncDays < today', reached' + syncing'.daysAgo <= today'
    PROVE  (RingTypes /\ RingShape)'
<1>1. Range(samples') \subseteq HeartRate
  <2>1. DOMAIN samples' = 1..Len(samples') /\ \A i \in 1..Len(samples') : samples'[i] \in HeartRate
    BY LenProperties, ElementOfSeq
  <2> QED
    BY <2>1 DEF Range
<1>2. RingShape'
  BY DEF RingShape
<1>3. RingTypes'
  BY <1>1 DEF RingTypes, Times, HeartRate
<1> QED
  BY <1>2, <1>3

\* The days: a sync does not come past the one that is due, and what is hidden
\* is history.
LEMMA FinishedDays ==
    ASSUME NEW s \in [active : BOOLEAN, pending : BOOLEAN, daysAgo : 0..SyncDays,
                      total : 0..QueueSlots + 1, day : 0..LastDay]
    PROVE  /\ Finished(s).daysAgo \in 0..SyncDays
           /\ Finished(s).daysAgo = s.daysAgo \/ (0 < s.daysAgo /\ Finished(s).daysAgo = s.daysAgo - 1)
<1>1. s.daysAgo \in 0..SyncDays /\ SyncDays \in Nat
  BY RingAssumption
<1> QED
  BY <1>1 DEF Finished

LEMMA RingDaysKept ==
    ASSUME RingTypes, RingShape, RingNext
    PROVE  /\ today' \in 1..LastDay /\ reached' \in 1..LastDay /\ hidden' \subseteq Times
           /\ SyncDays < today' /\ reached' + syncing'.daysAgo <= today'
<1>1. /\ today \in 1..LastDay /\ reached \in 1..LastDay /\ hidden \subseteq Times
      /\ SyncDays < today /\ reached + syncing.daysAgo <= today
      /\ syncing.daysAgo \in 0..SyncDays /\ SyncDays \in Nat /\ LastDay \in Nat
      /\ syncing \in [active : BOOLEAN, pending : BOOLEAN, daysAgo : 0..SyncDays,
                      total : 0..QueueSlots + 1, day : 0..LastDay]
  BY RingTypeFacts, Days DEF RingShape
<1>2. CASE Midnight
  <2>1. today' = today + 1 /\ today < LastDay /\ UNCHANGED <<reached, hidden, syncing>>
    BY <1>2 DEF Midnight, exchange, promise
  <2> QED
    BY <2>1, <1>1
<1>3. CASE RingNotified /\ UNCHANGED today
  <2>1. syncing'.daysAgo = syncing.daysAgo
        \/ (0 < syncing.daysAgo /\ syncing'.daysAgo = syncing.daysAgo - 1)
    <3>1. HistoryHeader \/ HistoryData \/ UNCHANGED syncing
      BY <1>3 DEF RingNotified, Reading, Ignored
    <3>2. CASE HistoryHeader
      <4>1. Head(air) \in Notice
        BY <1>3, WritesAreKnown DEF RingNotified
      <4>2. CASE Head(air).kind = "none"
        BY <4>2, <3>2, <1>1, FinishedDays DEF HistoryHeader
      <4>3. CASE Head(air).kind = "header"
        <5> DEFINE counted == [syncing EXCEPT !.total = Head(air).total]
        <5>1. Head(air).total \in 0..QueueSlots + 1
          BY <4>1, <4>3 DEF Notice
        <5>2. counted.daysAgo = syncing.daysAgo
              /\ counted \in [active : BOOLEAN, pending : BOOLEAN, daysAgo : 0..SyncDays,
                              total : 0..QueueSlots + 1, day : 0..LastDay]
          BY <5>1, <1>1
        <5>3. syncing' = Finished(counted) \/ syncing' = counted
          BY <3>2, <4>3 DEF HistoryHeader
        <5> HIDE DEF counted
        <5> QED
          BY <5>2, <5>3, FinishedDays
      <4> QED
        BY <4>2, <4>3, <3>2 DEF HistoryHeader
    <3>3. CASE HistoryData
      BY <3>3, <1>1, FinishedDays DEF HistoryData
    <3> QED
      BY <3>1, <3>2, <3>3
  <2>2. reached' = reached + (syncing.daysAgo - syncing'.daysAgo)
    BY <1>3 DEF RingNotified
  <2>3. hidden' = hidden \/ hidden' = hidden \cup (HistoryOf(1..today) \ owed)
    BY <1>3 DEF RingNotified, HistoryHeader, HistoryData, Reading, Ignored
  <2>4. HistoryOf(1..today) \subseteq Times
    <3>1. 1..today \in SUBSET (1..LastDay)
      BY <1>1
    <3> QED
      BY <3>1, HistoryKnown
  <2>5. hidden' \subseteq Times
    BY <2>3, <2>4, <1>1
  <2>6. reached' \in 1..LastDay /\ reached' + syncing'.daysAgo <= today
    BY <2>1, <2>2, <1>1
  <2> QED
    BY <2>5, <2>6, <1>1, <1>3
<1>4. CASE RequestHistory /\ UNCHANGED today
  <2>1. CASE CanRequest
    <3>1. /\ reached' = today - syncing.daysAgo /\ syncing' = syncing
          /\ hidden' = hidden \cup HistoryOf(reached .. (today - syncing.daysAgo) - 1)
      BY <1>4, <2>1 DEF RequestHistory
    <3>2. today - syncing.daysAgo \in 1..LastDay
      BY WritesAreKnown
    <3>3. reached .. (today - syncing.daysAgo) - 1 \in SUBSET (1..LastDay)
      BY <3>2, <1>1
    <3>4. hidden' \subseteq Times
      BY <3>1, <3>3, <1>1, HistoryKnown
    <3> QED
      BY <3>1, <3>2, <3>4, <1>1, <1>4
  <2>2. CASE ~CanRequest
    BY <1>1, <1>4, <2>2 DEF RequestHistory
  <2> QED
    BY <2>1, <2>2
<1>5. ASSUME UNCHANGED <<today, hidden>>,
             \/ reached' = reached /\ syncing'.daysAgo = syncing.daysAgo
             \/ reached' = 1 /\ syncing'.daysAgo = SyncDays
      PROVE  /\ today' \in 1..LastDay /\ reached' \in 1..LastDay /\ hidden' \subseteq Times
             /\ SyncDays < today' /\ reached' + syncing'.daysAgo <= today'
  BY <1>1, <1>5
<1>6. CASE (RingConnected \/ RingDisconnected \/ AskWritten \/ WriteRefused) /\ UNCHANGED today
  <2>1. UNCHANGED <<hidden, reached>> /\ syncing'.daysAgo = syncing.daysAgo
    BY <1>1, <1>6 DEF RingConnected, RingDisconnected, AskWritten, WriteRefused, promise
  <2> QED
    BY <2>1, <1>5, <1>6
<1>7. CASE ChainWritten /\ UNCHANGED today
  <2>1. hidden' = hidden /\ (UNCHANGED <<reached, syncing>> \/ (reached' = 1 /\ syncing' = Scheduled))
    BY <1>7 DEF ChainWritten
  <2>2. Scheduled.daysAgo = SyncDays
    BY <1>1 DEF Scheduled
  <2> QED
    BY <2>1, <2>2, <1>5, <1>7
<1>8. CASE (RingToggled \/ MeasureTapped \/ MeasureBegun \/ HealthTick) /\ UNCHANGED today
  <2>1. UNCHANGED <<hidden, reached>> /\ syncing'.daysAgo = syncing.daysAgo
    BY <1>1, <1>8 DEF RingToggled, MeasureTapped, MeasureBegun, HealthTick, Overdue, promise
  <2> QED
    BY <2>1, <1>5, <1>8
<1>9. CASE /\ LoadLastSaved \/ LoadFails \/ DrainSample \/ DrainFails \/ RequestRecorded
           /\ UNCHANGED today
  <2>1. UNCHANGED <<hidden, reached>> /\ syncing'.daysAgo = syncing.daysAgo
    BY <1>1, <1>9 DEF LoadLastSaved, LoadFails, DrainSample, DrainFails, RequestRecorded, Record,
       promise, exchange
  <2> QED
    BY <2>1, <1>5, <1>9
<1>10. CASE RingReboot /\ UNCHANGED today
  <2>1. hidden' = hidden /\ reached' = 1 /\ syncing'.daysAgo = SyncDays
    BY <1>10 DEF RingReboot, NoSync
  <2> QED
    BY <2>1, <1>5, <1>10
<1> QED
  BY <1>2, <1>3, <1>4, <1>6, <1>7, <1>8, <1>9, <1>10 DEF RingNext, RingStep

LEMMA RingTypesKept ==
    ASSUME RingTypes, RingShape, RingStore, RingNext
    PROVE  (RingTypes /\ RingShape)'
<1>0. /\ gatt \in Seq(GattWrite) /\ air \in Seq(Notice)
      /\ samples \in Seq(HeartRate) /\ hrLog \in Seq(HeartRow)
      /\ count \in [links : Nat, taps : Nat, readings : 0..MaxReadings, troubles : Nat]
      /\ ringLink \in [enabled : BOOLEAN, connected : BOOLEAN]
      /\ measuring \in BOOLEAN /\ blurred \in BOOLEAN /\ card \in BOOLEAN
      /\ syncing \in [active : BOOLEAN, pending : BOOLEAN, daysAgo : 0..SyncDays,
                      total : 0..QueueSlots + 1, day : 0..LastDay]
      /\ Len(samples) <= QueueSlots
      /\ saved \in [time : Times, loaded : BOOLEAN]
      /\ health.at \in {"idle", "load", "drain", "requested", "measure"}
      /\ health.day \in 0..LastDay
      /\ owed \subseteq Times
      /\ today \in 1..LastDay /\ reached \in 1..LastDay /\ hidden \subseteq Times
  BY RingTypeFacts DEF RingShape
<1>1. /\ <<>> \in Seq(GattWrite) /\ <<>> \in Seq(Notice) /\ <<>> \in Seq(HeartRate)
      /\ <<Write("subscribe")>> \in Seq(GattWrite)
      /\ gatt # <<>> => Tail(gatt) \in Seq(GattWrite) /\ Head(gatt) \in GattWrite
      /\ air # <<>> => Tail(air) \in Seq(Notice) /\ Head(air) \in Notice
      /\ \A w \in {"auto", "battery", "reading"} : Write(w) \in GattWrite
      /\ today - syncing.daysAgo \in 1..LastDay
      /\ [to |-> "history", day |-> today - syncing.daysAgo] \in GattWrite
  BY WritesAreKnown
<1>2. 0 \in 0..LastDay /\ SyncDays \in 0..SyncDays /\ 0 \in 0..QueueSlots + 1 /\ QueueSlots \in Nat
      /\ Len(<<>>) <= QueueSlots /\ Len(samples) \in Nat
  BY Days, RingAssumption, EmptySeq, Seqs
<1>3. \A place \in {"idle", "load", "drain", "requested", "measure"} :
         At(place).at = place /\ At(place).day \in 0..LastDay
  BY <1>2 DEF At
<1>4. ASSUME NEW what \in {"links", "taps", "readings", "troubles"}, what # "readings",
             count' = [count EXCEPT ![what] = @ + 1]
      PROVE  count' \in [links : Nat, taps : Nat, readings : 0..MaxReadings, troubles : Nat]
  <2>1. count.links + 1 \in Nat /\ count.taps + 1 \in Nat /\ count.troubles + 1 \in Nat
    BY <1>0, SMTT(60)
  <2>2. CASE what = "links"
    BY <2>1, <2>2, <1>0, <1>4
  <2>3. CASE what = "taps"
    BY <2>1, <2>3, <1>0, <1>4
  <2>4. CASE what = "troubles"
    BY <2>1, <2>4, <1>0, <1>4
  <2> QED
    BY <2>2, <2>3, <2>4, <1>4
<1>5. Trouble => count' \in [links : Nat, taps : Nat, readings : 0..MaxReadings, troubles : Nat]
  BY <1>4 DEF Trouble, Counts
<1>6. /\ Scheduled \in [active : BOOLEAN, pending : BOOLEAN, daysAgo : 0..SyncDays,
                        total : 0..QueueSlots + 1, day : 0..LastDay]
      /\ [syncing EXCEPT !.active = FALSE, !.pending = TRUE] \in
             [active : BOOLEAN, pending : BOOLEAN, daysAgo : 0..SyncDays,
              total : 0..QueueSlots + 1, day : 0..LastDay]
      /\ [syncing EXCEPT !.active = FALSE, !.pending = FALSE] \in
             [active : BOOLEAN, pending : BOOLEAN, daysAgo : 0..SyncDays,
              total : 0..QueueSlots + 1, day : 0..LastDay]
  BY <1>0, <1>2 DEF Scheduled
<1>7. /\ today' \in 1..LastDay /\ reached' \in 1..LastDay /\ hidden' \subseteq Times
      /\ SyncDays < today' /\ reached' + syncing'.daysAgo <= today'
  BY RingDaysKept
<1>z. CASE Midnight
  BY <1>z, <1>0, <1>7, TypesPrimed DEF Midnight, exchange, storage, promise
<1>a. CASE RingConnected
  <2>1. count' \in [links : Nat, taps : Nat, readings : 0..MaxReadings, troubles : Nat]
    BY <1>a, <1>4 DEF RingConnected, Counts
  <2> QED
    BY <1>a, <1>0, <1>1, <2>1, <1>7, TypesPrimed DEF RingConnected, storage, promise
<1>b. CASE RingDisconnected
  BY <1>b, <1>0, <1>1, <1>6, <1>7, TypesPrimed DEF RingDisconnected, storage, promise
<1>c. CASE ChainWritten
  <2>1. gatt' \in Seq(GattWrite)
    <3>1. ASSUME ~(~LinkActive), Head(gatt).to # "battery"
          PROVE  Tail(gatt) \o <<Write(ChainNext[Head(gatt).to])>> \in Seq(GattWrite)
      <4>1. ChainNext[Head(gatt).to] \in {"auto", "battery"}
        BY <1>c, <3>1 DEF ChainWritten, InChain, ChainNext
      <4>2. <<Write(ChainNext[Head(gatt).to])>> \in Seq(GattWrite)
        BY <4>1, <1>1
      <4>3. Tail(gatt) \in Seq(GattWrite)
        BY <1>c, <1>1 DEF ChainWritten
      <4> QED
        BY <4>2, <4>3, ConcatProperties
    <3> QED
      BY <3>1, <1>c, <1>1 DEF ChainWritten
  <2>2. syncing' \in [active : BOOLEAN, pending : BOOLEAN, daysAgo : 0..SyncDays,
                      total : 0..QueueSlots + 1, day : 0..LastDay]
    BY <1>c, <1>0, <1>6 DEF ChainWritten
  <2> QED
    BY <1>c, <1>0, <2>1, <2>2, <1>7, TypesPrimed DEF ChainWritten, storage, promise
<1>d. CASE AskWritten
  <2>1. PICK answer \in Answers(Head(gatt)) : air' = air \o answer
    BY <1>d DEF AskWritten
  <2>2. answer \in Seq(Notice)
    BY <1>d, <1>1, <2>1, AnswerShape DEF AskWritten
  <2>3. air' \in Seq(Notice)
    BY <1>0, <2>1, <2>2, ConcatProperties
  <2> QED
    BY <1>d, <1>0, <1>1, <2>3, <1>7, TypesPrimed, SMTT(60) DEF AskWritten, storage, promise
<1>e. CASE WriteRefused
  <2>1. syncing' \in [active : BOOLEAN, pending : BOOLEAN, daysAgo : 0..SyncDays,
                      total : 0..QueueSlots + 1, day : 0..LastDay]
    BY <1>e, <1>0, <1>6 DEF WriteRefused
  <2> QED
    BY <1>e, <1>0, <1>1, <1>5, <2>1, <1>7, TypesPrimed DEF WriteRefused, storage, promise
<1>f. CASE RingNotified
  <2>1. /\ air' \in Seq(Notice) /\ Head(air) \in Notice /\ air # <<>>
        /\ UNCHANGED <<ringLink, gatt, hrLog, saved, card, health>>
    BY <1>f, <1>1 DEF RingNotified, storage, promise
  <2>2. Finished(syncing) \in [active : BOOLEAN, pending : BOOLEAN, daysAgo : 0..SyncDays,
                               total : 0..QueueSlots + 1, day : 0..LastDay]
    <3>1. syncing.daysAgo \in 0..SyncDays /\ SyncDays \in Nat
      BY <1>0, RingAssumption
    <3>2. syncing.daysAgo > 0 => syncing.daysAgo - 1 \in 0..SyncDays
      BY <3>1
    <3> QED
      BY <3>2, <1>0 DEF Finished
  <2>3. ASSUME NEW sample \in HeartRate, Enqueue(sample)
        PROVE  samples' \in Seq(HeartRate) /\ Len(samples') <= QueueSlots
    <3>1. CASE Len(samples) < QueueSlots
      <4>1. samples' = Append(samples, sample)
        BY <2>3, <3>1 DEF Enqueue
      <4>2. samples' \in Seq(HeartRate) /\ Len(samples') = Len(samples) + 1
        BY <4>1, QueueGrows
      <4> QED
        BY <4>2, <3>1, <1>2
    <3>2. CASE ~(Len(samples) < QueueSlots)
      BY <2>3, <3>2, <1>0 DEF Enqueue
    <3> QED
      BY <3>1, <3>2
  <2>4. CASE HistoryHeader
    <3>1. Head(air).kind = "header" => Head(air).total \in 0..QueueSlots + 1
      BY <2>1 DEF Notice
    <3>2. ASSUME Head(air).kind = "header"
          PROVE  LET counted == [syncing EXCEPT !.total = Head(air).total]
                 IN  counted \in [active : BOOLEAN, pending : BOOLEAN, daysAgo : 0..SyncDays,
                                  total : 0..QueueSlots + 1, day : 0..LastDay]
                     /\ Finished(counted) \in
                            [active : BOOLEAN, pending : BOOLEAN, daysAgo : 0..SyncDays,
                             total : 0..QueueSlots + 1, day : 0..LastDay]
      <4> DEFINE counted == [syncing EXCEPT !.total = Head(air).total]
      <4>1. counted \in [active : BOOLEAN, pending : BOOLEAN, daysAgo : 0..SyncDays,
                         total : 0..QueueSlots + 1, day : 0..LastDay]
        BY <3>1, <3>2, <1>0
      <4>2. counted.daysAgo \in 0..SyncDays /\ SyncDays \in Nat
        BY <4>1, RingAssumption
      <4> HIDE DEF counted
      <4>3. counted.daysAgo > 0 => counted.daysAgo - 1 \in 0..SyncDays
        BY <4>2
      <4>4. Finished(counted) \in
                [active : BOOLEAN, pending : BOOLEAN, daysAgo : 0..SyncDays,
                 total : 0..QueueSlots + 1, day : 0..LastDay]
        BY <4>1, <4>3 DEF Finished
      <4> QED
        BY <4>1, <4>4 DEF counted
    <3>3. syncing' \in [active : BOOLEAN, pending : BOOLEAN, daysAgo : 0..SyncDays,
                        total : 0..QueueSlots + 1, day : 0..LastDay]
      BY <2>2, <2>4, <3>2 DEF HistoryHeader
    <3>4. UNCHANGED <<measuring, samples, owed, count>> /\ blurred' \in BOOLEAN
      BY <2>4, <1>0 DEF HistoryHeader, Early
    <3> QED
      BY <3>3, <3>4, <2>1, <1>0, <1>7, TypesPrimed
  <2>5. CASE HistoryData
    <3> DEFINE n == Head(air).n
               taken == TimeOf(Head(air).day, n)
               sure == ~blurred /\ ~Early
    <3>1. n \in Nat /\ n < DayLength /\ Head(air).day \in 0..LastDay /\ syncing.day \in 0..LastDay
      <4>1. n \in 1..QueueSlots /\ Head(air).day \in 1..LastDay
        BY <2>1, <2>5, SMTT(60) DEF HistoryData, Notice
      <4>2. QueueSlots \in Nat /\ DayLength \in Nat /\ QueueSlots < DayLength /\ LastDay \in Nat
        BY Days
      <4>3. n \in Nat /\ n < DayLength
        <5> HIDE DEF n
        <5> QED
          BY <4>1, <4>2
      <4> QED
        BY <4>1, <4>2, <4>3, <1>0, SMTT(60)
    <3>2. taken \in Times /\ TimeOf(syncing.day, n) \in Times
      BY <3>1, HistoryTimeKnown
    <3>3. Measured(TimeOf(syncing.day, n), taken, sure) \in HeartRate
      BY <3>2 DEF Measured, HeartRate
    <3>4. samples' \in Seq(HeartRate) /\ Len(samples') <= QueueSlots
      BY <2>3, <2>5, <3>3 DEF HistoryData
    <3>5. owed' \subseteq Times
      BY <2>5, <3>2, <1>0 DEF HistoryData
    <3>6. syncing' \in [active : BOOLEAN, pending : BOOLEAN, daysAgo : 0..SyncDays,
                        total : 0..QueueSlots + 1, day : 0..LastDay]
      BY <2>2, <2>5, <1>0 DEF HistoryData
    <3>7. UNCHANGED <<measuring, count>> /\ blurred' \in BOOLEAN
      BY <2>5, <1>0 DEF HistoryData, Early
    <3> QED
      BY <3>4, <3>5, <3>6, <3>7, <2>1, <1>0, <1>7, TypesPrimed
  <2>6. CASE Reading
    <3>1. count.readings \in 0..MaxReadings /\ Now \in Times
      BY <2>6, <1>0, ReadingTimeKnown DEF Reading
    <3>2. Measured(Now, Now, TRUE) \in HeartRate
      BY <3>1 DEF Measured, HeartRate
    <3>3. samples' \in Seq(HeartRate) /\ Len(samples') <= QueueSlots
      BY <2>3, <2>6, <3>2, <1>0 DEF Reading
    <3>4. count' \in [links : Nat, taps : Nat, readings : 0..MaxReadings, troubles : Nat]
      <4>1. count.readings < MaxReadings => count.readings + 1 \in 0..MaxReadings
        BY <3>1, RingAssumption
      <4> QED
        BY <4>1, <2>6, <1>0 DEF Reading
    <3>5. UNCHANGED <<syncing, owed, blurred>> /\ measuring' \in BOOLEAN
      BY <2>6 DEF Reading
    <3> QED
      BY <3>3, <3>4, <3>5, <2>1, <1>0, <1>7, TypesPrimed
  <2>7. CASE Ignored
    <3>1. UNCHANGED <<measuring, syncing, samples, owed, count>> /\ blurred' \in BOOLEAN
      BY <2>7, <1>0 DEF Ignored
    <3> QED
      BY <3>1, <2>1, <1>0, <1>7, TypesPrimed
  <2> QED
    BY <1>f, <2>4, <2>5, <2>6, <2>7 DEF RingNotified
<1>g. CASE RingToggled
  <2>1. count' \in [links : Nat, taps : Nat, readings : 0..MaxReadings, troubles : Nat]
    BY <1>g, <1>4 DEF RingToggled, Counts
  <2>2. measuring' \in BOOLEAN /\ ringLink' \in [enabled : BOOLEAN, connected : BOOLEAN]
        /\ syncing' \in [active : BOOLEAN, pending : BOOLEAN, daysAgo : 0..SyncDays,
                         total : 0..QueueSlots + 1, day : 0..LastDay]
    BY <1>g, <1>0, <1>6 DEF RingToggled
  <2> QED
    BY <1>g, <1>0, <2>1, <2>2, <1>7, TypesPrimed DEF RingToggled, storage, promise
<1>h. CASE MeasureTapped
  <2>1. count' \in [links : Nat, taps : Nat, readings : 0..MaxReadings, troubles : Nat]
    BY <1>h, <1>4 DEF MeasureTapped, Counts
  <2>2. gatt' \in Seq(GattWrite)
    BY <1>h, <1>0, <1>1, AppendProperties DEF MeasureTapped
  <2>3. health'.at \in {"idle", "load", "drain", "requested", "measure"} /\ health'.day \in 0..LastDay
    BY <1>h, <1>3 DEF MeasureTapped
  <2> QED
    BY <1>h, <1>0, <2>1, <2>2, <2>3, <1>7, TypesPrimed DEF MeasureTapped, storage, promise
<1>i. CASE MeasureBegun
  <2>3. health'.at \in {"idle", "load", "drain", "requested", "measure"} /\ health'.day \in 0..LastDay
    BY <1>i, <1>3 DEF MeasureBegun
  <2> QED
    BY <1>i, <1>0, <2>3, <1>7, TypesPrimed DEF MeasureBegun, storage, promise
<1>j. CASE HealthTick
  <2>1. measuring' \in BOOLEAN /\ blurred' \in BOOLEAN
        /\ syncing' \in [active : BOOLEAN, pending : BOOLEAN, daysAgo : 0..SyncDays,
                         total : 0..QueueSlots + 1, day : 0..LastDay]
        /\ count' \in [links : Nat, taps : Nat, readings : 0..MaxReadings, troubles : Nat]
    BY <1>j, <1>0, <1>5, <1>6 DEF HealthTick, Overdue
  <2>3. health'.at \in {"idle", "load", "drain", "requested", "measure"} /\ health'.day \in 0..LastDay
    BY <1>j, <1>3 DEF HealthTick
  <2> QED
    BY <1>j, <1>0, <2>1, <2>3, <1>7, TypesPrimed DEF HealthTick, storage, promise
<1>k. CASE LoadLastSaved
  <2>1. saved' \in [time : Times, loaded : BOOLEAN]
    <3>1. ~saved.loaded => Checkpoint(hrLog) \in Times
      BY NewestOfTail DEF RingStore, CheckpointIsARow
    <3>2. saved' = saved \/ (~saved.loaded /\ saved' = [time |-> Checkpoint(hrLog), loaded |-> TRUE])
      BY <1>k DEF LoadLastSaved
    <3>3. CASE saved' = saved
      BY <3>3, <1>0
    <3>4. CASE ~saved.loaded /\ saved' = [time |-> Checkpoint(hrLog), loaded |-> TRUE]
      <4> HIDE DEF Checkpoint
      <4> QED
        BY <3>1, <3>4
    <3> QED
      BY <3>2, <3>3, <3>4
  <2>3. health'.at \in {"idle", "load", "drain", "requested", "measure"} /\ health'.day \in 0..LastDay
    BY <1>k, <1>3 DEF LoadLastSaved
  <2> QED
    BY <1>k, <1>0, <2>1, <2>3, <1>7, TypesPrimed DEF LoadLastSaved, exchange, promise
<1>l. CASE LoadFails
  <2>3. health'.at \in {"idle", "load", "drain", "requested", "measure"} /\ health'.day \in 0..LastDay
    BY <1>l, <1>3 DEF LoadFails
  <2> QED
    BY <1>l, <1>0, <1>5, <2>3, <1>7, TypesPrimed DEF LoadFails, exchange, promise
<1>m. CASE DrainSample
  <2>1. samples' \in Seq(HeartRate) /\ Len(samples') <= QueueSlots
    BY <1>m, <1>0, <1>2, QueueAdvances DEF DrainSample
  <2>2. Head(samples) \in HeartRate
    BY <1>m, <1>0, HeadTailProperties DEF DrainSample
  <2>3. hrLog' \in Seq(HeartRow) /\ saved' \in [time : Times, loaded : BOOLEAN]
    <3>1. Row(Head(samples), TRUE) \in HeartRow /\ Head(samples).time \in Times
      BY <2>2, RowOfSample DEF HeartRate
    <3>2. Append(hrLog, Row(Head(samples), TRUE)) \in Seq(HeartRow)
      BY <3>1, <1>0, AppendProperties
    <3> QED
      BY <3>1, <3>2, <1>m, <1>0 DEF DrainSample
  <2> QED
    BY <1>m, <1>0, <2>1, <2>3, <1>7, TypesPrimed DEF DrainSample, exchange, promise
<1>n. CASE DrainFails
  <2>2. Head(samples) \in HeartRate
    BY <1>n, <1>0, HeadTailProperties DEF DrainFails
  <2>3. hrLog' \in Seq(HeartRow)
    <3>1. Row(Head(samples), FALSE) \in HeartRow
      BY <2>2, RowOfSample
    <3>2. Append(hrLog, Row(Head(samples), FALSE)) \in Seq(HeartRow)
      BY <3>1, <1>0, AppendProperties
    <3> QED
      BY <3>2, <1>n, <1>0 DEF DrainFails
  <2>4. health'.at \in {"idle", "load", "drain", "requested", "measure"} /\ health'.day \in 0..LastDay
    BY <1>n, <1>3 DEF DrainFails
  <2>5. card' \in BOOLEAN /\ count' \in [links : Nat, taps : Nat, readings : 0..MaxReadings, troubles : Nat]
    BY <1>n, <1>0, <1>5 DEF DrainFails
  <2> QED
    BY <1>n, <1>0, <2>3, <2>4, <2>5, <1>7, TypesPrimed DEF DrainFails, exchange, promise
<1>o. CASE RequestHistory
  <2>1. gatt' \in Seq(GattWrite)
    <3>1. Append(gatt, [to |-> "history", day |-> today - syncing.daysAgo]) \in Seq(GattWrite)
      BY <1>0, <1>1, AppendProperties
    <3> QED
      BY <3>1, <1>o, <1>0 DEF RequestHistory
  <2>3. health'.at \in {"idle", "load", "drain", "requested", "measure"} /\ health'.day \in 0..LastDay
    <3>1. today - syncing.daysAgo \in 0..LastDay
      BY <1>1
    <3> QED
      BY <3>1, <1>o, <1>3 DEF RequestHistory
  <2> QED
    BY <1>o, <1>0, <2>1, <2>3, <1>7, TypesPrimed DEF RequestHistory, storage, promise
<1>p. CASE RequestRecorded
  <2>1. syncing' \in [active : BOOLEAN, pending : BOOLEAN, daysAgo : 0..SyncDays,
                      total : 0..QueueSlots + 1, day : 0..LastDay]
    BY <1>p, <1>0, <1>2 DEF RequestRecorded, Record
  <2>3. health'.at \in {"idle", "load", "drain", "requested", "measure"} /\ health'.day \in 0..LastDay
    BY <1>p, <1>3 DEF RequestRecorded
  <2> QED
    BY <1>p, <1>0, <2>1, <2>3, <1>7, TypesPrimed DEF RequestRecorded, Record, storage, promise
<1>q. CASE RingReboot
  <2>1. PICK kept \in 0..Len(hrLog) :
           hrLog' = SubSeq(hrLog, 1, kept) /\ owed' = owed \cap {hrLog[i].time : i \in 1..kept}
    BY <1>q DEF RingReboot
  <2>2. samples' = <<>> /\ saved' = Unloaded /\ hidden' = hidden /\ blurred' = blurred
    BY <1>q DEF RingReboot
  <2>3. hrLog' \in Seq(HeartRow)
    BY <2>1, <2>2, RebootKeepsStore
  <2>4. saved' \in [time : Times, loaded : BOOLEAN]
    BY <2>2, TimesAreNats DEF Unloaded
  <2>5. syncing' \in [active : BOOLEAN, pending : BOOLEAN, daysAgo : 0..SyncDays,
                      total : 0..QueueSlots + 1, day : 0..LastDay]
    BY <1>q, <1>2 DEF RingReboot, NoSync
  <2>6. health'.at \in {"idle", "load", "drain", "requested", "measure"} /\ health'.day \in 0..LastDay
    BY <1>q, <1>3 DEF RingReboot
  <2>7. Len(samples') <= QueueSlots
    BY <2>2, <1>2
  <2>8. /\ gatt' \in Seq(GattWrite) /\ air' \in Seq(Notice) /\ samples' \in Seq(HeartRate)
        /\ count' \in [links : Nat, taps : Nat, readings : 0..MaxReadings, troubles : Nat]
        /\ ringLink' \in [enabled : BOOLEAN, connected : BOOLEAN]
        /\ measuring' \in BOOLEAN /\ blurred' \in BOOLEAN /\ card' \in BOOLEAN
        /\ owed' \subseteq Times
    BY <1>q, <2>1, <2>2, <1>0, <1>1, <1>5 DEF RingReboot
  <2> QED
    BY <2>3, <2>4, <2>5, <2>6, <2>7, <2>8, <1>7, TypesPrimed
<1> QED
  BY <1>z, <1>a, <1>b, <1>c, <1>d, <1>e, <1>f, <1>g, <1>h, <1>i, <1>j, <1>k, <1>l, <1>m, <1>n, <1>o, <1>p, <1>q
     DEF RingNext, RingStep

(***************************************************************************)
(* What is exchanged with the ring.                                        *)
(***************************************************************************)

LEMMA SettledStays ==
    ASSUME reached' = reached, hidden \subseteq hidden', owed \subseteq owed'
    PROVE  DaySettled => DaySettled'
BY DEF DaySettled

\* The writes and the notifications stay, and so does what is stored.
LEMMA ExchangeRests ==
    ASSUME RingExchange, UNCHANGED <<gatt, air, samples, hrLog, reached>>,
           hidden \subseteq hidden', owed \subseteq owed',
           ringLink'.connected = ringLink.connected,
           blurred => blurred', saved.loaded => saved'.loaded,
           health'.at \in {"drain", "requested"} => saved'.loaded,
           health' = health \/ (health.at # "requested" /\ health'.at # "requested"),
           ~blurred' => /\ syncing'.day = syncing.day /\ syncing'.total = syncing.total
                        /\ syncing'.pending => syncing.pending
    PROVE  RingExchange'
<1>1. Quiet'
  BY DEF RingExchange, Quiet
<1>2. LoadedFirst'
  BY DEF RingExchange, LoadedFirst
<1>3. OneRequest'
  BY DEF RingExchange, OneRequest
<1>4. AnswersDue'
  BY DEF RingExchange, AnswersDue, Asked
<1>5. (DaysCovered /\ NextCovered)'
  BY PromisedLess DEF RingExchange, DaysCovered, NextCovered, Covered, InLog, InQueue
<1>6. RoomForNext'
  BY SettledStays DEF RingExchange, RoomForNext
<1> QED
  BY <1>1, <1>2, <1>3, <1>4, <1>5, <1>6 DEF RingExchange

\* The storage moves on and leaves the exchange alone.
LEMMA ExchangeWaits ==
    ASSUME RingShape, RingExchange,
           UNCHANGED <<gatt, air, syncing, ringLink, reached, hidden, owed, blurred>>,
           saved.loaded => saved'.loaded,
           health' = health \/ health'.at = "idle",
           health.at = "drain",
           \A k \in 1..Len(samples') : \E m \in 1..Len(samples) : samples'[k] = samples[m],
           Len(samples') <= Len(samples), Len(samples') \in Nat, samples # <<>>,
           ~blurred => \A t \in Promised : InLog(t) \/ InQueue(t) => InLog(t)' \/ InQueue(t)'
    PROVE  RingExchange'
<1>1. Quiet'
  BY DEF RingExchange, Quiet
<1>2. LoadedFirst'
  BY DEF RingExchange, LoadedFirst
<1>3. OneRequest'
  BY DEF RingExchange, OneRequest
<1>4. AnswersDue'
  BY DEF RingExchange, AnswersDue, Asked
<1>5. ~blurred => \A bound : Covered(bound) => Covered(bound)'
  BY PromisedLess DEF Covered
<1>7. DaysCovered'
  BY <1>5 DEF RingExchange, DaysCovered
<1>8. NextCovered'
  BY <1>5 DEF RingExchange, NextCovered
<1>9. RoomForNext'
  <2> SUFFICES ASSUME ~blurred, ~DaySettled
               PROVE  /\ \A i \in 1..Len(gatt) : gatt[i].to = "history" => FALSE
                      /\ \A i \in 1..Len(air) : air[i].kind = "data" =>
                           /\ Len(samples') < air[i].n
                           /\ \A k \in 1..Len(samples') : samples'[k].time < TimeOf(reached, air[i].n)
    BY SettledStays DEF RoomForNext
  <2>1. \A i \in 1..Len(gatt) : gatt[i].to = "history" => FALSE
    BY DEF RingExchange, RoomForNext
  <2>2. ASSUME NEW i \in 1..Len(air), air[i].kind = "data"
        PROVE  /\ Len(samples') < air[i].n
               /\ \A k \in 1..Len(samples') : samples'[k].time < TimeOf(reached, air[i].n)
    <3>1. /\ Len(samples) < air[i].n
          /\ \A k \in 1..Len(samples) : samples[k].time < TimeOf(reached, air[i].n)
      BY <2>2 DEF RingExchange, RoomForNext
    <3>2. air[i].n \in Nat /\ Len(samples) \in Nat
      <4>1. air[i] \in Notice
        BY Seqs
      <4> QED
        BY <4>1, <2>2, Days, Seqs DEF Notice
    <3>3. \A a, b, c \in Nat : a <= b /\ b < c => a < c
      OBVIOUS
    <3>4. Len(samples') < air[i].n
      BY <3>1, <3>2, <3>3
    <3>5. \A k \in 1..Len(samples') : samples'[k].time < TimeOf(reached, air[i].n)
      BY <3>1
    <3> QED
      BY <3>4, <3>5
  <2> QED
    BY <2>1, <2>2
<1> QED
  BY <1>1, <1>2, <1>3, <1>4, <1>7, <1>8, <1>9 DEF RingExchange

\* Nothing is asked any more, and what was stored stays.
LEMMA ExchangeOver ==
    ASSUME RingExchange, blurred => blurred',
           UNCHANGED <<saved, health, samples, hrLog, hidden>>,
           Quiet', LoadedFirst',
           ~blurred' => /\ \A i \in 1..Len(gatt') : gatt'[i].to \in {"reading", "subscribe", "auto", "battery"}
                        /\ \A i \in 1..Len(air') : air'[i].kind = "reading"
                        /\ \A i, j \in 1..Len(gatt') : gatt'[i].to # "reading" /\ gatt'[j].to # "reading" => i = j
                        /\ \A i \in 1..Len(gatt') : gatt'[i].to # "reading" => ~syncing'.pending,
           reached' = reached \/ reached' = 1
    PROVE  RingExchange'
<1>1. OneRequest'
  BY DEF OneRequest, InChain
<1>2. ~blurred' => ~Asked'
  BY DEF Asked
<1>3. AnswersDue'
  BY <1>2 DEF AnswersDue, Asked
<1>4. DaysCovered'
  <2> SUFFICES ASSUME ~blurred', NEW t \in Promised, t < TimeOf(reached', 0)
               PROVE  InLog(t) \/ InQueue(t)
    BY PromisedLess DEF DaysCovered, Covered, InLog, InQueue
  <2>1. CASE reached' = reached
    BY <2>1 DEF RingExchange, DaysCovered, Covered
  <2>2. CASE reached' = 1
    BY <2>2, PromisedIsHistory, HistoryTimes
  <2> QED
    BY <2>1, <2>2
<1>5. (NextCovered /\ RoomForNext)'
  BY DEF NextCovered, RoomForNext
<1> QED
  BY <1>1, <1>3, <1>4, <1>5 DEF RingExchange

\* The writes, by what is left when the first is completed.
LEMMA WritesAdvance ==
    ASSUME RingShape, gatt # <<>>
    PROVE  /\ Len(gatt) \in Nat \ {0} /\ Len(Tail(gatt)) = Len(gatt) - 1
           /\ Head(gatt) = gatt[1] /\ 1 \in 1..Len(gatt) /\ gatt[1] \in GattWrite
           /\ \A i \in 1..Len(Tail(gatt)) : i + 1 \in 1..Len(gatt) /\ Tail(gatt)[i] = gatt[i + 1]
<1>1. gatt \in Seq(GattWrite) /\ Len(gatt) \in Nat
  BY Seqs DEF RingShape
<1>2. Len(gatt) # 0
  BY <1>1, EmptySeq
<1>3. 1 \in 1..Len(gatt)
  BY <1>1, <1>2
<1>4. Tail(gatt) \in Seq(GattWrite) /\ Len(Tail(gatt)) = Len(gatt) - 1
      /\ \A i \in 1..Len(Tail(gatt)) : Tail(gatt)[i] = gatt[i + 1]
  BY <1>1, HeadTailProperties
<1>5. Head(gatt) = gatt[1]
  BY DEF Head
<1>6. gatt[1] \in GattWrite
  BY <1>3, Seqs
<1> QED
  BY <1>1, <1>2, <1>3, <1>4, <1>5, <1>6

LEMMA AirAdvances ==
    ASSUME RingShape, air # <<>>, air' = Tail(air)
    PROVE  /\ Len(air) \in Nat \ {0} /\ Len(air') = Len(air) - 1
           /\ Head(air) = air[1] /\ 1 \in 1..Len(air) /\ air[1] \in Notice
           /\ \A i \in 1..Len(air') : i + 1 \in 1..Len(air) /\ air'[i] = air[i + 1] /\ air'[i] \in Notice
<1>1. air \in Seq(Notice) /\ Len(air) \in Nat
  BY Seqs DEF RingShape
<1>2. Len(air) # 0
  BY <1>1, EmptySeq
<1>3. 1 \in 1..Len(air)
  BY <1>1, <1>2
<1>4. air' \in Seq(Notice) /\ Len(air') = Len(air) - 1
      /\ \A i \in 1..Len(air') : air'[i] = air[i + 1]
  BY <1>1, HeadTailProperties
<1>5. Head(air) = air[1]
  BY DEF Head
<1>6. air[1] \in Notice /\ \A i \in 1..Len(air) : air[i] \in Notice
  BY <1>3, Seqs
<1> QED
  BY <1>1, <1>2, <1>3, <1>4, <1>5, <1>6

LEMMA WriteKinds ==
    ASSUME NEW write \in GattWrite
    PROVE  /\ write.to \in {"subscribe", "auto", "battery", "history", "reading"}
           /\ InChain(write) <=> write.to \in {"subscribe", "auto", "battery"}
BY DEF GattWrite, InChain

\* A first write of the chain, or of the history, is the only one of them.
LEMMA RestAreReadings ==
    ASSUME RingShape, OneRequest, gatt # <<>>, ~blurred, gatt[1].to # "reading"
    PROVE  /\ \A i \in 1..Len(Tail(gatt)) : Tail(gatt)[i].to = "reading"
           /\ \A i \in 1..Len(air) : air[i].kind = "reading"
<1>1. 1 \in 1..Len(gatt) /\ \A i \in 1..Len(Tail(gatt)) : i + 1 \in 1..Len(gatt) /\ Tail(gatt)[i] = gatt[i + 1] /\ i + 1 # 1
  BY WritesAdvance
<1> QED
  BY <1>1 DEF OneRequest

LEMMA ConnectKeepsExchange ==
    ASSUME RingTypes, RingShape, RingExchange, RingConnected
    PROVE  RingExchange'
<1>1. ~ringLink.connected /\ gatt = <<>> /\ air = <<>> /\ (~blurred => ~syncing.pending)
  BY DEF RingConnected, RingExchange, Quiet
<1>2. gatt' = <<Write("subscribe")>> /\ UNCHANGED <<air, syncing, samples, saved, hrLog, health, reached, hidden, blurred>>
      /\ ringLink'.connected
  BY RingTypeFacts DEF RingConnected, storage, promise
<1>3. Len(gatt') = 1 /\ gatt'[1].to = "subscribe" /\ \A i \in 1..Len(gatt') : i = 1
  BY <1>2 DEF Write
<1>4. 1..Len(air') = {}
  BY <1>1, <1>2, EmptySeq
<1>5. Quiet'
  BY <1>2 DEF Quiet
<1>6. LoadedFirst'
  BY <1>2, <1>3, <1>4 DEF RingExchange, LoadedFirst
<1> QED
  BY <1>1, <1>2, <1>3, <1>4, <1>5, <1>6, ExchangeOver

LEMMA DisconnectKeepsExchange ==
    ASSUME RingTypes, RingShape, RingExchange, RingDisconnected
    PROVE  RingExchange'
<1>1. /\ gatt' = <<>> /\ air' = <<>> /\ UNCHANGED <<samples, saved, hrLog, health, reached, hidden, blurred>>
      /\ ~syncing'.pending
  BY RingTypeFacts DEF RingDisconnected, storage, promise
<1>2. 1..Len(gatt') = {} /\ 1..Len(air') = {}
  BY <1>1, EmptySeq
<1>3. Quiet'
  BY <1>1 DEF Quiet
<1>4. LoadedFirst'
  BY <1>1, <1>2 DEF RingExchange, LoadedFirst
<1> QED
  BY <1>1, <1>2, <1>3, <1>4, ExchangeOver

LEMMA ChainKeepsExchange ==
    ASSUME RingTypes, RingShape, RingExchange, ChainWritten
    PROVE  RingExchange'
<1>1. /\ gatt # <<>> /\ gatt[1].to \in {"subscribe", "auto", "battery"}
      /\ UNCHANGED <<ringLink, air, samples, saved, hrLog, health, hidden, blurred>>
      /\ reached' = reached \/ reached' = 1
  BY WritesAdvance DEF ChainWritten, InChain, storage
<1>2. \/ gatt' = Tail(gatt) /\ syncing' = syncing
      \/ gatt' = Tail(gatt) /\ syncing' = Scheduled /\ LinkActive
      \/ /\ gatt' = Tail(gatt) \o <<Write(ChainNext[gatt[1].to])>> /\ syncing' = syncing
         /\ gatt[1].to \in {"subscribe", "auto"} /\ LinkActive
  BY <1>1, WritesAdvance DEF ChainWritten
<1>3. /\ Len(Tail(gatt)) \in Nat
      /\ \A i \in 1..Len(Tail(gatt)) : i + 1 \in 1..Len(gatt) /\ Tail(gatt)[i] = gatt[i + 1]
  BY <1>1, WritesAdvance
<1>4. ~blurred => /\ \A i \in 1..Len(Tail(gatt)) : Tail(gatt)[i].to = "reading"
                  /\ \A i \in 1..Len(air) : air[i].kind = "reading"
                  /\ ~syncing.pending
  <2> SUFFICES ASSUME ~blurred
               PROVE  /\ \A i \in 1..Len(Tail(gatt)) : Tail(gatt)[i].to = "reading"
                      /\ \A i \in 1..Len(air) : air[i].kind = "reading"
                      /\ ~syncing.pending
    OBVIOUS
  <2>1. ~syncing.pending
    <3>1. 1 \in 1..Len(gatt) /\ InChain(gatt[1])
      BY <1>1, WritesAdvance DEF InChain
    <3> QED
      BY <3>1 DEF RingExchange, OneRequest
  <2> QED
    BY <2>1, <1>1, RestAreReadings DEF RingExchange
<1>5. ringLink.connected
  BY <1>1 DEF RingExchange, Quiet
<1>6. Quiet'
  BY <1>1, <1>5 DEF Quiet
<1>8. CASE gatt' = Tail(gatt)
  <2>1. LoadedFirst'
    BY <1>1, <1>3, <1>8 DEF RingExchange, LoadedFirst
  <2> QED
    BY <1>1, <1>2, <1>3, <1>4, <1>6, <1>8, <2>1, ExchangeOver
<1>9. CASE /\ gatt' = Tail(gatt) \o <<Write(ChainNext[gatt[1].to])>> /\ syncing' = syncing
           /\ gatt[1].to \in {"subscribe", "auto"}
  <2> DEFINE next == Write(ChainNext[gatt[1].to])
  <2>1. next \in GattWrite /\ next.to \in {"auto", "battery"}
    BY <1>9 DEF Write, ChainNext, GattWrite
  <2>2. /\ Len(gatt') = Len(Tail(gatt)) + 1
        /\ \A i \in 1..Len(Tail(gatt)) + 1 :
              gatt'[i] = IF i <= Len(Tail(gatt)) THEN Tail(gatt)[i] ELSE <<next>>[i - Len(Tail(gatt))]
    <3>1. Tail(gatt) \in Seq(GattWrite) /\ <<next>> \in Seq(GattWrite) /\ Len(<<next>>) = 1
      BY <1>1, <2>1, WritesAreKnown
    <3> QED
      BY <1>9, <3>1, ConcatProperties
  <2>3. \A i \in 1..Len(gatt') : \/ i \in 1..Len(Tail(gatt)) /\ gatt'[i] = Tail(gatt)[i]
                                 \/ i = Len(Tail(gatt)) + 1 /\ gatt'[i] = next
    <3> SUFFICES ASSUME NEW i \in 1..Len(gatt')
                 PROVE  \/ i \in 1..Len(Tail(gatt)) /\ gatt'[i] = Tail(gatt)[i]
                        \/ i = Len(Tail(gatt)) + 1 /\ gatt'[i] = next
      OBVIOUS
    <3>1. CASE i <= Len(Tail(gatt))
      BY <3>1, <2>2, <1>3
    <3>2. CASE ~(i <= Len(Tail(gatt)))
      <4>1. i = Len(Tail(gatt)) + 1 /\ i - Len(Tail(gatt)) = 1
        BY <3>2, <2>2, <1>3
      <4>2. gatt'[i] = <<next>>[1]
        BY <4>1, <3>2, <2>2, <1>3
      <4> QED
        BY <4>1, <4>2
    <3> QED
      BY <3>1, <3>2
  <2> HIDE DEF next
  <2>4. LoadedFirst'
    <3>1. \A i \in 1..Len(gatt') : gatt'[i].to = "history" => saved.loaded
      BY <1>3, <2>1, <2>3 DEF RingExchange, LoadedFirst
    <3> QED
      BY <3>1, <1>1 DEF RingExchange, LoadedFirst
  <2>5. ~blurred => \A i \in 1..Len(gatt') : gatt'[i].to # "reading" => i = Len(Tail(gatt)) + 1 /\ gatt'[i].to \in {"auto", "battery"}
    BY <1>4, <2>1, <2>3
  <2>6. ~blurred => \A i \in 1..Len(gatt') : gatt'[i].to \in {"reading", "subscribe", "auto", "battery"}
    BY <2>5
  <2>7. ~blurred => \A i, j \in 1..Len(gatt') : gatt'[i].to # "reading" /\ gatt'[j].to # "reading" => i = j
    BY <2>5
  <2> QED
    BY <1>1, <1>4, <1>6, <1>9, <2>4, <2>6, <2>7, ExchangeOver
<1> QED
  BY <1>2, <1>8, <1>9

LEMMA AskKeepsExchange ==
    ASSUME RingTypes, RingShape, RingExchange, AskWritten
    PROVE  RingExchange'
<1>1. /\ gatt # <<>> /\ gatt' = Tail(gatt) /\ gatt[1] \in GattWrite /\ ~InChain(gatt[1])
      /\ 1 \in 1..Len(gatt) /\ gatt[1].to \in {"history", "reading"}
      /\ UNCHANGED <<ringLink, syncing, samples, saved, hrLog, health, reached, hidden, owed, blurred>>
  BY WritesAdvance, WriteKinds DEF AskWritten, storage, promise
<1>2. PICK answer \in Answers(gatt[1]) : air' = air \o answer
  BY <1>1, WritesAdvance DEF AskWritten
<1>3. /\ answer \in Seq(Notice) /\ Len(answer) \in Nat
      /\ gatt[1].to # "history" => \A i \in 1..Len(answer) : answer[i].kind = "reading"
      /\ gatt[1].to = "history" =>
             \A i \in 1..Len(answer) :
                 \/ i = 1 /\ answer[i].kind = "header" /\ answer[i].total = Stored[gatt[1].day] + 1
                 \/ i = 1 /\ answer[i].kind = "none" /\ Stored[gatt[1].day] = 0
                 \/ /\ 1 < i /\ answer[i].kind = "data" /\ answer[i].n = i - 1
                    /\ answer[i].n <= Stored[gatt[1].day] /\ answer[i].day = gatt[1].day
  BY <1>1, AnswerShape
<1>4. /\ Len(air) \in Nat /\ Len(air') = Len(air) + Len(answer)
      /\ \A i \in 1..Len(air') : \/ i \in 1..Len(air) /\ air'[i] = air[i]
                                 \/ i - Len(air) \in 1..Len(answer) /\ air'[i] = answer[i - Len(air)]
  <2>1. air \in Seq(Notice) /\ Len(air) \in Nat
    BY Seqs DEF RingShape
  <2>2. /\ Len(air') = Len(air) + Len(answer)
        /\ \A i \in 1..Len(air) + Len(answer) :
              air'[i] = IF i <= Len(air) THEN air[i] ELSE answer[i - Len(air)]
    BY <1>2, <1>3, <2>1, ConcatProperties
  <2>3. ASSUME NEW i \in 1..Len(air')
        PROVE  \/ i \in 1..Len(air) /\ air'[i] = air[i]
               \/ i - Len(air) \in 1..Len(answer) /\ air'[i] = answer[i - Len(air)]
    <3>1. CASE i <= Len(air)
      BY <3>1, <2>1, <2>2, <1>3
    <3>2. CASE ~(i <= Len(air))
      BY <3>2, <2>1, <2>2, <1>3
    <3> QED
      BY <3>1, <3>2
  <2> QED
    BY <2>1, <2>2, <2>3
<1>5. /\ Len(gatt') \in Nat
      /\ \A i \in 1..Len(gatt') : i + 1 \in 1..Len(gatt) /\ gatt'[i] = gatt[i + 1]
  BY <1>1, WritesAdvance
<1>6. Quiet'
  BY <1>1 DEF RingExchange, Quiet
<1>7. LoadedFirst'
  <2>1. \A i \in 1..Len(air') : air'[i].kind = "data" => saved.loaded
    <3> SUFFICES ASSUME NEW i \in 1..Len(air'), air'[i].kind = "data" PROVE saved.loaded
      OBVIOUS
    <3>1. CASE i \in 1..Len(air) /\ air'[i] = air[i]
      BY <3>1 DEF RingExchange, LoadedFirst
    <3>2. CASE i - Len(air) \in 1..Len(answer) /\ air'[i] = answer[i - Len(air)]
      <4>1. gatt[1].to = "history"
        BY <3>2, <1>3
      <4> QED
        BY <4>1, <1>1 DEF RingExchange, LoadedFirst
    <3> QED
      BY <3>1, <3>2, <1>4
  <2>2. \A i \in 1..Len(gatt') : gatt'[i].to = "history" => saved.loaded
    BY <1>5 DEF RingExchange, LoadedFirst
  <2> QED
    BY <2>1, <2>2, <1>1 DEF RingExchange, LoadedFirst
<1>8. CASE blurred
  BY <1>1, <1>6, <1>7, <1>8 DEF RingExchange, OneRequest, AnswersDue, DaysCovered, NextCovered, RoomForNext
<1>9. CASE ~blurred /\ gatt[1].to = "history"
  <2>1. /\ \A i \in 1..Len(gatt') : gatt'[i].to = "reading"
        /\ \A i \in 1..Len(air) : air[i].kind = "reading"
    BY <1>1, <1>9, RestAreReadings DEF RingExchange
  <2>2. gatt[1].day = reached
        /\ (health.at = "requested" => health.day = reached)
        /\ (health.at # "requested" =>
               ~syncing.pending /\ syncing.day = reached /\ syncing.total \in {0, Stored[reached] + 1})
    BY <1>1, <1>9 DEF RingExchange, AnswersDue, Asked
  <2>3. \A i \in 1..Len(air') : air'[i].kind # "reading" =>
           /\ i - Len(air) \in 1..Len(answer) /\ air'[i] = answer[i - Len(air)]
           /\ \/ i - Len(air) = 1 /\ air'[i].kind = "header" /\ air'[i].total = Stored[reached] + 1
              \/ i - Len(air) = 1 /\ air'[i].kind = "none" /\ Stored[reached] = 0
              \/ /\ 1 < i - Len(air) /\ air'[i].kind = "data" /\ air'[i].n = i - Len(air) - 1
                 /\ air'[i].n <= Stored[reached] /\ air'[i].day = reached
    <3> SUFFICES ASSUME NEW i \in 1..Len(air'), air'[i].kind # "reading"
                 PROVE
           /\ i - Len(air) \in 1..Len(answer) /\ air'[i] = answer[i - Len(air)]
           /\ \/ i - Len(air) = 1 /\ air'[i].kind = "header" /\ air'[i].total = Stored[reached] + 1
              \/ i - Len(air) = 1 /\ air'[i].kind = "none" /\ Stored[reached] = 0
              \/ /\ 1 < i - Len(air) /\ air'[i].kind = "data" /\ air'[i].n = i - Len(air) - 1
                 /\ air'[i].n <= Stored[reached] /\ air'[i].day = reached
      OBVIOUS
    <3>1. i - Len(air) \in 1..Len(answer) /\ air'[i] = answer[i - Len(air)]
      BY <1>4, <2>1
    <3> QED
      BY <3>1, <1>3, <1>9, <2>2
  <2>4. OneRequest'
    <3>1. \A i, j \in 1..Len(air') :
             i < j /\ air'[i].kind # "reading" /\ air'[j].kind # "reading" =>
                 air'[j].kind = "data" /\ (air'[i].kind = "data" => air'[i].n < air'[j].n)
      <4> SUFFICES ASSUME NEW i \in 1..Len(air'), NEW j \in 1..Len(air'), i < j,
                          air'[i].kind # "reading", air'[j].kind # "reading"
                   PROVE  air'[j].kind = "data" /\ (air'[i].kind = "data" => air'[i].n < air'[j].n)
        OBVIOUS
      <4>1. i - Len(air) \in 1..Len(answer) /\ i - Len(air) < j - Len(air) /\ i - Len(air) \in Int /\ j - Len(air) \in Int
        BY <2>3, <1>4, <1>3
      <4>2. j - Len(air) # 1
        BY <4>1, <1>3
      <4>3. air'[j].kind = "data" /\ air'[j].n = j - Len(air) - 1
        BY <4>2, <2>3
      <4>4. air'[i].kind = "data" => air'[i].n = i - Len(air) - 1
        BY <2>3
      <4> QED
        BY <4>1, <4>3, <4>4
    <3> QED
      BY <2>1, <3>1, <1>1 DEF OneRequest, InChain
  <2>5. AnswersDue'
    BY <2>1, <2>2, <2>3, <1>1 DEF AnswersDue
  <2>6. Covered(TimeOf(reached, 0)) /\ (~DaySettled => samples = <<>>)
    BY <1>1, <1>9 DEF RingExchange, RoomForNext, DaysCovered
  <2>7. DaysCovered'
    BY <1>1, PromisedLess DEF RingExchange, DaysCovered, Covered, InLog, InQueue
  <2>8. NextCovered'
    <3> SUFFICES ASSUME NEW i \in 1..Len(air'), air'[i].kind = "data"
                 PROVE  \/ Covered(TimeOf(reached, air'[i].n))
                        \/ \E j \in 1..i - 1 : air'[j].kind = "data" /\ air'[j].n = air'[i].n - 1
      BY <1>1, PromisedLess DEF NextCovered, Covered, InLog, InQueue
    <3>1. i - Len(air) \in 1..Len(answer) /\ air'[i].n = i - Len(air) - 1 /\ 1 < i - Len(air)
      BY <2>3
    <3>2. CASE air'[i].n = 1
      <4>1. reached \in 1..LastDay
        BY RingTypeFacts
      <4> QED
        BY <4>1, <3>2, <2>6, PromisedIsHistory, HistoryTimes DEF Covered
    <3>3. CASE air'[i].n # 1
      <4>1. i - 1 \in 1..Len(air') /\ (i - 1) - Len(air) \in 1..Len(answer) /\ 1 < (i - 1) - Len(air)
            /\ i - 1 \in 1..i - 1 /\ ~(i - 1 \in 1..Len(air)) /\ (i - 1) - Len(air) - 1 = air'[i].n - 1
        BY <3>1, <3>3, <1>3, <1>4
      <4>2. air'[i - 1] = answer[(i - 1) - Len(air)]
        BY <4>1, <1>4
      <4>3. answer[(i - 1) - Len(air)].kind = "data" /\ answer[(i - 1) - Len(air)].n = (i - 1) - Len(air) - 1
        BY <4>1, <1>3, <1>9
      <4> QED
        BY <4>1, <4>2, <4>3
    <3> QED
      BY <3>2, <3>3
  <2>9. RoomForNext'
    <3> SUFFICES \A i \in 1..Len(air') : air'[i].kind = "data" => 0 < air'[i].n
      <4>1. (1..Len(samples) = {} /\ Len(samples) = 0) \/ samples # <<>>
        BY EmptySeq
      <4>2. DaySettled => DaySettled'
        BY <1>1, SettledStays
      <4> QED
        BY <4>1, <4>2, <1>1, <2>1, <2>6 DEF RoomForNext
    <3> SUFFICES ASSUME NEW i \in 1..Len(air'), air'[i].kind = "data" PROVE 0 < air'[i].n
      OBVIOUS
    <3>1. 1 < i - Len(air) /\ air'[i].n = i - Len(air) - 1 /\ i - Len(air) \in Int
      BY <2>3, <1>3, <1>4
    <3> QED
      BY <3>1
  <2> QED
    BY <1>6, <1>7, <2>4, <2>5, <2>7, <2>8, <2>9 DEF RingExchange
<1>10. CASE ~blurred /\ gatt[1].to = "reading"
  <2>1. \A i \in 1..Len(air') : \/ i \in 1..Len(air) /\ air'[i] = air[i]
                                \/ ~(i \in 1..Len(air)) /\ air'[i].kind = "reading"
    <3> SUFFICES ASSUME NEW i \in 1..Len(air')
                 PROVE  \/ i \in 1..Len(air) /\ air'[i] = air[i]
                        \/ ~(i \in 1..Len(air)) /\ air'[i].kind = "reading"
      OBVIOUS
    <3>1. CASE i \in 1..Len(air) /\ air'[i] = air[i]
      BY <3>1
    <3>2. CASE i - Len(air) \in 1..Len(answer) /\ air'[i] = answer[i - Len(air)]
      <4>1. ~(i \in 1..Len(air))
        BY <3>2, <1>3, <1>4
      <4> QED
        BY <4>1, <3>2, <1>3, <1>10
    <3> QED
      BY <3>1, <3>2, <1>4
  <2>2. OneRequest'
    <3>1. /\ \A i, j \in 1..Len(gatt) : gatt[i].to # "reading" /\ gatt[j].to # "reading" => i = j
          /\ \A i \in 1..Len(gatt), j \in 1..Len(air) : gatt[i].to # "reading" => air[j].kind = "reading"
          /\ \A i \in 1..Len(gatt) : InChain(gatt[i]) => ~syncing.pending
          /\ \A i, j \in 1..Len(air) :
               i < j /\ air[i].kind # "reading" /\ air[j].kind # "reading" =>
                   air[j].kind = "data" /\ (air[i].kind = "data" => air[i].n < air[j].n)
      BY <1>10 DEF RingExchange, OneRequest
    <3>a. \A i, j \in 1..Len(gatt') : gatt'[i].to # "reading" /\ gatt'[j].to # "reading" => i = j
      <4> SUFFICES ASSUME NEW i \in 1..Len(gatt'), NEW j \in 1..Len(gatt'),
                          gatt'[i].to # "reading", gatt'[j].to # "reading"
                   PROVE  i = j
        OBVIOUS
      <4>1. /\ i + 1 \in 1..Len(gatt) /\ gatt[i + 1].to # "reading"
            /\ j + 1 \in 1..Len(gatt) /\ gatt[j + 1].to # "reading"
        BY <1>5
      <4>2. \A a, b \in 1..Len(gatt) : gatt[a].to # "reading" /\ gatt[b].to # "reading" => a = b
        BY <3>1
      <4>3. i + 1 = j + 1
        BY <4>1, <4>2
      <4> QED
        BY <4>3, <1>5
    <3>b. \A i \in 1..Len(gatt') : InChain(gatt'[i]) => ~syncing.pending
      <4> SUFFICES ASSUME NEW i \in 1..Len(gatt'), InChain(gatt'[i]) PROVE ~syncing.pending
        OBVIOUS
      <4>1. i + 1 \in 1..Len(gatt) /\ gatt'[i] = gatt[i + 1]
        BY <1>5
      <4> QED
        BY <4>1, <3>1
    <3>2. /\ \A i, j \in 1..Len(gatt') : gatt'[i].to # "reading" /\ gatt'[j].to # "reading" => i = j
          /\ \A i \in 1..Len(gatt') : InChain(gatt'[i]) => ~syncing.pending
      BY <3>a, <3>b
    <3>3. \A i \in 1..Len(gatt'), j \in 1..Len(air') : gatt'[i].to # "reading" => air'[j].kind = "reading"
      BY <3>1, <1>5, <2>1
    <3>4. \A i, j \in 1..Len(air') :
               i < j /\ air'[i].kind # "reading" /\ air'[j].kind # "reading" =>
                   air'[j].kind = "data" /\ (air'[i].kind = "data" => air'[i].n < air'[j].n)
      BY <3>1, <2>1
    <3> QED
      BY <3>2, <3>3, <3>4, <1>1 DEF OneRequest, InChain
  <2>3. Asked' => Asked
    BY <2>1, <1>5 DEF Asked
  <2>4. AnswersDue'
    BY <1>1, <1>5, <1>10, <2>1, <2>3 DEF RingExchange, AnswersDue
  <2>5. DaysCovered'
    BY <1>1, PromisedLess DEF RingExchange, DaysCovered, Covered, InLog, InQueue
  <2>6. NextCovered'
    <3> SUFFICES ASSUME NEW i \in 1..Len(air'), air'[i].kind = "data"
                 PROVE  \/ Covered(TimeOf(reached, air'[i].n))
                        \/ \E j \in 1..i - 1 : air'[j].kind = "data" /\ air'[j].n = air'[i].n - 1
      BY <1>1, PromisedLess DEF NextCovered, Covered, InLog, InQueue
    <3>1. i \in 1..Len(air) /\ air'[i] = air[i]
      BY <2>1
    <3>2. \/ Covered(TimeOf(reached, air[i].n))
          \/ \E j \in 1..i - 1 : air[j].kind = "data" /\ air[j].n = air[i].n - 1
      BY <3>1, <1>10 DEF RingExchange, NextCovered
    <3>3. \A j \in 1..i - 1 : j \in 1..Len(air) /\ j \in 1..Len(air')
      BY <3>1, <1>3, <1>4
    <3>4. \A j \in 1..i - 1 : air'[j] = air[j]
      BY <3>3, <2>1
    <3> QED
      BY <3>1, <3>2, <3>4
  <2>7. RoomForNext'
    <3>1. DaySettled => DaySettled'
      BY <1>1, SettledStays
    <3> QED
      BY <3>1, <1>1, <1>5, <1>10, <2>1 DEF RingExchange, RoomForNext
  <2> QED
    BY <1>6, <1>7, <2>2, <2>4, <2>5, <2>6, <2>7 DEF RingExchange
<1> QED
  BY <1>1, <1>8, <1>9, <1>10

LEMMA RefusalKeepsExchange ==
    ASSUME RingTypes, RingShape, RingExchange, WriteRefused
    PROVE  RingExchange'
<1>1. /\ gatt # <<>> /\ gatt' = Tail(gatt) /\ gatt[1] \in GattWrite /\ 1 \in 1..Len(gatt)
      /\ UNCHANGED <<ringLink, air, samples, saved, hrLog, health, reached, hidden, owed, blurred>>
      /\ \/ syncing' = syncing
         \/ /\ gatt[1].to = "history" /\ LinkActive
            /\ syncing' = [syncing EXCEPT !.active = FALSE, !.pending = TRUE]
  BY WritesAdvance DEF WriteRefused, storage, promise
<1>2. syncing'.daysAgo = syncing.daysAgo /\ syncing'.day = syncing.day /\ syncing'.total = syncing.total
  BY <1>1, RingTypeFacts
<1>5. /\ Len(gatt') \in Nat
      /\ \A i \in 1..Len(gatt') : i + 1 \in 1..Len(gatt) /\ gatt'[i] = gatt[i + 1]
  BY <1>1, WritesAdvance
<1>6. Quiet'
  BY <1>1 DEF RingExchange, Quiet
<1>7. LoadedFirst'
  BY <1>1, <1>5 DEF RingExchange, LoadedFirst
<1>8. CASE blurred
  BY <1>1, <1>6, <1>7, <1>8 DEF RingExchange, OneRequest, AnswersDue, DaysCovered, NextCovered, RoomForNext
<1>9. CASE ~blurred /\ gatt[1].to # "reading"
  <2>1. /\ \A i \in 1..Len(gatt') : gatt'[i].to = "reading"
        /\ \A i \in 1..Len(air') : air'[i].kind = "reading"
    BY <1>1, <1>9, RestAreReadings DEF RingExchange
  <2> QED
    BY <1>1, <1>2, <1>6, <1>7, <2>1, ExchangeOver
<1>10. CASE ~blurred /\ gatt[1].to = "reading"
  <2>0. syncing' = syncing
    BY <1>1, <1>10
  <2>2. OneRequest'
    BY <1>1, <1>5, <2>0 DEF RingExchange, OneRequest, InChain
  <2>3. Asked' => Asked
    BY <1>1, <1>5 DEF Asked
  <2>4. AnswersDue'
    BY <1>1, <1>5, <2>0, <2>3 DEF RingExchange, AnswersDue
  <2>5. (DaysCovered /\ NextCovered)'
    BY <1>1, PromisedLess DEF RingExchange, DaysCovered, NextCovered, Covered, InLog, InQueue
  <2>7. RoomForNext'
    <3>1. DaySettled => DaySettled'
      BY <1>1, SettledStays
    <3> QED
      BY <3>1, <1>1, <1>5 DEF RingExchange, RoomForNext
  <2> QED
    BY <1>6, <1>7, <2>2, <2>4, <2>5, <2>7 DEF RingExchange
<1> QED
  BY <1>1, <1>8, <1>9, <1>10

LEMMA MeasureKeepsExchange ==
    ASSUME RingTypes, RingShape, RingExchange, MeasureTapped
    PROVE  RingExchange'
<1> DEFINE write == Write("reading")
<1>1. /\ gatt' = Append(gatt, write) /\ ringLink.connected
      /\ health.at = "idle" /\ health'.at = "measure"
      /\ UNCHANGED <<ringLink, syncing, air, samples, saved, hrLog, reached, hidden, owed, blurred>>
  BY DEF MeasureTapped, LinkActive, storage, promise, At
<1>2. write \in GattWrite /\ write.to = "reading"
  BY WritesAreKnown DEF Write
<1>3. /\ Len(gatt) \in Nat /\ Len(gatt') = Len(gatt) + 1
      /\ \A i \in 1..Len(gatt') : \/ i \in 1..Len(gatt) /\ gatt'[i] = gatt[i]
                                  \/ gatt'[i].to = "reading" /\ ~InChain(gatt'[i])
  <2>1. gatt \in Seq(GattWrite) /\ Len(gatt) \in Nat
    BY Seqs DEF RingShape
  <2>2. /\ Len(gatt') = Len(gatt) + 1 /\ \A i \in 1..Len(gatt) : gatt'[i] = gatt[i]
        /\ gatt'[Len(gatt) + 1] = write
    BY <1>1, <1>2, <2>1, AppendProperties
  <2>3. \A i \in 1..Len(gatt') : i \in 1..Len(gatt) \/ i = Len(gatt) + 1
    BY <2>1, <2>2
  <2>4. ~InChain(write)
    BY <1>2, WriteKinds
  <2> QED
    BY <2>1, <2>2, <2>3, <2>4, <1>2
<1>4. Quiet'
  BY <1>1 DEF Quiet
<1>5. LoadedFirst'
  BY <1>1, <1>3 DEF RingExchange, LoadedFirst
<1>6. OneRequest'
  BY <1>1, <1>3 DEF RingExchange, OneRequest
<1>7. Asked' => Asked
  BY <1>1, <1>3 DEF Asked
<1>8. AnswersDue'
  BY <1>1, <1>3, <1>7 DEF RingExchange, AnswersDue
<1>9. (DaysCovered /\ NextCovered)'
  BY <1>1, PromisedLess DEF RingExchange, DaysCovered, NextCovered, Covered, InLog, InQueue
<1>10. RoomForNext'
  <2>1. DaySettled => DaySettled'
    BY <1>1, SettledStays
  <2> QED
    BY <2>1, <1>1, <1>3 DEF RingExchange, RoomForNext
<1> QED
  BY <1>4, <1>5, <1>6, <1>8, <1>9, <1>10 DEF RingExchange

LEMMA RequestKeepsExchange ==
    ASSUME RingTypes, RingShape, RingExchange, RequestHistory
    PROVE  RingExchange'
<1> DEFINE day == today - syncing.daysAgo
<1> DEFINE write == [to |-> "history", day |-> day]
<1>0. /\ health.at = "drain" /\ samples = <<>>
      /\ UNCHANGED <<ringLink, syncing, air, samples, saved, hrLog, owed, blurred>>
  BY DEF RequestHistory, storage
<1>a. CASE ~CanRequest
  <2>1. gatt' = gatt /\ health'.at = "idle" /\ reached' = reached /\ hidden' = hidden
    BY <1>a DEF RequestHistory, At
  <2> QED
    BY <1>0, <2>1, ExchangeRests
<1>b. CASE CanRequest
  <2>1. /\ gatt' = Append(gatt, write) /\ health'.at = "requested" /\ health'.day = day
        /\ reached' = day /\ hidden' = hidden \cup HistoryOf(reached .. day - 1)
        /\ ringLink.connected /\ syncing.pending
    BY <1>b DEF RequestHistory, CanRequest, LinkActive
  <2>2. write \in GattWrite /\ write.to = "history" /\ write.day = day
        /\ day \in 1..LastDay /\ reached \in 1..LastDay /\ reached <= day
    BY WritesAreKnown, RingTypeFacts
  <2> HIDE DEF write, day
  <2>3. /\ Len(gatt) \in Nat /\ Len(gatt') = Len(gatt) + 1
        /\ \A i \in 1..Len(gatt') : \/ i \in 1..Len(gatt) /\ gatt'[i] = gatt[i]
                                    \/ i = Len(gatt) + 1 /\ gatt'[i] = write
    <3>1. gatt \in Seq(GattWrite) /\ Len(gatt) \in Nat
      BY Seqs DEF RingShape
    <3>2. /\ Len(gatt') = Len(gatt) + 1 /\ \A i \in 1..Len(gatt) : gatt'[i] = gatt[i]
          /\ gatt'[Len(gatt) + 1] = write
      BY <2>1, <2>2, <3>1, AppendProperties
    <3>3. \A i \in 1..Len(gatt') : i \in 1..Len(gatt) \/ i = Len(gatt) + 1
      BY <3>1, <3>2
    <3> QED
      BY <3>1, <3>2, <3>3
  <2>4. Quiet'
    BY <1>0, <2>1 DEF Quiet
  <2>5. LoadedFirst'
    <3>1. saved.loaded
      BY <1>0 DEF RingExchange, LoadedFirst
    <3> QED
      BY <1>0, <3>1 DEF LoadedFirst
  <2>6. ~blurred => /\ \A i \in 1..Len(gatt) : gatt[i].to = "reading"
                    /\ \A i \in 1..Len(air) : air[i].kind = "reading"
    <3> SUFFICES ASSUME ~blurred
                 PROVE  /\ \A i \in 1..Len(gatt) : gatt[i].to = "reading"
                        /\ \A i \in 1..Len(air) : air[i].kind = "reading"
      OBVIOUS
    <3>1. ~Asked
      BY <1>0, <2>1 DEF RingExchange, AnswersDue
    <3>2. \A i \in 1..Len(gatt) : ~InChain(gatt[i]) /\ gatt[i] \in GattWrite
      BY <2>1, Seqs DEF RingExchange, OneRequest
    <3> QED
      BY <3>1, <3>2, WriteKinds DEF Asked
  <2>7. OneRequest'
    <3>1. ~InChain(write)
      BY <2>2, WriteKinds
    <3>2. ~blurred => \A i \in 1..Len(gatt') : gatt'[i].to # "reading" => i = Len(gatt) + 1 /\ ~InChain(gatt'[i])
      BY <2>3, <2>6, <3>1
    <3>3. ~blurred => \A i \in 1..Len(gatt') : ~InChain(gatt'[i])
      BY <3>2 DEF InChain
    <3> QED
      BY <1>0, <2>6, <3>2, <3>3 DEF OneRequest
  <2>9. AnswersDue'
    <3>1. ~blurred => \A i \in 1..Len(gatt') : gatt'[i].to = "history" => gatt'[i].day = reached'
      BY <2>1, <2>2, <2>3, <2>6
    <3> QED
      BY <1>0, <2>1, <2>6, <3>1 DEF AnswersDue
  <2>10. DaysCovered'
    <3> SUFFICES ASSUME ~blurred, NEW t \in Promised', t < TimeOf(day, 0)
                 PROVE  t < TimeOf(reached, 0) /\ t \in Promised
      BY <1>0, <2>1 DEF RingExchange, DaysCovered, Covered, InLog, InQueue
    <3>1. t \in Promised /\ t \notin HistoryOf(reached .. day - 1)
      BY <2>1 DEF Promised
    <3>2. PICK d \in 1..LastDay : \E n \in 1..Stored[d] : t = TimeOf(d, n)
      BY <3>1, PromisedIsHistory, InHistory
    <3>3. PICK n \in 1..Stored[d] : t = TimeOf(d, n)
      BY <3>2
    <3>4. /\ d \in Nat /\ n \in Nat /\ 0 < n /\ n < DayLength /\ day \in Nat /\ reached \in Nat
          /\ 0 \in Nat /\ 0 < DayLength
      <4>1. LastDay \in Nat /\ Stored[d] \in Nat /\ Stored[d] <= QueueSlots /\ QueueSlots < DayLength
            /\ QueueSlots \in Nat /\ DayLength \in Nat
        BY Days
      <4> QED
        BY <4>1, <2>2, <3>2, <3>3
    <3>5. d < day
      <4>1. TimeOf(day, 0) \in Nat /\ t \in Nat
        BY <3>3, <3>4, TimesInOrder
      <4>2. CASE d = day
        <5>1. TimeOf(day, 0) < t
          BY <4>2, <3>3, <3>4, TimesInOrder
        <5> QED
          BY <5>1, <4>1
      <4>3. CASE day < d
        <5>1. TimeOf(day, 0) < t
          BY <4>3, <3>3, <3>4, TimesInOrder
        <5> QED
          BY <5>1, <4>1
      <4> QED
        BY <4>2, <4>3, <3>4
    <3>6. d < reached
      <4>1. ~(d \in reached .. day - 1)
        BY <3>1, <3>3, InHistory
      <4> QED
        BY <4>1, <3>4, <3>5
    <3>7. t < TimeOf(reached, 0)
      BY <3>3, <3>4, <3>6, TimesInOrder
    <3> QED
      BY <3>1, <3>7
  <2>11. NextCovered'
    BY <1>0, <2>6 DEF NextCovered
  <2>12. RoomForNext'
    BY <1>0, <2>6 DEF RoomForNext
  <2> QED
    BY <2>4, <2>5, <2>7, <2>9, <2>10, <2>11, <2>12 DEF RingExchange
<1> QED
  BY <1>a, <1>b

LEMMA RecordKeepsExchange ==
    ASSUME RingTypes, RingShape, RingExchange, RequestRecorded
    PROVE  RingExchange'
<1>1. /\ health.at = "requested" /\ health'.at = "idle"
      /\ ~syncing'.pending /\ syncing'.day = health.day /\ syncing'.total = 0
      /\ syncing'.daysAgo = syncing.daysAgo
      /\ UNCHANGED <<ringLink, gatt, air, samples, saved, hrLog, reached, hidden, owed, blurred>>
  BY RingTypeFacts DEF RequestRecorded, Record, storage, promise, At
<1>3. Quiet' /\ LoadedFirst' /\ OneRequest'
  BY <1>1 DEF RingExchange, Quiet, LoadedFirst, OneRequest
<1>4. AnswersDue'
  BY <1>1 DEF RingExchange, AnswersDue, Asked
<1>5. (DaysCovered /\ NextCovered)'
  BY <1>1, PromisedLess DEF RingExchange, DaysCovered, NextCovered, Covered, InLog, InQueue
<1>6. RoomForNext'
  <2>1. DaySettled => DaySettled'
    BY <1>1, SettledStays
  <2> QED
    BY <2>1, <1>1 DEF RingExchange, RoomForNext
<1> QED
  BY <1>3, <1>4, <1>5, <1>6 DEF RingExchange

LEMMA RebootStartsExchange ==
    ASSUME RingTypes, RingShape, RingReboot
    PROVE  RingExchange'
<1>1. /\ gatt' = <<>> /\ air' = <<>> /\ samples' = <<>> /\ health'.at = "idle"
      /\ ~syncing'.pending /\ reached' = 1 /\ hidden' = hidden
  BY DEF RingReboot, NoSync, At
<1>2. 1..Len(gatt') = {} /\ 1..Len(air') = {} /\ 1..Len(samples') = {}
  BY <1>1, EmptySeq
<1>3. Quiet' /\ LoadedFirst' /\ OneRequest'
  BY <1>1, <1>2 DEF Quiet, LoadedFirst, OneRequest
<1>4. AnswersDue'
  BY <1>2 DEF AnswersDue, Asked
<1>5. \A t \in Promised' : ~(t < TimeOf(reached', 0))
  BY <1>1, PromisedLess, PromisedIsHistory, HistoryTimes
<1>6. DaysCovered'
  BY <1>5 DEF DaysCovered, Covered
<1>7. (NextCovered /\ RoomForNext)'
  BY <1>2 DEF NextCovered, RoomForNext
<1> QED
  BY <1>3, <1>4, <1>6, <1>7 DEF RingExchange

LEMMA TicksKeepExchange ==
    ASSUME RingTypes, RingShape, RingExchange,
           RingToggled \/ MeasureBegun \/ HealthTick \/ LoadLastSaved \/ LoadFails
    PROVE  RingExchange'
<1>0. syncing \in [active : BOOLEAN, pending : BOOLEAN, daysAgo : 0..SyncDays,
                   total : 0..QueueSlots + 1, day : 0..LastDay]
      /\ ringLink \in [enabled : BOOLEAN, connected : BOOLEAN] /\ blurred \in BOOLEAN
  BY RingTypeFacts
<1>1. CASE RingToggled
  BY <1>0, <1>1, ExchangeRests DEF RingToggled, storage, promise, RingExchange, LoadedFirst
<1>2. CASE MeasureBegun
  BY <1>0, <1>2, ExchangeRests DEF MeasureBegun, storage, promise, At
<1>3. CASE HealthTick
  BY <1>0, <1>3, ExchangeRests DEF HealthTick, Overdue, storage, promise, At
<1>4. CASE LoadLastSaved
  BY <1>0, <1>4, ExchangeRests DEF LoadLastSaved, exchange, promise, At
<1>5. CASE LoadFails
  BY <1>0, <1>5, ExchangeRests DEF LoadFails, exchange, promise, At
<1> QED
  BY <1>1, <1>2, <1>3, <1>4, <1>5

\* What is dropped from the queue as saved is in the log.
LEMMA DroppedIsLogged ==
    ASSUME RingTypes, RingShape, RingStore, samples # <<>>, ~blurred,
           ~(saved.time < samples[1].time), samples[1].time \in Promised
    PROVE  InLog(samples[1].time)
<1> DEFINE s == samples[1]
<1>1. saved.time \in Nat /\ s.time \in Nat /\ 0 < s.time
  BY TimesAreNats, RingTypeFacts, PromisedIsHistory, HistoryTimes
<1>2. 0 < saved.time /\ s.time <= saved.time
  BY <1>1
<1>3. PICK i \in 1..Len(hrLog) : hrLog[i].time = saved.time
  BY <1>2 DEF RingStore, CheckpointIsARow, InLog
<1>4. PICK m \in 1..i : hrLog[m].time = s.time
  BY <1>2, <1>3 DEF RingStore, LogClosed
<1>5. m \in 1..Len(hrLog)
  BY <1>4, Seqs
<1> QED
  BY <1>4, <1>5 DEF InLog

LEMMA DrainKeepsExchange ==
    ASSUME RingTypes, RingShape, RingStore, RingExchange, DrainSample
    PROVE  RingExchange'
<1>1. /\ health.at = "drain" /\ samples # <<>> /\ samples' = Tail(samples)
      /\ UNCHANGED <<gatt, air, syncing, ringLink, reached, hidden, owed, blurred, health>>
      /\ saved'.loaded = saved.loaded
  BY RingTypeFacts DEF DrainSample, exchange, promise
<1>2. /\ Len(samples) \in Nat \ {0} /\ Len(samples') = Len(samples) - 1
      /\ Head(samples) = samples[1] /\ 1 \in 1..Len(samples)
      /\ \A k \in 1..Len(samples') : k + 1 \in 1..Len(samples) /\ samples'[k] = samples[k + 1]
      /\ \A k \in 1..Len(samples) : k = 1 \/ (k - 1 \in 1..Len(samples') /\ (k - 1) + 1 = k)
  BY <1>1, QueueAdvances
<1>3. ASSUME ~blurred
      PROVE  \A t \in Promised : InLog(t) \/ InQueue(t) => InLog(t)' \/ InQueue(t)'
  <2>1. CASE saved.time < samples[1].time
    <3>1. hrLog' = Append(hrLog, Row(samples[1], TRUE))
      BY <2>1, <1>2 DEF DrainSample
    <3>2. samples[1] \in HeartRate
      BY <1>2, Seqs
    <3>3. Row(samples[1], TRUE) \in HeartRow /\ Row(samples[1], TRUE).time = samples[1].time
      BY <3>2, RowOfSample
    <3>4. /\ \A i \in 1..Len(hrLog) : i \in 1..Len(hrLog') /\ hrLog'[i] = hrLog[i]
          /\ hrLog'[Len(hrLog) + 1] = Row(samples[1], TRUE) /\ Len(hrLog) + 1 \in 1..Len(hrLog')
      BY <3>1, <3>3, LogGrows
    <3>7. ASSUME NEW t, InLog(t) PROVE InLog(t)'
      BY <3>4, <3>7 DEF InLog
    <3>8. ASSUME NEW t, InQueue(t) PROVE InLog(t)' \/ InQueue(t)'
      <4>1. PICK k \in 1..Len(samples) : samples[k].time = t
        BY <3>8 DEF InQueue
      <4>2. CASE k = 1
        <5>1. InLog(t)'
          BY <4>1, <4>2, <3>3, <3>4 DEF InLog
        <5> QED
          BY <5>1
      <4>3. CASE k # 1
        <5>1. InQueue(t)'
          BY <4>1, <4>3, <1>2 DEF InQueue
        <5> QED
          BY <5>1
      <4> QED
        BY <4>2, <4>3
    <3> QED
      BY <3>7, <3>8
  <2>2. CASE ~(saved.time < samples[1].time)
    <3>1. hrLog' = hrLog
      BY <2>2, <1>2 DEF DrainSample
    <3>3. samples[1].time \in Promised => InLog(samples[1].time)
      BY <1>1, <1>3, <2>2, DroppedIsLogged
    <3>5. ASSUME NEW t \in Promised, InLog(t) \/ InQueue(t) PROVE InLog(t)' \/ InQueue(t)'
      <4>1. CASE InLog(t)
        <5>1. InLog(t)'
          BY <4>1, <3>1 DEF InLog
        <5> QED
          BY <5>1
      <4>2. CASE InQueue(t)
        <5>1. PICK k \in 1..Len(samples) : samples[k].time = t
          BY <4>2 DEF InQueue
        <5>2. CASE k = 1
          <6>1. InLog(t)'
            BY <5>1, <5>2, <3>1, <3>3 DEF InLog
          <6> QED
            BY <6>1
        <5>3. CASE k # 1
          <6>1. InQueue(t)'
            BY <5>1, <5>3, <1>2 DEF InQueue
          <6> QED
            BY <6>1
        <5> QED
          BY <5>2, <5>3
      <4> QED
        BY <3>5, <4>1, <4>2
    <3> QED
      BY <3>5
  <2> QED
    BY <2>1, <2>2
<1>4. \A k \in 1..Len(samples') : \E m \in 1..Len(samples) : samples'[k] = samples[m]
  BY <1>2
<1>5. Len(samples') <= Len(samples) /\ Len(samples') \in Nat
  BY <1>2
<1> QED
  BY <1>1, <1>3, <1>4, <1>5, ExchangeWaits

LEMMA FailureKeepsExchange ==
    ASSUME RingTypes, RingShape, RingStore, RingExchange, DrainFails
    PROVE  RingExchange'
<1>1. /\ health.at = "drain" /\ samples # <<>> /\ health'.at = "idle"
      /\ UNCHANGED <<gatt, air, syncing, ringLink, reached, hidden, owed, blurred, samples, saved>>
  BY DEF DrainFails, exchange, promise, At
<1>2. Len(samples) \in Nat \ {0} /\ 1 \in 1..Len(samples) /\ Head(samples) = samples[1]
  <2>1. Len(samples) \in Nat \ {0}
    BY <1>1, EmptySeq, Seqs DEF RingShape
  <2> QED
    BY <2>1 DEF Head
<1>3. hrLog' = hrLog \/ hrLog' = Append(hrLog, Row(samples[1], FALSE))
  BY <1>2 DEF DrainFails
<1>4. \A i \in 1..Len(hrLog) : i \in 1..Len(hrLog') /\ hrLog'[i] = hrLog[i]
  <2>1. CASE hrLog' = hrLog
    BY <2>1
  <2>2. CASE hrLog' = Append(hrLog, Row(samples[1], FALSE))
    <3>1. samples[1] \in HeartRate
      BY <1>2, Seqs
    <3>2. Row(samples[1], FALSE) \in HeartRow
      BY <3>1, RowOfSample
    <3> QED
      BY <2>2, <3>2, LogGrows
  <2> QED
    BY <1>3, <2>1, <2>2
<1>5. \A t \in Promised : InLog(t) \/ InQueue(t) => InLog(t)' \/ InQueue(t)'
  <2>2. \A t : InLog(t) => InLog(t)'
    BY <1>4 DEF InLog
  <2>3. \A t : InQueue(t) => InQueue(t)'
    BY <1>1 DEF InQueue
  <2> QED
    BY <2>2, <2>3
<1>6. \A k \in 1..Len(samples') : \E m \in 1..Len(samples) : samples'[k] = samples[m]
  BY <1>1
<1>7. Len(samples') <= Len(samples) /\ Len(samples') \in Nat
  BY <1>1, <1>2
<1> QED
  BY <1>1, <1>5, <1>6, <1>7, ExchangeWaits

(***************************************************************************)
(* Notifications.                                                          *)
(***************************************************************************)
LEMMA ShiftKeepsExchange ==
    ASSUME RingTypes, RingShape, RingExchange, air # <<>>, air' = Tail(air),
           UNCHANGED <<ringLink, gatt, hrLog, saved, health, reached, owed>>,
           hidden \subseteq hidden', blurred => blurred',
           ~blurred' => air[1].kind # "data",
           syncing'.day = syncing.day,
           syncing'.pending = syncing.pending,
           ~blurred' => syncing'.total \in {syncing.total, Stored[reached] + 1},
           \/ samples' = samples
           \/ DaySettled' /\ \A k \in 1..Len(samples) : k \in 1..Len(samples') /\ samples'[k] = samples[k]
    PROVE  RingExchange'
<1>1. /\ Len(air) \in Nat \ {0} /\ Len(air') = Len(air) - 1 /\ 1 \in 1..Len(air)
      /\ \A i \in 1..Len(air') : i + 1 \in 1..Len(air) /\ air'[i] = air[i + 1] /\ air'[i] \in Notice
  BY AirAdvances
<1>2. \A bound : Covered(bound) => Covered(bound)'
  BY PromisedLess DEF Covered, InLog, InQueue
<1>3. Quiet'
  <2>1. air = <<>> => air' = <<>>
    OBVIOUS
  <2> QED
    BY <2>1 DEF RingExchange, Quiet
<1>4. LoadedFirst'
  BY <1>1 DEF RingExchange, LoadedFirst
<1>5. CASE blurred'
  BY <1>3, <1>4, <1>5 DEF RingExchange, OneRequest, AnswersDue, DaysCovered, NextCovered, RoomForNext
<1>6. CASE ~blurred'
  <2>1. ~blurred /\ air[1].kind # "data"
    BY <1>6
  <2>2. OneRequest'
    <3>1. /\ \A i, j \in 1..Len(gatt) : gatt[i].to # "reading" /\ gatt[j].to # "reading" => i = j
          /\ \A i \in 1..Len(gatt), j \in 1..Len(air) : gatt[i].to # "reading" => air[j].kind = "reading"
          /\ \A i \in 1..Len(gatt) : InChain(gatt[i]) => ~syncing.pending
          /\ \A i, j \in 1..Len(air) :
               i < j /\ air[i].kind # "reading" /\ air[j].kind # "reading" =>
                   air[j].kind = "data" /\ (air[i].kind = "data" => air[i].n < air[j].n)
      BY <2>1 DEF RingExchange, OneRequest
    <3>2. \A i \in 1..Len(gatt), j \in 1..Len(air') : gatt[i].to # "reading" => air'[j].kind = "reading"
      BY <3>1, <1>1
    <3>3. ASSUME NEW i \in 1..Len(air'), NEW j \in 1..Len(air'), i < j,
                 air'[i].kind # "reading", air'[j].kind # "reading"
          PROVE  air'[j].kind = "data" /\ (air'[i].kind = "data" => air'[i].n < air'[j].n)
      <4>1. i + 1 < j + 1
        BY <3>3, <1>1
      <4> QED
        BY <4>1, <3>1, <3>3, <1>1
    <3>4. gatt' = gatt /\ syncing'.pending = syncing.pending
      OBVIOUS
    <3>5. /\ \A i, j \in 1..Len(gatt') : gatt'[i].to # "reading" /\ gatt'[j].to # "reading" => i = j
          /\ \A i \in 1..Len(gatt'), j \in 1..Len(air') : gatt'[i].to # "reading" => air'[j].kind = "reading"
          /\ \A i \in 1..Len(gatt') : InChain(gatt'[i]) => ~syncing'.pending
      BY <3>1, <3>2, <3>4
    <3>6. \A i, j \in 1..Len(air') :
               i < j /\ air'[i].kind # "reading" /\ air'[j].kind # "reading" =>
                   air'[j].kind = "data" /\ (air'[i].kind = "data" => air'[i].n < air'[j].n)
      BY <3>3
    <3> QED
      BY <3>5, <3>6 DEF OneRequest, InChain
  <2>3. Asked' => Asked
    BY <1>1 DEF Asked
  <2>4. AnswersDue'
    BY <1>1, <2>1, <2>3 DEF RingExchange, AnswersDue
  <2>5. DaysCovered'
    BY <1>2, <2>1 DEF RingExchange, DaysCovered
  <2>6. NextCovered'
    <3> SUFFICES ASSUME NEW i \in 1..Len(air'), air'[i].kind = "data"
                 PROVE  \/ Covered(TimeOf(reached, air'[i].n))
                        \/ \E j \in 1..i - 1 : air'[j].kind = "data" /\ air'[j].n = air'[i].n - 1
      BY <1>2 DEF NextCovered
    <3>1. i + 1 \in 1..Len(air) /\ air'[i] = air[i + 1] /\ (i + 1) - 1 = i
      BY <1>1
    <3>2. \/ Covered(TimeOf(reached, air'[i].n))
          \/ \E j \in 1..i : air[j].kind = "data" /\ air[j].n = air'[i].n - 1
      BY <3>1, <2>1 DEF RingExchange, NextCovered
    <3>3. ASSUME NEW j \in 1..i, air[j].kind = "data", air[j].n = air'[i].n - 1
          PROVE  \E m \in 1..i - 1 : air'[m].kind = "data" /\ air'[m].n = air'[i].n - 1
      <4>1. j # 1
        BY <3>3, <2>1
      <4>2. j - 1 \in 1..i - 1 /\ j - 1 \in 1..Len(air') /\ (j - 1) + 1 = j
        BY <4>1, <1>1
      <4>3. air'[j - 1] = air[j]
        BY <4>2, <1>1
      <4> QED
        BY <4>2, <4>3, <3>3
    <3> QED
      BY <3>2, <3>3
  <2>7. RoomForNext'
    <3> SUFFICES ASSUME ~DaySettled'
                 PROVE  /\ \A i \in 1..Len(gatt) : gatt[i].to = "history" => samples' = <<>>
                        /\ \A i \in 1..Len(air') : air'[i].kind = "data" =>
                              /\ Len(samples') < air'[i].n
                              /\ \A k \in 1..Len(samples') : samples'[k].time < TimeOf(reached, air'[i].n)
      BY DEF RoomForNext
    <3>1. samples' = samples /\ ~DaySettled
      BY SettledStays
    <3>2. /\ \A i \in 1..Len(gatt) : gatt[i].to = "history" => samples = <<>>
          /\ \A i \in 1..Len(air) : air[i].kind = "data" =>
                /\ Len(samples) < air[i].n
                /\ \A k \in 1..Len(samples) : samples[k].time < TimeOf(reached, air[i].n)
      BY <2>1, <3>1 DEF RingExchange, RoomForNext
    <3> QED
      BY <3>1, <3>2, <1>1
  <2> QED
    BY <1>3, <1>4, <2>2, <2>4, <2>5, <2>6, <2>7 DEF RingExchange
<1> QED
  BY <1>5, <1>6

\* A day is over: nothing of its answer is left.
LEMMA OverKeepsExchange ==
    ASSUME Quiet', LoadedFirst',
           ~blurred' => /\ \A i \in 1..Len(gatt') : gatt'[i].to = "reading"
                        /\ \A i \in 1..Len(air') : air'[i].kind = "reading",
           DaysCovered'
    PROVE  RingExchange'
<1>1. OneRequest'
  BY DEF OneRequest, InChain
<1>2. AnswersDue'
  BY DEF AnswersDue, Asked
<1>3. NextCovered' /\ RoomForNext'
  BY DEF NextCovered, RoomForNext
<1> QED
  BY <1>1, <1>2, <1>3 DEF RingExchange

\* Finishing a day moves to the next one, or stays with today.
LEMMA FinishedMoves ==
    ASSUME RingTypes, RingShape, NEW total \in Int,
           syncing' = Finished(syncing) \/ syncing' = Finished([syncing EXCEPT !.total = total]),
           reached' = reached + (syncing.daysAgo - syncing'.daysAgo)
    PROVE  reached' = reached \/ reached' = reached + 1
<1>1. /\ syncing \in [active : BOOLEAN, pending : BOOLEAN, daysAgo : 0..SyncDays,
                      total : 0..QueueSlots + 1, day : 0..LastDay]
      /\ SyncDays \in Nat /\ LastDay \in Nat /\ reached \in 1..LastDay
  BY RingTypeFacts, Days
<1>2. syncing.daysAgo \in Int
  BY <1>1
<1>3. syncing'.daysAgo = syncing.daysAgo \/ syncing'.daysAgo = syncing.daysAgo - 1
  BY <1>1 DEF Finished
<1> QED
  BY <1>1, <1>2, <1>3

LEMMA NextDayCovered ==
    ASSUME RingTypes, RingShape, reached' = reached \/ reached' = reached + 1,
           NEW t \in Promised, t < TimeOf(reached', 0)
    PROVE  t < TimeOf(reached, Stored[reached] + 1)
<1>1. reached \in 1..LastDay /\ reached \in Nat /\ Stored[reached] \in Nat /\ Stored[reached] + 1 \in Nat /\ 0 \in Nat
      /\ 0 < Stored[reached] + 1
  BY RingTypeFacts, Days
<1>2. TimeOf(reached, 0) < TimeOf(reached, Stored[reached] + 1) /\ TimeOf(reached, 0) \in Nat
      /\ TimeOf(reached, Stored[reached] + 1) \in Nat /\ t \in Nat
  BY <1>1, TimesInOrder, PromisedIsHistory, HistoryTimes
<1>3. CASE reached' = reached
  BY <1>2, <1>3
<1>4. CASE reached' = reached + 1
  BY <1>1, <1>4, PromisedIsHistory, HistoryTimes
<1> QED
  BY <1>3, <1>4

LEMMA HeaderKeepsExchange ==
    ASSUME RingTypes, RingShape, RingExchange, RingNotified, HistoryHeader
    PROVE  RingExchange'
<1>1. /\ air # <<>> /\ air' = Tail(air) /\ LinkActive /\ ringLink.connected
      /\ UNCHANGED <<ringLink, gatt, saved, hrLog, health, samples, hidden, owed>>
      /\ blurred' = (blurred \/ health.at = "requested")
      /\ reached' = reached + (syncing.daysAgo - syncing'.daysAgo)
  BY DEF RingNotified, HistoryHeader, storage, LinkActive, Early
<1>2. /\ Len(air) \in Nat \ {0} /\ Len(air') = Len(air) - 1 /\ 1 \in 1..Len(air) /\ Head(air) = air[1]
      /\ \A i \in 1..Len(air') : i + 1 \in 1..Len(air) /\ air'[i] = air[i + 1] /\ air'[i] \in Notice
      /\ air[1] \in Notice
  BY <1>1, AirAdvances
<1>3. \/ air[1].kind = "none" /\ syncing' = Finished(syncing)
      \/ /\ air[1].kind = "header" /\ air[1].total <= 1
         /\ syncing' = Finished([syncing EXCEPT !.total = air[1].total])
      \/ /\ air[1].kind = "header" /\ ~(air[1].total <= 1)
         /\ syncing' = [syncing EXCEPT !.total = air[1].total]
  BY <1>2 DEF HistoryHeader
<1>4. Quiet'
  BY <1>1 DEF Quiet
<1>5. LoadedFirst'
  BY <1>1, <1>2 DEF RingExchange, LoadedFirst
<1>6. CASE blurred'
  BY <1>4, <1>5, <1>6 DEF RingExchange, OneRequest, AnswersDue, DaysCovered, NextCovered, RoomForNext
<1>7. CASE ~blurred'
  <2>1. ~blurred /\ health.at # "requested" /\ air[1].kind \in {"none", "header"}
    BY <1>7, <1>1, <1>3
  <2>2. /\ \A i \in 1..Len(gatt) : gatt[i].to = "reading"
        /\ \A j \in 1..Len(air) : 1 < j /\ air[j].kind # "reading" => air[j].kind = "data"
    BY <2>1, <1>2 DEF RingExchange, OneRequest
  <2>3. /\ air[1].kind = "header" => air[1].total = Stored[reached] + 1
        /\ air[1].kind = "none" => Stored[reached] = 0
        /\ \A i \in 1..Len(air) : air[i].kind = "data" => air[i].n <= Stored[reached]
    BY <2>1, <1>2 DEF RingExchange, AnswersDue
  <2>4. reached \in 1..LastDay /\ Stored[reached] \in Nat
    BY RingTypeFacts, Days
  <2>5. CASE air[1].kind = "header" /\ ~(air[1].total <= 1)
    <3>1. syncing' = [syncing EXCEPT !.total = air[1].total]
      BY <2>5, <1>3
    <3>2. /\ syncing'.daysAgo = syncing.daysAgo /\ syncing'.day = syncing.day
          /\ syncing'.pending = syncing.pending /\ syncing'.total = Stored[reached] + 1
      BY <3>1, <2>5, <2>3, RingTypeFacts
    <3>3. air[1].kind # "data" /\ (blurred => blurred') /\ reached' = reached
      <4>1. syncing'.daysAgo = syncing.daysAgo /\ syncing.daysAgo \in Int /\ reached \in Int
        BY <3>2, <2>4, RingTypeFacts, Days
      <4>2. reached' = reached + (syncing.daysAgo - syncing'.daysAgo)
        BY <1>1
      <4>3. reached' = reached
        BY <4>1, <4>2
      <4>4. air[1].kind # "data"
        BY <2>5
      <4>5. blurred => blurred'
        BY <1>1
      <4> QED
        BY <4>3, <4>4, <4>5
    <3> QED
      BY <3>2, <3>3, <1>1, ShiftKeepsExchange
  <2>6. CASE ~(air[1].kind = "header" /\ ~(air[1].total <= 1))
    <3>1. Stored[reached] = 0
      <4>1. CASE air[1].kind = "none"
        BY <4>1, <2>3
      <4>2. CASE air[1].kind = "header" /\ air[1].total <= 1
        BY <4>2, <2>3, <2>4
      <4> QED
        BY <4>1, <4>2, <2>6, <2>1
    <3>2. \A i \in 1..Len(air') : air'[i].kind = "reading"
      <4> SUFFICES ASSUME NEW i \in 1..Len(air'), air'[i].kind # "reading" PROVE FALSE
        OBVIOUS
      <4>1. air[i + 1].kind = "data" /\ i + 1 \in 1..Len(air) /\ air[i + 1] \in Notice
        <5>1. 1 < i + 1
          BY <1>2
        <5> QED
          BY <5>1, <2>2, <1>2
      <4>2. air[i + 1].n \in 1..QueueSlots
        BY <4>1 DEF Notice
      <4>3. air[i + 1].n <= 0
        BY <4>1, <3>1, <2>3
      <4> QED
        BY <4>2, <4>3
    <3>3. reached' = reached \/ reached' = reached + 1
      <4>1. air[1].kind = "header" => air[1].total \in Int
        BY <2>3, <2>4
      <4>2. 0 \in Int
        OBVIOUS
      <4>3. CASE air[1].kind = "header"
        BY <4>1, <4>3, <2>6, <1>1, <1>3, FinishedMoves
      <4>4. CASE air[1].kind = "none"
        BY <4>2, <4>4, <1>1, <1>3, FinishedMoves
      <4> QED
        BY <4>3, <4>4, <2>1
    <3>4. DaysCovered'
      <4> SUFFICES ASSUME NEW t \in Promised, t < TimeOf(reached', 0)
                   PROVE  InLog(t) \/ InQueue(t)
        BY <1>1, PromisedLess DEF DaysCovered, Covered, InLog, InQueue
      <4>1. t < TimeOf(reached, Stored[reached] + 1)
        BY <3>3, NextDayCovered
      <4>2. Stored[reached] + 1 = 1
        BY <3>1
      <4>3. t < TimeOf(reached, 0)
        BY <4>1, <4>2, <2>4, PromisedIsHistory, HistoryTimes
      <4> QED
        BY <4>3, <2>1 DEF RingExchange, DaysCovered, Covered
    <3>5. \A i \in 1..Len(gatt') : gatt'[i].to = "reading"
      BY <2>2, <1>1
    <3> QED
      BY <1>4, <1>5, <3>2, <3>4, <3>5, OverKeepsExchange
  <2> QED
    BY <2>5, <2>6
<1> QED
  BY <1>6, <1>7

\* What the next sample of a day is, while no request was blurred.
LEMMA NextSample ==
    ASSUME RingTypes, RingShape, RingExchange, RingNotified, HistoryData, ~blurred'
    PROVE  /\ air[1] \in Notice /\ air[1].kind = "data" /\ air[1].day = reached /\ reached \in 1..LastDay
           /\ air[1].n \in 1..Stored[reached] /\ Stored[reached] \in 1..QueueSlots
           /\ syncing.day = reached
           /\ syncing.total > 0 /\ air[1].n = syncing.total - 1 => air[1].n = Stored[reached]
           /\ TimeOf(reached, air[1].n) \in History
           /\ saved.loaded /\ ~blurred /\ health.at # "requested"
           /\ \A i \in 1..Len(gatt) : gatt[i].to = "reading"
           /\ \A j \in 1..Len(air) : 1 < j /\ air[j].kind # "reading" =>
                   air[j].kind = "data" /\ air[1].n < air[j].n /\ air[j].n <= Stored[reached]
           /\ Covered(TimeOf(reached, air[1].n))
           /\ ~DaySettled =>
                   /\ Len(samples) < air[1].n
                   /\ \A k \in 1..Len(samples) : samples[k].time < TimeOf(reached, air[1].n)
<1>1. /\ air # <<>> /\ air' = Tail(air) /\ Head(air).kind = "data" /\ blurred' = (blurred \/ Early)
  BY DEF RingNotified, HistoryData
<1>2. /\ 1 \in 1..Len(air) /\ Head(air) = air[1] /\ air[1] \in Notice
  BY <1>1, AirAdvances
<1>3. ~blurred /\ health.at # "requested" /\ air[1].kind = "data"
  BY <1>1, <1>2 DEF Early
<1>4. reached \in 1..LastDay /\ Stored[reached] \in Nat /\ Stored[reached] <= QueueSlots
  BY RingTypeFacts, Days
<1>5. /\ \A i \in 1..Len(air) : air[i].kind = "data" => air[i].day = reached /\ air[i].n <= Stored[reached]
      /\ Asked => syncing.day = reached /\ syncing.total \in {0, Stored[reached] + 1}
  BY <1>3 DEF RingExchange, AnswersDue
<1>6. Asked
  BY <1>2, <1>3 DEF Asked
<1>7. air[1].n \in 1..QueueSlots /\ air[1].n \in Nat
  BY <1>2, <1>3 DEF Notice
<1>8. air[1].n \in 1..Stored[reached] /\ Stored[reached] \in 1..QueueSlots
  BY <1>2, <1>3, <1>4, <1>5, <1>7
<1>9. TimeOf(reached, air[1].n) \in History
  BY <1>4, <1>8, InHistory
<1>10. syncing.total > 0 /\ air[1].n = syncing.total - 1 => air[1].n = Stored[reached]
  BY <1>4, <1>5, <1>6
<1>11. /\ \A i \in 1..Len(gatt) : gatt[i].to = "reading"
       /\ \A j \in 1..Len(air) : 1 < j /\ air[j].kind # "reading" => air[j].kind = "data" /\ air[1].n < air[j].n
  BY <1>2, <1>3 DEF RingExchange, OneRequest
<1>12. saved.loaded
  BY <1>2, <1>3 DEF RingExchange, LoadedFirst
<1>13. /\ Covered(TimeOf(reached, air[1].n))
       /\ ~DaySettled =>
             /\ Len(samples) < air[1].n
             /\ \A k \in 1..Len(samples) : samples[k].time < TimeOf(reached, air[1].n)
  <2>1. 1..1 - 1 = {}
    OBVIOUS
  <2>2. Covered(TimeOf(reached, air[1].n))
    BY <2>1, <1>2, <1>3 DEF RingExchange, NextCovered
  <2> QED
    BY <2>2, <1>2, <1>3 DEF RingExchange, RoomForNext
<1> QED
  BY <1>2, <1>3, <1>4, <1>5, <1>6, <1>8, <1>9, <1>10, <1>11, <1>12, <1>13

LEMMA DataKeepsExchange ==
    ASSUME RingTypes, RingShape, RingStore, RingExchange, RingNotified, HistoryData
    PROVE  RingExchange'
<1> DEFINE n == air[1].n
           sample == Measured(TimeOf(syncing.day, n), TimeOf(air[1].day, n), ~blurred /\ ~Early)
<1>1. /\ air # <<>> /\ air' = Tail(air) /\ ringLink.connected
      /\ UNCHANGED <<ringLink, gatt, saved, hrLog, health, hidden>>
      /\ blurred' = (blurred \/ health.at = "requested")
      /\ reached' = reached + (syncing.daysAgo - syncing'.daysAgo)
      /\ owed \subseteq owed'
  BY DEF RingNotified, HistoryData, storage, LinkActive, Early
<1>2. /\ Len(air) \in Nat \ {0} /\ Len(air') = Len(air) - 1 /\ 1 \in 1..Len(air) /\ Head(air) = air[1]
      /\ \A i \in 1..Len(air') : i + 1 \in 1..Len(air) /\ air'[i] = air[i + 1] /\ air'[i] \in Notice
      /\ air[1] \in Notice
  BY <1>1, AirAdvances
<1>3. /\ air[1].kind = "data"
      /\ samples' = IF Len(samples) < QueueSlots THEN Append(samples, sample) ELSE samples
      /\ syncing' = IF syncing.total > 0 /\ n = syncing.total - 1 THEN Finished(syncing) ELSE syncing
  BY <1>2 DEF HistoryData, Enqueue
<1>4. Quiet'
  BY <1>1 DEF Quiet
<1>5. sample.time = TimeOf(syncing.day, n)
  BY DEF Measured
<1> HIDE DEF sample
<1>6. Len(samples) \in Nat /\ samples \in Seq(HeartRate) /\ QueueSlots \in Nat
  BY Seqs, Days DEF RingShape
<1>7. Len(samples) < QueueSlots =>
         /\ Len(samples') = Len(samples) + 1 /\ Len(samples) + 1 \in 1..Len(samples')
         /\ \A k \in 1..Len(samples) : k \in 1..Len(samples') /\ samples'[k] = samples[k]
         /\ samples'[Len(samples) + 1] = sample
         /\ \A k \in 1..Len(samples') : k \in 1..Len(samples) \/ k = Len(samples) + 1
  <2> SUFFICES ASSUME Len(samples) < QueueSlots
               PROVE
         /\ Len(samples') = Len(samples) + 1 /\ Len(samples) + 1 \in 1..Len(samples')
         /\ \A k \in 1..Len(samples) : k \in 1..Len(samples') /\ samples'[k] = samples[k]
         /\ samples'[Len(samples) + 1] = sample
         /\ \A k \in 1..Len(samples') : k \in 1..Len(samples) \/ k = Len(samples) + 1
    OBVIOUS
  <2>1. sample \in HeartRate
    <3>1. syncing.day \in 0..LastDay /\ n \in 0..QueueSlots /\ air[1].day \in 0..LastDay
      <4>1. air[1].n \in 1..QueueSlots /\ air[1].day \in 1..LastDay
        BY <1>2, <1>3 DEF Notice
      <4> QED
        BY <4>1, RingTypeFacts, Days
    <3>2. TimeOf(syncing.day, n) \in Times /\ TimeOf(air[1].day, n) \in Times
      <4>1. n \in Nat /\ n < DayLength
        BY <3>1, Days
      <4> QED
        BY <3>1, <4>1, HistoryTimeKnown
    <3>3. (~blurred /\ ~Early) \in BOOLEAN
      OBVIOUS
    <3> QED
      BY <3>2, <3>3 DEF sample, Measured, HeartRate
  <2>2. samples' = Append(samples, sample)
    BY <1>3
  <2>3. /\ Len(samples') = Len(samples) + 1
        /\ \A k \in 1..Len(samples) : samples'[k] = samples[k]
        /\ samples'[Len(samples) + 1] = sample
    BY <2>1, <2>2, <1>6, AppendProperties
  <2> HIDE DEF n
  <2> QED
    BY <2>3, <1>6
<1>8. LoadedFirst'
  <2>1. saved.loaded
    BY <1>2, <1>3 DEF RingExchange, LoadedFirst
  <2> QED
    BY <2>1, <1>1 DEF LoadedFirst
<1>9. CASE blurred'
  BY <1>4, <1>8, <1>9 DEF RingExchange, OneRequest, AnswersDue, DaysCovered, NextCovered, RoomForNext
<1>10. CASE ~blurred'
  <2>1. /\ air[1].day = reached /\ reached \in 1..LastDay
        /\ n \in 1..Stored[reached] /\ Stored[reached] \in 1..QueueSlots
        /\ syncing.day = reached
        /\ syncing.total > 0 /\ n = syncing.total - 1 => n = Stored[reached]
        /\ saved.loaded /\ ~blurred /\ health.at # "requested"
        /\ \A i \in 1..Len(gatt) : gatt[i].to = "reading"
        /\ \A j \in 1..Len(air) : 1 < j /\ air[j].kind # "reading" =>
                   air[j].kind = "data" /\ n < air[j].n /\ air[j].n <= Stored[reached]
        /\ Covered(TimeOf(reached, n))
        /\ ~DaySettled =>
                   /\ Len(samples) < n
                   /\ \A k \in 1..Len(samples) : samples[k].time < TimeOf(reached, n)
    BY <1>10, NextSample
  <2> HIDE DEF n
  <2>2. reached \in Nat /\ n \in Nat /\ n + 1 \in Nat /\ TimeOf(reached, n) \in Nat
        /\ TimeOf(reached, n + 1) = TimeOf(reached, n) + 1
    <3>1. reached \in Nat /\ n \in Nat
      BY <2>1, Days
    <3> QED
      BY <3>1, TimesInOrder
  <2>3. \A t : InLog(t) \/ InQueue(t) => InLog(t)' \/ InQueue(t)'
    <3>1. CASE Len(samples) < QueueSlots
      BY <3>1, <1>1, <1>7 DEF InLog, InQueue
    <3>2. CASE ~(Len(samples) < QueueSlots)
      BY <3>2, <1>1, <1>3 DEF InLog, InQueue
    <3> QED
      BY <3>1, <3>2
  <2>a. ~DaySettled => Len(samples) < QueueSlots
    BY <2>1, <1>6
  <2>4. ASSUME NEW t \in Promised, t < TimeOf(reached, n + 1)
        PROVE  InLog(t)' \/ InQueue(t)'
    <3>1. CASE t < TimeOf(reached, n)
      BY <3>1, <2>1, <2>3 DEF Covered
    <3>2. CASE t = TimeOf(reached, n) /\ ~DaySettled
      BY <3>2, <1>5, <1>7, <2>1, <2>a DEF InQueue
    <3>3. CASE t = TimeOf(reached, n) /\ DaySettled
      <4>1. t \in HistoryOf({reached})
        BY <3>3, <2>1, InHistory
      <4>2. t \in owed
        BY <4>1, <3>3, PromisedIsHistory DEF DaySettled
      <4>3. InLog(t) \/ InQueue(t)
        BY <4>2 DEF RingStore, OwedKept, QueuedFor, LoggedFor, InLog, InQueue
      <4> QED
        BY <4>3, <2>3
    <3> QED
      BY <3>1, <3>2, <3>3, <2>2, <2>4, PromisedIsHistory, HistoryTimes
  <2>5. CASE syncing.total > 0 /\ n = syncing.total - 1
    <3>1. n = Stored[reached] /\ syncing' = Finished(syncing)
      BY <2>1, <2>5, <1>3
    <3>2. \A i \in 1..Len(air') : air'[i].kind = "reading"
      <4> SUFFICES ASSUME NEW i \in 1..Len(air'), air'[i].kind # "reading" PROVE FALSE
        OBVIOUS
      <4>1. air[i + 1].kind # "reading" /\ i + 1 \in 1..Len(air) /\ air[i + 1] \in Notice /\ 1 < i + 1
        BY <1>2
      <4>2. air[i + 1].kind = "data" /\ n < air[i + 1].n /\ air[i + 1].n <= Stored[reached]
        BY <4>1, <2>1
      <4>3. air[i + 1].n \in Int
        BY <4>1, <4>2 DEF Notice
      <4> QED
        BY <4>2, <4>3, <3>1, <2>1
    <3>3. reached' = reached \/ reached' = reached + 1
      <4>1. 0 \in Int
        OBVIOUS
      <4> QED
        BY <4>1, <3>1, <1>1, FinishedMoves
    <3>4. DaysCovered'
      <4> SUFFICES ASSUME NEW t \in Promised, t < TimeOf(reached', 0)
                   PROVE  InLog(t)' \/ InQueue(t)'
        BY <1>1, PromisedLess DEF DaysCovered, Covered
      <4>1. t < TimeOf(reached, n + 1)
        BY <3>1, <3>3, NextDayCovered
      <4> QED
        BY <4>1, <2>4
    <3>5. \A i \in 1..Len(gatt') : gatt'[i].to = "reading"
      BY <2>1, <1>1
    <3> QED
      BY <1>4, <1>8, <3>2, <3>4, <3>5, OverKeepsExchange
  <2>6. CASE ~(syncing.total > 0 /\ n = syncing.total - 1)
    <3>1. syncing' = syncing /\ reached' = reached
      <4>1. syncing' = syncing
        BY <2>6, <1>3
      <4>2. syncing'.daysAgo = syncing.daysAgo /\ syncing.daysAgo \in Int
        BY <4>1, RingTypeFacts, Days
      <4>3. reached' = reached + (syncing.daysAgo - syncing'.daysAgo)
        BY <1>1
      <4>4. reached' = reached
        BY <4>2, <4>3, <2>2
      <4> QED
        BY <4>1, <4>4
    <3>2. gatt' = gatt /\ health' = health /\ ~blurred
      BY <1>1, <2>1
    <3>3. OneRequest'
      <4>1. \A i, j \in 1..Len(air) :
               i < j /\ air[i].kind # "reading" /\ air[j].kind # "reading" =>
                   air[j].kind = "data" /\ (air[i].kind = "data" => air[i].n < air[j].n)
        BY <3>2 DEF RingExchange, OneRequest
      <4>2. ASSUME NEW i \in 1..Len(air'), NEW j \in 1..Len(air'), i < j,
                   air'[i].kind # "reading", air'[j].kind # "reading"
            PROVE  air'[j].kind = "data" /\ (air'[i].kind = "data" => air'[i].n < air'[j].n)
        <5>1. i + 1 < j + 1
          BY <4>2, <1>2
        <5> QED
          BY <5>1, <4>1, <4>2, <1>2, ZenonT(60)
      <4>3. \A i \in 1..Len(gatt') : gatt'[i].to = "reading"
        BY <2>1, <3>2
      <4> QED
        BY <4>2, <4>3 DEF OneRequest, InChain
    <3>4. AnswersDue'
      <4>1. Asked
        BY <1>2, <1>3 DEF Asked
      <4> QED
        BY <4>1, <3>1, <3>2, <1>2 DEF RingExchange, AnswersDue
    <3>5. DaysCovered'
      <4> SUFFICES ASSUME NEW t \in Promised, t < TimeOf(reached, 0)
                   PROVE  InLog(t)' \/ InQueue(t)'
        BY <1>1, <3>1, PromisedLess DEF DaysCovered, Covered
      <4>1. Covered(TimeOf(reached, 0))
        BY <3>2 DEF RingExchange, DaysCovered
      <4> QED
        BY <4>1, <2>3 DEF Covered
    <3>6. NextCovered'
      <4> SUFFICES ASSUME NEW i \in 1..Len(air'), air'[i].kind = "data"
                   PROVE  \/ \A t \in Promised : t < TimeOf(reached, air'[i].n) => InLog(t)' \/ InQueue(t)'
                          \/ \E j \in 1..i - 1 : air'[j].kind = "data" /\ air'[j].n = air'[i].n - 1
        BY <1>1, <3>1, PromisedLess DEF NextCovered, Covered
      <4>1. i + 1 \in 1..Len(air) /\ air'[i] = air[i + 1] /\ (i + 1) - 1 = i /\ air[i + 1] \in Notice
        BY <1>2
      <4>2. \/ Covered(TimeOf(reached, air'[i].n))
            \/ \E j \in 1..i : air[j].kind = "data" /\ air[j].n = air'[i].n - 1
        BY <4>1, <3>2 DEF RingExchange, NextCovered
      <4>3. air'[i].n \in Nat /\ n < air'[i].n
        <5>1. air'[i].n \in 1..QueueSlots
          BY <4>1 DEF Notice
        <5>2. 1 < i + 1
          BY <1>2
        <5> QED
          BY <5>1, <5>2, <4>1, <2>1
      <4>4. CASE Covered(TimeOf(reached, air'[i].n))
        BY <2>3, <4>4 DEF Covered
      <4>5. ASSUME NEW j \in 1..i, air[j].kind = "data", air[j].n = air'[i].n - 1
            PROVE  \/ \A t \in Promised : t < TimeOf(reached, air'[i].n) => InLog(t)' \/ InQueue(t)'
                   \/ \E m \in 1..i - 1 : air'[m].kind = "data" /\ air'[m].n = air'[i].n - 1
        <5>1. CASE j = 1
          <6>1. air'[i].n = n + 1
            BY <5>1, <4>3, <4>5, <2>2 DEF n
          <6> QED
            BY <6>1, <2>4
        <5>2. CASE j # 1
          <6>1. j - 1 \in 1..i - 1 /\ j - 1 \in 1..Len(air') /\ (j - 1) + 1 = j
            BY <5>2, <1>2
          <6>2. air'[j - 1] = air[j]
            BY <6>1, <1>2
          <6> QED
            BY <6>1, <6>2, <4>5
        <5> QED
          BY <5>1, <5>2
      <4> QED
        BY <4>2, <4>4, <4>5
    <3>7. RoomForNext'
      <4> SUFFICES ASSUME ~DaySettled', NEW i \in 1..Len(air'), air'[i].kind = "data"
                   PROVE  /\ Len(samples') < air'[i].n
                          /\ \A k \in 1..Len(samples') : samples'[k].time < TimeOf(reached, air'[i].n)
        <5>1. \A i \in 1..Len(gatt') : gatt'[i].to # "history"
          BY <2>1, <3>2
        <5> QED
          BY <5>1, <3>1 DEF RoomForNext
      <4>1. air'[i].n \in Nat /\ n < air'[i].n
        <5>1. i + 1 \in 1..Len(air) /\ air'[i] = air[i + 1] /\ air[i + 1] \in Notice /\ 1 < i + 1
          BY <1>2
        <5>2. air'[i].n \in 1..QueueSlots
          BY <5>1 DEF Notice
        <5> QED
          BY <5>1, <5>2, <2>1
      <4>2. TimeOf(reached, n) < TimeOf(reached, air'[i].n) /\ TimeOf(reached, air'[i].n) \in Nat
        BY <4>1, <2>2, TimesInOrder
      <4>a. ~DaySettled
        BY <1>1, <3>1, SettledStays
      <4>3. Len(samples) < QueueSlots
        BY <2>a, <4>a
      <4>4. Len(samples') < air'[i].n
        BY <4>1, <4>3, <4>a, <1>6, <1>7, <2>1, <2>2
      <4>5. ASSUME NEW k \in 1..Len(samples') PROVE samples'[k].time < TimeOf(reached, air'[i].n)
        <5>1. CASE k \in 1..Len(samples)
          <6>1. samples'[k].time < TimeOf(reached, n) /\ samples'[k].time \in Nat
            BY <5>1, <4>3, <4>a, <1>7, <2>1, StoreTimes
          <6> QED
            BY <6>1, <4>2, <2>2
        <5>2. CASE k = Len(samples) + 1
          <6>1. samples'[k].time = TimeOf(reached, n)
            BY <5>2, <4>3, <1>5, <1>7, <2>1
          <6> QED
            BY <6>1, <4>2
        <5> QED
          BY <5>1, <5>2, <4>3, <1>7
      <4> QED
        BY <4>4, <4>5
    <3> QED
      BY <1>4, <1>8, <3>3, <3>4, <3>5, <3>6, <3>7 DEF RingExchange
  <2> QED
    BY <2>5, <2>6
<1> QED
  BY <1>9, <1>10

LEMMA NotificationKeepsExchange ==
    ASSUME RingTypes, RingShape, RingStore, RingExchange, RingNotified
    PROVE  RingExchange'
<1>1. /\ air # <<>> /\ air' = Tail(air) /\ Head(air) = air[1]
      /\ UNCHANGED <<ringLink, gatt, hrLog, saved, health>>
      /\ syncing' = syncing => reached' = reached
  <2>1. syncing.daysAgo - syncing.daysAgo = 0 /\ reached \in Int
    BY RingTypeFacts, Days
  <2> QED
    BY <2>1, AirAdvances DEF RingNotified, storage
<1>2. CASE HistoryHeader
  BY <1>2, HeaderKeepsExchange
<1>3. CASE HistoryData
  BY <1>3, DataKeepsExchange
<1>4. CASE Ignored
  <2>1. /\ syncing' = syncing /\ samples' = samples /\ UNCHANGED <<hidden, owed>>
        /\ blurred' = (blurred \/ air[1].kind = "data")
    BY <1>4, <1>1 DEF Ignored
  <2>2. (blurred => blurred') /\ (~blurred' => air[1].kind # "data")
    BY <2>1
  <2> QED
    BY <2>1, <2>2, <1>1, ShiftKeepsExchange
<1>5. CASE Reading
  <2>1. /\ syncing' = syncing /\ blurred' = blurred /\ air[1].kind = "reading" /\ owed' = owed
        /\ hidden \subseteq hidden'
        /\ samples' # samples => /\ samples' = Append(samples, Measured(Now, Now, TRUE))
                                 /\ hidden' = hidden \cup (HistoryOf(1..today) \ owed)
    BY <1>5, <1>1 DEF Reading, Enqueue
  <2>2. (blurred => blurred') /\ (~blurred' => air[1].kind # "data")
    BY <2>1
  <2>3. CASE samples' = samples
    BY <2>1, <2>2, <2>3, <1>1, ShiftKeepsExchange
  <2>4. CASE samples' # samples
    <3>1. Measured(Now, Now, TRUE) \in HeartRate
      <4>1. Now \in Times
        BY <1>5, ReadingTimeKnown DEF Reading
      <4> HIDE DEF Now
      <4> QED
        BY <4>1 DEF Measured, HeartRate
    <3>2. \A i \in 1..Len(samples) : i \in 1..Len(samples') /\ samples'[i] = samples[i]
      BY <2>1, <2>4, <3>1, QueueGrows
    <3>3. DaySettled'
      <4>1. reached \in 1..today
        <5>1. reached + syncing.daysAgo <= today /\ syncing.daysAgo \in Nat
              /\ reached \in 1..LastDay /\ today \in 1..LastDay /\ LastDay \in Nat
          BY RingTypeFacts, Days DEF RingShape
        <5> QED
          BY <5>1
      <4>2. HistoryOf({reached}) \subseteq HistoryOf(1..today)
        BY <4>1 DEF HistoryOf
      <4> QED
        BY <4>2, <2>1, <2>4, <1>1 DEF DaySettled
    <3> QED
      BY <2>1, <2>2, <3>2, <3>3, <1>1, ShiftKeepsExchange
  <2> QED
    BY <2>3, <2>4
<1> QED
  BY <1>2, <1>3, <1>4, <1>5 DEF RingNotified

LEMMA DataKeepsStore ==
    ASSUME RingTypes, RingShape, RingStore, RingExchange, RingNotified, HistoryData
    PROVE  RingStore'
<1> DEFINE n == air[1].n
           sure == ~blurred /\ ~Early
           taken == TimeOf(air[1].day, n)
           sample == Measured(TimeOf(syncing.day, n), taken, sure)
<1>1. /\ UNCHANGED <<hrLog, saved, hidden>> /\ air[1] \in Notice /\ air[1].kind = "data"
      /\ samples' = IF Len(samples) < QueueSlots THEN Append(samples, sample) ELSE samples
      /\ owed' = owed \cup IF sure THEN {taken} \ hidden ELSE {}
      /\ blurred' = (blurred \/ Early)
  <2>1. air # <<>> /\ Head(air) = air[1] /\ air[1] \in Notice
    BY AirAdvances DEF RingNotified
  <2> QED
    BY <2>1 DEF RingNotified, HistoryData, Enqueue, storage
<1>2. /\ sample \in HeartRate
      /\ sample.sure = sure /\ sample.taken = taken /\ sample.time = TimeOf(syncing.day, n)
  <2>1. syncing.day \in 0..LastDay /\ n \in Nat /\ n < DayLength /\ air[1].day \in 0..LastDay
    <3>1. air[1].n \in 1..QueueSlots /\ air[1].day \in 1..LastDay
      BY <1>1 DEF Notice
    <3> QED
      BY <3>1, RingTypeFacts, Days, SMTT(60)
  <2>2. TimeOf(syncing.day, n) \in Times /\ TimeOf(air[1].day, n) \in Times
    BY <2>1, HistoryTimeKnown
  <2>3. sure \in BOOLEAN
    OBVIOUS
  <2> QED
    BY <2>2, <2>3 DEF Measured, HeartRate
<1>4. ~blurred' <=> sure
  BY <1>1
<1>5. ASSUME ~blurred'
      PROVE  /\ taken = sample.time /\ sample.time \in History /\ saved.loaded /\ ~blurred
             /\ Covered(sample.time) /\ taken \in HistoryOf({reached})
             /\ ~DaySettled =>
                    /\ Len(samples) < QueueSlots
                    /\ \A k \in 1..Len(samples) : samples[k].time < sample.time
  <2>1. /\ air[1].day = reached /\ syncing.day = reached
        /\ n \in 1..Stored[reached] /\ Stored[reached] \in 1..QueueSlots
        /\ TimeOf(reached, n) \in History /\ saved.loaded /\ ~blurred
        /\ Covered(TimeOf(reached, n))
        /\ ~DaySettled =>
                   /\ Len(samples) < n
                   /\ \A k \in 1..Len(samples) : samples[k].time < TimeOf(reached, n)
    BY <1>5, NextSample
  <2>2. Len(samples) < n => Len(samples) < QueueSlots
    BY <2>1, Seqs, Days
  <2>3. TimeOf(reached, n) \in HistoryOf({reached})
    BY <2>1 DEF HistoryOf
  <2> QED
    BY <2>1, <2>2, <2>3, <1>2
<1> DEFINE fresh == (IF sure THEN {taken} \ hidden ELSE {}) \ owed
<1>a. owed' = owed \cup fresh /\ (fresh # {} => sure /\ fresh = {taken} /\ taken \notin hidden /\ taken \notin owed)
  BY <1>1
<1> HIDE DEF n, sure, taken, sample, fresh
<1>b. fresh # {} => ~DaySettled
  BY <1>4, <1>5, <1>a DEF DaySettled
<1>6. CASE ~(Len(samples) < QueueSlots)
  <2>1. samples' = samples /\ (blurred => blurred')
    BY <1>6, <1>1
  <2>2. owed' = owed
    BY <1>4, <1>5, <1>6, <1>a, <1>b
  <2> QED
    BY <2>1, <2>2, <1>1, StoreRests
<1>7. CASE Len(samples) < QueueSlots
  <2>1. samples' = Append(samples, sample)
    BY <1>1, <1>7
  <2>2. CASE blurred'
    <3>1. ~sample.sure /\ owed' = owed
      BY <2>2, <1>2, <1>4, <1>a
    <3> QED
      BY <2>1, <2>2, <3>1, <1>1, <1>2, DoubtfulQueued
  <2>3. CASE ~blurred'
    <3>1. blurred' = blurred /\ ~blurred
      <4>1. blurred \in BOOLEAN
        BY RingTypeFacts
      <4> QED
        BY <4>1, <2>3, <1>1
    <3>2. sample.sure /\ sample.time = sample.taken /\ fresh \in SUBSET {sample.time}
      BY <2>3, <1>2, <1>4, <1>5, <1>a
    <3>3. \A t \in Promised' : t < sample.time => InLog(t) \/ InQueue(t)
      BY <2>3, <1>1, <1>5, PromisedLess DEF Covered
    <3>4. fresh # {} => /\ saved.loaded /\ sample.time \in Promised
                        /\ \A k \in 1..Len(samples) : samples[k].time < sample.time
      BY <2>3, <1>5, <1>a, <1>b, PromisedIsHistory
    <3> QED
      BY <2>1, <3>1, <3>2, <3>3, <3>4, <1>1, <1>2, <1>a, SureQueued
  <2> QED
    BY <2>2, <2>3
<1> QED
  BY <1>6, <1>7

LEMMA NotificationKeepsStore ==
    ASSUME RingTypes, RingShape, RingStore, RingExchange, RingNotified
    PROVE  RingStore'
<1>1. UNCHANGED <<hrLog, saved>>
  BY DEF RingNotified, storage
<1>2. CASE HistoryHeader
  <2>1. UNCHANGED <<samples, hidden, owed>> /\ (blurred => blurred')
    BY <1>2 DEF HistoryHeader
  <2> QED
    BY <2>1, <1>1, StoreRests
<1>3. CASE HistoryData
  BY <1>3, DataKeepsStore
<1>4. CASE Ignored
  <2>1. UNCHANGED <<samples, hidden, owed>> /\ (blurred => blurred')
    BY <1>4 DEF Ignored
  <2> QED
    BY <2>1, <1>1, StoreRests
<1>5. CASE Reading
  <2> DEFINE sample == Measured(Now, Now, TRUE)
  <2>1. /\ owed' = owed /\ blurred' = blurred /\ hidden \subseteq hidden'
        /\ samples' # samples => /\ samples' = Append(samples, sample)
                                 /\ hidden' = hidden \cup (HistoryOf(1..today) \ owed)
    BY <1>5 DEF Reading, Enqueue
  <2>2. sample \in HeartRate /\ sample.sure /\ sample.time = Now /\ sample.taken = Now
    <3>1. Now \in Times
      BY <1>5, ReadingTimeKnown DEF Reading
    <3> HIDE DEF Now
    <3> QED
      BY <3>1 DEF Measured, HeartRate
  <2> HIDE DEF sample
  <2>3. CASE samples' = samples
    BY <2>1, <2>3, <1>1, StoreRests
  <2>4. CASE samples' # samples
    <3>1. ASSUME NEW t \in Promised', t < Now PROVE t \in owed
      <4>1. t \in Promised /\ t \notin HistoryOf(1..today) \ owed
        BY <2>1, <2>4, PromisedLess DEF Promised
      <4>2. PICK d \in 1..LastDay : \E n \in 1..Stored[d] : t = TimeOf(d, n)
        BY <4>1, PromisedIsHistory, InHistory
      <4>3. PICK n \in 1..Stored[d] : t = TimeOf(d, n)
        BY <4>2
      <4>4. CASE d \in 1..today
        BY <4>1, <4>3, <4>4 DEF HistoryOf
      <4>5. CASE d \notin 1..today
        <5>1. /\ today \in Nat /\ d \in Nat /\ today < d /\ n \in Nat
              /\ count.readings \in Nat /\ count.readings < MaxReadings /\ MaxReadings \in Nat
              /\ QueueSlots \in Nat
          <6>1. today \in 1..LastDay /\ LastDay \in Nat /\ Stored[d] \in Nat /\ QueueSlots \in Nat
            BY <4>2, RingTypeFacts, Days
          <6>2. count.readings \in 0..MaxReadings /\ MaxReadings \in Nat
            BY RingAssumption DEF RingShape
          <6>3. count.readings < MaxReadings
            BY <1>5 DEF Reading
          <6> QED
            BY <6>1, <6>2, <6>3, <4>2, <4>3, <4>5
        <5>2. QueueSlots + 1 + count.readings \in Nat /\ QueueSlots + 1 + count.readings < DayLength
          BY <5>1 DEF DayLength
        <5>3. Now < t /\ Now \in Nat /\ t \in Nat
          BY <5>1, <5>2, <4>3, TimesInOrder DEF Now
        <5> QED
          BY <5>3, <3>1
      <4> QED
        BY <4>4, <4>5
    <3>2. \A t \in Promised' : t < sample.time => InLog(t) \/ InQueue(t)
      BY <3>1, <2>2 DEF RingStore, OwedKept, QueuedFor, LoggedFor, InLog, InQueue
    <3>3. {} \in SUBSET {sample.time} /\ owed' = owed \cup {}
      BY <2>1
    <3> QED
      BY <2>1, <2>2, <2>4, <3>2, <3>3, <1>1, SureQueued
  <2> QED
    BY <2>3, <2>4
<1> QED
  BY <1>2, <1>3, <1>4, <1>5 DEF RingNotified

(***************************************************************************)
(* Every step keeps the invariant.                                         *)
(***************************************************************************)
LEMMA RingStoreKept ==
    ASSUME RingTypes, RingShape, RingStore, RingExchange, RingNext
    PROVE  RingStore'
<1>0. CASE Midnight
  BY <1>0, StoreRests DEF Midnight, exchange, storage, promise
<1>1. CASE \/ RingConnected \/ RingDisconnected \/ ChainWritten \/ AskWritten \/ WriteRefused
           \/ RingToggled \/ MeasureTapped \/ MeasureBegun
  BY <1>1, StoreRests DEF RingConnected, RingDisconnected, ChainWritten, AskWritten, WriteRefused,
     RingToggled, MeasureTapped, MeasureBegun, storage, promise
<1>2. CASE RingNotified
  BY <1>2, NotificationKeepsStore
<1>3. CASE HealthTick
  <2>1. UNCHANGED <<samples, hrLog, saved, hidden, owed>> /\ (blurred => blurred')
    BY <1>3 DEF HealthTick, Overdue, storage, promise
  <2> QED
    BY <2>1, StoreRests
<1>4. CASE LoadLastSaved
  <2>1. UNCHANGED <<samples, hrLog, hidden, owed, blurred>>
    BY <1>4 DEF LoadLastSaved, promise
  <2>2. CASE saved' = saved
    BY <2>1, <2>2, StoreRests
  <2>3. CASE saved' # saved
    <3>1. ~saved.loaded /\ saved' = [time |-> Checkpoint(hrLog), loaded |-> TRUE]
      BY <2>3, <1>4 DEF LoadLastSaved
    <3> QED
      BY <2>1, <3>1, LoadKeepsStore
  <2> QED
    BY <2>2, <2>3
<1>5. CASE LoadFails \/ RequestHistory \/ RequestRecorded
  BY <1>5, StoreRests DEF LoadFails, RequestHistory, RequestRecorded, Record, storage, promise
<1>6. CASE DrainSample
  <2>1. /\ saved.loaded /\ samples # <<>> /\ samples' = Tail(samples)
        /\ UNCHANGED <<hidden, owed, blurred>>
    BY <1>6 DEF DrainSample, RingExchange, LoadedFirst, promise
  <2>2. Head(samples) = samples[1] /\ samples[1].time \in Nat /\ saved.time \in Nat
    <3>1. 1 \in 1..Len(samples) /\ Head(samples) = samples[1]
      BY <2>1, QueueAdvances
    <3>2. saved.time \in Nat
      BY RingTypeFacts, TimesAreNats
    <3> QED
      BY <3>1, <3>2, StoreTimes
  <2>3. CASE saved.time < Head(samples).time
    <3>1. /\ hrLog' = Append(hrLog, Row(Head(samples), TRUE))
          /\ saved' = [saved EXCEPT !.time = Head(samples).time]
      BY <2>2, <2>3, <1>6 DEF DrainSample
    <3> QED
      BY <2>1, <2>3, <3>1, DrainSaves
  <2>4. CASE ~(saved.time < Head(samples).time)
    <3>1. hrLog' = hrLog /\ saved' = saved
      BY <2>2, <2>4, <1>6 DEF DrainSample
    <3> QED
      BY <2>1, <2>4, <3>1, DrainDrops
  <2> QED
    BY <2>3, <2>4
<1>7. CASE DrainFails
  <2>1. /\ saved.loaded /\ samples # <<>> /\ UNCHANGED <<samples, saved, hidden, owed, blurred>>
        /\ Head(samples).time > saved.time
        /\ hrLog' = hrLog \/ hrLog' = Append(hrLog, Row(Head(samples), FALSE))
    BY <1>7 DEF DrainFails, RingExchange, LoadedFirst, promise
  <2>2. saved.time < Head(samples).time
    <3>1. 1 \in 1..Len(samples) /\ Head(samples) = samples[1]
      <4>1. Len(samples) \in Nat /\ Len(samples) # 0
        BY <2>1, Seqs, EmptySeq DEF RingShape
      <4> QED
        BY <4>1 DEF Head
    <3>2. saved.time \in Nat
      BY RingTypeFacts, TimesAreNats
    <3> QED
      BY <3>1, <3>2, <2>1, StoreTimes
  <2>3. CASE hrLog' = hrLog
    BY <2>1, <2>3, StoreRests
  <2>4. CASE hrLog' = Append(hrLog, Row(Head(samples), FALSE))
    BY <2>1, <2>2, <2>4, DrainFailsOnCard
  <2> QED
    BY <2>1, <2>3, <2>4
<1>8. CASE RingReboot
  <2>1. PICK kept \in 0..Len(hrLog) :
           /\ hrLog' = SubSeq(hrLog, 1, kept)
           /\ owed' = owed \cap {hrLog[i].time : i \in 1..kept}
    BY <1>8 DEF RingReboot
  <2>2. samples' = <<>> /\ saved' = Unloaded /\ UNCHANGED <<hidden, blurred>>
    BY <1>8 DEF RingReboot
  <2> QED
    BY <2>1, <2>2, RebootKeepsStore
<1> QED
  BY <1>0, <1>1, <1>2, <1>3, <1>4, <1>5, <1>6, <1>7, <1>8 DEF RingNext, RingStep

LEMMA RingExchangeKept ==
    ASSUME RingTypes, RingShape, RingStore, RingExchange, RingNext
    PROVE  RingExchange'
<1>0. CASE Midnight
  BY <1>0, ExchangeRests DEF Midnight, exchange, storage, promise, RingExchange, LoadedFirst
<1>1. CASE RingConnected
  BY <1>1, ConnectKeepsExchange
<1>2. CASE RingDisconnected
  BY <1>2, DisconnectKeepsExchange
<1>3. CASE ChainWritten
  BY <1>3, ChainKeepsExchange
<1>4. CASE AskWritten
  BY <1>4, AskKeepsExchange
<1>5. CASE WriteRefused
  BY <1>5, RefusalKeepsExchange
<1>6. CASE RingNotified
  BY <1>6, NotificationKeepsExchange
<1>7. CASE MeasureTapped
  BY <1>7, MeasureKeepsExchange
<1>8. CASE RingToggled \/ MeasureBegun \/ HealthTick \/ LoadLastSaved \/ LoadFails
  BY <1>8, TicksKeepExchange
<1>9. CASE DrainSample
  BY <1>9, DrainKeepsExchange
<1>10. CASE DrainFails
  BY <1>10, FailureKeepsExchange
<1>11. CASE RequestHistory
  BY <1>11, RequestKeepsExchange
<1>12. CASE RequestRecorded
  BY <1>12, RecordKeepsExchange
<1>13. CASE RingReboot
  BY <1>13, RebootStartsExchange
<1> QED
  BY <1>0, <1>1, <1>2, <1>3, <1>4, <1>5, <1>6, <1>7, <1>8, <1>9, <1>10, <1>11, <1>12, <1>13
     DEF RingNext, RingStep

LEMMA RingStarts == RingInit => RingIInv
<1> SUFFICES ASSUME RingInit PROVE RingIInv
  OBVIOUS
<1>1. /\ Len(gatt) = 0 /\ Len(air) = 0 /\ Len(samples) = 0 /\ Len(hrLog) = 0
      /\ gatt \in Seq(GattWrite) /\ air \in Seq(Notice)
      /\ samples \in Seq(HeartRate) /\ hrLog \in Seq(HeartRow)
      /\ 1..Len(gatt) = {} /\ 1..Len(air) = {} /\ 1..Len(samples) = {} /\ 1..Len(hrLog) = {}
  BY EmptySeq DEF RingInit
<1>2. /\ gatt = <<>> /\ air = <<>> /\ samples = <<>> /\ ~syncing.pending /\ owed = {} /\ ~blurred
      /\ saved.time = 0 /\ ~saved.loaded /\ health.at = "idle"
      /\ today = SyncDays + 1 /\ reached = 1 /\ hidden = {}
  BY DEF RingInit, NoSync, Unloaded, At
<1>3. RingTypes /\ RingShape
  <2>1. RingShape
    <3>1. 0 \in 0..MaxReadings
      BY RingAssumption
    <3>2. SyncDays < today /\ reached + syncing.daysAgo <= today
      BY <1>2, Days DEF RingInit, NoSync
    <3> QED
      BY <3>1, <3>2, <1>1 DEF RingShape, RingInit
  <2>2. /\ syncing \in [active : BOOLEAN, pending : BOOLEAN, daysAgo : 0..SyncDays,
                        total : 0..QueueSlots + 1, day : 0..LastDay]
        /\ health.day \in 0..LastDay /\ Len(samples) <= QueueSlots
    BY <1>1, Days DEF RingInit, NoSync, At
  <2>3. saved \in [time : Times, loaded : BOOLEAN] /\ owed \subseteq Times
    BY TimesAreNats DEF RingInit, Unloaded
  <2>4. /\ ringLink \in [enabled : BOOLEAN, connected : BOOLEAN]
        /\ measuring \in BOOLEAN /\ blurred \in BOOLEAN /\ card \in BOOLEAN
        /\ health.at \in {"idle", "load", "drain", "requested", "measure"}
    BY <1>2 DEF RingInit
  <2>5. today \in 1..LastDay /\ reached \in 1..LastDay /\ hidden \subseteq Times
    BY <1>2, Days
  <2> QED
    BY <2>1, <2>2, <2>3, <2>4, <2>5, RingTypeFacts
<1>4. RingStore
  BY <1>1, <1>2 DEF RingStore, CheckpointIsARow, CheckpointIsNewest, LogSortedOnce,
     OnItsDay, QueueInOrder, LogClosed, AllSure, OwedKept, OwedSure
<1>5. Quiet /\ LoadedFirst /\ OneRequest /\ AnswersDue /\ NextCovered /\ RoomForNext
  BY <1>1, <1>2 DEF Quiet, LoadedFirst, OneRequest, AnswersDue, Asked, NextCovered, RoomForNext
<1>6. DaysCovered
  <2>1. \A t \in Promised : ~(t < TimeOf(1, 0))
    BY PromisedIsHistory, HistoryTimes
  <2> QED
    BY <2>1, <1>2 DEF DaysCovered, Covered
<1> QED
  BY <1>3, <1>4, <1>5, <1>6 DEF RingIInv, RingExchange

LEMMA RingIInvKept == RingIInv /\ [RingNext]_ringVars => RingIInv'
<1> SUFFICES ASSUME RingIInv, [RingNext]_ringVars PROVE RingIInv'
  OBVIOUS
<1>1. CASE RingNext
  BY <1>1, RingTypesKept, RingStoreKept, RingExchangeKept DEF RingIInv
<1>2. CASE UNCHANGED ringVars
  <2>1. /\ UNCHANGED <<today, ringLink, measuring, syncing, gatt, air, samples, hrLog, saved>>
        /\ UNCHANGED <<card, health, reached, hidden, owed, blurred, count>>
    BY <1>2 DEF ringVars, promise
  <2>2. (RingTypes /\ RingShape)'
    BY <2>1 DEF RingIInv, RingTypes, RingShape
  <2>3. RingStore'
    BY <2>1, StoreRests DEF RingIInv
  <2>4. RingExchange'
    BY <2>1, ExchangeRests DEF RingIInv, RingExchange, LoadedFirst
  <2> QED
    BY <2>2, <2>3, <2>4 DEF RingIInv
<1> QED
  BY <1>1, <1>2

\* What is owed is in the queue or in the log, with the time it was taken at.
LEMMA OwedIsKept == RingIInv => HistoryKept
<1> SUFFICES ASSUME RingIInv, NEW time \in owed
             PROVE  \/ \E e \in Range(samples) : e.sure /\ e.taken = time
                    \/ \E entry \in Range(hrLog) : entry.sure /\ entry.taken = time
  BY DEF HistoryKept
<1>1. DOMAIN samples = 1..Len(samples) /\ DOMAIN hrLog = 1..Len(hrLog)
  BY LenProperties DEF RingIInv, RingShape
<1>2. CASE QueuedFor(time)
  <2>1. PICK k \in 1..Len(samples) : samples[k].sure /\ samples[k].time = time
    BY <1>2 DEF QueuedFor
  <2>2. samples[k].taken = time
    BY <2>1 DEF RingIInv, RingStore, OnItsDay
  <2>3. samples[k] \in Range(samples)
    BY <1>1 DEF Range
  <2> QED
    BY <2>1, <2>2, <2>3
<1>3. CASE LoggedFor(time)
  <2>1. PICK i \in 1..Len(hrLog) : hrLog[i].sure /\ hrLog[i].time = time
    BY <1>3 DEF LoggedFor
  <2>2. hrLog[i].taken = time
    BY <2>1 DEF RingIInv, RingStore, OnItsDay
  <2>3. hrLog[i] \in Range(hrLog)
    BY <1>1 DEF Range
  <2> QED
    BY <2>1, <2>2, <2>3
<1> QED
  BY <1>2, <1>3 DEF RingIInv, RingStore, OwedKept

\* The ring's history, for any number of days, stored samples, queue slots and
\* tail rows, any number of links, taps, readings and troubles: HR.CSV stays in
\* order without a confirmed row written twice, no sample that was handled is
\* lost, and every sample keeps its day.
THEOREM RingHistoryIsSafe == RingSpec => []RingInv
<1>1. RingIInv => RingInv
  BY OwedIsKept DEF RingIInv, RingStore, RingInv
<1> QED
  BY RingStarts, RingIInvKept, <1>1, PTL DEF RingSpec

-----------------------------------------------------------------------------
(***************************************************************************)
(* The append-only logs.  Natural numbers have least elements, and bounded *)
(* sets of them have greatest.                                             *)
(***************************************************************************)
LEMMA LeastNat ==
    ASSUME NEW T, T \subseteq Nat, T # {}
    PROVE  \E x \in T : \A y \in T : x <= y
<1>1. IsWellFoundedOn(OpToRel(<,Nat), Nat)
  BY NatLessThanWellFounded
<1>2. PICK x \in T : \A y \in T : ~(<<y, x>> \in OpToRel(<,Nat))
  BY <1>1, WFMin
<1>3. \A y \in T : ~(y < x)
  BY <1>2 DEF OpToRel
<1> QED
  BY <1>3

LEMMA MaxOfBounded ==
    ASSUME NEW n \in Nat, NEW S, S \subseteq 1..n, S # {}
    PROVE  Max(S) \in S /\ \A x \in S : x <= Max(S)
<1> DEFINE Gaps == {n - x : x \in S}
<1>0. PICK some \in S : TRUE
  OBVIOUS
<1>0a. \A x \in S : x \in Nat
  OBVIOUS
<1>1. Gaps \subseteq Nat /\ n - some \in Gaps
  BY <1>0
<1>2. PICK g \in Gaps : \A h \in Gaps : g <= h
  BY <1>1, LeastNat
<1>3. PICK m \in S : g = n - m
  BY <1>2
<1>4. \A x \in S : m >= x
  <2> SUFFICES ASSUME NEW x \in S PROVE m >= x
    OBVIOUS
  <2>0. n - x \in Gaps
    OBVIOUS
  <2>1. n \in Nat /\ x \in Nat /\ m \in Nat
    BY <1>0a
  <2>2. g <= n - x
    BY <1>2, <2>0
  <2> HIDE DEF Gaps
  <2> QED
    BY <1>3, <2>1, <2>2
<1> QED
  BY <1>3, <1>4 DEF Max

(***************************************************************************)
(* Lines of LineBytes bytes: line k, counted from 0, is bytes Lines(k) + 1 *)
(* to Lines(k) + LineBytes.                                                *)
(***************************************************************************)
Lines(k) == k * LineBytes

\* Sizes, ...
LEMMA LineSizes ==
    /\ LineBytes \in Nat /\ RowBytes \in Nat /\ 1 <= RowBytes /\ LineBytes = RowBytes + 1
    /\ Lines(0) = 0
    /\ \A k \in Nat : Lines(k) \in Nat
<1>0. LineBytes \in Nat /\ RowBytes \in Nat /\ 1 <= RowBytes /\ LineBytes = RowBytes + 1
  BY CsvAssumption DEF LineBytes
<1> HIDE DEF LineBytes
<1> QED
  BY <1>0 DEF Lines

\* ... the lines one behind the other, ...
LEMMA LinesFollow ==
    ASSUME NEW k \in Nat
    PROVE  /\ Lines(k + 1) = Lines(k) + LineBytes
           /\ \A j \in Nat : j < k => Lines(j) + LineBytes <= Lines(k)
<1>0. LineBytes \in Nat
  BY LineSizes
<1> HIDE DEF LineBytes
<1>1. Lines(k + 1) = Lines(k) + LineBytes
  BY <1>0 DEF Lines
<1>2. \A j \in Nat : j < k => Lines(j) + LineBytes <= Lines(k)
  BY <1>0 DEF Lines
<1> QED
  BY <1>1, <1>2

\* ... and the line a byte is in.
LEMMA LineOfByte ==
    ASSUME NEW n \in Nat
    PROVE  /\ n \div LineBytes \in Nat
           /\ Lines(n \div LineBytes) <= n
           /\ n < Lines(n \div LineBytes) + LineBytes
<1>0. LineBytes \in Nat /\ 0 < LineBytes
  BY LineSizes
<1> HIDE DEF LineBytes
<1>4. n \div LineBytes \in Nat
  BY <1>0
<1>5. Lines(n \div LineBytes) <= n
  BY <1>0 DEF Lines
<1>6. n < Lines(n \div LineBytes) + LineBytes
  BY <1>0 DEF Lines
<1> QED
  BY <1>4, <1>5, <1>6

-----------------------------------------------------------------------------
(***************************************************************************)
(* What a file of whole rows is, byte by byte.                             *)
(***************************************************************************)
Bytes == -1..MaxRows

\* A line is one row's: no other row runs into it ...
RowsAlike(b) ==
    \A k \in Nat : \A o \in 1..RowBytes :
        Lines(k) + o <= Len(b) => b[Lines(k) + o] = b[Lines(k) + 1]
\* ... and ends where it should.
RowsEnd(b) ==
    \A k \in Nat : Lines(k) + LineBytes <= Len(b) => b[Lines(k) + LineBytes] = NL
\* The header first and only there, and rows that were given behind it.
RowsNumbered(b, upTo) ==
    \A k \in Nat : Lines(k) < Len(b) =>
        /\ b[Lines(k) + 1] \in 0..upTo
        /\ (b[Lines(k) + 1] = Header) <=> (k = 0)
\* The rows in order, each with a number `gap' or more above the one before.
RowsAscend(b, gap) ==
    \A k \in Nat : Lines(k + 1) < Len(b) =>
        b[Lines(k) + 1] + gap <= b[Lines(k + 1) + 1]
Sound(b, upTo, gap) ==
    RowsAlike(b) /\ RowsEnd(b) /\ RowsNumbered(b, upTo) /\ RowsAscend(b, gap)

\* The file has the whole row; ends with a whole line; has only rows that the
\* number may follow; begins another file.
Holds(b, number) ==
    \E k \in Nat : Lines(k) + LineBytes <= Len(b) /\ b[Lines(k) + 1] = number
AtLineEnd(b) == \E n \in Nat : Len(b) = Lines(n)
Below(b, number, gap) ==
    \A k \in Nat : Lines(k) < Len(b) => b[Lines(k) + 1] + gap <= number
Begins(b, longer) ==
    Len(b) <= Len(longer) /\ \A i \in 1..Len(b) : b[i] = longer[i]

\* The bytes that agree.
LEMMA BeginsAgree ==
    ASSUME NEW b \in Seq(Bytes), NEW longer \in Seq(Bytes), Begins(b, longer)
    PROVE  /\ Len(b) \in Nat /\ Len(longer) \in Nat /\ Len(b) <= Len(longer)
           /\ \A i \in Nat : 1 <= i /\ i <= Len(b) => b[i] = longer[i]
  BY LenProperties DEF Begins

\* What begins a sound file is sound, and what a number may follow stays that.
LEMMA BeginsSound ==
    ASSUME NEW b \in Seq(Bytes), NEW longer \in Seq(Bytes), Begins(b, longer),
           NEW upTo \in Nat, NEW gap \in Nat, Sound(longer, upTo, gap)
    PROVE  Sound(b, upTo, gap)
<1>0. /\ Len(b) \in Nat /\ Len(longer) \in Nat /\ Len(b) <= Len(longer)
      /\ \A i \in Nat : 1 <= i /\ i <= Len(b) => b[i] = longer[i]
  BY BeginsAgree
<1>s. /\ LineBytes \in Nat /\ RowBytes \in Nat /\ 1 <= RowBytes /\ LineBytes = RowBytes + 1
      /\ \A k \in Nat : Lines(k) \in Nat
  BY LineSizes
<1> HIDE DEF Lines, LineBytes
<1>1. RowsAlike(b)
  <2> SUFFICES ASSUME NEW k \in Nat, NEW o \in 1..RowBytes, Lines(k) + o <= Len(b)
               PROVE  b[Lines(k) + o] = b[Lines(k) + 1]
    BY DEF RowsAlike
  <2>0. Lines(k) \in Nat /\ o \in Nat /\ 1 <= o
    BY <1>s
  <2>1. longer[Lines(k) + o] = longer[Lines(k) + 1]
    BY <1>0, <2>0 DEF Sound, RowsAlike
  <2>2. b[Lines(k) + o] = longer[Lines(k) + o]
    BY <1>0, <2>0
  <2>3. b[Lines(k) + 1] = longer[Lines(k) + 1]
    <3>1. Lines(k) + 1 \in Nat /\ 1 <= Lines(k) + 1 /\ Lines(k) + 1 <= Len(b)
      BY <1>0, <2>0
    <3> QED
      BY <1>0, <3>1
  <2> QED
    BY <2>1, <2>2, <2>3
<1>2. RowsEnd(b)
  <2> SUFFICES ASSUME NEW k \in Nat, Lines(k) + LineBytes <= Len(b)
               PROVE  b[Lines(k) + LineBytes] = NL
    BY DEF RowsEnd
  <2>0. Lines(k) \in Nat /\ LineBytes \in Nat /\ 1 <= LineBytes
    BY <1>s
  <2>1. longer[Lines(k) + LineBytes] = NL
    BY <1>0, <2>0 DEF Sound, RowsEnd
  <2> QED
    BY <1>0, <2>0, <2>1
<1>3. RowsNumbered(b, upTo)
  <2> SUFFICES ASSUME NEW k \in Nat, Lines(k) < Len(b)
               PROVE  /\ b[Lines(k) + 1] \in 0..upTo
                      /\ (b[Lines(k) + 1] = Header) <=> (k = 0)
    BY DEF RowsNumbered
  <2>0. Lines(k) \in Nat
    BY <1>s
  <2>1. /\ longer[Lines(k) + 1] \in 0..upTo
        /\ (longer[Lines(k) + 1] = Header) <=> (k = 0)
    BY <1>0, <2>0 DEF Sound, RowsNumbered
  <2>2. b[Lines(k) + 1] = longer[Lines(k) + 1]
    BY <1>0, <2>0
  <2> QED
    BY <2>1, <2>2
<1>4. RowsAscend(b, gap)
  <2> SUFFICES ASSUME NEW k \in Nat, Lines(k + 1) < Len(b)
               PROVE  b[Lines(k) + 1] + gap <= b[Lines(k + 1) + 1]
    BY DEF RowsAscend
  <2>0. Lines(k) \in Nat /\ Lines(k + 1) \in Nat /\ Lines(k) <= Lines(k + 1)
    <3>1. Lines(k + 1) = Lines(k) + LineBytes /\ k + 1 \in Nat
      BY LinesFollow
    <3> QED
      BY <1>s, <3>1
  <2>1. longer[Lines(k) + 1] + gap <= longer[Lines(k + 1) + 1]
    BY <1>0, <2>0 DEF Sound, RowsAscend
  <2>3. /\ Lines(k) + 1 \in Nat /\ 1 <= Lines(k) + 1 /\ Lines(k) + 1 <= Len(b)
        /\ Lines(k + 1) + 1 \in Nat /\ 1 <= Lines(k + 1) + 1 /\ Lines(k + 1) + 1 <= Len(b)
    BY <1>0, <2>0
  <2>2. b[Lines(k) + 1] = longer[Lines(k) + 1] /\ b[Lines(k + 1) + 1] = longer[Lines(k + 1) + 1]
    BY <1>0, <2>3
  <2> QED
    BY <2>1, <2>2
<1> QED
  BY <1>1, <1>2, <1>3, <1>4 DEF Sound

LEMMA BeginsBelow ==
    ASSUME NEW b \in Seq(Bytes), NEW longer \in Seq(Bytes), Begins(b, longer),
           NEW number, NEW gap, Below(longer, number, gap)
    PROVE  Below(b, number, gap)
<1>0. /\ Len(b) \in Nat /\ Len(longer) \in Nat /\ Len(b) <= Len(longer)
      /\ \A i \in Nat : 1 <= i /\ i <= Len(b) => b[i] = longer[i]
  BY BeginsAgree
<1> HIDE DEF Lines, LineBytes
<1> SUFFICES ASSUME NEW k \in Nat, Lines(k) < Len(b) PROVE b[Lines(k) + 1] + gap <= number
  BY DEF Below
<1>1. Lines(k) \in Nat
  BY LineSizes
<1>2. longer[Lines(k) + 1] + gap <= number
  BY <1>0, <1>1 DEF Below
<1>3. b[Lines(k) + 1] = longer[Lines(k) + 1]
  BY <1>0, <1>1
<1> QED
  BY <1>2, <1>3

\* What a file holds, one that begins with it holds.
LEMMA HoldsLonger ==
    ASSUME NEW b \in Seq(Bytes), NEW longer \in Seq(Bytes), Begins(b, longer),
           NEW number, Holds(b, number)
    PROVE  Holds(longer, number)
<1>0. /\ Len(b) \in Nat /\ Len(longer) \in Nat /\ Len(b) <= Len(longer)
      /\ \A i \in Nat : 1 <= i /\ i <= Len(b) => b[i] = longer[i]
  BY BeginsAgree
<1> HIDE DEF Lines, LineBytes
<1>1. PICK k \in Nat : Lines(k) + LineBytes <= Len(b) /\ b[Lines(k) + 1] = number
  BY DEF Holds
<1>2. Lines(k) \in Nat /\ LineBytes \in Nat /\ 1 <= LineBytes
  BY LineSizes
<1>3. longer[Lines(k) + 1] = b[Lines(k) + 1] /\ Lines(k) + LineBytes <= Len(longer)
  BY <1>0, <1>1, <1>2
<1> QED
  BY <1>1, <1>3 DEF Holds

\* A cut that leaves the complete lines takes no row away.
LEMMA HoldsCut ==
    ASSUME NEW b \in Seq(Bytes), NEW longer \in Seq(Bytes), Begins(b, longer),
           Lines(Len(longer) \div LineBytes) <= Len(b),
           NEW number, Holds(longer, number)
    PROVE  Holds(b, number)
<1>0. /\ Len(b) \in Nat /\ Len(longer) \in Nat /\ Len(b) <= Len(longer)
      /\ \A i \in Nat : 1 <= i /\ i <= Len(b) => b[i] = longer[i]
  BY BeginsAgree
<1> HIDE DEF Lines, LineBytes
<1>1. PICK k \in Nat : Lines(k) + LineBytes <= Len(longer) /\ longer[Lines(k) + 1] = number
  BY DEF Holds
<1>2. Lines(k) \in Nat /\ LineBytes \in Nat /\ 1 <= LineBytes
  BY LineSizes
<1>3. PICK n \in Nat : n = Len(longer) \div LineBytes
  BY <1>0, LineOfByte
<1>4. Lines(n) \in Nat /\ Len(longer) < Lines(n) + LineBytes /\ Lines(n) <= Len(b)
  BY <1>0, <1>3, LineOfByte, LineSizes
<1>5. k < n
  <2>1. ~ n < k
    <3> SUFFICES ASSUME n < k PROVE FALSE
      OBVIOUS
    <3>1. Lines(n) + LineBytes <= Lines(k)
      BY LinesFollow
    <3> QED
      BY <3>1, <1>0, <1>1, <1>2, <1>4
  <2>2. n # k
    BY <1>0, <1>1, <1>2, <1>4
  <2> QED
    BY <2>1, <2>2
<1>6. Lines(k) + LineBytes <= Lines(n)
  BY <1>5, LinesFollow
<1>7. Lines(k) + LineBytes <= Len(b)
  BY <1>6, <1>0, <1>2, <1>4
<1>8. b[Lines(k) + 1] = longer[Lines(k) + 1]
  BY <1>7, <1>0, <1>2, SMTT(60)
<1> QED
  BY <1>1, <1>7, <1>8 DEF Holds

\* The bytes of a line.
LEMMA LineFacts ==
    ASSUME NEW number \in Bytes
    PROVE  /\ Line(number) \in Seq(Bytes)
           /\ Len(Line(number)) = LineBytes
           /\ \A i \in 1..RowBytes : Line(number)[i] = number
           /\ Line(number)[LineBytes] = NL
<1> DEFINE run == [i \in 1..RowBytes |-> number]
<1>0. NL \in Bytes /\ LineBytes = RowBytes + 1 /\ RowBytes \in Nat
  BY CsvAssumption DEF NL, Bytes, LineBytes
<1> HIDE DEF LineBytes, Bytes
<1>1. run \in Seq(Bytes) /\ Len(run) = RowBytes
  BY <1>0
<1> HIDE DEF NL
<1>2. Line(number) = Append(run, NL)
  BY DEF Line
<1>3. \A i \in 1..RowBytes : run[i] = number
  OBVIOUS
<1> HIDE DEF run
<1>4. /\ Append(run, NL) \in Seq(Bytes)
      /\ Len(Append(run, NL)) = Len(run) + 1
      /\ \A i \in 1..Len(run) : Append(run, NL)[i] = run[i]
      /\ Append(run, NL)[Len(run) + 1] = NL
  BY <1>0, <1>1, AppendProperties
<1> QED
  BY <1>0, <1>1, <1>2, <1>3, <1>4

-----------------------------------------------------------------------------
\* A line that begins within the first n + 1 is one of the first n or the last.
LEMMA LinesBefore ==
    ASSUME NEW n \in Nat, NEW k \in Nat, Lines(k) < Lines(n) + LineBytes
    PROVE  k = n \/ (k < n /\ Lines(k) + LineBytes <= Lines(n))
<1>1. Lines(k) \in Nat /\ Lines(n) \in Nat /\ LineBytes \in Nat
  BY LineSizes
<1> HIDE DEF Lines, LineBytes
<1>2. ~ n < k
  <2> SUFFICES ASSUME n < k PROVE FALSE
    OBVIOUS
  <2>1. Lines(n) + LineBytes <= Lines(k)
    BY LinesFollow
  <2> QED
    BY <2>1, <1>1
<1>3. CASE k < n
  BY <1>3, LinesFollow
<1> QED
  BY <1>2, <1>3

\* A byte of a line that begins behind `start' and of one that ends before `end'.
LEMMA InLine ==
    ASSUME NEW start \in Nat, NEW width \in Nat, NEW o \in 1..width
    PROVE  /\ o \in Nat /\ 1 <= o /\ o <= width
           /\ start + o \in Nat /\ 1 <= start + o /\ start + o \in 1..(start + width)
           /\ ~ start + o <= start /\ (start + o) - start = o
           /\ \A end \in Nat : start + width <= end => start + o <= end /\ start < end
           /\ \A end \in Nat : start + o <= end => start < end
<1>1. o \in Nat /\ 1 <= o /\ o <= width
  OBVIOUS
<1> QED
  BY <1>1

\* The number a row may have behind the first n lines.
Follows(m, b, n, gap) ==
    /\ (m = Header) <=> (n = 0)
    /\ \A k \in Nat : k + 1 = n => b[Lines(k) + 1] + gap <= m

\* A file of n + 1 lines, the last of which is m's.
StandsLast(longer, b, n, upTo, m, gap) ==
    /\ longer \in Seq(Bytes)
    /\ Len(longer) = Lines(n + 1)
    /\ Begins(b, longer)
    /\ Sound(longer, upTo, gap)
    /\ longer[Lines(n) + 1] = m

\* One more row behind whole lines: a line of its own that stands last.
LEMMA LineAdded ==
    ASSUME NEW b \in Seq(Bytes), NEW n \in Nat, Len(b) = Lines(n),
           NEW upTo \in Nat, upTo <= MaxRows, NEW m \in Nat, m <= upTo,
           NEW gap \in Nat,
           Follows(m, b, n, gap),
           Sound(b, upTo, gap)
    PROVE  StandsLast(b \o Line(m), b, n, upTo, m, gap)
<1> DEFINE longer == b \o Line(m)
<1>s. LineBytes \in Nat /\ 1 \in 1..LineBytes /\ LineBytes \in 1..LineBytes /\ 1 \in 1..RowBytes
      /\ 1..RowBytes \subseteq 1..LineBytes
  <2> HIDE DEF LineBytes
  <2>1. LineBytes \in Nat /\ RowBytes \in Nat /\ 1 <= RowBytes /\ LineBytes = RowBytes + 1
    BY LineSizes
  <2> QED
    BY <2>1
<1>k. \A k \in Nat : Lines(k) \in Nat
  BY LineSizes
<1>n. Lines(n) \in Nat /\ Lines(n + 1) = Lines(n) + LineBytes
  BY <1>k, LinesFollow
<1>b. m \in Bytes
  BY CsvAssumption DEF Bytes
<1>l. /\ Line(m) \in Seq(Bytes) /\ Len(Line(m)) = LineBytes
      /\ \A i \in 1..RowBytes : Line(m)[i] = m
      /\ Line(m)[LineBytes] = NL
  BY <1>b, LineFacts
<1> HIDE DEF Lines, LineBytes, Bytes, NL
<1>c. /\ longer \in Seq(Bytes)
      /\ Len(longer) = Lines(n) + LineBytes
      /\ \A i \in 1..(Lines(n) + LineBytes) :
            longer[i] = IF i <= Lines(n) THEN b[i] ELSE Line(m)[i - Lines(n)]
  <2>1. /\ longer \in Seq(Bytes)
        /\ Len(longer) = Len(b) + Len(Line(m))
        /\ \A i \in 1 .. Len(b) + Len(Line(m)) :
              longer[i] = IF i <= Len(b) THEN b[i] ELSE Line(m)[i - Len(b)]
    BY <1>l, ConcatProperties
  <2> HIDE DEF longer
  <2> QED
    BY <2>1, <1>l
<1> HIDE DEF longer
<1>1. \A i \in Nat : 1 <= i /\ i <= Lines(n) => longer[i] = b[i]
  BY <1>c, <1>s, <1>n
<1>2. \A o \in 1..LineBytes : longer[Lines(n) + o] = Line(m)[o]
  <2> SUFFICES ASSUME NEW o \in 1..LineBytes PROVE longer[Lines(n) + o] = Line(m)[o]
    OBVIOUS
  <2>1. Lines(n) + o \in 1..(Lines(n) + LineBytes) /\ ~ Lines(n) + o <= Lines(n)
        /\ (Lines(n) + o) - Lines(n) = o
    BY <1>s, <1>n, InLine
  <2> QED
    BY <1>c, <2>1
<1>3. longer[Lines(n) + LineBytes] = NL
  BY <1>2, <1>l, <1>s
<1>4. \A o \in 1..RowBytes : longer[Lines(n) + o] = m
  BY <1>2, <1>l, <1>s
<1>5. Begins(b, longer)
  <2>1. Len(b) <= Len(longer)
    BY <1>c, <1>s, <1>n
  <2>2. \A i \in 1..Len(b) : b[i] = longer[i]
    BY <1>1, <1>n
  <2> QED
    BY <2>1, <2>2 DEF Begins
<1>p. \A k \in Nat : Lines(k) + LineBytes <= Lines(n) =>
         /\ Lines(k) < Len(b) /\ Lines(k) + LineBytes <= Len(b)
         /\ \A o \in 1..LineBytes : Lines(k) + o <= Len(b) /\ longer[Lines(k) + o] = b[Lines(k) + o]
  <2> SUFFICES ASSUME NEW k \in Nat, Lines(k) + LineBytes <= Lines(n),
                      NEW o \in 1..LineBytes
               PROVE  Lines(k) < Lines(n) /\ Lines(k) + o <= Lines(n)
                      /\ longer[Lines(k) + o] = b[Lines(k) + o]
    BY <1>s
  <2>0. Lines(k) \in Nat /\ Lines(n) \in Nat /\ LineBytes \in Nat
    BY <1>s, <1>k
  <2>1. /\ Lines(k) + o \in Nat /\ 1 <= Lines(k) + o
        /\ \A end \in Nat : Lines(k) + LineBytes <= end => Lines(k) + o <= end /\ Lines(k) < end
    BY <2>0, InLine
  <2> QED
    BY <1>1, <2>0, <2>1
<1>q. \A k \in Nat : Lines(k) < Len(longer) => k = n \/ (k < n /\ Lines(k) + LineBytes <= Lines(n))
  BY <1>c, LinesBefore
<1>r. \A k \in Nat : \A o \in 1..LineBytes : Lines(k) + o <= Len(longer) => Lines(k) < Len(longer)
  <2> SUFFICES ASSUME NEW k \in Nat, NEW o \in 1..LineBytes, Lines(k) + o <= Len(longer)
               PROVE  Lines(k) < Len(longer)
    OBVIOUS
  <2>1. Len(longer) \in Nat
    BY <1>c, LenProperties
  <2> QED
    BY <2>1, <1>s, <1>k, InLine, SMTT(60)
<1>6. RowsAlike(longer)
  <2> SUFFICES ASSUME NEW k \in Nat, NEW o \in 1..RowBytes, Lines(k) + o <= Len(longer)
               PROVE  longer[Lines(k) + o] = longer[Lines(k) + 1]
    BY DEF RowsAlike
  <2>1. k = n \/ Lines(k) + LineBytes <= Lines(n)
    BY <1>q, <1>r, <1>s
  <2>2. CASE k = n
    BY <2>2, <1>4, <1>s
  <2>3. CASE Lines(k) + LineBytes <= Lines(n)
    <3>1. b[Lines(k) + o] = b[Lines(k) + 1]
      BY <2>3, <1>p, <1>s DEF Sound, RowsAlike
    <3> QED
      BY <3>1, <2>3, <1>p, <1>s
  <2> QED
    BY <2>1, <2>2, <2>3
<1>7. RowsEnd(longer)
  <2> SUFFICES ASSUME NEW k \in Nat, Lines(k) + LineBytes <= Len(longer)
               PROVE  longer[Lines(k) + LineBytes] = NL
    BY DEF RowsEnd
  <2>1. k = n \/ Lines(k) + LineBytes <= Lines(n)
    BY <1>q, <1>r, <1>s
  <2>2. CASE k = n
    BY <2>2, <1>3
  <2>3. CASE Lines(k) + LineBytes <= Lines(n)
    <3>1. b[Lines(k) + LineBytes] = NL
      BY <2>3, <1>p DEF Sound, RowsEnd
    <3> QED
      BY <3>1, <2>3, <1>p, <1>s
  <2> QED
    BY <2>1, <2>2, <2>3
<1>8. RowsNumbered(longer, upTo)
  <2> SUFFICES ASSUME NEW k \in Nat, Lines(k) < Len(longer)
               PROVE  /\ longer[Lines(k) + 1] \in 0..upTo
                      /\ (longer[Lines(k) + 1] = Header) <=> (k = 0)
    BY DEF RowsNumbered
  <2>1. k = n \/ Lines(k) + LineBytes <= Lines(n)
    BY <1>q
  <2>2. CASE k = n
    BY <2>2, <1>4, <1>s DEF Follows
  <2>3. CASE Lines(k) + LineBytes <= Lines(n)
    <3>1. /\ b[Lines(k) + 1] \in 0..upTo
          /\ (b[Lines(k) + 1] = Header) <=> (k = 0)
      BY <2>3, <1>p DEF Sound, RowsNumbered
    <3> QED
      BY <3>1, <2>3, <1>p, <1>s
  <2> QED
    BY <2>1, <2>2, <2>3
<1>9. RowsAscend(longer, gap)
  <2> SUFFICES ASSUME NEW k \in Nat, Lines(k + 1) < Len(longer)
               PROVE  longer[Lines(k) + 1] + gap <= longer[Lines(k + 1) + 1]
    BY DEF RowsAscend
  <2>0. k + 1 \in Nat /\ k < k + 1
    OBVIOUS
  <2>1. k + 1 = n \/ (k + 1 < n /\ Lines(k + 1) + LineBytes <= Lines(n))
    BY <2>0, <1>q
  <2>4. k < n
    BY <2>1
  <2>5. Lines(k) + LineBytes <= Lines(n)
    BY <2>4, LinesFollow
  <2>6. longer[Lines(k) + 1] = b[Lines(k) + 1]
    BY <2>5, <1>p, <1>s
  <2>2. CASE k + 1 = n
    <3>1. b[Lines(k) + 1] + gap <= m
      BY <2>2 DEF Follows
    <3>2. longer[Lines(k + 1) + 1] = m
      BY <2>2, <1>4, <1>s
    <3> QED
      BY <3>1, <3>2, <2>6
  <2>3. CASE Lines(k + 1) + LineBytes <= Lines(n)
    <3>1. b[Lines(k) + 1] + gap <= b[Lines(k + 1) + 1]
      BY <2>0, <2>3, <1>p DEF Sound, RowsAscend
    <3>2. longer[Lines(k + 1) + 1] = b[Lines(k + 1) + 1]
      BY <2>0, <2>3, <1>p, <1>s
    <3> QED
      BY <3>1, <3>2, <2>6
  <2> QED
    BY <2>1, <2>2, <2>3
<1>10. Sound(longer, upTo, gap)
  BY <1>6, <1>7, <1>8, <1>9 DEF Sound
<1>11. Len(longer) = Lines(n + 1) /\ longer[Lines(n) + 1] = m
  BY <1>c, <1>n, <1>4, <1>s
<1> QED
  BY <1>c, <1>5, <1>10, <1>11 DEF longer, StandsLast

-----------------------------------------------------------------------------
\* The file with the row in it.
LEMMA RowStandsLast ==
    ASSUME NEW b \in Seq(Bytes), NEW number \in 1..MaxRows, NEW gap \in {0, 1},
           Sound(b, number, gap), AtLineEnd(b), Below(b, number, gap)
    PROVE  LET whole == b \o ((IF b = <<>> THEN Line(Header) ELSE <<>>) \o Line(number))
           IN whole \in Seq(Bytes) /\ Begins(b, whole) /\ Sound(whole, number, gap)
              /\ Holds(whole, number)
<1> DEFINE head == IF b = <<>> THEN b \o Line(Header) ELSE b
           whole == b \o ((IF b = <<>> THEN Line(Header) ELSE <<>>) \o Line(number))
<1>0. /\ number \in Bytes /\ Header \in Bytes /\ number \in Nat /\ number <= MaxRows
      /\ gap \in Nat /\ number <= number /\ Header \in Nat /\ Header <= number /\ number # Header
  BY CsvAssumption DEF Bytes, Header
<1>s. Lines(0) = 0 /\ (\A k \in Nat : Lines(k) \in Nat)
      /\ LineBytes \in Nat /\ 1 <= LineBytes
  BY LineSizes
<1>l. Line(Header) \in Seq(Bytes) /\ Line(number) \in Seq(Bytes)
  BY <1>0, LineFacts
<1> HIDE DEF Lines, LineBytes, Bytes, NL
<1>e. b # <<>> => Len(b) # 0
  BY EmptySeq
<1>w. whole = head \o Line(number)
  <2>1. CASE b = <<>>
    <3>1. whole = b \o (Line(Header) \o Line(number)) /\ head = b \o Line(Header)
      BY <2>1
    <3>2. (b \o Line(Header)) \o Line(number) = b \o (Line(Header) \o Line(number))
      BY <1>l, ConcatAssociative
    <3> HIDE DEF head, whole
    <3> QED
      BY <3>1, <3>2
  <2>2. CASE b # <<>>
    <3>1. <<>> \o Line(number) = Line(number)
      BY <1>l, ConcatEmptySeq
    <3> QED
      BY <2>2, <3>1
  <2> QED
    BY <2>1, <2>2
<1> HIDE DEF whole
\* The header is in place, and the row may follow it.
<1>1. \E n \in Nat : /\ head \in Seq(Bytes) /\ Len(head) = Lines(n)
                     /\ Begins(b, head) /\ Sound(head, number, gap)
                     /\ Follows(number, head, n, gap)
  <2>1. CASE b = <<>>
    <3>0. Len(b) = Lines(0) /\ 0 \in Nat
      BY <2>1, <1>s, EmptySeq
    <3>1. Follows(Header, b, 0, gap)
      BY DEF Follows
    <3>2. head = b \o Line(Header)
      BY <2>1
    <3> HIDE DEF head, Header
    <3>5. /\ head \in Seq(Bytes) /\ Len(head) = Lines(0 + 1)
          /\ Begins(b, head) /\ Sound(head, number, gap)
          /\ head[Lines(0) + 1] = Header
      <4>1. StandsLast(b \o Line(Header), b, 0, number, Header, gap)
        BY <3>0, <3>1, <1>0, LineAdded
      <4> QED
        BY <3>2, <4>1 DEF StandsLast
    <3>3. Header + gap <= number
      BY <1>0 DEF Header
    <3>4. Follows(number, head, 1, gap)
      <4>1. (number = Header) <=> (1 = 0)
        BY <1>0
      <4>2. \A k \in Nat : k + 1 = 1 => head[Lines(k) + 1] + gap <= number
        BY <3>5, <3>3
      <4> QED
        BY <4>1, <4>2 DEF Follows
    <3> QED
      BY <3>4, <3>5
  <2>2. CASE b # <<>>
    <3>1. PICK n \in Nat : Len(b) = Lines(n)
      BY DEF AtLineEnd
    <3>2. n # 0
      BY <3>1, <2>2, <1>e, <1>s
    <3>3. Begins(b, b)
      BY LenProperties DEF Begins
    <3>4. ASSUME NEW k \in Nat, k + 1 = n
          PROVE  b[Lines(k) + 1] + gap <= number
      <4>1. Lines(k) < Len(b)
        <5>1. Lines(n) = Lines(k) + LineBytes
          BY <3>4, LinesFollow
        <5> QED
          BY <5>1, <3>1, <1>s
      <4> QED
        BY <4>1 DEF Below
    <3>5. Follows(number, b, n, gap)
      BY <3>2, <3>4, <1>0 DEF Follows
    <3> QED
      BY <2>2, <3>1, <3>3, <3>5
  <2> QED
    BY <2>1, <2>2
<1> HIDE DEF head
<1>2. PICK n \in Nat : /\ head \in Seq(Bytes) /\ Len(head) = Lines(n)
                      /\ Begins(b, head) /\ Sound(head, number, gap)
                      /\ Follows(number, head, n, gap)
  BY <1>1
<1>3. /\ whole \in Seq(Bytes) /\ Len(whole) = Lines(n + 1)
      /\ Begins(head, whole) /\ Sound(whole, number, gap)
      /\ whole[Lines(n) + 1] = number
  <2>1. number \in Nat /\ number <= MaxRows /\ number <= number /\ gap \in Nat
    BY <1>0
  <2>2. StandsLast(head \o Line(number), head, n, number, number, gap)
    BY <2>1, <1>2, LineAdded
  <2> QED
    BY <2>2, <1>w DEF StandsLast
<1>4. Begins(b, whole)
  <2>1. /\ Len(b) \in Nat /\ Len(head) \in Nat /\ Len(b) <= Len(head)
        /\ \A i \in Nat : 1 <= i /\ i <= Len(b) => b[i] = head[i]
    BY <1>2, BeginsAgree
  <2>2. /\ Len(whole) \in Nat /\ Len(head) <= Len(whole)
        /\ \A i \in Nat : 1 <= i /\ i <= Len(head) => head[i] = whole[i]
    BY <1>2, <1>3, BeginsAgree
  <2>3. \A i \in 1..Len(b) : b[i] = whole[i]
    BY <2>1, <2>2
  <2> QED
    BY <2>1, <2>2, <2>3 DEF Begins
<1>5. Holds(whole, number)
  <2>1. Lines(n) + LineBytes <= Len(whole)
    BY <1>3, <1>s, LinesFollow
  <2> QED
    BY <2>1, <1>3 DEF Holds
<1> QED
  BY <1>3, <1>4, <1>5 DEF whole

-----------------------------------------------------------------------------
\* Where the last line of the first n bytes ends.
Ends(b, first, last) == {i \in first..last : b[i] = NL}
LastEnd(b, n) == IF Ends(b, 1, n) = {} THEN 0 ELSE Max(Ends(b, 1, n))
BlockStart(n) == IF n > BlockBytes THEN n - BlockBytes ELSE 0

\* A newline at the end is the last one, and one block's last newline is the last
\* of all the bytes up to the block's end.
LEMMA LastEndIs ==
    ASSUME NEW b, NEW n \in Nat, NEW start \in Nat, start <= n
    PROVE  /\ n = 0 => LastEnd(b, n) = 0
           /\ Ends(b, start + 1, n) = {} => LastEnd(b, n) = LastEnd(b, start)
           /\ Ends(b, start + 1, n) # {} => LastEnd(b, n) = Max(Ends(b, start + 1, n))
           /\ LastEnd(b, n) \in 0..n
<1>1. ASSUME n = 0 PROVE LastEnd(b, n) = 0
  BY <1>1 DEF LastEnd, Ends
<1>2. ASSUME Ends(b, start + 1, n) = {} PROVE LastEnd(b, n) = LastEnd(b, start)
  <2>1. Ends(b, 1, n) = Ends(b, 1, start)
    BY <1>2 DEF Ends
  <2> QED
    BY <2>1 DEF LastEnd
<1>3. ASSUME Ends(b, start + 1, n) # {} PROVE LastEnd(b, n) = Max(Ends(b, start + 1, n))
  <2> DEFINE block == Ends(b, start + 1, n)
             all == Ends(b, 1, n)
  <2>1. block \subseteq 1..n /\ all \subseteq 1..n /\ block \subseteq all
    BY DEF Ends
  <2>2. \A i \in all : i > start => i \in block
    BY DEF Ends
  <2>3. \A i \in block : i > start
    BY DEF Ends
  <2>4. LastEnd(b, n) = Max(all)
    BY <1>3, <2>1 DEF LastEnd
  <2> HIDE DEF block, all
  <2>5. Max(block) \in block /\ \A x \in block : x <= Max(block)
    BY <1>3, <2>1, MaxOfBounded DEF block
  <2>6. Max(all) \in all /\ \A x \in all : x <= Max(all)
    BY <1>3, <2>1, MaxOfBounded DEF block
  <2>7. Max(block) \in Nat /\ Max(all) \in Nat /\ Max(block) <= Max(all) /\ Max(block) > start
    <3>1. Max(block) \in 1..n /\ Max(all) \in 1..n
      BY <2>1, <2>5, <2>6
    <3>2. Max(block) \in all
      BY <2>1, <2>5
    <3>3. Max(block) <= Max(all) /\ Max(block) > start
      BY <2>3, <2>5, <2>6, <3>2
    <3> QED
      BY <3>1, <3>3
  <2>8. Max(all) \in block
    BY <2>2, <2>6, <2>7
  <2>9. Max(all) <= Max(block)
    BY <2>5, <2>8
  <2> QED
    BY <2>4, <2>7, <2>9 DEF block
<1>4. LastEnd(b, n) \in 0..n
  <2>1. Ends(b, 1, n) \subseteq 1..n
    BY DEF Ends
  <2>2. CASE Ends(b, 1, n) = {}
    BY <2>2 DEF LastEnd
  <2>3. CASE Ends(b, 1, n) # {}
    <3>1. Max(Ends(b, 1, n)) \in 1..n
      BY <2>1, <2>3, MaxOfBounded
    <3> QED
      BY <2>3, <3>1 DEF LastEnd
  <2> QED
    BY <2>2, <2>3
<1> QED
  BY <1>1, <1>2, <1>3, <1>4

\* The block-wise scan finds it: the function its recursion defines is this one.
LEMMA ScanFinds ==
    ASSUME NEW b \in Seq(Bytes)
    PROVE  \A n \in 0..Len(b) : ScanBlocks(b)[n] = LastEnd(b, n)
<1> DEFINE body(f, n) == IF n = 0 THEN 0
                         ELSE IF Ends(b, BlockStart(n) + 1, n) = {} THEN f[BlockStart(n)]
                         ELSE Max(Ends(b, BlockStart(n) + 1, n))
           Scans(f) == f = [n \in 0..Len(b) |-> body(f, n)]
           found == [n \in 0..Len(b) |-> LastEnd(b, n)]
<1>0. Len(b) \in Nat
  BY LenProperties
<1>1. ASSUME NEW n \in 0..Len(b)
      PROVE  BlockStart(n) \in 0..Len(b) /\ BlockStart(n) <= n /\ (n # 0 => BlockStart(n) < n)
  <2>1. BlockBytes \in Nat /\ 0 < BlockBytes /\ n \in Nat /\ n <= Len(b)
    BY <1>0, CsvAssumption
  <2>2. CASE n > BlockBytes
    BY <2>1, <2>2, <1>0 DEF BlockStart
  <2>3. CASE ~ n > BlockBytes
    BY <2>1, <2>3, <1>0 DEF BlockStart
  <2> QED
    BY <2>2, <2>3
<1>2. ScanBlocks(b) = CHOOSE f : Scans(f)
  BY DEF ScanBlocks, Ends, BlockStart
<1>3. Scans(found)
  <2>1. ASSUME NEW n \in 0..Len(b) PROVE LastEnd(b, n) = body(found, n)
    <3>1. n \in Nat /\ BlockStart(n) \in Nat /\ BlockStart(n) <= n
      BY <1>0, <1>1
    <3>2. found[BlockStart(n)] = LastEnd(b, BlockStart(n))
      BY <1>1
    <3> HIDE DEF found
    <3>3. CASE n = 0
      BY <3>1, <3>3, LastEndIs
    <3>4. CASE n # 0 /\ Ends(b, BlockStart(n) + 1, n) = {}
      BY <3>1, <3>2, <3>4, LastEndIs
    <3>5. CASE n # 0 /\ Ends(b, BlockStart(n) + 1, n) # {}
      BY <3>1, <3>5, LastEndIs
    <3> QED
      BY <3>3, <3>4, <3>5
  <2> HIDE DEF body
  <2> QED
    BY <2>1
<1> HIDE DEF Scans
<1>4. Scans(ScanBlocks(b))
  BY <1>2, <1>3
<1> DEFINE wrong == {n \in 0..Len(b) : ScanBlocks(b)[n] # LastEnd(b, n)}
<1>5. ASSUME wrong # {} PROVE FALSE
  <2>1. wrong \subseteq Nat
    OBVIOUS
  <2>2. PICK n \in wrong : \A m \in wrong : n <= m
    BY <1>5, <2>1, LeastNat
  <2>3. n \in 0..Len(b) /\ n \in Nat /\ ScanBlocks(b)[n] # LastEnd(b, n)
    OBVIOUS
  <2>4. ScanBlocks(b)[n] = body(ScanBlocks(b), n)
    <3> HIDE DEF body
    <3> QED
      BY <1>4, <2>3 DEF Scans
  <2>5. BlockStart(n) \in Nat /\ BlockStart(n) <= n
    BY <1>1, <2>3
  <2>6. n # 0 => ScanBlocks(b)[BlockStart(n)] = LastEnd(b, BlockStart(n))
    <3>1. n # 0 => BlockStart(n) \in 0..Len(b) /\ ~ (n <= BlockStart(n))
      BY <1>1, <2>3
    <3> QED
      BY <2>2, <3>1
  <2>7. LastEnd(b, n) = body(ScanBlocks(b), n)
    <3>3. CASE n = 0
      BY <2>3, <2>5, <3>3, LastEndIs
    <3>4. CASE n # 0 /\ Ends(b, BlockStart(n) + 1, n) = {}
      BY <2>3, <2>5, <2>6, <3>4, LastEndIs
    <3>5. CASE n # 0 /\ Ends(b, BlockStart(n) + 1, n) # {}
      BY <2>3, <2>5, <3>5, LastEndIs
    <3> QED
      BY <3>3, <3>4, <3>5
  <2> QED
    BY <2>3, <2>4, <2>7
<1> QED
  BY <1>5

\* The repair leaves the file up to its last newline, whatever is in it.
LEMMA RepairedIsLastEnd ==
    ASSUME NEW b \in Seq(Bytes)
    PROVE  RepairedLength(b) = LastEnd(b, Len(b))
<1>0. Len(b) \in Nat /\ (b # <<>> => Len(b) # 0) /\ (b = <<>> => Len(b) = 0)
  BY LenProperties, EmptySeq
<1>1. CASE b = <<>>
  BY <1>0, <1>1, LastEndIs DEF RepairedLength
<1>2. CASE b # <<>> /\ Last(b) = NL
  <2>1. Ends(b, (Len(b) - 1) + 1, Len(b)) = {Len(b)}
    BY <1>0, <1>2 DEF Ends, Last
  <2>2. Len(b) - 1 \in Nat /\ Len(b) - 1 <= Len(b)
    BY <1>0, <1>2
  <2>3. LastEnd(b, Len(b)) = Max({Len(b)})
    BY <1>0, <2>1, <2>2, LastEndIs
  <2>4. Max({Len(b)}) = Len(b)
    <3>1. {Len(b)} \subseteq 1..Len(b)
      BY <1>0, <1>2
    <3>2. {Len(b)} # {}
      OBVIOUS
    <3>3. Max({Len(b)}) \in {Len(b)}
      BY <1>0, <3>1, <3>2, MaxOfBounded
    <3> QED
      BY <3>3
  <2> QED
    BY <1>2, <2>3, <2>4 DEF RepairedLength
<1>3. CASE b # <<>> /\ Last(b) # NL
  <2>1. Ends(b, (Len(b) - 1) + 1, Len(b)) = {}
    BY <1>0, <1>3 DEF Ends, Last
  <2>2. Len(b) - 1 \in Nat /\ Len(b) - 1 <= Len(b) /\ Len(b) - 1 \in 0..Len(b)
    BY <1>0, <1>3
  <2>3. LastEnd(b, Len(b)) = LastEnd(b, Len(b) - 1)
    BY <1>0, <2>1, <2>2, LastEndIs
  <2>4. ScanBlocks(b)[Len(b) - 1] = LastEnd(b, Len(b) - 1)
    BY <2>2, ScanFinds
  <2> QED
    BY <1>3, <2>3, <2>4 DEF RepairedLength
<1> QED
  BY <1>1, <1>2, <1>3

\* In a sound file it is the end of the last complete line.
LEMMA SoundEnd ==
    ASSUME NEW b \in Seq(Bytes), NEW upTo \in Nat, NEW gap, Sound(b, upTo, gap)
    PROVE  LastEnd(b, Len(b)) = Lines(Len(b) \div LineBytes)
<1>s. LineBytes \in Nat /\ RowBytes \in Nat /\ 1 <= RowBytes /\ LineBytes = RowBytes + 1
  BY LineSizes
<1>k. Lines(0) = 0 /\ \A k \in Nat : Lines(k) \in Nat
  BY LineSizes
<1> HIDE DEF Lines, LineBytes
<1>0. Len(b) \in Nat
  BY LenProperties
<1>1. PICK n \in Nat : n = Len(b) \div LineBytes
  BY <1>0, LineOfByte
<1>2. Lines(n) \in Nat /\ Lines(n) <= Len(b) /\ Len(b) < Lines(n) + LineBytes
  BY <1>0, <1>1, <1>k, LineOfByte
\* No newline behind it ...
<1>3. Ends(b, Lines(n) + 1, Len(b)) = {}
  <2> SUFFICES ASSUME NEW i \in (Lines(n) + 1)..Len(b) PROVE b[i] # NL
    BY DEF Ends
  <2>1. PICK o \in Nat : o = i - Lines(n)
    BY <1>2
  <2>2. o \in 1..RowBytes /\ Lines(n) + o <= Len(b) /\ i = Lines(n) + o /\ Lines(n) < Len(b)
    BY <2>1, <1>0, <1>2, <1>s
  <2>3. b[i] = b[Lines(n) + 1]
    BY <2>2 DEF Sound, RowsAlike
  <2>4. b[Lines(n) + 1] \in 0..upTo
    BY <2>2 DEF Sound, RowsNumbered
  <2> QED
    BY <2>3, <2>4 DEF NL
<1>4. LastEnd(b, Len(b)) = LastEnd(b, Lines(n))
  BY <1>0, <1>2, <1>3, LastEndIs
\* ... and one at its end.
<1>5. LastEnd(b, Lines(n)) = Lines(n)
  <2>1. CASE n = 0
    <3>1. Lines(n) = 0
      BY <2>1, <1>k
    <3> QED
      BY <3>1, LastEndIs
  <2>2. CASE n # 0
    <3>1. PICK k \in Nat : k + 1 = n
      BY <2>2
    <3>2. Lines(n) = Lines(k) + LineBytes /\ Lines(k) \in Nat
      BY <3>1, <1>k, LinesFollow
    <3>3. b[Lines(n)] = NL
      BY <3>2, <1>2 DEF Sound, RowsEnd
    <3>4. Lines(n) - 1 \in Nat /\ Lines(n) - 1 <= Lines(n)
          /\ Ends(b, (Lines(n) - 1) + 1, Lines(n)) = {Lines(n)}
      <4>1. Lines(n) - 1 \in Nat /\ Lines(n) - 1 <= Lines(n) /\ (Lines(n) - 1) + 1 = Lines(n)
            /\ Lines(n)..Lines(n) = {Lines(n)}
        BY <3>2, <1>2, <1>s
      <4> QED
        BY <4>1, <3>3 DEF Ends
    <3>5. LastEnd(b, Lines(n)) = Max({Lines(n)})
      BY <3>4, <1>2, LastEndIs, ZenonT(60)
    <3>6. Max({Lines(n)}) \in {Lines(n)}
      <4>1. {Lines(n)} \subseteq 1..Lines(n) /\ {Lines(n)} # {}
        BY <3>2, <1>2, <1>s
      <4> QED
        BY <4>1, <1>2, MaxOfBounded
    <3> QED
      BY <3>5, <3>6
  <2> QED
    BY <2>1, <2>2
<1> QED
  BY <1>1, <1>4, <1>5

\* What the repair leaves of a sound file: its complete lines, and every row in them.
LEMMA RepairCuts ==
    ASSUME NEW b \in Seq(Bytes), NEW upTo \in Nat, NEW gap, Sound(b, upTo, gap)
    PROVE  LET cut == SubSeq(b, 1, RepairedLength(b))
           IN /\ RepairedLength(b) \in 0..Len(b)
              /\ cut \in Seq(Bytes) /\ Begins(cut, b) /\ AtLineEnd(cut)
              /\ \A number : Holds(b, number) => Holds(cut, number)
              /\ RepairedLength(b) = Len(b) => AtLineEnd(b)
<1> DEFINE cut == SubSeq(b, 1, RepairedLength(b))
<1> HIDE DEF Lines, LineBytes, Bytes
<1>0. Len(b) \in Nat /\ b \in [1..Len(b) -> Bytes]
  BY LenProperties
<1>1. RepairedLength(b) = Lines(Len(b) \div LineBytes)
  BY RepairedIsLastEnd, SoundEnd
<1>2. Len(b) \div LineBytes \in Nat /\ Lines(Len(b) \div LineBytes) <= Len(b)
      /\ Lines(Len(b) \div LineBytes) \in Nat
  BY <1>0, LineOfByte, LineSizes
<1>3. RepairedLength(b) \in 0..Len(b)
  BY <1>0, <1>1, <1>2
<1>4. cut \in Seq(Bytes) /\ Len(cut) = RepairedLength(b)
      /\ \A i \in 1..RepairedLength(b) : cut[i] = b[i]
  <2>1. \A i \in 1..RepairedLength(b) : b[i] \in Bytes
    BY <1>0, <1>3
  <2>2. RepairedLength(b) \in Int /\ 1 \in Int
    BY <1>0, <1>3
  <2>3. /\ cut \in Seq(Bytes)
        /\ Len(cut) = IF 1 <= RepairedLength(b) THEN RepairedLength(b) - 1 + 1 ELSE 0
        /\ \A i \in 1 .. RepairedLength(b) - 1 + 1 : cut[i] = b[1 + i - 1]
    BY <2>1, <2>2, SubSeqProperties
  <2> HIDE DEF cut
  <2> QED
    BY <2>3, <1>0, <1>3
<1> HIDE DEF cut
<1>5. Begins(cut, b)
  BY <1>0, <1>3, <1>4 DEF Begins
<1>6. AtLineEnd(cut)
  BY <1>1, <1>2, <1>4 DEF AtLineEnd
<1>7. ASSUME NEW number, Holds(b, number) PROVE Holds(cut, number)
  <2>1. Lines(Len(b) \div LineBytes) <= Len(cut)
    BY <1>1, <1>2, <1>4
  <2> QED
    BY <2>1, <1>4, <1>5, <1>7, HoldsCut
<1>8. RepairedLength(b) = Len(b) => AtLineEnd(b)
  BY <1>1, <1>2 DEF AtLineEnd
<1> QED
  BY <1>3, <1>4, <1>5, <1>6, <1>7, <1>8 DEF cut

-----------------------------------------------------------------------------
\* What a sound file shows its readers.
\* The lines are those the log's readers count.
LEMMA LineCounted ==
    ASSUME NEW b \in Seq(Bytes), NEW k \in Nat, Lines(k) + LineBytes <= Len(b)
    PROVE  k + 1 \in 1..LineCount(b)
<1>0. Len(b) \in Nat
  BY LenProperties
<1>1. PICK n \in Nat : n = LineCount(b)
  BY <1>0, LineOfByte DEF LineCount
<1>2. Lines(n) \in Nat /\ Len(b) < Lines(n) + LineBytes
  BY <1>0, <1>1, LineSizes, LineOfByte DEF LineCount
<1>3. Lines(k) \in Nat /\ LineBytes \in Nat /\ 1 <= LineBytes
  BY LineSizes
<1>4. k = n \/ k < n
  <2>1. Lines(k) < Lines(n) + LineBytes
    BY <1>0, <1>2, <1>3
  <2> QED
    BY <2>1, LinesBefore
<1>5. k # n
  BY <1>0, <1>2, <1>3
<1> QED
  BY <1>1, <1>4, <1>5

LEMMA CountedLine ==
    ASSUME NEW b \in Seq(Bytes), NEW k \in 1..LineCount(b)
    PROVE  k - 1 \in Nat /\ (k - 1) + 1 = k /\ Lines(k - 1) + LineBytes <= Len(b)
           /\ Lines(k - 1) < Len(b)
<1>0. Len(b) \in Nat
  BY LenProperties
<1>1. LineCount(b) \in Nat /\ Lines(LineCount(b)) \in Nat /\ Lines(LineCount(b)) <= Len(b)
  BY <1>0, LineSizes, LineOfByte DEF LineCount
<1>2. k - 1 \in Nat /\ (k - 1) + 1 = k /\ k - 1 < LineCount(b)
  BY <1>1
<1>3. Lines(k - 1) \in Nat /\ LineBytes \in Nat /\ 1 <= LineBytes
  BY <1>2, LineSizes
<1>4. Lines(k - 1) + LineBytes <= Lines(LineCount(b))
  BY <1>1, <1>2, LinesFollow
<1> QED
  BY <1>0, <1>1, <1>2, <1>3, <1>4

\* A reader finds whole rows, ...
LEMMA LineRead ==
    ASSUME NEW b \in Seq(Bytes), NEW upTo \in 0..MaxRows, NEW gap, Sound(b, upTo, gap),
           NEW k \in Nat, Lines(k) + LineBytes <= Len(b)
    PROVE  KthLine(b, k + 1) = Line(b[Lines(k) + 1])
           /\ KthLine(b, k + 1)[1] = b[Lines(k) + 1]
<1> DEFINE whole == KthLine(b, k + 1)
           number == b[Lines(k) + 1]
<1>s. LineBytes \in Nat /\ RowBytes \in Nat /\ 1 <= RowBytes /\ LineBytes = RowBytes + 1
  BY LineSizes
<1>0. Len(b) \in Nat /\ b \in [1..Len(b) -> Bytes] /\ Lines(k) \in Nat
  BY LenProperties, LineSizes
<1>1. whole = SubSeq(b, Lines(k) + 1, Lines(k) + LineBytes)
  <2>1. ((k + 1) - 1) * LineBytes = Lines(k) /\ (k + 1) * LineBytes = Lines(k + 1)
    BY DEF Lines
  <2> QED
    BY <2>1, LinesFollow DEF KthLine
<1> HIDE DEF Lines, LineBytes, Bytes, whole
<1>2. /\ whole \in Seq(Bytes) /\ Len(whole) = LineBytes
      /\ \A i \in 1..LineBytes : whole[i] = b[Lines(k) + i]
  <2>1. Lines(k) + 1 \in Int /\ Lines(k) + LineBytes \in Int
        /\ \A i \in (Lines(k) + 1)..(Lines(k) + LineBytes) : b[i] \in Bytes
    BY <1>0, <1>s
  <2>2. /\ whole \in Seq(Bytes)
        /\ Len(whole) = IF Lines(k) + 1 <= Lines(k) + LineBytes
                       THEN (Lines(k) + LineBytes) - (Lines(k) + 1) + 1 ELSE 0
        /\ \A i \in 1 .. (Lines(k) + LineBytes) - (Lines(k) + 1) + 1 :
              whole[i] = b[(Lines(k) + 1) + i - 1]
    BY <1>1, <2>1, SubSeqProperties
  <2>3. (Lines(k) + LineBytes) - (Lines(k) + 1) + 1 = LineBytes
        /\ Lines(k) + 1 <= Lines(k) + LineBytes
    BY <1>0, <1>s
  <2>4. \A i \in 1..LineBytes : (Lines(k) + 1) + i - 1 = Lines(k) + i
    BY <1>0, <1>s
  <2> QED
    BY <2>2, <2>3, <2>4
<1>3. number \in 0..upTo
  <2>1. Lines(k) < Len(b)
    BY <1>0, <1>s
  <2> QED
    BY <2>1 DEF Sound, RowsNumbered
<1>4. number \in Bytes
  BY <1>3, CsvAssumption DEF Bytes
<1>5. /\ Line(number) \in Seq(Bytes) /\ Len(Line(number)) = LineBytes
      /\ \A i \in 1..RowBytes : Line(number)[i] = number
      /\ Line(number)[LineBytes] = NL
  BY <1>4, LineFacts
<1>6. \A o \in 1..RowBytes : b[Lines(k) + o] = number
  <2> SUFFICES ASSUME NEW o \in 1..RowBytes PROVE b[Lines(k) + o] = number
    OBVIOUS
  <2>1. Lines(k) + o <= Len(b)
    BY <1>0, <1>s
  <2> QED
    BY <2>1 DEF Sound, RowsAlike
<1>7. b[Lines(k) + LineBytes] = NL
  BY DEF Sound, RowsEnd
<1> HIDE DEF number, NL
<1>8. \A i \in 1..LineBytes : whole[i] = Line(number)[i]
  <2> SUFFICES ASSUME NEW i \in 1..LineBytes PROVE whole[i] = Line(number)[i]
    OBVIOUS
  <2>1. i \in 1..RowBytes \/ i = LineBytes
    BY <1>s
  <2> QED
    BY <2>1, <1>2, <1>5, <1>6, <1>7
<1>9. whole = Line(number)
  BY <1>2, <1>5, <1>8, SeqEqual
<1>10. whole[1] = number
  <2>1. 1 \in 1..RowBytes
    BY <1>s
  <2> QED
    BY <1>9, <1>5, <2>1
<1> QED
  BY <1>9, <1>10 DEF whole, number

\* ... and behind them at most the beginning of one.
LEMMA TailRead ==
    ASSUME NEW b \in Seq(Bytes), NEW upTo \in 0..MaxRows, NEW gap, Sound(b, upTo, gap)
    PROVE  \E number \in 0..upTo :
             IsPrefix(SubSeq(b, LineCount(b) * LineBytes + 1, Len(b)), Line(number))
<1>s. LineBytes \in Nat /\ RowBytes \in Nat /\ 1 <= RowBytes /\ LineBytes = RowBytes + 1
  BY LineSizes
<1>0. Len(b) \in Nat /\ b \in [1..Len(b) -> Bytes]
  BY LenProperties
<1>1. PICK n \in Nat : n = LineCount(b)
  BY <1>0, LineOfByte DEF LineCount
<1>2. Lines(n) \in Nat /\ Lines(n) <= Len(b) /\ Len(b) < Lines(n) + LineBytes
  BY <1>0, <1>1, LineSizes, LineOfByte DEF LineCount
<1> DEFINE tail == SubSeq(b, Lines(n) + 1, Len(b))
           number == IF Lines(n) < Len(b) THEN b[Lines(n) + 1] ELSE 0
<1>3. SubSeq(b, LineCount(b) * LineBytes + 1, Len(b)) = tail
  BY <1>1 DEF Lines
<1> HIDE DEF Lines, LineBytes, Bytes, tail
<1>4. /\ tail \in Seq(Bytes) /\ Len(tail) = Len(b) - Lines(n)
      /\ \A i \in 1..(Len(b) - Lines(n)) : tail[i] = b[Lines(n) + i]
  <2>1. Lines(n) + 1 \in Int /\ Len(b) \in Int
        /\ \A i \in (Lines(n) + 1)..Len(b) : b[i] \in Bytes
    BY <1>0, <1>2
  <2>2. /\ tail \in Seq(Bytes)
        /\ Len(tail) = IF Lines(n) + 1 <= Len(b) THEN Len(b) - (Lines(n) + 1) + 1 ELSE 0
        /\ \A i \in 1 .. Len(b) - (Lines(n) + 1) + 1 : tail[i] = b[(Lines(n) + 1) + i - 1]
    BY <2>1, SubSeqProperties DEF tail
  <2>3. Len(b) - (Lines(n) + 1) + 1 = Len(b) - Lines(n)
    BY <1>0, <1>2
  <2>4. \A i \in 1..(Len(b) - Lines(n)) : (Lines(n) + 1) + i - 1 = Lines(n) + i
    BY <1>0, <1>2
  <2>5. Len(tail) = Len(b) - Lines(n)
    <3>1. Len(tail) = IF Lines(n) + 1 <= Len(b) THEN Len(b) - (Lines(n) + 1) + 1 ELSE 0
      BY <2>2
    <3> QED
      BY <3>1, <1>0, <1>2
  <2> QED
    BY <2>2, <2>3, <2>4, <2>5
<1>5. number \in 0..upTo
  BY DEF Sound, RowsNumbered
<1>6. number \in Bytes
  BY <1>5, CsvAssumption DEF Bytes
<1>7. /\ Line(number) \in Seq(Bytes) /\ Len(Line(number)) = LineBytes
      /\ \A i \in 1..RowBytes : Line(number)[i] = number
  BY <1>6, LineFacts
<1>8. \A i \in 1..Len(tail) : tail[i] = number
  <2> SUFFICES ASSUME NEW i \in 1..(Len(b) - Lines(n)) PROVE b[Lines(n) + i] = number
    BY <1>4
  <2>1. i \in 1..RowBytes /\ Lines(n) + i <= Len(b) /\ Lines(n) < Len(b)
    BY <1>0, <1>2, <1>s
  <2> QED
    BY <2>1 DEF Sound, RowsAlike
<1> HIDE DEF number
<1>9. Len(tail) \in Nat /\ Len(tail) <= RowBytes /\ Len(tail) <= Len(Line(number))
  BY <1>4, <1>7, <1>0, <1>2, <1>s
<1> DEFINE start == SubSeq(Line(number), 1, Len(tail))
<1>10. start \in Seq(Bytes) /\ Len(start) = Len(tail)
       /\ \A i \in 1..Len(tail) : start[i] = Line(number)[i]
  <2>0. Line(number) \in [1..LineBytes -> Bytes]
    BY <1>7, LenProperties
  <2>1. \A i \in 1..Len(tail) : Line(number)[i] \in Bytes
    BY <2>0, <1>9, <1>s
  <2>2. Len(tail) \in Int /\ 1 \in Int
    BY <1>9
  <2>3. /\ start \in Seq(Bytes)
        /\ Len(start) = IF 1 <= Len(tail) THEN Len(tail) - 1 + 1 ELSE 0
        /\ \A i \in 1 .. Len(tail) - 1 + 1 : start[i] = Line(number)[1 + i - 1]
    BY <2>1, <2>2, SubSeqProperties
  <2> HIDE DEF start
  <2> QED
    BY <2>3, <1>9
<1>11. \A i \in 1..Len(tail) : start[i] = tail[i]
  <2>1. \A i \in 1..Len(tail) : i \in 1..RowBytes
    BY <1>9, <1>s
  <2> HIDE DEF start
  <2> QED
    BY <2>1, <1>7, <1>8, <1>10
<1>12. SubSeq(tail, 1, Len(tail)) = tail
  BY <1>4, SubSeqFull
<1>13. start = tail
  <2> HIDE DEF start
  <2> QED
    BY <1>4, <1>10, <1>11, SeqEqual
<1>14. IsPrefix(tail, Line(number))
  BY <1>9, <1>12, <1>13 DEF IsPrefix
<1> QED
  BY <1>3, <1>5, <1>14

-----------------------------------------------------------------------------
(***************************************************************************)
(* The inductive invariant of a log.                                       *)
(***************************************************************************)

\* A row of the ring's log may be given again, another's may not.
Gap == IF ring THEN 0 ELSE 1

\* A content the card may have: sound, with every confirmed row.
Keeps(b) ==
    /\ b \in Seq(Bytes)
    /\ Sound(b, row, Gap)
    /\ \A number \in confirmed : Holds(b, number)

Kept == \A b \in survivors : Keeps(b)

\* How far the append of a row is.
CsvSteps ==
    /\ at \in {"repairSync", "write"} => AtLineEnd(file)
    /\ at \in {"repair", "repairSync", "write", "sync", "close"} => 0 < row
    /\ at \in {"repair", "repairSync", "write"} => Below(file, row, Gap)
    /\ at \in {"sync", "close"} => Holds(file, row)
    /\ at = "close" => survivors = {file}

CsvIInv == CsvTypeOK /\ Kept /\ CsvSteps

\* A sound file stays sound as rows are given, and its rows below the next.
LEMMA SoundGrows ==
    ASSUME NEW b \in Seq(Bytes), NEW upTo \in Nat, NEW more \in Nat, upTo <= more,
           NEW gap, Sound(b, upTo, gap)
    PROVE  Sound(b, more, gap)
<1>1. RowsNumbered(b, more)
  <2> SUFFICES ASSUME NEW k \in Nat, Lines(k) < Len(b)
               PROVE  /\ b[Lines(k) + 1] \in 0..more
                      /\ (b[Lines(k) + 1] = Header) <=> (k = 0)
    BY DEF RowsNumbered
  <2>1. /\ b[Lines(k) + 1] \in 0..upTo
        /\ (b[Lines(k) + 1] = Header) <=> (k = 0)
    BY DEF Sound, RowsNumbered
  <2> QED
    BY <2>1
<1> QED
  BY <1>1 DEF Sound

LEMMA SoundIsBelow ==
    ASSUME NEW b \in Seq(Bytes), NEW upTo \in Nat, NEW gap \in {0, 1}, Sound(b, upTo, gap),
           NEW number \in Nat, upTo + gap <= number
    PROVE  Below(b, number, gap)
<1> SUFFICES ASSUME NEW k \in Nat, Lines(k) < Len(b)
             PROVE  b[Lines(k) + 1] + gap <= number
  BY DEF Below
<1>1. b[Lines(k) + 1] \in 0..upTo
  BY DEF Sound, RowsNumbered
<1> QED
  BY <1>1

\* The part of a write that reached the file.
LEMMA PartWritten ==
    ASSUME NEW s \in Seq(Bytes), NEW t \in Seq(Bytes), NEW n \in 0..Len(t)
    PROVE  /\ s \o SubSeq(t, 1, n) \in Seq(Bytes)
           /\ Begins(s \o SubSeq(t, 1, n), s \o t)
           /\ Begins(s, s \o SubSeq(t, 1, n))
<1> DEFINE part == SubSeq(t, 1, n)
<1>0. Len(s) \in Nat /\ Len(t) \in Nat /\ n \in Nat /\ n <= Len(t) /\ t \in [1..Len(t) -> Bytes]
  BY LenProperties
<1>1. part \in Seq(Bytes) /\ Len(part) = n /\ \A i \in 1..n : part[i] = t[i]
  <2>1. \A i \in 1..n : t[i] \in Bytes
    BY <1>0
  <2>2. /\ part \in Seq(Bytes)
        /\ Len(part) = IF 1 <= n THEN n - 1 + 1 ELSE 0
        /\ \A i \in 1 .. n - 1 + 1 : part[i] = t[1 + i - 1]
    BY <1>0, <2>1, SubSeqProperties
  <2> HIDE DEF part
  <2> QED
    BY <2>2, <1>0
<1> HIDE DEF part, Bytes
<1>2. /\ s \o part \in Seq(Bytes) /\ Len(s \o part) = Len(s) + Len(part)
      /\ \A i \in 1..Len(s) + Len(part) :
            (s \o part)[i] = IF i <= Len(s) THEN s[i] ELSE part[i - Len(s)]
  BY <1>1, ConcatProperties
<1>3. /\ s \o t \in Seq(Bytes) /\ Len(s \o t) = Len(s) + Len(t)
      /\ \A i \in 1..Len(s) + Len(t) :
            (s \o t)[i] = IF i <= Len(s) THEN s[i] ELSE t[i - Len(s)]
  BY ConcatProperties
<1>4. \A i \in 1..Len(s) + n : (s \o part)[i] = (s \o t)[i]
  <2> SUFFICES ASSUME NEW i \in 1..Len(s) + n PROVE (s \o part)[i] = (s \o t)[i]
    OBVIOUS
  <2>0. i \in 1..Len(s) + Len(part) /\ i \in 1..Len(s) + Len(t)
    BY <1>0, <1>1
  <2>1. CASE i <= Len(s)
    BY <2>0, <2>1, <1>2, <1>3
  <2>2. CASE ~ i <= Len(s)
    <3>1. i - Len(s) \in 1..n
      BY <2>2, <1>0
    <3> QED
      BY <3>1, <2>0, <2>2, <1>1, <1>2, <1>3
  <2> QED
    BY <2>1, <2>2
<1>5. Begins(s \o part, s \o t)
  BY <1>0, <1>1, <1>2, <1>3, <1>4 DEF Begins
<1>6. \A i \in 1..Len(s) : s[i] = (s \o part)[i]
  BY <1>0, <1>1, <1>2
<1>7. Begins(s, s \o part)
  BY <1>0, <1>1, <1>2, <1>6 DEF Begins
<1> QED
  BY <1>2, <1>5, <1>7 DEF part

\* What is appended to a file that a row is to stand in.
LEMMA RowFits ==
    ASSUME CsvIInv, at = "write"
    PROVE  /\ Pending \in Seq(Bytes) /\ file \o Pending \in Seq(Bytes)
           /\ Begins(file, file \o Pending)
           /\ Sound(file \o Pending, row, Gap)
           /\ Holds(file \o Pending, row)
<1>1. file \in Seq(Bytes) /\ Sound(file, row, Gap)
  BY DEF CsvIInv, CsvTypeOK, Kept, Keeps
<1>2. row \in 1..MaxRows /\ Gap \in {0, 1}
  BY DEF CsvIInv, CsvTypeOK, CsvSteps, Gap
<1>3. AtLineEnd(file) /\ Below(file, row, Gap)
  BY DEF CsvIInv, CsvSteps
<1>4. Pending \in Seq(Bytes)
  <2>1. Header \in Bytes /\ row \in Bytes
    BY <1>2, CsvAssumption DEF Header, Bytes
  <2>2. Line(Header) \in Seq(Bytes) /\ Line(row) \in Seq(Bytes) /\ <<>> \in Seq(Bytes)
    BY <2>1, LineFacts, EmptySeq
  <2> QED
    BY <2>2, ConcatProperties DEF Pending
<1>5. LET whole == file \o ((IF file = <<>> THEN Line(Header) ELSE <<>>) \o Line(row))
      IN whole \in Seq(Bytes) /\ Begins(file, whole) /\ Sound(whole, row, Gap)
         /\ Holds(whole, row)
  BY <1>1, <1>2, <1>3, RowStandsLast
<1> QED
  BY <1>4, <1>5 DEF Pending

-----------------------------------------------------------------------------
\* The types, but for the contents of the card.
LEMMA CsvTypesKept ==
    ASSUME CsvIInv, [CsvNext]_csvVars
    PROVE  /\ confirmed' \subseteq 1..row'
           /\ row' \in 0..MaxRows /\ ring' \in BOOLEAN
           /\ at' \in {"idle", "repair", "repairSync", "write", "sync", "close",
                       "mend", "mendSync"}
           /\ faults' \in 0..MaxFaults /\ file' \in survivors'
<1>0. /\ confirmed \subseteq 1..row /\ row \in 0..MaxRows /\ ring \in BOOLEAN
      /\ at \in {"idle", "repair", "repairSync", "write", "sync", "close", "mend", "mendSync"}
      /\ faults \in 0..MaxFaults /\ file \in survivors /\ MaxFaults \in Nat /\ MaxRows \in Nat
  BY CsvAssumption DEF CsvIInv, CsvTypeOK
<1>1. CASE \E again \in BOOLEAN : AppendLog(again)
  BY <1>0, <1>1 DEF AppendLog
<1>2. CASE LoadCheckpoint
  BY <1>0, <1>2 DEF LoadCheckpoint
<1>3. CASE RepairScan
  BY <1>0, <1>3 DEF RepairScan, Put, AfterRepair
<1>4. CASE RepairSync
  BY <1>0, <1>4 DEF RepairSync, Synced
<1>5. CASE PrepareFails
  BY <1>0, <1>5 DEF PrepareFails, CanFail
<1>6. CASE WriteRow
  BY <1>0, <1>6 DEF WriteRow, Put
<1>7. CASE RowWriteFails
  BY <1>0, <1>7 DEF RowWriteFails, CanFail, Put
<1>8. CASE SyncRow
  BY <1>0, <1>8 DEF SyncRow, Synced
<1>9. CASE CloseRow
  <2>1. 0 < row
    BY <1>9 DEF CloseRow, CsvIInv, CsvSteps
  <2> QED
    BY <1>0, <1>9, <2>1 DEF CloseRow
<1>10. CASE SaveFails
  BY <1>0, <1>10 DEF SaveFails, CanFail
<1>11. CASE CsvPowerLoss
  BY <1>0, <1>11 DEF CsvPowerLoss, CanFail
<1>12. CASE UNCHANGED csvVars
  BY <1>0, <1>12 DEF csvVars
<1> QED
  BY <1>1, <1>2, <1>3, <1>4, <1>5, <1>6, <1>7, <1>8, <1>9, <1>10, <1>11, <1>12 DEF CsvNext

\* What the card may hold keeps its lines and the confirmed rows in every step.
LEMMA KeptKept ==
    ASSUME CsvIInv, [CsvNext]_csvVars
    PROVE  Kept'
<1>0. /\ row \in Nat /\ row' \in Nat /\ file \in survivors
      /\ \A b \in survivors : b \in Seq(Bytes) /\ Sound(b, row, Gap)
                              /\ \A number \in confirmed : Holds(b, number)
  BY CsvTypesKept DEF CsvIInv, CsvTypeOK, Kept, Keeps
<1>r. ASSUME NEW b, b \in Seq(Bytes), Sound(b, row, Gap), Gap' = Gap, row <= row',
             \A number \in confirmed' : Holds(b, number)
      PROVE  Keeps(b)'
  BY <1>0, <1>r, SoundGrows DEF Keeps
<1>s. ASSUME survivors' \subseteq survivors, ring' = ring, row <= row',
             confirmed' \subseteq confirmed
      PROVE  Kept'
  BY <1>0, <1>s, <1>r DEF Kept, Gap
<1>p. ASSUME NEW bytes \in Seq(Bytes), Put(bytes), UNCHANGED <<confirmed, row, ring>>,
             Sound(bytes, row, Gap), \A number \in confirmed : Holds(bytes, number)
      PROVE  Kept'
  BY <1>0, <1>p, <1>r DEF Kept, Gap, Put
<1>1. CASE \E again \in BOOLEAN : AppendLog(again)
  BY <1>0, <1>1, <1>s DEF AppendLog
<1>2. CASE LoadCheckpoint
  BY <1>0, <1>2, <1>s DEF LoadCheckpoint
<1>3. CASE RepairScan
  <2>1. CASE RepairedLength(file) < Len(file)
    <3>1. Put(SubSeq(file, 1, RepairedLength(file))) /\ UNCHANGED <<confirmed, row, ring>>
      BY <1>3, <2>1 DEF RepairScan
    <3>2. LET cut == SubSeq(file, 1, RepairedLength(file))
          IN /\ cut \in Seq(Bytes) /\ Begins(cut, file)
             /\ \A number : Holds(file, number) => Holds(cut, number)
      BY <1>0, RepairCuts
    <3>3. Gap \in Nat
      BY DEF Gap
    <3>4. Sound(SubSeq(file, 1, RepairedLength(file)), row, Gap)
      BY <1>0, <3>2, <3>3, BeginsSound
    <3> QED
      BY <1>0, <3>1, <3>2, <3>4, <1>p
  <2>2. CASE ~ RepairedLength(file) < Len(file)
    BY <1>0, <1>3, <2>2, <1>s DEF RepairScan
  <2> QED
    BY <2>1, <2>2
<1>4. CASE RepairSync
  BY <1>0, <1>4, <1>s DEF RepairSync, Synced
<1>5. CASE PrepareFails
  BY <1>0, <1>5, <1>s DEF PrepareFails
<1>6. CASE WriteRow
  <2>1. Put(file \o Pending) /\ UNCHANGED <<confirmed, row, ring>> /\ at = "write"
    BY <1>6 DEF WriteRow
  <2>2. /\ file \o Pending \in Seq(Bytes) /\ Sound(file \o Pending, row, Gap)
        /\ \A number \in confirmed : Holds(file \o Pending, number)
    BY <1>0, <2>1, RowFits, HoldsLonger
  <2> QED
    BY <2>1, <2>2, <1>p
<1>7. CASE RowWriteFails
  <2>1. PICK n \in 0..Len(Pending) : Put(file \o SubSeq(Pending, 1, n))
    BY <1>7 DEF RowWriteFails
  <2>2. UNCHANGED <<confirmed, row, ring>> /\ at = "write"
    BY <1>7 DEF RowWriteFails
  <2> DEFINE part == file \o SubSeq(Pending, 1, n)
  <2>3. file \in Seq(Bytes) /\ Pending \in Seq(Bytes) /\ file \o Pending \in Seq(Bytes)
        /\ Sound(file \o Pending, row, Gap)
    BY <1>0, <2>2, RowFits
  <2>4. part \in Seq(Bytes) /\ Begins(part, file \o Pending) /\ Begins(file, part)
    BY <2>3, PartWritten
  <2>5. Gap \in Nat
    BY DEF Gap
  <2> HIDE DEF part
  <2>6. Sound(part, row, Gap)
    BY <1>0, <2>3, <2>4, <2>5, BeginsSound
  <2>7. \A number \in confirmed : Holds(part, number)
    BY <1>0, <2>4, HoldsLonger
  <2>8. Put(part)
    BY <2>1 DEF part
  <2> QED
    BY <2>2, <2>4, <2>6, <2>7, <2>8, <1>p
<1>8. CASE SyncRow
  BY <1>0, <1>8, <1>s DEF SyncRow, Synced
<1>9. CASE CloseRow
  <2>1. Holds(file, row) /\ survivors = {file}
    BY <1>9 DEF CloseRow, CsvIInv, CsvSteps
  <2>2. UNCHANGED <<survivors, row, ring>> /\ confirmed' = confirmed \cup {row}
    BY <1>9 DEF CloseRow
  <2> QED
    BY <1>0, <2>1, <2>2, <1>r DEF Kept, Gap
<1>10. CASE SaveFails
  BY <1>0, <1>10, <1>s DEF SaveFails
<1>11. CASE CsvPowerLoss
  BY <1>0, <1>11, <1>s DEF CsvPowerLoss
<1>12. CASE UNCHANGED csvVars
  BY <1>0, <1>12, <1>s DEF csvVars
<1> QED
  BY <1>1, <1>2, <1>3, <1>4, <1>5, <1>6, <1>7, <1>8, <1>9, <1>10, <1>11, <1>12 DEF CsvNext

\* The steps of an append, each with what the ones before it left.
LEMMA CsvStepsKept ==
    ASSUME CsvIInv, [CsvNext]_csvVars
    PROVE  CsvSteps'
<1>0. /\ row \in Nat /\ file \in Seq(Bytes) /\ Sound(file, row, Gap) /\ Gap \in {0, 1} /\ Gap \in Nat
      /\ ring \in BOOLEAN
  BY DEF CsvIInv, CsvTypeOK, Kept, Keeps, Gap
<1>1. ASSUME NEW again \in BOOLEAN, AppendLog(again) PROVE CsvSteps'
  <2>1. at' = "repair" /\ UNCHANGED <<file, ring>>
    BY <1>1 DEF AppendLog
  <2>2. row' \in Nat /\ 0 < row' /\ row + Gap <= row'
    <3>1. CASE again
      BY <1>0, <1>1, <3>1 DEF AppendLog, Gap
    <3>2. CASE ~again
      BY <1>0, <1>1, <3>2 DEF AppendLog
    <3> QED
      BY <3>1, <3>2
  <2>3. Below(file, row', Gap)
    BY <1>0, <2>2, SoundIsBelow
  <2>4. Gap' = Gap
    BY <2>1 DEF Gap
  <2> QED
    BY <2>1, <2>2, <2>3, <2>4 DEF CsvSteps
<1>2. CASE at' \in {"idle", "mend", "mendSync"}
  BY <1>2 DEF CsvSteps
<1>3. CASE RepairScan /\ at' \in {"repairSync", "write"}
  <2>1. at = "repair" /\ UNCHANGED <<row, ring>>
    BY <1>3 DEF RepairScan, AfterRepair, Repairing
  <2>2. 0 < row /\ Below(file, row, Gap) /\ Gap' = Gap
    BY <2>1 DEF CsvIInv, CsvSteps, Gap
  <2>3. LET cut == SubSeq(file, 1, RepairedLength(file))
        IN /\ RepairedLength(file) \in 0..Len(file)
           /\ cut \in Seq(Bytes) /\ Begins(cut, file) /\ AtLineEnd(cut)
           /\ RepairedLength(file) = Len(file) => AtLineEnd(file)
    BY <1>0, RepairCuts
  <2>4. CASE RepairedLength(file) < Len(file)
    <3>1. file' = SubSeq(file, 1, RepairedLength(file))
      BY <1>3, <2>4 DEF RepairScan, Put
    <3>2. Below(file', row, Gap)
      BY <1>0, <2>2, <2>3, <3>1, BeginsBelow
    <3> QED
      BY <1>3, <2>1, <2>2, <2>3, <3>1, <3>2 DEF CsvSteps
  <2>5. CASE ~ RepairedLength(file) < Len(file)
    <3>1. file' = file
      BY <1>3, <2>5 DEF RepairScan
    <3>2. AtLineEnd(file)
      <4>1. Len(file) \in Nat
        BY <1>0, LenProperties
      <4>2. RepairedLength(file) = Len(file)
        BY <2>3, <2>5, <4>1
      <4> QED
        BY <2>3, <4>2
    <3> QED
      BY <1>3, <2>1, <2>2, <3>1, <3>2 DEF CsvSteps
  <2> QED
    BY <2>4, <2>5
<1>4. CASE RepairSync /\ at' = "write"
  <2>1. at = "repairSync" /\ UNCHANGED <<file, row, ring>>
    BY <1>4 DEF RepairSync, Synced
  <2>2. AtLineEnd(file) /\ 0 < row /\ Below(file, row, Gap)
    BY <2>1 DEF CsvIInv, CsvSteps
  <2>3. Gap' = Gap
    BY <2>1 DEF Gap
  <2> QED
    BY <1>4, <2>1, <2>2, <2>3 DEF CsvSteps
<1>5. CASE WriteRow
  <2>1. at = "write" /\ at' = "sync" /\ file' = file \o Pending /\ row' = row
    BY <1>5 DEF WriteRow, Put
  <2>2. Holds(file \o Pending, row) /\ 0 < row
    BY <2>1, RowFits DEF CsvIInv, CsvSteps
  <2> QED
    BY <2>1, <2>2 DEF CsvSteps
<1>6. CASE SyncRow
  <2>1. at = "sync" /\ at' = "close" /\ survivors' = {file} /\ UNCHANGED <<file, row>>
    BY <1>6 DEF SyncRow, Synced
  <2>2. Holds(file, row) /\ 0 < row
    BY <2>1 DEF CsvIInv, CsvSteps
  <2> QED
    BY <2>1, <2>2 DEF CsvSteps
<1>7. CASE UNCHANGED csvVars
  <2>1. Gap' = Gap
    BY <1>7 DEF Gap, csvVars
  <2> QED
    BY <1>7, <2>1 DEF csvVars, CsvIInv, CsvSteps
<1>8. CASE LoadCheckpoint \/ PrepareFails \/ RowWriteFails \/ CloseRow \/ SaveFails \/ CsvPowerLoss
  <2>1. at' \in {"idle", "mend"}
    BY <1>8 DEF LoadCheckpoint, PrepareFails, RowWriteFails, CloseRow, SaveFails, CsvPowerLoss
  <2> QED
    BY <1>2, <2>1
<1>9. CASE RepairScan
  <2>1. at' \in {"repairSync", "mendSync", "write", "idle"}
    BY <1>9 DEF RepairScan, AfterRepair
  <2> QED
    BY <1>2, <1>3, <1>9, <2>1
<1>10. CASE RepairSync
  <2>1. at' \in {"write", "idle"}
    BY <1>10 DEF RepairSync
  <2> QED
    BY <1>2, <1>4, <1>10, <2>1
<1> QED
  BY <1>1, <1>5, <1>6, <1>7, <1>8, <1>9, <1>10 DEF CsvNext

-----------------------------------------------------------------------------
\* The inductive invariant says what the log promises its readers.
LEMMA CsvPromises ==
    ASSUME CsvIInv
    PROVE  LogInv
<1>0. /\ row \in 0..MaxRows /\ row \in Nat /\ file \in Seq(Bytes) /\ Sound(file, row, Gap)
      /\ ring \in BOOLEAN
  BY DEF CsvIInv, CsvTypeOK, Kept, Keeps
<1>1. CsvTypeOK
  BY DEF CsvIInv
<1>2. ASSUME NEW k \in 1..LineCount(file)
      PROVE  /\ KthLine(file, k) = Line(file[Lines(k - 1) + 1])
             /\ KthLine(file, k)[1] = file[Lines(k - 1) + 1]
             /\ file[Lines(k - 1) + 1] \in 0..row
             /\ (file[Lines(k - 1) + 1] = Header) <=> (k = 1)
  <2>1. k - 1 \in Nat /\ (k - 1) + 1 = k /\ Lines(k - 1) + LineBytes <= Len(file)
        /\ Lines(k - 1) < Len(file)
    BY <1>0, CountedLine
  <2>2. /\ KthLine(file, (k - 1) + 1) = Line(file[Lines(k - 1) + 1])
        /\ KthLine(file, (k - 1) + 1)[1] = file[Lines(k - 1) + 1]
    BY <1>0, <2>1, LineRead
  <2>3. /\ file[Lines(k - 1) + 1] \in 0..row
        /\ (file[Lines(k - 1) + 1] = Header) <=> (k - 1 = 0)
    BY <1>0, <2>1 DEF Sound, RowsNumbered
  <2>4. (k - 1 = 0) <=> (k = 1)
    BY <2>1
  <2> QED
    BY <2>1, <2>2, <2>3, <2>4
<1>3. LinesWhole
  <2>1. ASSUME NEW k \in 1..LineCount(file)
        PROVE  \E number \in 0..row : /\ KthLine(file, k) = Line(number)
                                      /\ (number = Header) <=> (k = 1)
    BY <1>2
  <2>2. \E number \in 0..row :
          IsPrefix(SubSeq(file, LineCount(file) * LineBytes + 1, Len(file)), Line(number))
    BY <1>0, TailRead
  <2> QED
    BY <2>1, <2>2 DEF LinesWhole
<1>4. RowsInOrder
  <2> SUFFICES ASSUME NEW k \in 2..LineCount(file)
               PROVE  \/ Numbers(file)[k - 1] < Numbers(file)[k]
                      \/ ring /\ Numbers(file)[k - 1] = Numbers(file)[k]
    BY DEF RowsInOrder
  <2>0. LineCount(file) \in Nat
    BY <1>0, LenProperties, LineOfByte DEF LineCount
  <2>1. k \in 1..LineCount(file) /\ k - 1 \in 1..LineCount(file)
    BY <2>0
  <2>2. PICK j \in Nat : j + 1 = k - 1 /\ (k - 1) - 1 = j
    BY <2>0
  <2>3. Lines(j + 1) < Len(file)
    BY <1>0, <2>1, <2>2, CountedLine
  <2>4. file[Lines(j) + 1] + Gap <= file[Lines(j + 1) + 1]
    BY <1>0, <2>3 DEF Sound, RowsAscend
  <2>5. Numbers(file)[k - 1] = file[Lines(j) + 1] /\ Numbers(file)[k] = file[Lines(j + 1) + 1]
    BY <1>2, <2>1, <2>2 DEF Numbers
  <2>6. file[Lines(j) + 1] \in 0..row /\ file[Lines(j + 1) + 1] \in 0..row
    BY <1>2, <2>1, <2>2
  <2>7. CASE ring
    <3>1. Gap = 0
      BY <2>7 DEF Gap
    <3>2. \/ file[Lines(j) + 1] < file[Lines(j + 1) + 1]
          \/ file[Lines(j) + 1] = file[Lines(j + 1) + 1]
      BY <2>4, <2>6, <3>1
    <3> QED
      BY <2>5, <2>7, <3>2
  <2>8. CASE ~ring
    <3>1. Gap = 1
      BY <2>8 DEF Gap
    <3>2. file[Lines(j) + 1] < file[Lines(j + 1) + 1]
      BY <2>4, <2>6, <3>1
    <3> QED
      BY <2>5, <3>2
  <2> QED
    BY <2>7, <2>8
<1>5. RepairKeepsLines
  <2>1. RepairedLength(file) = LastEnd(file, Len(file))
    BY <1>0, RepairedIsLastEnd
  <2> QED
    BY <2>1 DEF RepairKeepsLines, LastEnd, Ends
<1>6. ConfirmedKept
  <2> SUFFICES ASSUME NEW number \in confirmed, NEW b \in survivors
               PROVE  \E k \in 1..LineCount(b) : KthLine(b, k) = Line(number)
    BY DEF ConfirmedKept
  <2>1. b \in Seq(Bytes) /\ Sound(b, row, Gap) /\ Holds(b, number)
    BY DEF CsvIInv, Kept, Keeps
  <2>2. PICK k \in Nat : Lines(k) + LineBytes <= Len(b) /\ b[Lines(k) + 1] = number
    BY <2>1 DEF Holds
  <2>3. k + 1 \in 1..LineCount(b)
    BY <2>1, <2>2, LineCounted
  <2>4. KthLine(b, k + 1) = Line(b[Lines(k) + 1])
    BY <1>0, <2>1, <2>2, LineRead
  <2> QED
    BY <2>2, <2>3, <2>4
<1> QED
  BY <1>1, <1>3, <1>4, <1>5, <1>6 DEF LogInv

\* The empty file is sound.
LEMMA CsvStarts == CsvInit => CsvIInv
<1> SUFFICES ASSUME CsvInit PROVE CsvIInv
  OBVIOUS
<1>0. <<>> \in Seq(Bytes) /\ Len(<<>>) = 0
  BY EmptySeq
<1>1. Sound(<<>>, row, Gap)
  <2>1. ASSUME NEW k \in Nat
        PROVE  Lines(k) \in Nat /\ Lines(k + 1) \in Nat /\ LineBytes \in Nat /\ 1 <= LineBytes
    BY <2>1, LineSizes
  <2>2. RowsAlike(<<>>)
    <3> SUFFICES ASSUME NEW k \in Nat, NEW o \in 1..RowBytes, Lines(k) + o <= Len(<<>>)
                 PROVE  FALSE
      BY DEF RowsAlike
    <3>1. o \in Nat /\ 1 <= o
      BY CsvAssumption
    <3> QED
      BY <1>0, <2>1, <3>1
  <2>3. RowsEnd(<<>>)
    BY <1>0, <2>1 DEF RowsEnd
  <2>4. RowsNumbered(<<>>, row)
    BY <1>0, <2>1 DEF RowsNumbered
  <2>5. RowsAscend(<<>>, Gap)
    BY <1>0, <2>1 DEF RowsAscend
  <2> QED
    BY <2>2, <2>3, <2>4, <2>5 DEF Sound
<1>2. Kept
  BY <1>0, <1>1 DEF CsvInit, Kept, Keeps
<1>3. CsvTypeOK
  BY <1>0, CsvAssumption DEF CsvInit, CsvTypeOK, Bytes
<1>4. CsvSteps
  BY DEF CsvInit, CsvSteps
<1> QED
  BY <1>2, <1>3, <1>4 DEF CsvIInv

LEMMA CsvIInvKept == CsvIInv /\ [CsvNext]_csvVars => CsvIInv'
<1> SUFFICES ASSUME CsvIInv, [CsvNext]_csvVars PROVE CsvIInv'
  OBVIOUS
<1>1. Kept' /\ CsvSteps'
  BY KeptKept, CsvStepsKept
<1>2. CsvTypeOK'
  BY <1>1, CsvTypesKept DEF CsvTypeOK, Kept, Keeps, Bytes
<1> QED
  BY <1>1, <1>2 DEF CsvIInv

\* The log keeps what it promises: whole lines in order, a repair that keeps them, and every
\* confirmed row through every failure and power loss (LogInv).
THEOREM LogsKeepRows == CsvSpec => []LogInv
BY CsvIInvKept, CsvStarts, CsvPromises, PTL DEF CsvSpec

-----------------------------------------------------------------------------
(***************************************************************************)
(* The log as rows.                                                        *)
(***************************************************************************)

\* The rows behind the header of any content, and how many they are.
EntriesOf(b) == [k \in 1..LineCount(b) - 1 |-> b[Lines(k) + 1]]
Entries(b, m) ==
    /\ m = 0 \/ Lines(m) + LineBytes <= Len(b)
    /\ Len(b) < Lines(m + 1) + LineBytes

LEMMA WholeLines ==
    ASSUME NEW b \in Seq(Bytes)
    PROVE  /\ LineCount(b) \in Nat /\ Len(b) \in Nat
           /\ Len(b) < Lines(LineCount(b)) + LineBytes
           /\ \A k \in Nat : Lines(k) + LineBytes <= Len(b) <=> k < LineCount(b)
<1>0. Len(b) \in Nat
  BY LenProperties
<1>1. LineCount(b) \in Nat /\ Len(b) < Lines(LineCount(b)) + LineBytes
  BY <1>0, LineOfByte DEF LineCount
<1> HIDE DEF Lines, LineBytes
<1>2. ASSUME NEW k \in Nat, Lines(k) + LineBytes <= Len(b) PROVE k < LineCount(b)
  BY <1>1, <1>2, LineCounted
<1>3. ASSUME NEW k \in Nat, k < LineCount(b) PROVE Lines(k) + LineBytes <= Len(b)
  <2>1. k + 1 \in 1..LineCount(b) /\ (k + 1) - 1 = k
    BY <1>1, <1>3
  <2>2. Lines((k + 1) - 1) + LineBytes <= Len(b)
    BY <2>1, CountedLine
  <2> QED
    BY <2>1, <2>2
<1> QED
  BY <1>0, <1>1, <1>2, <1>3

\* Every content has a number of rows, ...
LEMMA EntriesCounted ==
    ASSUME NEW b \in Seq(Bytes)
    PROVE  \E m \in Nat : Entries(b, m)
<1>s. LineBytes \in Nat /\ \A k \in Nat : Lines(k) \in Nat
  BY LineSizes
<1> HIDE DEF Lines, LineBytes
<1>0. PICK c \in Nat : c = LineCount(b)
  BY WholeLines
<1>1. /\ Len(b) \in Nat /\ Len(b) < Lines(c) + LineBytes
      /\ \A k \in Nat : Lines(k) + LineBytes <= Len(b) <=> k < c
  BY <1>0, WholeLines
<1>2. CASE c = 0
  <2>1. Lines(0 + 1) = Lines(0) + LineBytes
    BY LinesFollow
  <2>2. Len(b) < Lines(0 + 1) + LineBytes
    BY <1>1, <1>2, <1>s, <2>1
  <2> QED
    BY <2>2 DEF Entries
<1>3. CASE c # 0
  <2>1. PICK m \in Nat : c = m + 1
    BY <1>3
  <2>2. Lines(m) + LineBytes <= Len(b)
    BY <1>1, <2>1
  <2> QED
    BY <1>1, <2>1, <2>2 DEF Entries
<1> QED
  BY <1>2, <1>3

\* ... and they are the first bytes of its whole lines but for the first.
LEMMA EntriesAre ==
    ASSUME NEW b \in Seq(Bytes), NEW m \in Nat, Entries(b, m)
    PROVE  /\ EntriesOf(b) \in Seq(Bytes) /\ Len(EntriesOf(b)) = m
           /\ \A k \in 1..m : /\ EntriesOf(b)[k] = b[Lines(k) + 1]
                              /\ Lines(k) + LineBytes <= Len(b)
<1>s. LineBytes \in Nat /\ 1 <= LineBytes
  BY LineSizes
<1>k. \A k \in Nat : Lines(k) \in Nat
  BY LineSizes
<1> HIDE DEF Lines, LineBytes, Bytes
<1>0. PICK c \in Nat : c = LineCount(b)
  BY WholeLines
<1>1. /\ Len(b) \in Nat /\ b \in [1..Len(b) -> Bytes]
      /\ \A k \in Nat : Lines(k) + LineBytes <= Len(b) <=> k < c
  BY <1>0, WholeLines, LenProperties
<1>2. c <= m + 1
  <2> SUFFICES ASSUME m + 1 < c PROVE FALSE
    OBVIOUS
  <2>1. Lines(m + 1) + LineBytes <= Len(b) /\ Lines(m + 1) \in Nat /\ Len(b) \in Nat
    BY <1>1, <1>k, SMTT(60)
  <2> QED
    BY <2>1, <1>s DEF Entries
<1>3. m = 0 \/ m < c
  BY <1>1 DEF Entries
<1>4. 1..c - 1 = 1..m
  BY <1>2, <1>3
<1>5. EntriesOf(b) = [k \in 1..m |-> b[Lines(k) + 1]]
  BY <1>0, <1>4 DEF EntriesOf
<1>6. ASSUME NEW k \in 1..m
      PROVE  Lines(k) + LineBytes <= Len(b) /\ b[Lines(k) + 1] \in Bytes
  <2>1. k \in Nat /\ k < c
    BY <1>3
  <2>2. Lines(k) + LineBytes <= Len(b) /\ Lines(k) \in Nat
    BY <2>1, <1>1, <1>k
  <2>3. Len(b) \in Nat
    BY <1>1
  <2>4. Lines(k) + 1 \in 1..Len(b)
    BY <2>2, <2>3, <1>s
  <2> QED
    BY <2>2, <2>4, <1>1
<1>7. EntriesOf(b) \in [1..m -> Bytes]
  BY <1>5, <1>6
<1>8. EntriesOf(b) \in Seq(Bytes)
  BY <1>7 DEF Seq
<1>9. Len(EntriesOf(b)) = m
  <2>1. PICK l \in Nat : l = Len(EntriesOf(b))
    BY <1>8, LenProperties
  <2>2. 1..l = 1..m
    BY <1>7, <1>8, <2>1, LenProperties
  <2>3. (l \in 1..m \/ l = 0) /\ (m \in 1..l \/ m = 0)
    BY <2>2
  <2>4. l = m
    BY <2>3
  <2> QED
    BY <2>1, <2>4
<1> QED
  BY <1>5, <1>6, <1>8, <1>9

\* Contents with as many rows and the same ones are the same log to a reader.
LEMMA EntriesSame ==
    ASSUME NEW b \in Seq(Bytes), NEW c \in Seq(Bytes), NEW m \in Nat,
           Entries(b, m), Entries(c, m),
           \A k \in 1..m : b[Lines(k) + 1] = c[Lines(k) + 1]
    PROVE  EntriesOf(b) = EntriesOf(c)
<1> HIDE DEF Lines, Bytes
<1>1. /\ EntriesOf(b) \in Seq(Bytes) /\ Len(EntriesOf(b)) = m
      /\ \A k \in 1..m : EntriesOf(b)[k] = b[Lines(k) + 1]
  BY EntriesAre
<1>2. /\ EntriesOf(c) \in Seq(Bytes) /\ Len(EntriesOf(c)) = m
      /\ \A k \in 1..m : EntriesOf(c)[k] = c[Lines(k) + 1]
  BY EntriesAre
<1>3. \A k \in 1..Len(EntriesOf(b)) : EntriesOf(b)[k] = EntriesOf(c)[k]
  BY <1>1, <1>2
<1> QED
  BY <1>1, <1>2, <1>3, SeqEqual

\* The repair takes no row away.
LEMMA RepairKeepsEntries ==
    ASSUME NEW b \in Seq(Bytes), NEW upTo \in Nat, NEW gap, Sound(b, upTo, gap),
           NEW m \in Nat, Entries(b, m)
    PROVE  LET cut == SubSeq(b, 1, RepairedLength(b))
           IN /\ cut \in Seq(Bytes) /\ Entries(cut, m) /\ Begins(cut, b)
              /\ \A k \in Nat : Lines(k) + LineBytes <= Len(b) => Lines(k) + LineBytes <= Len(cut)
<1> DEFINE cut == SubSeq(b, 1, RepairedLength(b))
<1>s. LineBytes \in Nat /\ 1 <= LineBytes
  BY LineSizes
<1>k. \A k \in Nat : Lines(k) \in Nat
  BY LineSizes
<1>0. PICK c \in Nat : c = LineCount(b)
  BY WholeLines
<1>1. /\ Len(b) \in Nat /\ \A k \in Nat : Lines(k) + LineBytes <= Len(b) <=> k < c
  BY <1>0, WholeLines
<1>2. RepairedLength(b) = Lines(c)
  BY <1>0, SoundEnd, RepairedIsLastEnd DEF LineCount
<1>3. cut \in Seq(Bytes) /\ Begins(cut, b) /\ RepairedLength(b) \in 0..Len(b)
  BY RepairCuts
<1>4. Len(cut) = Lines(c)
  <2>1. b \in [1..Len(b) -> Bytes]
    BY LenProperties
  <2>2. \A i \in 1..RepairedLength(b) : b[i] \in Bytes
    BY <2>1, <1>1, <1>3
  <2>3. Len(cut) = IF 1 <= RepairedLength(b) THEN RepairedLength(b) - 1 + 1 ELSE 0
    BY <2>2, <1>3, SubSeqProperties
  <2> QED
    BY <2>3, <1>2, <1>3
<1> HIDE DEF cut, Lines, LineBytes
<1>5. ASSUME NEW k \in Nat, Lines(k) + LineBytes <= Len(b)
      PROVE  Lines(k) + LineBytes <= Len(cut)
  <2>1. k < c
    BY <1>1, <1>5
  <2> QED
    BY <2>1, <1>4, LinesFollow
<1>6. Len(cut) <= Len(b) /\ Len(cut) \in Nat
  BY <1>3, BeginsAgree
<1>7. Entries(cut, m)
  <2>1. Lines(m + 1) \in Nat
    BY <1>k, SMTT(60)
  <2>2. Len(cut) < Lines(m + 1) + LineBytes
    BY <2>1, <1>s, <1>1, <1>6 DEF Entries
  <2> QED
    BY <2>2, <1>5 DEF Entries
<1> QED
  BY <1>3, <1>5, <1>7 DEF cut

\* A row that is written comes to stand behind the others; until its last byte is there,
\* a reader sees nothing of it.
LEMMA RowComesLast ==
    ASSUME CsvIInv, at = "write"
    PROVE  \E m \in Nat :
             /\ Entries(file, m) /\ Entries(file \o Pending, m + 1)
             /\ (file \o Pending)[Lines(m + 1) + 1] = row
             /\ Len(file \o Pending) = Lines(m + 1) + LineBytes
<1> DEFINE whole == file \o Pending
<1>s. LineBytes \in Nat /\ 1 <= LineBytes /\ 1 \in 1..RowBytes /\ Lines(0) = 0
  BY LineSizes, CsvAssumption
<1>k. \A k \in Nat : Lines(k) \in Nat
  BY LineSizes
<1>0. /\ file \in Seq(Bytes) /\ AtLineEnd(file) /\ Header \in Bytes /\ row \in Bytes
  BY CsvAssumption DEF CsvIInv, CsvTypeOK, CsvSteps, Kept, Keeps, Bytes, Header
<1> HIDE DEF Lines, LineBytes, Bytes, NL, Header
<1>l. /\ Line(Header) \in Seq(Bytes) /\ Len(Line(Header)) = LineBytes
      /\ Line(row) \in Seq(Bytes) /\ Len(Line(row)) = LineBytes /\ Line(row)[1] = row
  BY <1>0, <1>s, LineFacts
<1> HIDE DEF Line
<1>c. ASSUME NEW m \in Nat, whole \in Seq(Bytes), Len(whole) = Lines(m + 1) + LineBytes,
             Entries(file, m), whole[Lines(m + 1) + 1] = row
      PROVE  \E j \in Nat :
                /\ Entries(file, j) /\ Entries(whole, j + 1)
                /\ whole[Lines(j + 1) + 1] = row
                /\ Len(whole) = Lines(j + 1) + LineBytes
  <2>1. Lines((m + 1) + 1) = Lines(m + 1) + LineBytes
    BY LinesFollow
  <2>2. Lines(m + 1) \in Nat
    BY <1>k
  <2>3. Entries(whole, m + 1)
    BY <1>c, <1>s, <2>1, <2>2 DEF Entries
  <2> QED
    BY <1>c, <2>3
<1>1. CASE file = <<>>
  <2>1. Len(file) = 0
    BY <1>1, EmptySeq
  <2>2. Lines(0 + 1) = LineBytes
    BY <1>s, LinesFollow
  <2>3. Entries(file, 0)
    BY <2>1, <2>2, <1>s DEF Entries
  <2>4. whole = Line(Header) \o Line(row)
    <3>1. Pending = Line(Header) \o Line(row)
      BY <1>1 DEF Pending
    <3>2. Pending \in Seq(Bytes)
      BY <3>1, <1>l, ConcatProperties
    <3>3. <<>> \o Pending = Pending
      BY <3>2, ConcatEmptySeq
    <3> QED
      BY <1>1, <3>1, <3>3
  <2>5. whole \in Seq(Bytes) /\ Len(whole) = LineBytes + LineBytes
    BY <2>4, <1>l, ConcatProperties
  <2>6. whole[LineBytes + 1] = row
    <3>1. /\ LineBytes + 1 \in 1..LineBytes + LineBytes /\ ~ LineBytes + 1 <= LineBytes
          /\ (LineBytes + 1) - LineBytes = 1
      BY <1>s
    <3>2. \A i \in 1..LineBytes + LineBytes : (Line(Header) \o Line(row))[i] =
            IF i <= LineBytes THEN Line(Header)[i] ELSE Line(row)[i - LineBytes]
      BY <1>l, ConcatProperties
    <3> QED
      BY <2>4, <3>1, <3>2, <1>l
  <2> HIDE DEF whole
  <2>7. Len(whole) = Lines(0 + 1) + LineBytes /\ whole[Lines(0 + 1) + 1] = row
    BY <2>2, <2>5, <2>6
  <2>8. \E j \in Nat :
          /\ Entries(file, j) /\ Entries(whole, j + 1)
          /\ whole[Lines(j + 1) + 1] = row
          /\ Len(whole) = Lines(j + 1) + LineBytes
    BY <2>3, <2>5, <2>7, <1>c
  <2> QED
    BY <2>8 DEF whole
<1>2. CASE file # <<>>
  <2>1. PICK n \in Nat : Len(file) = Lines(n)
    BY <1>0 DEF AtLineEnd
  <2>2. n # 0
    BY <2>1, <1>0, <1>2, <1>s, EmptySeq
  <2>3. PICK m \in Nat : n = m + 1
    BY <2>2
  <2>4. Lines(m + 1) = Lines(m) + LineBytes /\ Lines(m) \in Nat /\ Lines(m + 1) \in Nat
    BY <1>k, LinesFollow
  <2>5. Entries(file, m)
    BY <2>1, <2>3, <2>4, <1>s DEF Entries
  <2>6. Pending = Line(row)
    BY <1>2, <1>l, ConcatEmptySeq DEF Pending
  <2>7. whole \in Seq(Bytes) /\ Len(whole) = Lines(m + 1) + LineBytes
    BY <2>1, <2>3, <2>6, <1>0, <1>l, ConcatProperties, ZenonT(60)
  <2>8. whole[Lines(m + 1) + 1] = row
    <3>1. /\ Lines(m + 1) + 1 \in 1..Lines(m + 1) + LineBytes
          /\ ~ Lines(m + 1) + 1 <= Lines(m + 1) /\ (Lines(m + 1) + 1) - Lines(m + 1) = 1
      BY <1>s, <2>4
    <3>2. \A i \in 1..Len(file) + Len(Line(row)) : (file \o Line(row))[i] =
            IF i <= Len(file) THEN file[i] ELSE Line(row)[i - Len(file)]
      BY <1>0, <1>l, ConcatProperties
    <3>3. \A i \in 1..Lines(m + 1) + LineBytes : (file \o Line(row))[i] =
            IF i <= Lines(m + 1) THEN file[i] ELSE Line(row)[i - Lines(m + 1)]
      BY <3>2, <2>1, <2>3, <1>l
    <3> QED
      BY <2>6, <3>1, <3>3, <1>l
  <2> HIDE DEF whole
  <2>9. \E j \in Nat :
          /\ Entries(file, j) /\ Entries(whole, j + 1)
          /\ whole[Lines(j + 1) + 1] = row
          /\ Len(whole) = Lines(j + 1) + LineBytes
    BY <2>5, <2>7, <2>8, <1>c
  <2> QED
    BY <2>9 DEF whole
<1> QED
  BY <1>1, <1>2

-----------------------------------------------------------------------------
\* What a power loss may leave has no whole line that the file has not, and a row that is
\* about to be written was not confirmed.
Behind(b, longer) ==
    \A k \in Nat : Lines(k) + LineBytes <= Len(b) =>
        /\ Lines(k) + LineBytes <= Len(longer)
        /\ b[Lines(k) + 1] = longer[Lines(k) + 1]
SurvivorsBehind == \A b \in survivors : Behind(b, file)
RowFresh == at \in {"repair", "repairSync", "write"} => row \notin confirmed
PromiseIInv == CsvIInv /\ SurvivorsBehind /\ RowFresh

LEMMA BeginsBehind ==
    ASSUME NEW b \in Seq(Bytes), NEW longer \in Seq(Bytes), Begins(b, longer)
    PROVE  Behind(b, longer)
<1>s. LineBytes \in Nat /\ 1 <= LineBytes
  BY LineSizes
<1>k. \A k \in Nat : Lines(k) \in Nat
  BY LineSizes
<1>0. /\ Len(b) \in Nat /\ Len(longer) \in Nat /\ Len(b) <= Len(longer)
      /\ \A i \in Nat : 1 <= i /\ i <= Len(b) => b[i] = longer[i]
  BY BeginsAgree
<1> HIDE DEF Lines, LineBytes
<1> SUFFICES ASSUME NEW k \in Nat, Lines(k) + LineBytes <= Len(b)
             PROVE  /\ Lines(k) + LineBytes <= Len(longer)
                    /\ b[Lines(k) + 1] = longer[Lines(k) + 1]
  BY DEF Behind
<1>1. Lines(k) \in Nat
  BY <1>k
<1>2. Lines(k) + 1 \in Nat /\ 1 <= Lines(k) + 1 /\ Lines(k) + 1 <= Len(b)
  BY <1>0, <1>s, <1>1
<1>3. Lines(k) + LineBytes <= Len(longer)
  BY <1>0, <1>s, <1>1
<1> QED
  BY <1>0, <1>2, <1>3

\* The repaired file is behind the one before, and the other way round.
LEMMA RepairedBehind ==
    ASSUME NEW b \in Seq(Bytes), NEW upTo \in Nat, NEW gap, Sound(b, upTo, gap)
    PROVE  Behind(b, SubSeq(b, 1, RepairedLength(b)))
<1> DEFINE cut == SubSeq(b, 1, RepairedLength(b))
<1>0. PICK m \in Nat : Entries(b, m)
  BY EntriesCounted
<1>1. /\ cut \in Seq(Bytes) /\ Begins(cut, b)
      /\ \A k \in Nat : Lines(k) + LineBytes <= Len(b) => Lines(k) + LineBytes <= Len(cut)
  BY <1>0, RepairKeepsEntries
<1> HIDE DEF cut, Lines, LineBytes
<1>2. Behind(cut, b)
  BY <1>1, BeginsBehind
<1>3. Behind(b, cut)
  BY <1>1, <1>2 DEF Behind
<1> QED
  BY <1>3 DEF cut

LEMMA PromiseIInvKept ==
    ASSUME PromiseIInv, [CsvNext]_csvVars, CsvIInv'
    PROVE  PromiseIInv'
<1>0. /\ CsvIInv /\ (\A b \in survivors : Behind(b, file)) /\ file \in survivors
      /\ file \in Seq(Bytes) /\ row \in Nat /\ Sound(file, row, Gap)
      /\ \A b \in survivors : b \in Seq(Bytes)
  BY DEF PromiseIInv, SurvivorsBehind, CsvIInv, CsvTypeOK, Kept, Keeps
<1>a. ASSUME NEW b, NEW c, NEW d, Behind(b, c), Behind(c, d) PROVE Behind(b, d)
  BY <1>a DEF Behind
<1>p. ASSUME NEW bytes \in Seq(Bytes), Put(bytes), Behind(file, bytes) PROVE SurvivorsBehind'
  <2> SUFFICES ASSUME NEW b \in survivors \cup {bytes} PROVE Behind(b, bytes)
    BY <1>p DEF SurvivorsBehind, Put
  <2>1. CASE b \in survivors
    BY <2>1, <1>0, <1>p, <1>a
  <2>2. CASE b = bytes
    BY <2>2 DEF Behind
  <2> QED
    BY <2>1, <2>2
<1>1. SurvivorsBehind'
  <2>1. CASE UNCHANGED <<file, survivors>>
    BY <1>0, <2>1 DEF SurvivorsBehind
  <2>2. CASE survivors' = {file'}
    BY <2>2 DEF SurvivorsBehind, Behind
  <2>3. CASE RepairScan
    <3>1. CASE RepairedLength(file) < Len(file)
      <4>1. Put(SubSeq(file, 1, RepairedLength(file)))
        BY <2>3, <3>1 DEF RepairScan
      <4>2. SubSeq(file, 1, RepairedLength(file)) \in Seq(Bytes)
        BY <1>0, RepairCuts
      <4>3. Behind(file, SubSeq(file, 1, RepairedLength(file)))
        BY <1>0, RepairedBehind
      <4> QED
        BY <4>1, <4>2, <4>3, <1>p
    <3>2. CASE ~ RepairedLength(file) < Len(file)
      BY <2>1, <2>3, <3>2 DEF RepairScan
    <3> QED
      BY <3>1, <3>2
  <2>4. CASE WriteRow
    <3>1. Put(file \o Pending) /\ at = "write"
      BY <2>4 DEF WriteRow
    <3>2. file \o Pending \in Seq(Bytes) /\ Begins(file, file \o Pending)
      BY <1>0, <3>1, RowFits
    <3> QED
      BY <1>0, <3>1, <3>2, <1>p, BeginsBehind
  <2>5. CASE RowWriteFails
    <3>1. PICK n \in 0..Len(Pending) : Put(file \o SubSeq(Pending, 1, n))
      BY <2>5 DEF RowWriteFails
    <3>2. at = "write"
      BY <2>5 DEF RowWriteFails
    <3>3. Pending \in Seq(Bytes)
      BY <1>0, <3>2, RowFits
    <3>4. file \o SubSeq(Pending, 1, n) \in Seq(Bytes) /\ Begins(file, file \o SubSeq(Pending, 1, n))
      BY <1>0, <3>3, PartWritten
    <3> QED
      BY <1>0, <3>1, <3>4, <1>p, BeginsBehind
  <2>6. CASE RepairSync \/ SyncRow \/ CsvPowerLoss
    BY <2>2, <2>6 DEF RepairSync, SyncRow, Synced, CsvPowerLoss
  <2>7. CASE (\E again \in BOOLEAN : AppendLog(again)) \/ LoadCheckpoint \/ PrepareFails
             \/ CloseRow \/ SaveFails \/ UNCHANGED csvVars
    BY <2>1, <2>7 DEF AppendLog, LoadCheckpoint, PrepareFails, CloseRow, SaveFails, csvVars
  <2> QED
    BY <2>3, <2>4, <2>5, <2>6, <2>7 DEF CsvNext
<1>2. RowFresh'
  <2>0. RowFresh /\ confirmed \subseteq 1..row
    BY DEF PromiseIInv, CsvIInv, CsvTypeOK
  <2>1. ASSUME NEW again \in BOOLEAN, AppendLog(again) PROVE RowFresh'
    <3>1. CASE again
      BY <2>1, <3>1 DEF AppendLog, RowFresh
    <3>2. CASE ~again
      <4>1. row' = row + 1 /\ confirmed' = confirmed
        BY <2>1, <3>2 DEF AppendLog
      <4>2. row + 1 \notin 1..row
        BY <1>0
      <4> QED
        BY <2>0, <4>1, <4>2 DEF RowFresh
    <3> QED
      BY <3>1, <3>2
  <2>2. CASE RepairScan \/ RepairSync
    BY <2>0, <2>2 DEF RepairScan, RepairSync, AfterRepair, Repairing, RowFresh
  <2>3. CASE WriteRow \/ SyncRow \/ LoadCheckpoint \/ PrepareFails \/ RowWriteFails \/ CloseRow
             \/ SaveFails \/ CsvPowerLoss
    <3>1. at' \notin {"repair", "repairSync", "write"}
      BY <2>3 DEF WriteRow, SyncRow, LoadCheckpoint, PrepareFails, RowWriteFails, CloseRow,
                  SaveFails, CsvPowerLoss
    <3> QED
      BY <3>1 DEF RowFresh
  <2>4. CASE UNCHANGED csvVars
    BY <2>0, <2>4 DEF RowFresh, csvVars
  <2> QED
    BY <2>1, <2>2, <2>3, <2>4 DEF CsvNext
<1> QED
  BY <1>1, <1>2 DEF PromiseIInv

-----------------------------------------------------------------------------
\* A row the file has is found.
LEMMA HeldIsFound ==
    ASSUME NEW b \in Seq(Bytes), NEW upTo \in Nat, NEW gap, Sound(b, upTo, gap),
           NEW number \in Nat, number # 0, Holds(b, number)
    PROVE  \E k \in 1..Len(EntriesOf(b)) : EntriesOf(b)[k] = number
<1>s. LineBytes \in Nat /\ 1 <= LineBytes /\ Len(b) \in Nat
  BY LineSizes, LenProperties
<1>k. \A k \in Nat : Lines(k) \in Nat
  BY LineSizes
<1>0. PICK m \in Nat : Entries(b, m)
  BY EntriesCounted
<1>1. Len(EntriesOf(b)) = m /\ \A k \in 1..m : EntriesOf(b)[k] = b[Lines(k) + 1]
  BY <1>0, EntriesAre
<1> HIDE DEF Lines, LineBytes
<1>2. PICK k \in Nat : Lines(k) + LineBytes <= Len(b) /\ b[Lines(k) + 1] = number
  BY DEF Holds
<1>3. k # 0
  <2>1. Lines(k) \in Nat /\ LineBytes \in Nat /\ 1 <= LineBytes /\ Len(b) \in Nat
    BY <1>s, <1>k
  <2>2. Lines(k) < Len(b)
    BY <1>2, <2>1
  <2>3. (b[Lines(k) + 1] = Header) <=> (k = 0)
    BY <2>2 DEF Sound, RowsNumbered
  <2> QED
    BY <1>2, <2>3 DEF Header
<1>4. k <= m
  <2> SUFFICES ASSUME m < k PROVE FALSE
    OBVIOUS
  <2>1. CASE k = m + 1
    BY <1>0, <1>2, <1>s, <1>k, <2>1 DEF Entries
  <2>2. CASE m + 1 < k
    <3>1. Lines(m + 1) + LineBytes <= Lines(k)
      BY <2>2, LinesFollow
    <3>2. LineBytes \in Nat /\ Len(b) \in Nat
      BY <1>s
    <3>3. Lines(m + 1) \in Nat /\ Lines(k) \in Nat
      BY <1>k, SMTT(60)
    <3>4. Len(b) < Lines(m + 1) + LineBytes
      BY <1>0 DEF Entries
    <3> QED
      BY <1>2, <3>1, <3>2, <3>3, <3>4
  <2> QED
    BY <2>1, <2>2
<1> QED
  BY <1>1, <1>2, <1>3, <1>4

\* What a power loss leaves is the first rows of the file's.
LEMMA SurvivorIsFirst ==
    ASSUME NEW b \in Seq(Bytes), NEW longer \in Seq(Bytes), Behind(b, longer)
    PROVE  \E n \in 0..Len(EntriesOf(longer)) : EntriesOf(b) = SubSeq(EntriesOf(longer), 1, n)
<1>s. LineBytes \in Nat /\ 1 <= LineBytes /\ Len(b) \in Nat /\ Len(longer) \in Nat
  BY LineSizes, LenProperties
<1>k. \A k \in Nat : Lines(k) \in Nat
  BY LineSizes
<1>0. PICK n \in Nat : Entries(b, n)
  BY EntriesCounted
<1>1. PICK m \in Nat : Entries(longer, m)
  BY EntriesCounted
<1>2. /\ EntriesOf(b) \in Seq(Bytes) /\ Len(EntriesOf(b)) = n
      /\ \A k \in 1..n : EntriesOf(b)[k] = b[Lines(k) + 1] /\ Lines(k) + LineBytes <= Len(b)
  BY <1>0, EntriesAre
<1>3. /\ EntriesOf(longer) \in Seq(Bytes) /\ Len(EntriesOf(longer)) = m
      /\ \A k \in 1..m : EntriesOf(longer)[k] = longer[Lines(k) + 1]
  BY <1>1, EntriesAre
<1> HIDE DEF Lines, LineBytes, Bytes
<1>4. n <= m
  <2> SUFFICES ASSUME m < n PROVE FALSE
    OBVIOUS
  <2>1. m + 1 \in 1..n /\ m + 1 \in Nat
    OBVIOUS
  <2>2. Lines(m + 1) + LineBytes <= Len(longer)
    BY <1>2, <2>1 DEF Behind
  <2>3. Lines(m + 1) \in Nat
    BY <1>k
  <2> QED
    BY <1>1, <1>s, <2>2, <2>3 DEF Entries
<1> DEFINE first == SubSeq(EntriesOf(longer), 1, n)
<1>5. /\ first \in Seq(Bytes) /\ Len(first) = n
      /\ \A k \in 1..n : first[k] = EntriesOf(longer)[k]
  <2>1. EntriesOf(longer) \in [1..m -> Bytes]
    BY <1>3, LenProperties
  <2>2. \A k \in 1..n : EntriesOf(longer)[k] \in Bytes
    BY <1>4, <2>1
  <2>3. /\ first \in Seq(Bytes) /\ Len(first) = IF 1 <= n THEN n - 1 + 1 ELSE 0
        /\ \A k \in 1..n - 1 + 1 : first[k] = EntriesOf(longer)[1 + k - 1]
    BY <2>2, SubSeqProperties
  <2> HIDE DEF first
  <2> QED
    BY <2>3
<1> HIDE DEF first
<1>6. \A k \in 1..n : EntriesOf(b)[k] = first[k]
  <2> SUFFICES ASSUME NEW k \in 1..n PROVE EntriesOf(b)[k] = first[k]
    OBVIOUS
  <2>1. EntriesOf(b)[k] = b[Lines(k) + 1] /\ b[Lines(k) + 1] = longer[Lines(k) + 1]
    BY <1>2 DEF Behind
  <2>2. k \in 1..m
    BY <1>4
  <2> QED
    BY <2>1, <2>2, <1>3, <1>5
<1>7. EntriesOf(b) = first
  BY <1>2, <1>5, <1>6, SeqEqual
<1>8. n \in 0..Len(EntriesOf(longer))
  BY <1>3, <1>4
<1> QED
  BY <1>7, <1>8 DEF first

\* A write adds the row, or a part of it that nobody sees.
LEMMA WriteAdds ==
    ASSUME CsvIInv, at = "write"
    PROVE  /\ EntriesOf(file \o Pending) = Append(EntriesOf(file), row)
           /\ \A n \in 0..Len(Pending) :
                \/ EntriesOf(file \o SubSeq(Pending, 1, n)) = EntriesOf(file)
                \/ EntriesOf(file \o SubSeq(Pending, 1, n)) = Append(EntriesOf(file), row)
           /\ (\E k \in 1..Len(EntriesOf(file)) : EntriesOf(file)[k] = row) => ring
<1> DEFINE whole == file \o Pending
<1>s. LineBytes \in Nat /\ 1 <= LineBytes
  BY LineSizes
<1>k. \A k \in Nat : Lines(k) \in Nat
  BY LineSizes
<1>0. /\ file \in Seq(Bytes) /\ row \in Bytes /\ Below(file, row, Gap)
      /\ Len(file) \in Nat /\ row \in Nat
  BY CsvAssumption, LenProperties DEF CsvIInv, CsvTypeOK, CsvSteps, Kept, Keeps, Bytes
<1>1. Pending \in Seq(Bytes) /\ whole \in Seq(Bytes) /\ Begins(file, whole)
  BY RowFits
<1>2. PICK m \in Nat : /\ Entries(file, m) /\ Entries(whole, m + 1)
                       /\ whole[Lines(m + 1) + 1] = row
                       /\ Len(whole) = Lines(m + 1) + LineBytes
  BY RowComesLast
<1>3. /\ EntriesOf(file) \in Seq(Bytes) /\ Len(EntriesOf(file)) = m
      /\ \A k \in 1..m : /\ EntriesOf(file)[k] = file[Lines(k) + 1]
                         /\ Lines(k) + LineBytes <= Len(file)
  BY <1>0, <1>2, EntriesAre
<1>4. /\ EntriesOf(whole) \in Seq(Bytes) /\ Len(EntriesOf(whole)) = m + 1
      /\ \A k \in 1..m + 1 : EntriesOf(whole)[k] = whole[Lines(k) + 1]
  <2>1. m + 1 \in Nat /\ whole \in Seq(Bytes) /\ Entries(whole, m + 1)
    BY <1>1, <1>2
  <2> HIDE DEF whole, Lines, LineBytes, Bytes
  <2> QED
    BY <2>1, EntriesAre
<1> HIDE DEF whole, Lines, LineBytes, Bytes
<1>b. Behind(file, whole)
  BY <1>0, <1>1, BeginsBehind
<1>5. EntriesOf(whole) = Append(EntriesOf(file), row)
  <2>1. /\ Append(EntriesOf(file), row) \in Seq(Bytes)
        /\ Len(Append(EntriesOf(file), row)) = m + 1
        /\ \A k \in 1..m : Append(EntriesOf(file), row)[k] = EntriesOf(file)[k]
        /\ Append(EntriesOf(file), row)[m + 1] = row
    BY <1>0, <1>3, AppendProperties
  <2>2. \A k \in 1..m + 1 : EntriesOf(whole)[k] = Append(EntriesOf(file), row)[k]
    <3> SUFFICES ASSUME NEW k \in 1..m + 1
                 PROVE  EntriesOf(whole)[k] = Append(EntriesOf(file), row)[k]
      OBVIOUS
    <3>1. CASE k = m + 1
      BY <3>1, <2>1, <1>2, <1>4
    <3>2. CASE k \in 1..m
      <4>1. file[Lines(k) + 1] = whole[Lines(k) + 1]
        BY <3>2, <1>b, <1>3 DEF Behind
      <4> QED
        BY <4>1, <3>2, <2>1, <1>3, <1>4
    <3>3. k = m + 1 \/ k \in 1..m
      OBVIOUS
    <3> QED
      BY <3>1, <3>2, <3>3
  <2> QED
    BY <2>1, <2>2, <1>4, SeqEqual
<1>6. ASSUME NEW n \in 0..Len(Pending)
      PROVE  \/ EntriesOf(file \o SubSeq(Pending, 1, n)) = EntriesOf(file)
             \/ EntriesOf(file \o SubSeq(Pending, 1, n)) = Append(EntriesOf(file), row)
  <2> DEFINE part == file \o SubSeq(Pending, 1, n)
  <2>1. part \in Seq(Bytes) /\ Begins(part, whole) /\ Begins(file, part)
    BY <1>0, <1>1, PartWritten DEF whole
  <2> HIDE DEF part
  <2>2. /\ Len(part) \in Nat /\ Len(part) <= Len(whole) /\ Len(file) <= Len(part)
        /\ Len(whole) \in Nat
    BY <2>1, <1>0, <1>1, BeginsAgree
  <2>3. CASE Len(part) = Len(whole)
    <3>1. \A i \in 1..Len(part) : part[i] = whole[i]
      BY <2>1 DEF Begins
    <3>2. part = whole
      BY <2>1, <2>3, <3>1, <1>1, SeqEqual
    <3> QED
      BY <3>2, <1>5 DEF part
  <2>4. CASE Len(part) # Len(whole)
    <3>1. Len(part) < Lines(m + 1) + LineBytes
      BY <2>2, <2>4, <1>2
    <3>2. m = 0 \/ Lines(m) + LineBytes <= Len(part)
      <4>1. Lines(m) + LineBytes \in Nat
        BY <1>s, <1>k, SMTT(60)
      <4>2. m = 0 \/ Lines(m) + LineBytes <= Len(file)
        BY <1>2 DEF Entries
      <4>3. Len(file) \in Nat
        BY <1>0
      <4> QED
        BY <4>1, <4>2, <4>3, <2>2
    <3>3. Entries(part, m)
      BY <3>1, <3>2 DEF Entries
    <3>4. \A k \in 1..m : part[Lines(k) + 1] = file[Lines(k) + 1]
      BY <1>0, <1>3, <2>1, BeginsBehind DEF Behind
    <3>5. EntriesOf(part) = EntriesOf(file)
      BY <1>0, <1>2, <2>1, <3>3, <3>4, EntriesSame
    <3> QED
      BY <3>5 DEF part
  <2> QED
    BY <2>3, <2>4
<1>7. ASSUME NEW k \in 1..Len(EntriesOf(file)), EntriesOf(file)[k] = row PROVE ring
  <2>1. k \in 1..m /\ k \in Nat
    BY <1>3
  <2>2. file[Lines(k) + 1] = row /\ Lines(k) + LineBytes <= Len(file) /\ Lines(k) \in Nat
    BY <1>3, <1>7, <1>k, <2>1
  <2>3. Lines(k) < Len(file)
    BY <1>0, <1>s, <2>2
  <2>4. file[Lines(k) + 1] + Gap <= row
    BY <1>0, <2>1, <2>3 DEF Below
  <2> QED
    BY <1>0, <2>2, <2>4 DEF Gap
<1> QED
  BY <1>5, <1>6, <1>7 DEF whole

-----------------------------------------------------------------------------
\* Every step of the log is one of the abstract log's, or none.
LEMMA StepIsDurable ==
    ASSUME PromiseIInv, [CsvNext]_csvVars
    PROVE  [Durably!Next]_Durably!vars
<1>0. /\ CsvIInv /\ CsvTypeOK /\ file \in Seq(Bytes) /\ file \in survivors
      /\ row \in Nat /\ Sound(file, row, Gap)
      /\ \A b \in survivors : /\ b \in Seq(Bytes) /\ Sound(b, row, Gap) /\ Behind(b, file)
                              /\ \A number \in confirmed : Holds(b, number)
      /\ \A number \in confirmed : number \in Nat /\ number # 0
  BY DEF PromiseIInv, SurvivorsBehind, CsvIInv, CsvTypeOK, Kept, Keeps
<1>e. StoredRows = EntriesOf(file) /\ StoredRows' = EntriesOf(file')
  BY DEF StoredRows, EntriesOf, Lines, LineCount, LineBytes
<1>s. ASSUME StoredRows' = StoredRows, UNCHANGED <<row, confirmed, ring>>
      PROVE  [Durably!Next]_Durably!vars
  BY <1>s DEF Durably!vars
<1>u. ASSUME UNCHANGED <<file, row, confirmed, ring>> PROVE [Durably!Next]_Durably!vars
  BY <1>u, <1>s, <1>e
<1>a. ASSUME at = "write", StoredRows' = Append(StoredRows, row), UNCHANGED <<row, confirmed, ring>>
      PROVE  Durably!Next
  <2>1. row > 0 /\ row \notin confirmed
    BY <1>a, <1>0 DEF PromiseIInv, RowFresh, CsvIInv, CsvSteps
  <2>2. (\E k \in 1..Len(StoredRows) : StoredRows[k] = row) => ring
    BY <1>a, <1>0, <1>e, WriteAdds
  <2>3. Durably!Add
    BY <1>a, <2>1, <2>2 DEF Durably!Add, Durably!Found
  <2> QED
    BY <2>3 DEF Durably!Next
<1>1. ASSUME NEW again \in BOOLEAN, AppendLog(again) PROVE [Durably!Next]_Durably!vars
  <2>1. CASE again
    BY <1>1, <1>u, <2>1 DEF AppendLog
  <2>2. CASE ~again
    <3>1. row' = row + 1 /\ UNCHANGED <<file, confirmed, ring>>
      BY <1>1, <2>2 DEF AppendLog
    <3>2. StoredRows' = StoredRows
      BY <3>1, <1>e
    <3>3. Durably!Give
      BY <3>1, <3>2 DEF Durably!Give
    <3> QED
      BY <3>3 DEF Durably!Next
  <2> QED
    BY <2>1, <2>2
<1>2. CASE LoadCheckpoint \/ RepairSync \/ PrepareFails \/ SyncRow \/ SaveFails
           \/ UNCHANGED csvVars
  <2>1. UNCHANGED <<file, row, confirmed, ring>>
    BY <1>2 DEF LoadCheckpoint, RepairSync, PrepareFails, SyncRow, SaveFails, Synced, csvVars
  <2> QED
    BY <2>1, <1>u
<1>3. CASE RepairScan
  <2>0. UNCHANGED <<row, confirmed, ring>>
    BY <1>3 DEF RepairScan
  <2>1. CASE RepairedLength(file) < Len(file)
    <3>1. file' = SubSeq(file, 1, RepairedLength(file))
      BY <1>3, <2>1 DEF RepairScan, Put
    <3>2. PICK m \in Nat : Entries(file, m)
      BY <1>0, EntriesCounted
    <3>3. file' \in Seq(Bytes) /\ Entries(file', m) /\ Begins(file', file)
      BY <1>0, <3>1, <3>2, RepairKeepsEntries
    <3>4. \A k \in 1..m : file'[Lines(k) + 1] = file[Lines(k) + 1]
      <4>1. \A k \in 1..m : Lines(k) + LineBytes <= Len(file')
        BY <3>3, EntriesAre
      <4>2. Behind(file', file)
        BY <1>0, <3>3, BeginsBehind
      <4> QED
        BY <4>1, <4>2 DEF Behind
    <3>5. EntriesOf(file') = EntriesOf(file)
      BY <1>0, <3>2, <3>3, <3>4, EntriesSame
    <3> QED
      BY <2>0, <3>5, <1>e, <1>s
  <2>2. CASE ~ RepairedLength(file) < Len(file)
    BY <1>3, <2>0, <2>2, <1>u DEF RepairScan
  <2> QED
    BY <2>1, <2>2
<1>4. CASE WriteRow
  <2>1. at = "write" /\ file' = file \o Pending /\ UNCHANGED <<row, confirmed, ring>>
    BY <1>4 DEF WriteRow, Put
  <2>2. EntriesOf(file') = Append(EntriesOf(file), row)
    BY <1>0, <2>1, WriteAdds
  <2> QED
    BY <2>1, <2>2, <1>e, <1>a
<1>5. CASE RowWriteFails
  <2>1. at = "write" /\ UNCHANGED <<row, confirmed, ring>>
    BY <1>5 DEF RowWriteFails
  <2>2. PICK n \in 0..Len(Pending) : file' = file \o SubSeq(Pending, 1, n)
    BY <1>5 DEF RowWriteFails, Put
  <2>3. EntriesOf(file') = EntriesOf(file) \/ EntriesOf(file') = Append(EntriesOf(file), row)
    BY <1>0, <2>1, <2>2, WriteAdds
  <2> QED
    BY <2>1, <2>3, <1>e, <1>a, <1>s
<1>6. CASE CloseRow
  <2>1. at = "close" /\ confirmed' = confirmed \cup {row} /\ UNCHANGED <<file, row, ring>>
    BY <1>6 DEF CloseRow
  <2>2. Holds(file, row) /\ row # 0
    BY <1>0, <2>1 DEF CsvIInv, CsvSteps
  <2>3. \E k \in 1..Len(StoredRows) : StoredRows[k] = row
    BY <1>0, <1>e, <2>2, HeldIsFound
  <2>4. StoredRows' = StoredRows
    BY <2>1, <1>e
  <2>5. Durably!Confirm
    BY <2>1, <2>3, <2>4 DEF Durably!Confirm, Durably!Found
  <2> QED
    BY <2>5 DEF Durably!Next
<1>7. CASE CsvPowerLoss
  <2>1. file' \in survivors /\ UNCHANGED <<row, confirmed, ring>>
    BY <1>7 DEF CsvPowerLoss
  <2>2. \E n \in 0..Len(StoredRows) : StoredRows' = SubSeq(StoredRows, 1, n)
    BY <1>0, <1>e, <2>1, SurvivorIsFirst
  <2>3. \A number \in confirmed : \E k \in 1..Len(StoredRows') : StoredRows'[k] = number
    BY <1>0, <1>e, <2>1, HeldIsFound
  <2>4. \A number \in confirmed : Durably!Found(number)'
    BY <2>3 DEF Durably!Found
  <2>5. Durably!PowerLoss
    BY <2>1, <2>2, <2>4 DEF Durably!PowerLoss
  <2> QED
    BY <2>5 DEF Durably!Next
<1> QED
  BY <1>1, <1>2, <1>3, <1>4, <1>5, <1>6, <1>7 DEF CsvNext

\* Seen as rows, the log is a durable log: rows are only added at its end, a confirmed row
\* is there and neither repeated nor lost, and a power loss takes the last ones at most
\* (ImplementsLog).
THEOREM LogsAreDurable == CsvSpec => ImplementsLog
<1>1. CsvInit => Durably!Init /\ PromiseIInv
  <2> SUFFICES ASSUME CsvInit PROVE Durably!Init /\ PromiseIInv
    OBVIOUS
  <2>1. LineBytes \in Nat /\ Lines(0) = 0 /\ Lines(0 + 1) = Lines(0) + LineBytes /\ 1 <= LineBytes
    BY LineSizes, LinesFollow
  <2>2. file = <<>> /\ file \in Seq(Bytes) /\ Len(file) = 0
    BY EmptySeq DEF CsvInit
  <2> HIDE DEF Lines, LineBytes
  <2>3. Entries(file, 0)
    BY <2>1, <2>2 DEF Entries
  <2>4. EntriesOf(file) \in Seq(Bytes) /\ Len(EntriesOf(file)) = 0
    BY <2>2, <2>3, EntriesAre
  <2>5. EntriesOf(file) = <<>>
    BY <2>4, EmptySeq
  <2>6. StoredRows = <<>>
    BY <2>5 DEF StoredRows, EntriesOf, Lines
  <2>7. Durably!Init
    BY <2>6 DEF Durably!Init, CsvInit
  <2>8. SurvivorsBehind /\ RowFresh
    BY DEF CsvInit, SurvivorsBehind, Behind, RowFresh
  <2> QED
    BY <2>7, <2>8, CsvStarts DEF PromiseIInv
<1>2. PromiseIInv /\ [CsvNext]_csvVars => PromiseIInv'
  BY CsvIInvKept, PromiseIInvKept DEF PromiseIInv
<1>3. PromiseIInv /\ [CsvNext]_csvVars => [Durably!Next]_Durably!vars
  BY StepIsDurable
<1> QED
  BY <1>1, <1>2, <1>3, PTL DEF CsvSpec, ImplementsLog, Durably!Spec
==============================================================================
