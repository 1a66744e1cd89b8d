----------------------------- MODULE PagesProofs -----------------------------
(***************************************************************************)
(* Proofs about the applications that only their page and its callbacks    *)
(* change: the notes, the bench tools and the Bluetooth explorer.          *)
(***************************************************************************)
EXTENDS NoteEditor, BenchPins, BleExplorer, StorageReplaceProofs, FiniteSetTheorems, SequenceTheorems

(***************************************************************************)
(* Notes.                                                                  *)
(***************************************************************************)

\* A save that is refused may leave a temporary file behind, and nothing else.
TemporaryLeft ==
    /\ step = "idle" /\ tmp' \in {tmp, Absent, Torn}
    /\ UNCHANGED <<final, backup, step, request, reply>>

\* To the files the editor does what the replace protocol does, or leaves a
\* temporary file behind.
LEMMA NoteFiles == [NoteNext]_allVars => [Next]_vars \/ TemporaryLeft
<1> SUFFICES ASSUME [NoteNext]_allVars PROVE [Next]_vars \/ TemporaryLeft
  OBVIOUS
<1>1. CASE OpenUnavailable \/ (\E t \in Contents : EditNote(t)) \/ NotesLeave \/ UNCHANGED allVars
  BY <1>1 DEF OpenUnavailable, EditNote, NotesLeave, allVars
<1>2. CASE OpenNotes \/ LoadFails \/ LoadSucceeds
  BY <1>2 DEF OpenNotes, LoadFails, LoadSucceeds, Next
<1>3. CASE SaveRefused
  BY <1>3 DEF SaveRefused, TemporaryLeft
<1>4. CASE SaveNote
  BY <1>4, NoteConstants DEF SaveNote, Next
<1>5. CASE SaveReturns \/ FileStep \/ Reboot
  BY <1>5 DEF SaveReturns, FileStep, Reboot, Next
<1> QED
  BY <1>1, <1>2, <1>3, <1>4, <1>5 DEF NoteNext

\* So the invariant of the protocol holds under the editor's use of it.
LEMMA NoteKeepsFiles == IInv /\ [NoteNext]_allVars => IInv'
<1> SUFFICES ASSUME IInv, [NoteNext]_allVars PROVE IInv'
  OBVIOUS
<1>1. CASE [Next]_vars
  BY <1>1, NextIInv
<1>2. CASE TemporaryLeft
  BY <1>2 DEF TemporaryLeft, IInv, TypeOK, NeverTorn, CommitInv, CommitSteps
<1> QED
  BY <1>1, <1>2, NoteFiles

\* And the document changes as the protocol promises.
LEMMA NoteRefinesStep == IInv /\ [NoteNext]_allVars => [Durable!Next]_(Durable!vars)
<1> SUFFICES ASSUME IInv, [NoteNext]_allVars PROVE [Durable!Next]_(Durable!vars)
  OBVIOUS
<1>1. CASE TemporaryLeft
  BY <1>1 DEF TemporaryLeft, Document, Durable!vars
<1> QED
  BY <1>1, NoteFiles, StepRefines

\* The document changes only to what is being saved.
LEMMA DocumentChanges ==
    ASSUME IInv, [NoteNext]_allVars
    PROVE  Document' = Document \/ (request # NoRequest /\ Document' = request)
BY NoteRefinesStep
DEF Durable!Next, Durable!vars, Durable!Begin, Durable!Publish, Durable!Succeed, Durable!Fail, Durable!PowerLoss

LEMMA NoteInitially == NoteInit => NoteIInv
<1> SUFFICES ASSUME NoteInit PROVE NoteIInv
  OBVIOUS
<1>1. IInv
  BY InitIInv DEF NoteInit
<1>2. NoteTypeOK /\ SessionKnowsDocument /\ SavesFromEditor
  BY <1>1, NoteConstants DEF NoteInit, Init, NoteTypeOK, IInv, SessionKnowsDocument, SavesFromEditor
<1>3. RecoveredIsComplete
  BY DEF NoteInit, Init, RecoveredIsComplete
<1> QED
  BY <1>1, <1>2, <1>3 DEF NoteIInv, NoteInv

\* Where the files are says who is at work: no save while nothing is written.
LEMMA RequestWhere ==
    ASSUME IInv
    PROVE  step \in {"idle", "recover", "recoverBackup", "recovered", "recoverFailed"} => request = NoRequest
BY DEF IInv, CommitInv, CommitSteps

LEMMA NoteStep == NoteIInv /\ [NoteNext]_allVars => NoteIInv'
<1> SUFFICES ASSUME NoteIInv, [NoteNext]_allVars PROVE NoteIInv'
  OBVIOUS
<1> USE NoteConstants, StorageConstants
<1>1. /\ IInv /\ IInv' /\ NoteTypeOK /\ SessionKnowsDocument /\ SavesFromEditor
      /\ (Document' = Document \/ (request # NoRequest /\ Document' = request))
  BY NoteKeepsFiles, DocumentChanges DEF NoteIInv, NoteInv
<1>2. RecoveredIsComplete'
  BY <1>1 DEF IInv, CommitInv, RecoveredIsComplete, Document
<1>3. TypeOK'
  BY <1>1 DEF IInv
<1>4. CASE OpenUnavailable \/ (\E t \in Contents : EditNote(t)) \/ UNCHANGED allVars \/ SaveRefused
  <2>1. /\ editor' \in {"closed", "loading", "blocked", "open"} /\ shown' \in Contents /\ sdReady' \in BOOLEAN
        /\ UNCHANGED <<final, backup, request, known>> /\ (editor' = "open" <=> editor = "open")
    BY <1>1, <1>4 DEF OpenUnavailable, EditNote, SaveRefused, RecordError, NoteTypeOK, allVars, vars, noteVars
  <2> QED
    BY <1>1, <1>2, <1>3, <2>1 DEF NoteIInv, NoteInv, NoteTypeOK, SessionKnowsDocument, SavesFromEditor, Document
<1>5. CASE OpenNotes
  <2>1. editor' = "loading" /\ UNCHANGED <<shown, sdReady, known>> /\ request' = NoRequest
    BY <1>1, <1>5, RequestWhere DEF OpenNotes, CallRecover
  <2> QED
    BY <1>1, <1>2, <1>3, <2>1 DEF NoteIInv, NoteInv, NoteTypeOK, SessionKnowsDocument, SavesFromEditor
<1>6. CASE LoadFails
  <2>1. editor' = "blocked" /\ shown' = EmptyText /\ sdReady' \in BOOLEAN /\ known' = known /\ request' = NoRequest
    BY <1>1, <1>6, RequestWhere DEF LoadFails, RecoverReturns, RecordError, NoteTypeOK
  <2> QED
    BY <1>1, <1>2, <1>3, <2>1 DEF NoteIInv, NoteInv, NoteTypeOK, SessionKnowsDocument, SavesFromEditor
<1>7. CASE LoadSucceeds
  <2>1. /\ editor' = "open" /\ known' = {final} /\ sdReady' = sdReady /\ final \in Texts \cup {Absent}
        /\ shown' \in Contents /\ request' = NoRequest /\ UNCHANGED <<final, backup>> /\ step = "recovered"
    BY <1>1, <1>7, RequestWhere DEF LoadSucceeds, RecoverReturns, disk
  <2>2. Document' = final
    BY <1>1, <2>1 DEF IInv, CommitInv, Document
  <2> QED
    BY <1>1, <1>2, <1>3, <2>1, <2>2 DEF NoteIInv, NoteInv, NoteTypeOK, SessionKnowsDocument, SavesFromEditor
<1>8. CASE SaveNote
  <2>1. /\ editor = "open" /\ UNCHANGED <<editor, shown, sdReady, final, backup>> /\ shown \in Texts
        /\ known' = known \cup {shown} /\ request' = shown
    BY <1>8 DEF SaveNote, OpenTemporary
  <2> QED
    BY <1>1, <1>2, <1>3, <2>1 DEF NoteIInv, NoteInv, NoteTypeOK, SessionKnowsDocument, SavesFromEditor, Document
<1>9. CASE SaveReturns \/ FileStep
  <2>1. /\ UNCHANGED <<editor, shown, known>> /\ sdReady' \in BOOLEAN
        /\ request' \in {request, NoRequest}
    BY <1>1, <1>9 DEF SaveReturns, ReplaceReturns, FileStep, WriteFails, WriteSucceeds, CommitStep, CloseSynced,
       StatFinal, RemoveBackup, MoveFinal, Publish, Restore, RecoverStep, RecoverStatFinal, RecoverBackup,
       RecordError, NoteTypeOK, noteVars
  <2> QED
    BY <1>1, <1>2, <1>3, <2>1 DEF NoteIInv, NoteInv, NoteTypeOK, SessionKnowsDocument, SavesFromEditor
<1>10. CASE NotesLeave \/ Reboot
  <2>1. editor' = "closed" /\ shown' = EmptyText /\ known' = {} /\ sdReady' \in BOOLEAN /\ request' = NoRequest
    BY <1>1, <1>10, RequestWhere DEF NotesLeave, Reboot, PowerLoss, NoteTypeOK, vars
  <2> QED
    BY <1>1, <1>2, <1>3, <2>1 DEF NoteIInv, NoteInv, NoteTypeOK, SessionKnowsDocument, SavesFromEditor
<1> QED
  BY <1>4, <1>5, <1>6, <1>7, <1>8, <1>9, <1>10 DEF NoteNext

\* Under the editor's use, too, nothing torn is published and a recovery finds the
\* document; and while Save is enabled the session knows the document it replaces.
THEOREM NotesAreSafe == NoteSpec => []NoteInv
<1>1. NoteIInv => NoteInv
  BY DEF NoteIInv
<1> QED
  BY <1>1, NoteInitially, NoteStep, PTL DEF NoteSpec

\* A note the editor can not show is neither replaced nor removed, whatever the user
\* does and whatever fails.
THEOREM ForeignNotesAreKept == NoteSpec => ForeignKept
<1>1. NoteIInv /\ [NoteNext]_allVars => [Document \notin Texts \cup {Absent} => Document' = Document]_allVars
  <2> SUFFICES ASSUME NoteIInv, [NoteNext]_allVars, Document \notin Texts \cup {Absent}
               PROVE  Document' = Document
    OBVIOUS
  <2>1. request # NoRequest => Document \in known /\ known \subseteq Texts \cup {Absent}
    BY DEF NoteIInv, NoteInv, SessionKnowsDocument, SavesFromEditor
  <2> QED
    BY <2>1, DocumentChanges DEF NoteIInv, NoteInv
<1> QED
  BY <1>1, NoteInitially, NoteStep, PTL DEF NoteSpec, ForeignKept

\* The notes are a durable document: every save is all or nothing, also where the editor
\* leaves a temporary file of a save it refused.
THEOREM NotesAreDurable == NoteSpec => ImplementsDurable
<1>1. NoteInit => Durable!Init
  BY InitRefines DEF NoteInit
<1>2. NoteIInv /\ [NoteNext]_allVars => [Durable!Next]_(Durable!vars)
  BY NoteRefinesStep DEF NoteIInv, NoteInv
<1> QED
  BY <1>1, <1>2, NoteInitially, NoteStep, PTL DEF NoteSpec, ImplementsDurable, Durable!Spec

(***************************************************************************)
(* The register driver and its page.                                       *)
(***************************************************************************)

\* A stop makes less of what is held, or keeps it.
LEMMA StopOnlyReleases ==
    /\ \A held \in {"free", "bus", "device"} : StopLeaves(held) \subseteq {"free", "bus", "device"}
    /\ StopLeaves("free") = {"free"}
    /\ \A held \in {"free", "bus", "device"} : "device" \in StopLeaves(held) => held = "device"
BY DEF StopLeaves

I2cIInv == I2cTypes /\ ArmedAsDrafted /\ PublishedWhole

\* What a capture leaves when it ends: what is published is whole.
LEMMA CaptureKept ==
    ASSUME I2cIInv, StopCapture \/ LogRow
    PROVE  recording' \in BOOLEAN /\ published' \in {"none", "whole"}
BY DEF I2cIInv, I2cTypes, PublishedWhole, StopCapture, LogRow, FinishCapture

\* Whatever fails on the bus or the card: what is confirmed is what was armed, and what
\* is published is whole.
LEMMA I2cKept ==
    ASSUME I2cIInv, I2cControls \/ I2cLeave \/ ConfirmationAges \/ UNCHANGED i2cVars
    PROVE  I2cIInv'
<1> USE I2cAssumption
<1>1. /\ bus \in {"free", "bus", "device"} /\ draft \in Targets /\ watching \in BOOLEAN /\ recording \in BOOLEAN
      /\ armed \in [on : BOOLEAN, target : Targets \cup {NoTarget}, fresh : BOOLEAN]
      /\ published \in {"none", "whole"} /\ (armed.on => armed.target = draft)
  BY DEF I2cIInv, I2cTypes, ArmedAsDrafted, PublishedWhole
<1>2. Disarmed \in [on : BOOLEAN, target : Targets \cup {NoTarget}, fresh : BOOLEAN] /\ Disarmed.on = FALSE
  BY DEF Disarmed
<1>3. SUFFICES
      /\ bus' \in {"free", "bus", "device"} /\ draft' \in Targets /\ watching' \in BOOLEAN /\ recording' \in BOOLEAN
      /\ armed' \in [on : BOOLEAN, target : Targets \cup {NoTarget}, fresh : BOOLEAN]
      /\ published' \in {"none", "whole"} /\ (armed'.on => armed'.target = draft')
  BY DEF I2cIInv, I2cTypes, ArmedAsDrafted, PublishedWhole
<1>4. Transact => bus' \in {"free", "bus", "device"}
  BY <1>1, StopOnlyReleases DEF Transact
<1>5. CASE ReadClicked
  BY <1>1, <1>2, <1>4, <1>5, CaptureKept DEF ReadClicked
<1>6. CASE WatchClicked
  BY <1>1, <1>2, <1>4, <1>6, CaptureKept DEF WatchClicked
<1>7. CASE ScanClicked
  BY <1>1, <1>2, <1>7, StopOnlyReleases DEF ScanClicked, Edited
<1>8. CASE CaptureStops \/ I2cLeave
  BY <1>1, <1>2, <1>8, CaptureKept, StopOnlyReleases DEF CaptureStops, I2cLeave
<1>9. CASE CaptureStarts \/ CaptureNotStarted \/ ResultClicked
  BY <1>1, <1>2, <1>4, <1>9 DEF CaptureStarts, CaptureNotStarted, ResultClicked
<1>10. ASSUME NEW target \in Targets, DraftClicked(target) PROVE <1>3!1
  BY <1>1, <1>2, <1>10 DEF DraftClicked, Edited
<1>11. CASE ArmWrite
  <2>1. armed' = [on |-> TRUE, target |-> draft, fresh |-> TRUE] /\ UNCHANGED <<bus, draft>> /\ watching' = FALSE
    BY <1>11 DEF ArmWrite
  <2>2. recording' \in BOOLEAN /\ published' \in {"none", "whole"}
    BY <1>11, CaptureKept DEF ArmWrite
  <2> QED
    BY <1>1, <2>1, <2>2
<1>12. CASE ConfirmWrite
  BY <1>1, <1>2, <1>4, <1>12 DEF ConfirmWrite
<1>13. CASE I2cTick
  <2>1. armed' \in {armed, Disarmed} /\ UNCHANGED <<draft, watching>>
    BY <1>13 DEF I2cTick
  <2>2. bus' \in {"free", "bus", "device"} /\ recording' \in BOOLEAN /\ published' \in {"none", "whole"}
    BY <1>1, <1>4, <1>13, CaptureKept DEF I2cTick
  <2> QED
    BY <1>1, <1>2, <2>1, <2>2
<1>14. CASE ConfirmationAges
  <2>1. armed' = [armed EXCEPT !.fresh = FALSE] /\ UNCHANGED <<bus, draft, watching, recording, published>>
    BY <1>14 DEF ConfirmationAges
  <2>2. armed' \in [on : BOOLEAN, target : Targets \cup {NoTarget}, fresh : BOOLEAN]
        /\ armed'.on = armed.on /\ armed'.target = armed.target
    BY <1>1, <2>1
  <2> QED
    BY <1>1, <2>1, <2>2
<1>15. CASE UNCHANGED i2cVars
  BY <1>1, <1>15 DEF i2cVars
<1> QED
  BY <1>5, <1>6, <1>7, <1>8, <1>9, <1>10, <1>11, <1>12, <1>13, <1>14, <1>15 DEF I2cControls

(***************************************************************************)
(* The sampling task and its page.                                         *)
(***************************************************************************)

\* The sampling task and the page: the ADC runs for an open page only, and the ring holds
\* samples of one input.
LEMMA ScopeTaskKept == ScopeIInv /\ ScopeTask => ScopeIInv'
<1> SUFFICES ASSUME ScopeIInv, ScopeTask PROVE ScopeIInv'
  OBVIOUS
<1>1. /\ scopePage \in {"closed", "open", "leaving"}
      /\ scopeOn \in [active : BOOLEAN, running : BOOLEAN, sampling : BOOLEAN]
      /\ picked \in Inputs /\ scales \in [0 .. ScopeChannels - 1 -> 0 .. ScopeScales - 1]
      /\ sampler \in [at : {"unbuilt", "none", "loop", "claimed", "read", "converted", "stop"},
                      input : Inputs, scale : 0 .. ScopeScales - 1]
      /\ scopeRing \in Seq(Samples) /\ Len(scopeRing) <= RingPoints
      /\ chart \in Seq(Samples) /\ shot \in {"none", "right", "wrong"}
      /\ (scopePage = "closed" => ~scopeOn.sampling) /\ (scopeOn.active => scopePage = "open")
      /\ scopeOn.sampling = (sampler.at \in {"claimed", "read", "converted", "stop"})
      /\ \A i \in DOMAIN scopeRing : scopeRing[i].input = sampler.input
      /\ OneInput
  BY DEF ScopeIInv, ScopeTypes, QuietWhenClosed, SamplerKnown
<1>2. UNCHANGED <<scopePage, picked, scales, chart, shot>> /\ OneInput'
  BY <1>1 DEF ScopeTask, Claim, AdcStarts, AdcFails, ReadFrame, StoreFrame, SamplingEnds, LetGo, PageUnchanged, OneInput
<1>3. SUFFICES
      /\ scopeOn' \in [active : BOOLEAN, running : BOOLEAN, sampling : BOOLEAN]
      /\ sampler' \in [at : {"unbuilt", "none", "loop", "claimed", "read", "converted", "stop"},
                      input : Inputs, scale : 0 .. ScopeScales - 1]
      /\ scopeRing' \in Seq(Samples) /\ Len(scopeRing') <= RingPoints
      /\ (scopePage = "closed" => ~scopeOn'.sampling) /\ (scopeOn'.active => scopePage = "open")
      /\ scopeOn'.sampling = (sampler'.at \in {"claimed", "read", "converted", "stop"})
      /\ \A i \in DOMAIN scopeRing' : scopeRing'[i].input = sampler'.input
  BY <1>1, <1>2 DEF ScopeIInv, ScopeTypes, QuietWhenClosed, SamplerKnown
<1>4. CASE Claim
  BY <1>1, <1>4 DEF Claim, SamplerGoes
<1>5. CASE AdcStarts
  <2>1. /\ sampler' = [sampler EXCEPT !.at = "read", !.input = picked] /\ scopeRing' = <<>> /\ scopeOn' = scopeOn
        /\ sampler.at = "claimed"
    BY <1>5 DEF AdcStarts
  <2>2. scopeRing' \in Seq(Samples) /\ Len(scopeRing') = 0 /\ DOMAIN scopeRing' = {} /\ 0 <= RingPoints
    BY <2>1, ScopeAssumption
  <2>3. /\ sampler' \in [at : {"unbuilt", "none", "loop", "claimed", "read", "converted", "stop"},
                        input : Inputs, scale : 0 .. ScopeScales - 1]
        /\ sampler'.at = "read"
    BY <1>1, <2>1
  <2> QED
    BY <1>1, <2>1, <2>2, <2>3
<1>6. CASE AdcFails \/ LetGo
  <2>1. /\ sampler' = [sampler EXCEPT !.at = "loop"] /\ scopeOn' = [scopeOn EXCEPT !.sampling = FALSE]
        /\ scopeRing' = scopeRing
    BY <1>6 DEF AdcFails, LetGo, SamplerGoes
  <2>2. /\ sampler' \in [at : {"unbuilt", "none", "loop", "claimed", "read", "converted", "stop"},
                        input : Inputs, scale : 0 .. ScopeScales - 1]
        /\ sampler'.at = "loop" /\ sampler'.input = sampler.input
    BY <1>1, <2>1
  <2>3. /\ scopeOn' \in [active : BOOLEAN, running : BOOLEAN, sampling : BOOLEAN]
        /\ scopeOn'.sampling = FALSE /\ scopeOn'.active = scopeOn.active
    BY <1>1, <2>1
  <2>4. scopeOn'.sampling = (sampler'.at \in {"claimed", "read", "converted", "stop"})
    BY <2>2, <2>3
  <2>5. /\ scopeRing' \in Seq(Samples) /\ Len(scopeRing') <= RingPoints
        /\ \A i \in DOMAIN scopeRing' : scopeRing'[i].input = sampler'.input
    BY <1>1, <2>1, <2>2
  <2> QED
    BY <1>1, <2>2, <2>3, <2>4, <2>5
<1>7. CASE ReadFrame
  <2>1. scales[sampler.input.channel] \in 0 .. ScopeScales - 1
    BY <1>1 DEF Inputs
  <2>2. sampler' = [sampler EXCEPT !.at = "converted", !.scale = scales[sampler.input.channel]]
        /\ UNCHANGED <<scopeOn, scopeRing>> /\ sampler.at = "read"
    BY <1>7 DEF ReadFrame
  <2> QED
    BY <1>1, <2>1, <2>2
<1>8. CASE SamplingEnds
  BY <1>1, <1>8 DEF SamplingEnds, SamplerGoes
<1>9. CASE StoreFrame
  <2> DEFINE taken == Taken(sampler.input, sampler.scale)
             grown == Append(scopeRing, taken)
  <2>1. taken \in Samples /\ taken.input = sampler.input
    BY <1>1 DEF Taken, Samples
  <2>2. /\ scopeRing' = IF Len(grown) > RingPoints THEN Tail(grown) ELSE grown
        /\ sampler' = [sampler EXCEPT !.at = "read"] /\ scopeOn' = scopeOn /\ sampler.at = "converted"
    BY <1>9 DEF StoreFrame, SamplerGoes
  <2> HIDE DEF taken
  <2>3. /\ grown \in Seq(Samples) /\ Len(grown) = Len(scopeRing) + 1
        /\ \A i \in 1..Len(grown) : grown[i] \in {scopeRing[i], taken}
        /\ \A i \in 1..Len(scopeRing) : grown[i] = scopeRing[i]
        /\ grown[Len(scopeRing) + 1] = taken
    BY <1>1, <2>1
  <2>4. \A i \in 1..Len(grown) : grown[i].input = sampler.input
    <3> SUFFICES ASSUME NEW i \in 1..Len(grown) PROVE grown[i].input = sampler.input
      OBVIOUS
    <3>1. i \in 1..Len(scopeRing) \/ i = Len(scopeRing) + 1
      BY <1>1, <2>3
    <3> HIDE DEF grown
    <3> QED
      BY <1>1, <2>1, <2>3, <3>1
  <2> HIDE DEF grown
  <2>5. /\ scopeRing' \in Seq(Samples) /\ Len(scopeRing') <= RingPoints
        /\ \A i \in 1..Len(scopeRing') : scopeRing'[i].input = sampler.input
    <3>1. CASE Len(grown) > RingPoints
      <4>1. scopeRing' = Tail(grown) /\ grown # <<>> /\ Len(grown) = RingPoints + 1
        BY <1>1, <2>2, <2>3, <3>1, ScopeAssumption
      <4>2. /\ Tail(grown) \in Seq(Samples) /\ Len(Tail(grown)) = Len(grown) - 1
            /\ \A i \in 1..Len(Tail(grown)) : Tail(grown)[i] = grown[i + 1] /\ i + 1 \in 1..Len(grown)
        BY <2>3, <4>1
      <4>3. Len(Tail(grown)) <= RingPoints
        BY <4>1, <4>2, ScopeAssumption
      <4> QED
        BY <2>4, <4>1, <4>2, <4>3
    <3>2. CASE ~(Len(grown) > RingPoints)
      BY <2>2, <2>3, <2>4, <3>2, ScopeAssumption
    <3> QED
      BY <3>1, <3>2
  <2>6. sampler' \in [at : {"unbuilt", "none", "loop", "claimed", "read", "converted", "stop"},
                      input : Inputs, scale : 0 .. ScopeScales - 1]
        /\ sampler'.input = sampler.input /\ sampler'.at = "read"
    BY <1>1, <2>2
  <2>7. DOMAIN scopeRing' = 1..Len(scopeRing')
    BY <2>5
  <2> QED
    BY <1>1, <2>2, <2>5, <2>6, <2>7
<1> QED
  BY <1>4, <1>5, <1>6, <1>7, <1>8, <1>9 DEF ScopeTask

\* A window of a sequence, element by element.
LEMMA WindowElements ==
    ASSUME NEW ring \in Seq(Samples), NEW first \in 1..Len(ring), NEW last \in first..Len(ring)
    PROVE  /\ SubSeq(ring, first, last) \in Seq(Samples)
           /\ Len(SubSeq(ring, first, last)) = last - first + 1
           /\ \A i \in 1..(last - first + 1) :
                /\ first + i - 1 \in first..last
                /\ SubSeq(ring, first, last)[i] = ring[first + i - 1]
<1> DEFINE window == SubSeq(ring, first, last)
<1>1. window = [i \in 1..(last - first + 1) |-> ring[first + i - 1]]
  OBVIOUS
<1>2. /\ last - first + 1 \in Nat /\ \A i \in 1..(last - first + 1) : first + i - 1 \in first..last
      /\ \A i \in first..last : ring[i] \in Samples
  OBVIOUS
<1>3. window \in [1..(last - first + 1) -> Samples]
  BY <1>1, <1>2
<1> HIDE DEF window
<1>4. window \in Seq(Samples) /\ Len(window) = last - first + 1
  BY <1>2, <1>3
<1>5. \A i \in 1..(last - first + 1) : window[i] = ring[first + i - 1]
  BY <1>1
<1> QED
  BY <1>2, <1>4, <1>5 DEF window

\* A window of the ring shows one input.
LEMMA WindowOfRing ==
    ASSUME NEW ring \in Seq(Samples), NEW input, \A i \in DOMAIN ring : ring[i].input = input,
           NEW first \in 1 .. Len(ring) - ChartPoints + 1, Len(ring) >= ChartPoints,
           NEW window, window = SubSeq(ring, first, first + ChartPoints - 1)
    PROVE  window \in Seq(Samples) /\ \A i \in DOMAIN window : window[i].input = input
<1> DEFINE last == first + ChartPoints - 1
<1>1. first \in 1..Len(ring) /\ last \in first..Len(ring)
  BY ScopeAssumption
<1>2. \A i \in first..last : i \in DOMAIN ring
  BY <1>1
<1>3. window = SubSeq(ring, first, last)
  OBVIOUS
<1> HIDE DEF last
<1>4. /\ window \in Seq(Samples) /\ Len(window) = last - first + 1
      /\ \A i \in 1..(last - first + 1) : first + i - 1 \in first..last /\ window[i] = ring[first + i - 1]
  BY <1>1, <1>3, WindowElements
<1> QED
  BY <1>2, <1>4

\* The page: its controls leave the task its input, and the page is only gone once the
\* task has let go.
LEMMA ScopePageKept ==
    ASSUME ScopeIInv,
           ScopeControls \/ (\E started \in BOOLEAN : ShowScope(started)) \/ ScopeLeave \/ ScopeReleased
           \/ UNCHANGED scopeVars
    PROVE  ScopeIInv'
<1> USE ScopeAssumption
<1>1. /\ scopePage \in {"closed", "open", "leaving"}
      /\ scopeOn \in [active : BOOLEAN, running : BOOLEAN, sampling : BOOLEAN]
      /\ picked \in Inputs /\ scales \in [0 .. ScopeChannels - 1 -> 0 .. ScopeScales - 1]
      /\ sampler \in [at : {"unbuilt", "none", "loop", "claimed", "read", "converted", "stop"},
                      input : Inputs, scale : 0 .. ScopeScales - 1]
      /\ scopeRing \in Seq(Samples) /\ Len(scopeRing) <= RingPoints
      /\ chart \in Seq(Samples) /\ shot \in {"none", "right", "wrong"}
      /\ (scopePage = "closed" => ~scopeOn.sampling) /\ (scopeOn.active => scopePage = "open")
      /\ scopeOn.sampling = (sampler.at \in {"claimed", "read", "converted", "stop"})
      /\ \A i \in DOMAIN scopeRing : scopeRing[i].input = sampler.input
      /\ \A i, j \in DOMAIN chart : chart[i].input = chart[j].input
  BY DEF ScopeIInv, ScopeTypes, QuietWhenClosed, SamplerKnown, OneInput
<1>2. <<>> \in Seq(Samples) /\ Len(<<>>) = 0 /\ DOMAIN <<>> = {} /\ 0 <= RingPoints
  OBVIOUS
<1> DEFINE Goal ==
      /\ scopePage' \in {"closed", "open", "leaving"}
      /\ scopeOn' \in [active : BOOLEAN, running : BOOLEAN, sampling : BOOLEAN]
      /\ picked' \in Inputs /\ scales' \in [0 .. ScopeChannels - 1 -> 0 .. ScopeScales - 1]
      /\ sampler' \in [at : {"unbuilt", "none", "loop", "claimed", "read", "converted", "stop"},
                       input : Inputs, scale : 0 .. ScopeScales - 1]
      /\ scopeRing' \in Seq(Samples) /\ Len(scopeRing') <= RingPoints
      /\ chart' \in Seq(Samples) /\ shot' \in {"none", "right", "wrong"}
      /\ (scopePage' = "closed" => ~scopeOn'.sampling) /\ (scopeOn'.active => scopePage' = "open")
      /\ scopeOn'.sampling = (sampler'.at \in {"claimed", "read", "converted", "stop"})
      /\ \A i \in DOMAIN scopeRing' : scopeRing'[i].input = sampler'.input
      /\ \A i, j \in DOMAIN chart' : chart'[i].input = chart'[j].input
<1>3. SUFFICES Goal
  BY DEF ScopeIInv, ScopeTypes, QuietWhenClosed, SamplerKnown, OneInput
<1>4. CASE ScopeTick
  <2>1. PICK first \in 1 .. Len(scopeRing) - ChartPoints + 1 :
          chart' = SubSeq(scopeRing, first, first + ChartPoints - 1)
    BY <1>4 DEF ScopeTick
  <2>2. Len(scopeRing) >= ChartPoints
        /\ UNCHANGED <<scopePage, scopeOn, picked, scales, sampler, scopeRing, shot>>
    BY <1>4 DEF ScopeTick
  <2>3. chart' \in Seq(Samples) /\ \A i \in DOMAIN chart' : chart'[i].input = sampler.input
    <3>1. scopeRing \in Seq(Samples) /\ \A i \in DOMAIN scopeRing : scopeRing[i].input = sampler.input
      BY <1>1
    <3> QED
      BY <2>1, <2>2, <3>1, WindowOfRing, SMTT(60)
  <2> QED
    BY <1>1, <2>2, <2>3
<1>5. CASE RunClicked
  <2>1. scopeOn' = [scopeOn EXCEPT !.running = ~@]
        /\ UNCHANGED <<scopePage, picked, scales, sampler, scopeRing, chart, shot>>
    BY <1>5 DEF RunClicked
  <2>2. scopeOn' \in [active : BOOLEAN, running : BOOLEAN, sampling : BOOLEAN]
        /\ scopeOn'.active = scopeOn.active /\ scopeOn'.sampling = scopeOn.sampling
    BY <1>1, <2>1
  <2> QED
    BY <1>1, <2>1, <2>2
<1>6. CASE ChannelClicked \/ RateClicked
  <2>1. /\ chart' = <<>> /\ UNCHANGED <<scopePage, scopeOn, scales, sampler, scopeRing, shot>>
        /\ \/ picked' = [picked EXCEPT !.channel = (@ + 1) % ScopeChannels]
           \/ picked' = [picked EXCEPT !.rate = (@ + 1) % ScopeRates]
    BY <1>6 DEF ChannelClicked, RateClicked
  <2>2. (picked.channel + 1) % ScopeChannels \in 0 .. ScopeChannels - 1
        /\ (picked.rate + 1) % ScopeRates \in 0 .. ScopeRates - 1
    <3>1. picked.channel \in Nat /\ picked.rate \in Nat
      BY <1>1 DEF Inputs
    <3> QED
      BY <3>1
  <2>3. picked' \in Inputs
    BY <1>1, <2>1, <2>2 DEF Inputs
  <2> QED
    BY <1>1, <1>2, <2>1, <2>3
<1>7. CASE CaptureClicked
  BY <1>1, <1>7 DEF CaptureClicked
<1>8. ASSUME NEW scale \in 0 .. ScopeScales - 1, CalibrationClicked(scale) PROVE Goal
  BY <1>1, <1>2, <1>8 DEF CalibrationClicked, Inputs
<1>9. ASSUME NEW started \in BOOLEAN, ShowScope(started) PROVE Goal
  <2>1. /\ scopePage = "closed" /\ scopePage' = "open" /\ UNCHANGED <<picked, scales, scopeRing, shot>>
        /\ chart' \in {chart, <<>>}
        /\ scopeOn' = scopeOn \/ scopeOn' = [scopeOn EXCEPT !.running = TRUE, !.active = TRUE]
        /\ \/ sampler' = sampler
           \/ /\ sampler.at \in {"unbuilt", "none"}
              /\ \/ sampler' = [sampler EXCEPT !.at = "loop"]
                 \/ sampler' = [sampler EXCEPT !.at = "none"]
    BY <1>9 DEF ShowScope, Created, SamplerGoes
  <2>2. scopeOn' \in [active : BOOLEAN, running : BOOLEAN, sampling : BOOLEAN]
        /\ scopeOn'.sampling = scopeOn.sampling
    BY <1>1, <2>1
  <2>3. /\ sampler' \in [at : {"unbuilt", "none", "loop", "claimed", "read", "converted", "stop"},
                         input : Inputs, scale : 0 .. ScopeScales - 1]
        /\ sampler'.input = sampler.input
        /\ (sampler'.at \in {"claimed", "read", "converted", "stop"})
             = (sampler.at \in {"claimed", "read", "converted", "stop"})
    BY <1>1, <2>1
  <2> QED
    BY <1>1, <1>2, <2>1, <2>2, <2>3
<1>10. CASE ScopeLeave
  <2>1. /\ scopePage' = "leaving" /\ scopeOn' = [scopeOn EXCEPT !.active = FALSE]
        /\ UNCHANGED <<picked, scales, sampler, scopeRing, chart, shot>>
    BY <1>10 DEF ScopeLeave
  <2>2. scopeOn' \in [active : BOOLEAN, running : BOOLEAN, sampling : BOOLEAN]
        /\ scopeOn'.active = FALSE /\ scopeOn'.sampling = scopeOn.sampling
    BY <1>1, <2>1
  <2> QED
    BY <1>1, <2>1, <2>2
<1>11. CASE ScopeReleased
  BY <1>1, <1>11 DEF ScopeReleased
<1>12. CASE UNCHANGED scopeVars
  BY <1>1, <1>12 DEF scopeVars
<1> QED
  BY <1>4, <1>5, <1>6, <1>7, <1>8, <1>9, <1>10, <1>11, <1>12 DEF ScopeControls

(***************************************************************************)
(* The bench tools on their pins.                                          *)
(***************************************************************************)

PinStates == {"off", "in", "out", "servo", "led", "i2c", "spi", "pwm"}

\* The bench's own part of the invariant: what the tools hold and how the pins are.
ToolTypes ==
    /\ page \in {"home", "notice", "gpio", "servo", "scope", "i2c", "spi", "signal"}
    /\ pin \in [Pins -> PinStates] /\ mode \in [Pins -> 0..3]
    /\ servo \in [ready : BOOLEAN, running : BOOLEAN] /\ pwm \in BOOLEAN
    /\ spi \in {"free", "bus", "device"}
    /\ spiMode \in [chosen : 0 .. SpiModes - 1, device : None .. SpiModes - 1]
ScopePageAgrees == (page = "scope") <=> (scopePage # "closed")
ToolsIInv ==
    /\ ToolTypes /\ ScopePageAgrees /\ OneOwner /\ PinsByTool /\ TransferAsLabelled /\ DeviceAsChosen

\* Whatever pin is on when no tool is at work belongs to a driver whose cleanup is owed.
LEMMA ReleasedFollows == ToolsIInv => ReleasedAtHome
<1> SUFFICES ASSUME ToolsIInv, page \in {"home", "notice"} \/ (~RestartBlocked /\ page # "gpio"),
                    NEW p \in Pins, pin[p] # "off"
             PROVE  RestartBlocked /\ pin[p] \in {"i2c", "spi"}
  BY DEF ReleasedAtHome
<1>1. \A q \in Pins : mode[q] = 0 /\ pin[q] \notin {"in", "out"}
  BY DEF ToolsIInv, PinsByTool, RestartBlocked
<1>2. servo.ready = FALSE /\ pwm = FALSE
  BY DEF ToolsIInv, ToolTypes, PinsByTool, RestartBlocked
<1>3. pin["G0"] # "servo" /\ pin["G54"] # "led" /\ pin["G6"] # "pwm"
  BY <1>2 DEF ToolsIInv, OneOwner
<1>4. (pin["G54"] = "i2c" => bus # "free") /\ (pin["G18"] = "spi" => spi # "free")
  BY DEF ToolsIInv, OneOwner, I2cBusy
<1>5. \/ p = "G18" /\ pin[p] = "spi"
      \/ p = "G54" /\ pin[p] = "i2c"
  BY <1>1, <1>3 DEF ToolsIInv, PinsByTool, Pins
<1> QED
  BY <1>4, <1>5 DEF RestartBlocked, I2cBusy

LEMMA BenchParts == BenchIInv <=> ToolsIInv /\ ScopeIInv /\ I2cIInv
<1>1. BenchIInv => ToolsIInv /\ ScopeIInv /\ I2cIInv
  BY DEF BenchIInv, BenchInv, PinsTypes, ToolsIInv, ToolTypes, ScopePageAgrees, I2cIInv, PinStates
<1>2. ToolsIInv /\ ScopeIInv /\ I2cIInv => BenchIInv
  BY ReleasedFollows
  DEF BenchIInv, BenchInv, PinsTypes, ToolsIInv, ToolTypes, ScopePageAgrees, I2cIInv, ScopeIInv, PinStates
<1> QED
  BY <1>1, <1>2

\* Stopping SPI: a device that is still there keeps its settings.
LEMMA SpiStopped ==
    ASSUME ToolsIInv, SpiStop
    PROVE  /\ spi' \in {"free", "bus", "device"} /\ (spi = "free" => spi' = "free")
           /\ spiMode' \in [chosen : 0 .. SpiModes - 1, device : None .. SpiModes - 1]
           /\ DeviceAsChosen'
<1>1. spi \in {"free", "bus", "device"}
      /\ spiMode \in [chosen : 0 .. SpiModes - 1, device : None .. SpiModes - 1]
  BY DEF ToolsIInv, ToolTypes
<1>2. spi' \in {"free", "bus", "device"} /\ (spi = "free" => spi' = "free")
      /\ (spi' = "device" => spi = "device")
  BY <1>1, StopOnlyReleases DEF SpiStop
<1>3. None \in None .. SpiModes - 1
  BY BenchAssumption DEF None
<1>4. spiMode' = [spiMode EXCEPT !.device = IF spi' = "device" THEN @ ELSE None]
  BY DEF SpiStop
<1>5. spiMode' \in [chosen : 0 .. SpiModes - 1, device : None .. SpiModes - 1]
      /\ spiMode'.chosen = spiMode.chosen /\ (spi' = "device" => spiMode'.device = spiMode.device)
  BY <1>1, <1>3, <1>4
<1> QED
  BY <1>2, <1>5 DEF DeviceAsChosen, ToolsIInv

\* What every page change leaves: pins of drivers whose cleanup is owed, and all else off.
LEMMA ContentCleared ==
    ASSUME ToolsIInv, I2cIInv, ClearContent
    PROVE  /\ pin' \in [Pins -> PinStates] /\ mode' = [p \in Pins |-> 0]
           /\ servo' = [ready |-> FALSE, running |-> FALSE] /\ pwm' = FALSE
           /\ pin'["G0"] = "off" /\ pin'["G6"] = "off"
           /\ pin'["G18"] \in {"off", "spi"} /\ (pin'["G18"] = "spi" => spi' # "free")
           /\ pin'["G54"] \in {"off", "i2c"} /\ (pin'["G54"] = "i2c" <=> bus' # "free")
           /\ spi' \in {"free", "bus", "device"}
           /\ spiMode' \in [chosen : 0 .. SpiModes - 1, device : None .. SpiModes - 1]
           /\ DeviceAsChosen' /\ TransferAsLabelled' /\ I2cIInv'
<1>1. /\ pin' = [p \in Pins |-> IF Kept(p) THEN pin[p] ELSE "off"] /\ mode' = [p \in Pins |-> 0]
      /\ servo' = [ready |-> FALSE, running |-> FALSE] /\ pwm' = FALSE /\ I2cLeave /\ SpiStop
      /\ spiSaved' = spiSaved
  BY DEF ClearContent
<1>2. /\ spi' \in {"free", "bus", "device"} /\ DeviceAsChosen' /\ (spi = "free" => spi' = "free")
      /\ spiMode' \in [chosen : 0 .. SpiModes - 1, device : None .. SpiModes - 1]
  BY <1>1, SpiStopped
<1>3. I2cIInv' /\ (bus = "free" => bus' = "free")
  BY <1>1, I2cKept, StopOnlyReleases DEF I2cLeave
<1>4. /\ pin \in [Pins -> PinStates] /\ mode \in [Pins -> 0..3] /\ {"G0", "G6", "G18", "G54"} = Pins
      /\ pin["G18"] \in {"off", "in", "out", "spi"} /\ pin["G54"] \in {"off", "in", "out", "led", "i2c"}
      /\ \A p \in Pins : pin[p] \in {"in", "out"} => mode[p] # 0
      /\ \A p \in Pins : mode[p] # 0 => bus = "free"
  BY DEF ToolsIInv, ToolTypes, PinsByTool, Pins
<1>5. pin["G54"] = "i2c" <=> bus # "free"
  BY DEF ToolsIInv, OneOwner, I2cBusy
<1>6. pin' \in [Pins -> PinStates]
  BY <1>1, <1>4 DEF PinStates
<1>7. pin'["G0"] = "off" /\ pin'["G6"] = "off"
  BY <1>1, <1>4 DEF Kept
<1>8. pin'["G18"] = IF spi' # "free" /\ mode["G18"] = 0 THEN pin["G18"] ELSE "off"
  BY <1>1, <1>4 DEF Kept
<1>9. pin'["G54"] = IF bus' # "free" /\ mode["G54"] = 0 THEN pin["G54"] ELSE "off"
  BY <1>1, <1>4 DEF Kept
<1>10. pin'["G18"] \in {"off", "spi"} /\ (pin'["G18"] = "spi" => spi' # "free")
  BY <1>4, <1>8
<1>11. pin'["G54"] \in {"off", "i2c"} /\ (pin'["G54"] = "i2c" <=> bus' # "free")
  BY <1>3, <1>4, <1>5, <1>9
<1>12. TransferAsLabelled'
  BY <1>1 DEF ToolsIInv, TransferAsLabelled
<1> QED
  BY <1>1, <1>2, <1>3, <1>6, <1>7, <1>10, <1>11, <1>12

\* A page that opens on cleared pins: home, the notice, or a tool; those that share pins
\* with I2C only when it is free.
LEMMA PageOpened ==
    ASSUME ToolsIInv, I2cIInv, ClearContent,
           page' \in {"home", "notice", "gpio", "servo", "scope", "i2c", "spi", "signal"},
           page' \in {"gpio", "servo", "scope"} => bus' = "free",
           ScopePageAgrees', ~(sampler'.at \in {"read", "converted", "stop"})
    PROVE  ToolsIInv' /\ I2cIInv'
<1>1. /\ pin' \in [Pins -> PinStates] /\ mode' = [p \in Pins |-> 0]
      /\ servo' = [ready |-> FALSE, running |-> FALSE] /\ pwm' = FALSE
      /\ pin'["G0"] = "off" /\ pin'["G6"] = "off"
      /\ pin'["G18"] \in {"off", "spi"} /\ (pin'["G18"] = "spi" => spi' # "free")
      /\ pin'["G54"] \in {"off", "i2c"} /\ (pin'["G54"] = "i2c" <=> bus' # "free")
      /\ spi' \in {"free", "bus", "device"}
      /\ spiMode' \in [chosen : 0 .. SpiModes - 1, device : None .. SpiModes - 1]
      /\ DeviceAsChosen' /\ TransferAsLabelled' /\ I2cIInv'
  BY ContentCleared
<1>2. ToolTypes'
  <2>1. mode' \in [Pins -> 0..3]
    <3>1. mode' = [p \in Pins |-> 0]
      BY <1>1
    <3> QED
      BY <3>1
  <2>2. servo' \in [ready : BOOLEAN, running : BOOLEAN] /\ pwm' \in BOOLEAN
    BY <1>1
  <2> QED
    BY <1>1, <2>1, <2>2 DEF ToolTypes
<1>3. OneOwner'
  BY <1>1 DEF OneOwner, I2cBusy
<1>4. PinsByTool'
  BY <1>1 DEF PinsByTool, Pins
<1> QED
  BY <1>1, <1>2, <1>3, <1>4 DEF ToolsIInv

\* Away from the Scope's page its task holds nothing.
LEMMA TaskQuiet ==
    ASSUME ScopeIInv, ToolsIInv
    PROVE  page # "scope" => sampler.at \notin {"claimed", "read", "converted", "stop"}
BY DEF ScopeIInv, SamplerKnown, QuietWhenClosed, ToolsIInv, ScopePageAgrees

LEMMA PageChangesKept == BenchIInv /\ PageChanges => BenchIInv'
<1> SUFFICES ASSUME ToolsIInv, ScopeIInv, I2cIInv, PageChanges PROVE ToolsIInv' /\ ScopeIInv' /\ I2cIInv'
  BY BenchParts, PTL
<1>1. CASE HomeClicked
  <2>1. page # "scope" /\ page' = "home" /\ ClearContent /\ UNCHANGED scopeVars
    BY <1>1 DEF HomeClicked
  <2>2. ScopeIInv' /\ ~(sampler'.at \in {"read", "converted", "stop"}) /\ ScopePageAgrees'
    BY <2>1, TaskQuiet, ScopePageKept DEF scopeVars, ScopePageAgrees, ToolsIInv
  <2> QED
    BY <2>1, <2>2, PageOpened
<1>2. CASE ScopeLeave /\ UNCHANGED <<i2cVars, benchVars>>
  <2>1. ScopeIInv' /\ I2cIInv'
    BY <1>2, ScopePageKept, I2cKept
  <2>2. scopePage # "closed" /\ scopePage' # "closed" /\ UNCHANGED <<sampler, benchVars, i2cVars>>
    BY <1>2 DEF ScopeLeave
  <2>3. ToolsIInv'
    BY <2>2 DEF ToolsIInv, ToolTypes, ScopePageAgrees, OneOwner, I2cBusy, PinsByTool, TransferAsLabelled, DeviceAsChosen,
                benchVars, i2cVars
  <2> QED
    BY <2>1, <2>3
<1>3. CASE ScopeReleased /\ page' = "home" /\ ClearContent
  <2>1. ScopeIInv' /\ scopePage' = "closed" /\ UNCHANGED sampler /\ ~scopeOn.sampling
    BY <1>3, ScopePageKept DEF ScopeReleased
  <2>2. ~(sampler'.at \in {"read", "converted", "stop"}) /\ ScopePageAgrees'
    BY <1>3, <2>1 DEF ScopeIInv, SamplerKnown, ScopePageAgrees
  <2> QED
    BY <1>3, <2>1, <2>2, PageOpened
<1>4. CASE ScopeEntered
  <2>1. page = "home" /\ ClearContent /\ page' = IF bus' = "free" THEN "scope" ELSE "notice"
    BY <1>4 DEF ScopeEntered, Built
  <2>2. IF page' = "scope" THEN \E started \in BOOLEAN : ShowScope(started) ELSE UNCHANGED scopeVars
    BY <1>4 DEF ScopeEntered
  <2>3. ScopeIInv' /\ (sampler'.at = sampler.at \/ sampler'.at \in {"loop", "none"})
    <3>1. ScopeIInv'
      BY <2>2, ScopePageKept
    <3>2. sampler \in [at : {"unbuilt", "none", "loop", "claimed", "read", "converted", "stop"},
                       input : Inputs, scale : 0 .. ScopeScales - 1]
      BY DEF ScopeIInv, ScopeTypes
    <3> QED
      BY <2>2, <3>1, <3>2 DEF ShowScope, Created, SamplerGoes, scopeVars
  <2>4. scopePage = "closed" /\ (page' = "scope" => scopePage' = "open") /\ (page' # "scope" => scopePage' = "closed")
    BY <2>1, <2>2 DEF ShowScope, scopeVars, ToolsIInv, ScopePageAgrees
  <2>5. ~(sampler'.at \in {"read", "converted", "stop"}) /\ ScopePageAgrees'
    BY <2>1, <2>3, <2>4, TaskQuiet DEF ScopePageAgrees
  <2> QED
    BY <2>1, <2>3, <2>5, PageOpened
<1>5. ASSUME NEW there \in {"gpio", "servo", "i2c", "spi", "signal"}, AppEntered(there)
      PROVE  ToolsIInv' /\ ScopeIInv' /\ I2cIInv'
  <2>1. page = "home" /\ ClearContent /\ UNCHANGED scopeVars
        /\ page' = IF there \in {"gpio", "servo"} THEN IF bus' = "free" THEN there ELSE "notice" ELSE there
    BY <1>5 DEF AppEntered, Built
  <2>2. ScopeIInv' /\ ~(sampler'.at \in {"read", "converted", "stop"}) /\ ScopePageAgrees'
    BY <2>1, TaskQuiet, ScopePageKept DEF scopeVars, ScopePageAgrees, ToolsIInv
  <2> QED
    BY <2>1, <2>2, PageOpened
<1> QED
  BY <1>1, <1>2, <1>3, <1>4, <1>5 DEF PageChanges, HomeFromScope

\* The tools' own buttons, which leave Scope and I2C alone.
LEMMA ToolsKept ==
    ASSUME ToolsIInv, ScopeIInv, UNCHANGED <<scopeVars, i2cVars, page>>,
           \/ \E p \in GpioPins : GpioModeClicked(p)
           \/ ServoStarts \/ ServoStops \/ PwmStarts \/ PwmStops
           \/ SpiStarts \/ SpiStops \/ SpiSettingClicked \/ SpiTransfers \/ SpiCleared
    PROVE  ToolsIInv'
<1>1. /\ page \in {"home", "notice", "gpio", "servo", "scope", "i2c", "spi", "signal"}
      /\ pin \in [Pins -> PinStates] /\ mode \in [Pins -> 0..3]
      /\ servo \in [ready : BOOLEAN, running : BOOLEAN] /\ pwm \in BOOLEAN
      /\ spi \in {"free", "bus", "device"}
      /\ spiMode \in [chosen : 0 .. SpiModes - 1, device : None .. SpiModes - 1]
  BY DEF ToolsIInv, ToolTypes
<1>2. UNCHANGED <<page, bus, sampler, scopePage>>
  BY DEF scopeVars, i2cVars
<1>3. ScopePageAgrees'
  BY <1>2 DEF ToolsIInv, ScopePageAgrees
<1>4. OneOwner /\ PinsByTool /\ TransferAsLabelled /\ DeviceAsChosen
  BY DEF ToolsIInv
<1>5. page \in {"gpio", "servo", "signal", "spi"} => sampler'.at \notin {"read", "converted", "stop"}
  BY <1>2, TaskQuiet
<1>6. {"G0", "G6", "G18", "G54"} = Pins /\ PinStates = {"off", "in", "out", "servo", "led", "i2c", "spi", "pwm"}
  BY DEF Pins, PinStates
<1>7. ASSUME NEW p \in GpioPins, GpioModeClicked(p) PROVE ToolsIInv'
  <2>1. /\ page = "gpio" /\ p \in Pins /\ UNCHANGED <<servo, pwm, spi, spiMode, spiSaved>>
        /\ mode' = [mode EXCEPT ![p] = IF mode[p] = 3 THEN 1 ELSE mode[p] + 1]
        /\ pin' = pin \/ pin' = [pin EXCEPT ![p] = "in"] \/ pin' = [pin EXCEPT ![p] = "out"]
    BY <1>7, BenchAssumption DEF GpioModeClicked
  <2>2. /\ mode' \in [Pins -> 0..3] /\ mode'[p] # 0
        /\ \A q \in Pins : q # p => mode'[q] = mode[q]
    BY <1>1, <2>1
  <2>3. /\ pin' \in [Pins -> PinStates] /\ (pin'[p] = pin[p] \/ pin'[p] \in {"in", "out"})
        /\ \A q \in Pins : q # p => pin'[q] = pin[q]
    BY <1>1, <1>6, <2>1
  <2>4. bus = "free" /\ servo.ready = FALSE /\ pwm = FALSE
    BY <1>1, <1>4, <2>1 DEF PinsByTool
  <2>5. ToolTypes'
    BY <1>1, <1>2, <2>1, <2>2, <2>3 DEF ToolTypes
  <2>6. \A q \in Pins : pin'[q] = pin[q] \/ pin'[q] \in {"in", "out"}
    BY <2>3
  <2>7. OneOwner'
    <3>1. /\ pin'["G0"] # "servo" /\ pin'["G54"] \notin {"led", "i2c"} /\ pin'["G6"] # "pwm"
          /\ (pin'["G18"] = "spi" => spi # "free")
      BY <1>4, <1>6, <2>4, <2>6 DEF OneOwner, I2cBusy
    <3> QED
      BY <1>2, <1>5, <2>1, <2>4, <3>1 DEF OneOwner, I2cBusy
  <2>8. PinsByTool'
    <3>1. \A q \in Pins : pin'[q] \in {"in", "out"} => mode'[q] # 0
      BY <1>4, <2>2, <2>3 DEF PinsByTool
    <3>2. /\ pin'["G0"] \in {"off", "in", "out", "servo"} /\ pin'["G6"] \in {"off", "in", "out", "pwm"}
          /\ pin'["G18"] \in {"off", "in", "out", "spi"} /\ pin'["G54"] \in {"off", "in", "out", "led", "i2c"}
      BY <1>4, <1>6, <2>6 DEF PinsByTool
    <3> QED
      BY <1>2, <2>1, <2>4, <3>1, <3>2 DEF PinsByTool
  <2> QED
    BY <1>3, <1>4, <2>1, <2>5, <2>7, <2>8 DEF ToolsIInv, TransferAsLabelled, DeviceAsChosen
<1>8. ASSUME UNCHANGED mode, page \in {"servo", "signal", "spi"}, pin' \in [Pins -> PinStates],
             \A q \in Pins : pin'[q] \notin {"in", "out"},
             pin'["G0"] \in {"off", "servo"}, pin'["G6"] \in {"off", "pwm"},
             pin'["G18"] \in {"off", "spi"}, pin'["G54"] \in {"off", "led", "i2c"},
             servo' \in [ready : BOOLEAN, running : BOOLEAN], pwm' \in BOOLEAN, spi' \in {"free", "bus", "device"},
             spiMode' \in [chosen : 0 .. SpiModes - 1, device : None .. SpiModes - 1],
             servo'.ready => servo'.running /\ page = "servo", pwm' => page = "signal",
             servo'.ready <=> pin'["G0"] = "servo", servo'.ready <=> pin'["G54"] = "led",
             bus # "free" <=> pin'["G54"] = "i2c", pwm' <=> pin'["G6"] = "pwm", pin'["G18"] = "spi" => spi' # "free",
             TransferAsLabelled', DeviceAsChosen'
      PROVE  ToolsIInv'
  <2>1. ToolTypes'
    BY <1>1, <1>2, <1>8 DEF ToolTypes
  <2>2. OneOwner'
    BY <1>2, <1>5, <1>8 DEF OneOwner, I2cBusy
  <2>3. PinsByTool'
    BY <1>2, <1>4, <1>8 DEF PinsByTool
  <2> QED
    BY <1>3, <1>8, <2>1, <2>2, <2>3 DEF ToolsIInv
<1>9. page \in {"servo", "signal", "spi"} =>
        /\ \A q \in Pins : pin[q] \notin {"in", "out"}
        /\ pin["G0"] \in {"off", "servo"} /\ pin["G6"] \in {"off", "pwm"}
        /\ pin["G18"] \in {"off", "spi"} /\ pin["G54"] \in {"off", "led", "i2c"}
  BY <1>4, <1>6 DEF PinsByTool
<1>10. /\ servo.ready => servo.running /\ page = "servo"
       /\ pwm => page = "signal"
       /\ page = "servo" => bus = "free"
       /\ servo.ready <=> pin["G0"] = "servo"
       /\ servo.ready <=> pin["G54"] = "led"
       /\ bus # "free" <=> pin["G54"] = "i2c"
       /\ pwm <=> pin["G6"] = "pwm"
       /\ pin["G18"] = "spi" => spi # "free"
  BY <1>4 DEF PinsByTool, OneOwner, I2cBusy
<1>11. CASE ServoStarts \/ ServoStops
  <2>1. /\ page = "servo" /\ UNCHANGED <<mode, pwm, spi, spiMode, spiSaved>>
        /\ \/ /\ servo' = [ready |-> TRUE, running |-> TRUE]
              /\ pin' = [pin EXCEPT !["G0"] = "servo", !["G54"] = "led"]
           \/ /\ servo' = [ready |-> FALSE, running |-> FALSE]
              /\ pin' = [pin EXCEPT !["G0"] = "off", !["G54"] = "off"]
    BY <1>10, <1>11 DEF ServoStarts, ServoStops, I2cBusy
  <2>2. /\ pin' \in [Pins -> PinStates] /\ pin'["G6"] = pin["G6"] /\ pin'["G18"] = pin["G18"]
        /\ \/ servo' = [ready |-> TRUE, running |-> TRUE] /\ pin'["G0"] = "servo" /\ pin'["G54"] = "led"
           \/ servo' = [ready |-> FALSE, running |-> FALSE] /\ pin'["G0"] = "off" /\ pin'["G54"] = "off"
    BY <1>1, <1>6, <2>1
  <2>3. \A q \in Pins : pin'[q] \notin {"in", "out"}
    BY <1>6, <1>9, <2>1, <2>2
  <2>4. TransferAsLabelled' /\ DeviceAsChosen'
    BY <1>4, <2>1 DEF TransferAsLabelled, DeviceAsChosen
  <2>5. /\ servo' \in [ready : BOOLEAN, running : BOOLEAN]
        /\ servo'.ready => servo'.running /\ page = "servo"
        /\ servo'.ready <=> pin'["G0"] = "servo"
        /\ servo'.ready <=> pin'["G54"] = "led"
        /\ pin'["G0"] \in {"off", "servo"} /\ pin'["G54"] \in {"off", "led", "i2c"}
        /\ pin'["G54"] # "i2c"
    <3>1. CASE servo' = [ready |-> TRUE, running |-> TRUE] /\ pin'["G0"] = "servo" /\ pin'["G54"] = "led"
      <4>1. servo'.ready = TRUE /\ servo'.running = TRUE
        BY <3>1
      <4> QED
        BY <2>1, <3>1, <4>1
    <3>2. CASE servo' = [ready |-> FALSE, running |-> FALSE] /\ pin'["G0"] = "off" /\ pin'["G54"] = "off"
      <4>1. servo'.ready = FALSE /\ servo'.running = FALSE
        BY <3>2
      <4> QED
        BY <3>2, <4>1
    <3> QED
      BY <2>2, <3>1, <3>2
  <2>6. /\ page \in {"servo", "signal", "spi"} /\ bus = "free" /\ pwm' = pwm /\ spi' = spi
        /\ spiMode' = spiMode /\ mode' = mode
    BY <1>10, <2>1
  <2>7. /\ pwm' \in BOOLEAN /\ spi' \in {"free", "bus", "device"}
        /\ spiMode' \in [chosen : 0 .. SpiModes - 1, device : None .. SpiModes - 1]
    BY <1>1, <2>6
  <2>8. /\ pwm' => page = "signal"
        /\ pwm' <=> pin'["G6"] = "pwm"
        /\ pin'["G18"] = "spi" => spi' # "free"
        /\ pin'["G6"] \in {"off", "pwm"} /\ pin'["G18"] \in {"off", "spi"}
    BY <1>9, <1>10, <2>2, <2>6
  <2> QED
    BY <1>8, <2>2, <2>3, <2>4, <2>5, <2>6, <2>7, <2>8
<1>12. CASE PwmStarts \/ PwmStops
  <2>1. /\ page = "signal" /\ UNCHANGED <<mode, servo, spi, spiMode, spiSaved>>
        /\ \/ pwm' = TRUE /\ pin' = [pin EXCEPT !["G6"] = "pwm"]
           \/ pwm' = FALSE /\ pin' = [pin EXCEPT !["G6"] = "off"]
    BY <1>12 DEF PwmStarts, PwmStops
  <2>2. /\ pin' \in [Pins -> PinStates] /\ \A q \in {"G0", "G18", "G54"} : pin'[q] = pin[q]
        /\ pin'["G6"] = IF pwm' THEN "pwm" ELSE "off"
    BY <1>1, <1>6, <2>1
  <2>3. \A q \in Pins : pin'[q] \notin {"in", "out"}
    BY <1>6, <1>9, <2>1, <2>2
  <2>4. TransferAsLabelled' /\ DeviceAsChosen'
    BY <1>4, <2>1 DEF TransferAsLabelled, DeviceAsChosen
  <2>5. /\ pwm' \in BOOLEAN /\ pin'["G6"] \in {"off", "pwm"}
        /\ pwm' <=> pin'["G6"] = "pwm"
        /\ pin'["G18"] = pin["G18"] /\ pin'["G0"] = pin["G0"] /\ pin'["G54"] = pin["G54"]
    BY <2>1, <2>2
  <2>6. /\ page \in {"servo", "signal", "spi"} /\ page # "servo" /\ servo' = servo /\ spi' = spi
        /\ spiMode' = spiMode /\ mode' = mode
    BY <2>1
  <2>7. /\ servo' \in [ready : BOOLEAN, running : BOOLEAN] /\ spi' \in {"free", "bus", "device"}
        /\ spiMode' \in [chosen : 0 .. SpiModes - 1, device : None .. SpiModes - 1]
    BY <1>1, <2>6
  <2>8. /\ ~servo'.ready /\ pin'["G0"] \in {"off", "servo"} /\ pin'["G18"] \in {"off", "spi"}
        /\ pin'["G54"] \in {"off", "led", "i2c"}
        /\ ~servo'.ready <=> pin'["G0"] # "servo"
        /\ ~servo'.ready <=> pin'["G54"] # "led"
        /\ bus # "free" <=> pin'["G54"] = "i2c"
        /\ pin'["G18"] = "spi" => spi' # "free"
    BY <1>9, <1>10, <2>5, <2>6
  <2> QED
    BY <1>8, <2>1, <2>2, <2>3, <2>4, <2>5, <2>6, <2>7, <2>8
<1>13. CASE SpiStarts \/ SpiStops
  <2>1. /\ page = "spi" /\ UNCHANGED <<mode, servo, pwm, spiSaved>>
        /\ \/ pin' = [pin EXCEPT !["G18"] = IF spi' = "free" THEN "off" ELSE "spi"]
           \/ pin' = [pin EXCEPT !["G18"] = IF spi' = "free" THEN "off" ELSE pin["G18"]]
    BY <1>13 DEF SpiStarts, SpiStops
  <2>2. /\ pin' \in [Pins -> PinStates] /\ \A q \in {"G0", "G6", "G54"} : pin'[q] = pin[q]
        /\ pin'["G18"] \in {"off", "spi", pin["G18"]} /\ (spi' = "free" => pin'["G18"] = "off")
    BY <1>1, <1>6, <2>1
  <2>3. \A q \in Pins : pin'[q] \notin {"in", "out"}
    BY <1>6, <1>9, <2>1, <2>2
  <2>4. /\ spi' \in {"free", "bus", "device"} /\ DeviceAsChosen'
        /\ spiMode' \in [chosen : 0 .. SpiModes - 1, device : None .. SpiModes - 1]
    <3>1. CASE SpiStops
      BY <3>1, SpiStopped DEF SpiStops
    <3>2. CASE SpiStarts
      <4>1. spi' \in {"free", "bus", "device"}
            /\ spiMode' = [spiMode EXCEPT !.device = IF spi' = "device" THEN spiMode.chosen ELSE None]
        BY <3>2, StopOnlyReleases DEF SpiStarts
      <4>2. None \in None .. SpiModes - 1 /\ 0 .. SpiModes - 1 \subseteq None .. SpiModes - 1
        BY BenchAssumption DEF None
      <4>3. /\ spiMode' \in [chosen : 0 .. SpiModes - 1, device : None .. SpiModes - 1]
            /\ spiMode'.chosen = spiMode.chosen /\ (spi' = "device" => spiMode'.device = spiMode.chosen)
        BY <1>1, <4>1, <4>2
      <4> QED
        BY <4>1, <4>3 DEF DeviceAsChosen
    <3> QED
      BY <1>13, <3>1, <3>2
  <2>5. TransferAsLabelled'
    BY <1>4, <2>1 DEF TransferAsLabelled
  <2> QED
    BY <1>1, <1>8, <1>9, <1>10, <2>1, <2>2, <2>3, <2>4, <2>5
<1>14. CASE SpiSettingClicked
  <2>1. /\ page = "spi" /\ spi = "free" /\ UNCHANGED <<mode, servo, pwm, pin, spi, spiSaved>>
        /\ spiMode' = [spiMode EXCEPT !.chosen = (spiMode.chosen + 1) % SpiModes]
    BY <1>14 DEF SpiSettingClicked
  <2>2. (spiMode.chosen + 1) % SpiModes \in 0 .. SpiModes - 1
    BY <1>1, BenchAssumption
  <2>3. spiMode' \in [chosen : 0 .. SpiModes - 1, device : None .. SpiModes - 1]
    BY <1>1, <2>1, <2>2
  <2>4. TransferAsLabelled' /\ DeviceAsChosen'
    BY <1>4, <2>1 DEF TransferAsLabelled, DeviceAsChosen
  <2> QED
    BY <1>1, <1>8, <1>9, <1>10, <2>1, <2>3, <2>4
<1>15. CASE SpiTransfers \/ SpiCleared
  <2>1. /\ page = "spi" /\ UNCHANGED <<mode, servo, pwm, pin, spi, spiMode>>
        /\ \/ spiSaved' = NoTransfer
           \/ spi = "device" /\ spiSaved' = [label |-> spiMode.chosen, used |-> spiMode.device]
    BY <1>15 DEF SpiTransfers, SpiCleared
  <2>2. TransferAsLabelled' /\ DeviceAsChosen'
    BY <1>4, <2>1 DEF TransferAsLabelled, DeviceAsChosen, NoTransfer
  <2> QED
    BY <1>1, <1>8, <1>9, <1>10, <2>1, <2>2
<1> QED
  BY <1>7, <1>11, <1>12, <1>13, <1>14, <1>15

\* I2C at work: its pins are its own as long as it holds the bus.
LEMMA I2cUsedKept == BenchIInv /\ I2cUsed => BenchIInv'
<1> SUFFICES ASSUME ToolsIInv, ScopeIInv, I2cIInv, I2cUsed PROVE ToolsIInv' /\ ScopeIInv' /\ I2cIInv'
  BY BenchParts, PTL
<1>1. /\ page = "i2c" /\ UNCHANGED <<scopeVars, page, mode, servo, pwm, spi, spiMode, spiSaved>>
      /\ pin' = [pin EXCEPT !["G54"] = IF bus' = "free" THEN "off" ELSE "i2c"]
  BY DEF I2cUsed
<1>2. ScopeIInv' /\ I2cIInv'
  BY <1>1, ScopePageKept, I2cKept DEF I2cUsed
<1>3. /\ pin \in [Pins -> PinStates] /\ {"G0", "G6", "G18", "G54"} = Pins
      /\ PinStates = {"off", "in", "out", "servo", "led", "i2c", "spi", "pwm"}
  BY DEF ToolsIInv, ToolTypes, Pins, PinStates
<1>4. /\ pin' \in [Pins -> PinStates] /\ \A q \in {"G0", "G6", "G18"} : pin'[q] = pin[q]
      /\ pin'["G54"] = IF bus' = "free" THEN "off" ELSE "i2c"
  BY <1>1, <1>3
<1>5. ToolTypes' /\ ScopePageAgrees' /\ TransferAsLabelled' /\ DeviceAsChosen'
  BY <1>1, <1>4 DEF ToolsIInv, ToolTypes, ScopePageAgrees, TransferAsLabelled, DeviceAsChosen, scopeVars
<1>6. OneOwner'
  <2>1. servo.ready = FALSE /\ sampler'.at \notin {"read", "converted", "stop"}
    BY <1>1, TaskQuiet DEF ToolsIInv, ToolTypes, PinsByTool, scopeVars
  <2> QED
    BY <1>1, <1>4, <2>1 DEF ToolsIInv, OneOwner, I2cBusy
<1>7. PinsByTool'
  <2>1. \A q \in Pins : pin'[q] \in {"in", "out"} => mode'[q] # 0
    BY <1>1, <1>3, <1>4 DEF ToolsIInv, PinsByTool
  <2> QED
    BY <1>1, <1>4, <2>1 DEF ToolsIInv, PinsByTool
<1> QED
  BY <1>2, <1>5, <1>6, <1>7 DEF ToolsIInv

\* The Scope at work: the ADC takes a pin that nobody holds.
LEMMA ScopeUsedKept == BenchIInv /\ ScopeUsed => BenchIInv'
<1> SUFFICES ASSUME ToolsIInv, ScopeIInv, I2cIInv, ScopeUsed PROVE ToolsIInv' /\ ScopeIInv' /\ I2cIInv'
  BY BenchParts, PTL
<1>1. UNCHANGED <<i2cVars, bus, page, mode, servo, pwm, spi, spiMode, spiSaved, scopePage>>
  BY DEF ScopeUsed, i2cVars, ScopeControls, ScopeTick, RunClicked, ChannelClicked, RateClicked, CaptureClicked,
         CalibrationClicked, ScopeTask, Claim, AdcStarts, AdcFails, ReadFrame, StoreFrame, SamplingEnds, LetGo,
         PageUnchanged
<1>2. ScopeIInv' /\ I2cIInv'
  BY <1>1, ScopePageKept, ScopeTaskKept, I2cKept DEF ScopeUsed
<1>3. ScopePageAgrees' /\ TransferAsLabelled' /\ DeviceAsChosen'
  BY <1>1 DEF ToolsIInv, ScopePageAgrees, TransferAsLabelled, DeviceAsChosen
<1>4. /\ pin \in [Pins -> PinStates] /\ {"G0", "G6", "G18", "G54"} = Pins
      /\ PinStates = {"off", "in", "out", "servo", "led", "i2c", "spi", "pwm"} /\ picked \in Inputs
      /\ sampler \in [at : {"unbuilt", "none", "loop", "claimed", "read", "converted", "stop"},
                      input : Inputs, scale : 0 .. ScopeScales - 1]
  BY DEF ToolsIInv, ToolTypes, Pins, PinStates, ScopeIInv, ScopeTypes
<1>5. CASE AdcStarts
  <2> DEFINE taken == ScopePins[picked.channel]
  <2>1. /\ sampler.at = "claimed" /\ sampler' = [sampler EXCEPT !.at = "read", !.input = picked]
        /\ pin' = [pin EXCEPT ![taken] = "off"]
    BY <1>4, <1>5 DEF ScopeUsed, AdcStarts
  <2>2. sampler'.input = picked
    BY <1>4, <2>1
  <2>3. taken \in {"G18", "G54"}
    BY <1>4, BenchAssumption DEF Inputs
  <2>4. page = "scope" /\ bus = "free" /\ servo.ready = FALSE
    BY <2>1, TaskQuiet DEF ToolsIInv, ToolTypes, PinsByTool
  <2> HIDE DEF taken
  <2>5. /\ pin' \in [Pins -> PinStates] /\ pin'[taken] = "off"
        /\ \A q \in Pins : pin'[q] = pin[q] \/ pin'[q] = "off"
        /\ pin'["G0"] = pin["G0"] /\ pin'["G6"] = pin["G6"]
    BY <1>4, <2>1, <2>3
  <2>6. ToolTypes'
    BY <1>1, <2>5 DEF ToolsIInv, ToolTypes
  <2>7. OneOwner'
    <3>1. pin'["G54"] \notin {"led", "i2c"} /\ (pin'["G18"] = "spi" => spi # "free")
      BY <1>4, <2>4, <2>5 DEF ToolsIInv, OneOwner, I2cBusy
    <3>2. pin'[ScopePins[sampler'.input.channel]] = "off"
      BY <2>2, <2>5 DEF taken
    <3> QED
      BY <1>1, <2>4, <2>5, <3>1, <3>2 DEF ToolsIInv, OneOwner, I2cBusy
  <2>8. PinsByTool'
    BY <1>1, <1>4, <2>5 DEF ToolsIInv, PinsByTool
  <2> QED
    BY <1>2, <1>3, <2>6, <2>7, <2>8 DEF ToolsIInv
<1>6. CASE ~AdcStarts
  <2>1. /\ ~(sampler.at = "claimed" /\ sampler'.at = "read")
        /\ sampler' = sampler \/ (sampler'.input = sampler.input
             /\ (sampler'.at \in {"read", "converted", "stop"} => sampler.at \in {"read", "converted", "stop"}))
    BY <1>4, <1>6 DEF ScopeUsed, ScopeControls, ScopeTick, RunClicked, ChannelClicked, RateClicked, CaptureClicked,
       CalibrationClicked, ScopeTask, Claim, AdcFails, ReadFrame, StoreFrame, SamplingEnds, LetGo, SamplerGoes
  <2>2. pin' = pin
    BY <2>1 DEF ScopeUsed
  <2>3. ToolTypes' /\ PinsByTool'
    BY <1>1, <2>2 DEF ToolsIInv, ToolTypes, PinsByTool
  <2>4. OneOwner'
    BY <1>1, <2>1, <2>2 DEF ToolsIInv, OneOwner, I2cBusy
  <2> QED
    BY <1>2, <1>3, <2>3, <2>4 DEF ToolsIInv
<1> QED
  BY <1>5, <1>6

LEMMA BenchStep == BenchIInv /\ [PinsNext]_pinsVars => BenchIInv'
<1> SUFFICES ASSUME BenchIInv, [PinsNext]_pinsVars PROVE BenchIInv'
  OBVIOUS
<1>1. ToolsIInv /\ ScopeIInv /\ I2cIInv
  BY BenchParts
<1>2. CASE PageChanges
  BY <1>2, PageChangesKept
<1>3. ASSUME \/ \E p \in GpioPins : GpioModeClicked(p)
             \/ ServoStarts \/ ServoStops \/ PwmStarts \/ PwmStops
             \/ SpiStarts \/ SpiStops \/ SpiSettingClicked \/ SpiTransfers \/ SpiCleared
      PROVE  ToolsIInv' /\ ScopeIInv' /\ I2cIInv'
  <2>1. UNCHANGED <<scopeVars, i2cVars, page>>
    BY <1>3 DEF GpioModeClicked, ServoStarts, ServoStops, PwmStarts, PwmStops, SpiStarts, SpiStops, SpiSettingClicked,
                SpiTransfers, SpiCleared
  <2> QED
    BY <1>1, <1>3, <2>1, ToolsKept, ScopePageKept, I2cKept
<1>4. CASE I2cUsed \/ ScopeUsed
  BY <1>4, I2cUsedKept, ScopeUsedKept
<1>5. ASSUME Outside \/ UNCHANGED pinsVars PROVE ToolsIInv' /\ ScopeIInv' /\ I2cIInv'
  <2>1. UNCHANGED <<scopeVars, benchVars, bus>> /\ (ConfirmationAges \/ UNCHANGED i2cVars)
    BY <1>5 DEF Outside, pinsVars, ConfirmationAges, i2cVars
  <2>2. UNCHANGED <<sampler, scopePage>>
    BY <2>1 DEF scopeVars
  <2>3. ToolsIInv'
    BY <1>1, <2>1, <2>2 DEF ToolsIInv, ToolTypes, ScopePageAgrees, OneOwner, I2cBusy, PinsByTool, TransferAsLabelled,
                            DeviceAsChosen, benchVars
  <2> QED
    BY <1>1, <2>1, <2>3, ScopePageKept, I2cKept
<1>6. ToolsIInv' /\ ScopeIInv' /\ I2cIInv' => BenchIInv'
  BY BenchParts, PTL
<1> QED
  BY <1>2, <1>3, <1>4, <1>5, <1>6 DEF PinsNext

LEMMA BenchInitially == PinsInit => BenchIInv
<1> SUFFICES ASSUME PinsInit PROVE ToolsIInv /\ ScopeIInv /\ I2cIInv
  BY BenchParts
<1>1. I2cIInv
  BY I2cAssumption DEF PinsInit, I2cInit, I2cIInv, I2cTypes, ArmedAsDrafted, PublishedWhole, Disarmed
<1>2. ScopeIInv
  <2>1. 0 \in 0 .. ScopeChannels - 1 /\ 0 \in 0 .. ScopeRates - 1 /\ 0 \in 0 .. ScopeScales - 1
    BY ScopeAssumption
  <2>2. [channel |-> 0, rate |-> 0] \in Inputs
    BY <2>1 DEF Inputs
  <2>3. <<>> \in Seq(Samples) /\ Len(<<>>) = 0 /\ DOMAIN <<>> = {} /\ 0 <= RingPoints
    BY ScopeAssumption
  <2>4. scales \in [0 .. ScopeChannels - 1 -> 0 .. ScopeScales - 1]
    BY <2>1 DEF PinsInit, ScopeInit
  <2>5. scopeOn = [active |-> FALSE, running |-> TRUE, sampling |-> FALSE] /\ scopePage = "closed"
        /\ picked = [channel |-> 0, rate |-> 0] /\ sampler = [at |-> "unbuilt", input |-> picked, scale |-> 0]
        /\ scopeRing = <<>> /\ chart = <<>> /\ shot = "none"
    BY DEF PinsInit, ScopeInit
  <2>6. ScopeTypes
    BY <2>1, <2>2, <2>3, <2>4, <2>5 DEF ScopeTypes
  <2>7. ~scopeOn.active /\ ~scopeOn.sampling /\ sampler.at = "unbuilt"
    BY <2>5
  <2>8. QuietWhenClosed
    BY <2>7 DEF QuietWhenClosed
  <2>9. OneInput
    BY <2>3, <2>5 DEF OneInput
  <2>10. SamplerKnown
    <3>1. scopeOn.sampling = FALSE
      BY <2>5
    <3>2. (sampler.at \in {"claimed", "read", "converted", "stop"}) = FALSE
      BY <2>7
    <3> QED
      BY <2>3, <2>5, <2>7, <3>1, <3>2 DEF SamplerKnown
  <2> QED
    BY <2>6, <2>8, <2>9, <2>10 DEF ScopeIInv
<1>3. ToolsIInv
  <2>1. None \in None .. SpiModes - 1 /\ 0 \in 0 .. SpiModes - 1
    BY BenchAssumption DEF None
  <2>2. /\ pin \in [Pins -> PinStates] /\ mode \in [Pins -> 0..3]
        /\ \A p \in {"G0", "G6", "G18", "G54"} : pin[p] = "off" /\ mode[p] = 0
    BY DEF PinsInit, Pins, PinStates
  <2>3. spiMode \in [chosen : 0 .. SpiModes - 1, device : None .. SpiModes - 1]
    BY <2>1 DEF PinsInit
  <2>4. /\ page = "home" /\ servo = [ready |-> FALSE, running |-> FALSE] /\ pwm = FALSE /\ spi = "free"
        /\ bus = "free" /\ scopePage = "closed" /\ sampler.at = "unbuilt" /\ spiSaved.label = spiSaved.used
    BY DEF PinsInit, ScopeInit, I2cInit, NoTransfer
  <2>5. ToolTypes
    BY <2>2, <2>3, <2>4 DEF ToolTypes
  <2> QED
    BY <2>2, <2>4, <2>5 DEF ToolsIInv, ScopePageAgrees, OneOwner, I2cBusy, PinsByTool, TransferAsLabelled,
                            DeviceAsChosen, Pins
<1> QED
  BY <1>1, <1>2, <1>3

\* For any channels, buffers, targets and settings: nothing is sampled behind a closed
\* page, a chart shows one input, writes are what was confirmed, captures are whole,
\* transfers are labelled as made, and away from the tools every pin is off but those
\* whose cleanup is owed, which refuse a restart.
THEOREM BenchIsSafe == PinsSpec => []BenchInv
<1>1. BenchIInv => BenchInv
  BY DEF BenchIInv
<1> QED
  BY <1>1, BenchInitially, BenchStep, PTL DEF PinsSpec

\* A driver that holds a pin finds it as it configured it, and a pin so configured is
\* held, whatever cleanup fails.
THEOREM PinsHaveOneOwner == PinsSpec => []OneOwner
<1>1. BenchIInv => OneOwner
  BY DEF BenchIInv
<1> QED
  BY <1>1, BenchInitially, BenchStep, PTL DEF PinsSpec

--------------------------------------------------------------------------------
(* The Bluetooth explorer.  What each action moves, so that an invariant     *)
(* need only be shown for the actions that move what it is about.            *)

LEMMA PageMoved ==
  ASSUME BleNext
  PROVE UNCHANGED <<screen, scanRequested, listed, selectedDevice>> \/ BleScan \/ BleAdvertised \/ BleDevice
        \/ BleConnect \/ BleShow \/ BleHome
  BY DEF BleNext, BleHost, BlePage, HostOnly, Unarmed, StackOnly, TapOnly, Ends, StartNext,
     ResetConnectionData, Begin, flags, gatt, writing, subs, ghosts, GapConnectFailed, GapConnected,
     GapRejects, GapDiscovers, GapDisconnected, GapNotified, DiscoveryEnds, CharacteristicFound,
     BleReadDone, BleWriteDone, DescriptorsDone, SubscriptionWritten, BleConnectCall, BleDisconnect,
     BleTerminateCall, BleSelect, BleTap, BleRefusedTap, BleReadTap, BleSubscribeTap, BleArm,
     BleWriteTap, BleCall, BleType, BleExpire

LEMMA FlagsMoved ==
  ASSUME BleNext
  PROVE UNCHANGED <<connecting, connected, stopping, conn>> \/ GapConnectFailed \/ GapConnected \/
        GapDisconnected \/ BleConnect \/ BleConnectCall \/ BleDisconnect \/ BleHome
  BY DEF BleNext, BleHost, BlePage, HostOnly, Unarmed, StackOnly, TapOnly, Ends, StartNext,
     ResetConnectionData, Begin, flags, gatt, writing, subs, ghosts, GapRejects, GapDiscovers,
     GapNotified, DiscoveryEnds, CharacteristicFound, BleReadDone, BleWriteDone, DescriptorsDone,
     SubscriptionWritten, BleScan, BleAdvertised, BleDevice, BleTerminateCall, BleSelect, BleTap,
     BleRefusedTap, BleReadTap, BleSubscribeTap, BleArm, BleWriteTap, BleCall, BleType, BleExpire,
     BleShow

LEMMA AttemptMoved ==
  ASSUME BleNext
  PROVE UNCHANGED attempt \/ GapConnectFailed \/ GapConnected \/ BleConnectCall \/ BleHome
  BY DEF BleNext, BleHost, BlePage, HostOnly, Unarmed, StackOnly, TapOnly, Ends, StartNext,
     ResetConnectionData, Begin, flags, gatt, writing, subs, ghosts, GapRejects, GapDiscovers,
     GapDisconnected, GapNotified, DiscoveryEnds, CharacteristicFound, BleReadDone, BleWriteDone,
     DescriptorsDone, SubscriptionWritten, BleScan, BleAdvertised, BleDevice, BleConnect, BleDisconnect,
     BleTerminateCall, BleSelect, BleTap, BleRefusedTap, BleReadTap, BleSubscribeTap, BleArm,
     BleWriteTap, BleCall, BleType, BleExpire, BleShow

LEMMA LinkMoved ==
  ASSUME BleNext
  PROVE UNCHANGED link \/ GapConnected \/ GapRejects \/ GapDisconnected \/ BleTerminateCall
  BY DEF BleNext, BleHost, BlePage, HostOnly, Unarmed, StackOnly, TapOnly, Ends, StartNext,
     ResetConnectionData, Begin, flags, gatt, writing, subs, ghosts, GapConnectFailed, GapDiscovers,
     GapNotified, DiscoveryEnds, CharacteristicFound, BleReadDone, BleWriteDone, DescriptorsDone,
     SubscriptionWritten, BleScan, BleAdvertised, BleDevice, BleConnect, BleConnectCall, BleDisconnect,
     BleSelect, BleTap, BleRefusedTap, BleReadTap, BleSubscribeTap, BleArm, BleWriteTap, BleCall,
     BleType, BleExpire, BleShow, BleHome

LEMMA GattMoved ==
  ASSUME BleNext
  PROVE UNCHANGED <<discovering, cursor, found>> \/ GapConnected \/ GapDiscovers \/ GapDisconnected \/
        DiscoveryEnds \/ CharacteristicFound
  BY DEF BleNext, BleHost, BlePage, HostOnly, Unarmed, StackOnly, TapOnly, Ends, StartNext,
     ResetConnectionData, Begin, flags, gatt, writing, subs, ghosts, GapConnectFailed, GapRejects,
     GapNotified, BleReadDone, BleWriteDone, DescriptorsDone, SubscriptionWritten, BleScan,
     BleAdvertised, BleDevice, BleConnect, BleConnectCall, BleDisconnect, BleTerminateCall, BleSelect,
     BleTap, BleRefusedTap, BleReadTap, BleSubscribeTap, BleArm, BleWriteTap, BleCall, BleType,
     BleExpire, BleShow, BleHome

LEMMA SelectedMoved ==
  ASSUME BleNext
  PROVE UNCHANGED selected \/ GapConnected \/ GapDisconnected \/ BleSelect
  BY DEF BleNext, BleHost, BlePage, HostOnly, Unarmed, StackOnly, TapOnly, Ends, StartNext,
     ResetConnectionData, Begin, flags, gatt, writing, subs, ghosts, GapConnectFailed, GapRejects,
     GapDiscovers, GapNotified, DiscoveryEnds, CharacteristicFound, BleReadDone, BleWriteDone,
     DescriptorsDone, SubscriptionWritten, BleScan, BleAdvertised, BleDevice, BleConnect, BleConnectCall,
     BleDisconnect, BleTerminateCall, BleTap, BleRefusedTap, BleReadTap, BleSubscribeTap, BleArm,
     BleWriteTap, BleCall, BleType, BleExpire, BleShow, BleHome

LEMMA ProcsMoved ==
  ASSUME BleNext
  PROVE UNCHANGED procs \/ GapDiscovers \/ GapDisconnected \/ DiscoveryEnds \/ BleReadDone \/ BleWriteDone
        \/ DescriptorsDone \/ SubscriptionWritten \/ BleCall
  BY DEF BleNext, BleHost, BlePage, HostOnly, Unarmed, StackOnly, TapOnly, Ends, StartNext,
     ResetConnectionData, Begin, flags, gatt, writing, subs, ghosts, GapConnectFailed, GapConnected,
     GapRejects, GapNotified, CharacteristicFound, BleScan, BleAdvertised, BleDevice, BleConnect,
     BleConnectCall, BleDisconnect, BleTerminateCall, BleSelect, BleTap, BleRefusedTap, BleReadTap,
     BleSubscribeTap, BleArm, BleWriteTap, BleType, BleExpire, BleShow, BleHome

LEMMA BusyMoved ==
  ASSUME BleNext
  PROVE UNCHANGED operationBusy \/ GapConnected \/ GapDisconnected \/ DiscoveryEnds \/ BleReadDone \/
        BleWriteDone \/ DescriptorsDone \/ SubscriptionWritten \/ BleReadTap \/ BleSubscribeTap \/
        BleWriteTap \/ BleCall
  BY DEF BleNext, BleHost, BlePage, HostOnly, Unarmed, StackOnly, TapOnly, Ends, StartNext,
     ResetConnectionData, Begin, flags, gatt, writing, subs, ghosts, GapConnectFailed, GapRejects,
     GapDiscovers, GapNotified, CharacteristicFound, BleScan, BleAdvertised, BleDevice, BleConnect,
     BleConnectCall, BleDisconnect, BleTerminateCall, BleSelect, BleTap, BleRefusedTap, BleArm, BleType,
     BleExpire, BleShow, BleHome

LEMMA ReceivedMoved ==
  ASSUME BleNext
  PROVE UNCHANGED received \/ GapConnected \/ GapDisconnected \/ GapNotified \/ BleReadDone \/ BleReadTap \/
        BleWriteTap
  BY DEF BleNext, BleHost, BlePage, HostOnly, Unarmed, StackOnly, TapOnly, Ends, StartNext,
     ResetConnectionData, Begin, flags, gatt, writing, subs, ghosts, GapConnectFailed, GapRejects,
     GapDiscovers, DiscoveryEnds, CharacteristicFound, BleWriteDone, DescriptorsDone,
     SubscriptionWritten, BleScan, BleAdvertised, BleDevice, BleConnect, BleConnectCall, BleDisconnect,
     BleTerminateCall, BleSelect, BleTap, BleRefusedTap, BleSubscribeTap, BleArm, BleCall, BleType,
     BleExpire, BleShow, BleHome

LEMMA ArmedMoved ==
  ASSUME BleNext
  PROVE UNCHANGED <<writeArmed, fresh>> \/ GapConnected \/ GapDisconnected \/ BleSelect \/ BleReadTap \/
        BleArm \/ BleWriteTap \/ BleExpire \/ BleShow \/ BleHome
  BY DEF BleNext, BleHost, BlePage, HostOnly, Unarmed, StackOnly, TapOnly, Ends, StartNext,
     ResetConnectionData, Begin, flags, gatt, writing, subs, ghosts, GapConnectFailed, GapRejects,
     GapDiscovers, GapNotified, DiscoveryEnds, CharacteristicFound, BleReadDone, BleWriteDone,
     DescriptorsDone, SubscriptionWritten, BleScan, BleAdvertised, BleDevice, BleConnect, BleConnectCall,
     BleDisconnect, BleTerminateCall, BleTap, BleRefusedTap, BleSubscribeTap, BleCall, BleType

LEMMA TextMoved ==
  ASSUME BleNext
  PROVE UNCHANGED text \/ BleType
  BY DEF BleNext, BleHost, BlePage, HostOnly, Unarmed, StackOnly, TapOnly, Ends, StartNext,
     ResetConnectionData, Begin, flags, gatt, writing, subs, ghosts, GapConnectFailed, GapConnected,
     GapRejects, GapDiscovers, GapDisconnected, GapNotified, DiscoveryEnds, CharacteristicFound,
     BleReadDone, BleWriteDone, DescriptorsDone, SubscriptionWritten, BleScan, BleAdvertised, BleDevice,
     BleConnect, BleConnectCall, BleDisconnect, BleTerminateCall, BleSelect, BleTap, BleRefusedTap,
     BleReadTap, BleSubscribeTap, BleArm, BleWriteTap, BleCall, BleExpire, BleShow, BleHome

LEMMA SubsMoved ==
  ASSUME BleNext
  PROVE UNCHANGED <<sub, subTarget, subEnable>> \/ GapConnected \/ GapDisconnected \/ SubscriptionWritten \/
        BleSubscribeTap
  BY DEF BleNext, BleHost, BlePage, HostOnly, Unarmed, StackOnly, TapOnly, Ends, StartNext,
     ResetConnectionData, Begin, flags, gatt, writing, subs, ghosts, GapConnectFailed, GapRejects,
     GapDiscovers, GapNotified, DiscoveryEnds, CharacteristicFound, BleReadDone, BleWriteDone,
     DescriptorsDone, BleScan, BleAdvertised, BleDevice, BleConnect, BleConnectCall, BleDisconnect,
     BleTerminateCall, BleSelect, BleTap, BleRefusedTap, BleReadTap, BleArm, BleWriteTap, BleCall,
     BleType, BleExpire, BleShow, BleHome

LEMMA LvMoved ==
  ASSUME BleNext
  PROVE UNCHANGED lv \/ BleConnect \/ BleConnectCall \/ BleDisconnect \/ BleTerminateCall \/ BleTap \/
        BleRefusedTap \/ BleReadTap \/ BleSubscribeTap \/ BleArm \/ BleWriteTap \/ BleCall \/ BleHome
  BY DEF BleNext, BleHost, BlePage, HostOnly, Unarmed, StackOnly, TapOnly, Ends, StartNext,
     ResetConnectionData, Begin, flags, gatt, writing, subs, ghosts, GapConnectFailed, GapConnected,
     GapRejects, GapDiscovers, GapDisconnected, GapNotified, DiscoveryEnds, CharacteristicFound,
     BleReadDone, BleWriteDone, DescriptorsDone, SubscriptionWritten, BleScan, BleAdvertised, BleDevice,
     BleSelect, BleType, BleExpire, BleShow

LEMMA HostMoved ==
  ASSUME BleNext
  PROVE UNCHANGED host \/ GapConnected \/ GapRejects \/ GapDiscovers
  BY DEF BleNext, BleHost, BlePage, HostOnly, Unarmed, StackOnly, TapOnly, Ends, StartNext,
     ResetConnectionData, Begin, flags, gatt, writing, subs, ghosts, GapConnectFailed, GapDisconnected,
     GapNotified, DiscoveryEnds, CharacteristicFound, BleReadDone, BleWriteDone, DescriptorsDone,
     SubscriptionWritten, BleScan, BleAdvertised, BleDevice, BleConnect, BleConnectCall, BleDisconnect,
     BleTerminateCall, BleSelect, BleTap, BleRefusedTap, BleReadTap, BleSubscribeTap, BleArm,
     BleWriteTap, BleCall, BleType, BleExpire, BleShow, BleHome

LEMMA CccdMoved ==
  ASSUME BleNext
  PROVE UNCHANGED cccd \/ GapDisconnected \/ SubscriptionWritten
  BY DEF BleNext, BleHost, BlePage, HostOnly, Unarmed, StackOnly, TapOnly, Ends, StartNext,
     ResetConnectionData, Begin, flags, gatt, writing, subs, ghosts, GapConnectFailed, GapConnected,
     GapRejects, GapDiscovers, GapNotified, DiscoveryEnds, CharacteristicFound, BleReadDone,
     BleWriteDone, DescriptorsDone, BleScan, BleAdvertised, BleDevice, BleConnect, BleConnectCall,
     BleDisconnect, BleTerminateCall, BleSelect, BleTap, BleRefusedTap, BleReadTap, BleSubscribeTap,
     BleArm, BleWriteTap, BleCall, BleType, BleExpire, BleShow, BleHome

LEMMA RefusedMoved ==
  ASSUME BleNext
  PROVE UNCHANGED refused \/ DiscoveryEnds
  BY DEF BleNext, BleHost, BlePage, HostOnly, Unarmed, StackOnly, TapOnly, Ends, StartNext,
     ResetConnectionData, Begin, flags, gatt, writing, subs, ghosts, GapConnectFailed, GapConnected,
     GapRejects, GapDiscovers, GapDisconnected, GapNotified, CharacteristicFound, BleReadDone,
     BleWriteDone, DescriptorsDone, SubscriptionWritten, BleScan, BleAdvertised, BleDevice, BleConnect,
     BleConnectCall, BleDisconnect, BleTerminateCall, BleSelect, BleTap, BleRefusedTap, BleReadTap,
     BleSubscribeTap, BleArm, BleWriteTap, BleCall, BleType, BleExpire, BleShow, BleHome

LEMMA ForgotMoved ==
  ASSUME BleNext
  PROVE UNCHANGED forgot \/ BleHome
  BY DEF BleNext, BleHost, BlePage, HostOnly, Unarmed, StackOnly, TapOnly, Ends, StartNext,
     ResetConnectionData, Begin, flags, gatt, writing, subs, ghosts, GapConnectFailed, GapConnected,
     GapRejects, GapDiscovers, GapDisconnected, GapNotified, DiscoveryEnds, CharacteristicFound,
     BleReadDone, BleWriteDone, DescriptorsDone, SubscriptionWritten, BleScan, BleAdvertised, BleDevice,
     BleConnect, BleConnectCall, BleDisconnect, BleTerminateCall, BleSelect, BleTap, BleRefusedTap,
     BleReadTap, BleSubscribeTap, BleArm, BleWriteTap, BleCall, BleType, BleExpire, BleShow

LEMMA NoWriteTyped == NoWrite \in [chr : 0..Services, val : Values, link : 0..MaxLinks]
  BY BleAssumption DEF NoWrite

LEMMA BleRanges ==
  /\ 0 \in 0..Services /\ 0 \in 0..MaxLinks /\ Links \subseteq 0..MaxLinks
  /\ Services \in Nat \ {0} /\ MaxLinks \in Nat \ {0}
  BY BleAssumption DEF Links

LEMMA BleTypesKept == ASSUME BleTypes, BleSteps, ProcsOnLinks, BleNext PROVE BleTypes'
<1>1. screen' \in BOOLEAN /\ scanRequested' \in BOOLEAN /\ listed' \in BOOLEAN /\ selectedDevice' \in BOOLEAN
  <2>1. CASE BleScan
    BY <2>1 DEF BleTypes, BleScan
  <2>2. CASE BleAdvertised \/ BleDevice \/ BleConnect \/ BleShow \/ BleHome
    BY <2>2 DEF BleTypes, BleAdvertised, BleDevice, BleConnect, BleShow, BleHome
  <2> QED
    BY <2>1, <2>2, PageMoved DEF BleTypes
<1>2. connecting' \in BOOLEAN /\ connected' \in BOOLEAN /\ stopping' \in BOOLEAN /\ conn' \in 0..MaxLinks
  <2>1. CASE GapConnected
    <3>1. connecting' = FALSE /\ connected' = Keep /\ stopping' = ~Keep /\ conn' \in Links
      BY <2>1 DEF GapConnected, Rejects
    <3>2. Keep \in BOOLEAN
      BY DEF Keep, BleTypes
    <3> QED
      BY <3>1, <3>2, BleRanges
  <2>2. CASE BleHome
    BY <2>2 DEF BleTypes, BleHome
  <2>3. CASE GapConnectFailed \/ GapDisconnected \/ BleConnect \/ BleConnectCall \/ BleDisconnect
    <3>1. /\ connecting' \in {TRUE, FALSE, connecting} /\ connected' \in {FALSE, connected}
          /\ stopping' \in {TRUE, FALSE, stopping} /\ conn' \in {0, conn}
      BY <2>3 DEF GapConnectFailed, GapDisconnected, BleConnect, BleConnectCall, BleDisconnect
    <3> QED
      BY <3>1, BleRanges DEF BleTypes
  <2> QED
    BY <2>1, <2>2, <2>3, FlagsMoved DEF BleTypes
<1>3. discovering' \in BOOLEAN /\ cursor' \in 0..Services /\ found' \in 0..Services
  <2>1. CASE DiscoveryEnds
    <3>1. PICK p \in procs : /\ p.op \in {"services", "characteristics"} /\ Active(p.link)
                             /\ \/ StartNext(p.link, IF p.op = "services" THEN 0 ELSE cursor + 1, procs \ {p})
                                \/ discovering' = FALSE /\ cursor' = cursor
                             /\ found' = found
      BY <2>1 DEF DiscoveryEnds
    <3>2. p.op = "characteristics" => cursor + 1 \in 0..Services
      BY <3>1, BleRanges DEF ProcsOnLinks, BleTypes
    <3>3. cursor' = cursor \/ cursor' = IF p.op = "services" THEN 0 ELSE cursor + 1
      BY <3>1 DEF StartNext
    <3>4. discovering' \in {TRUE, FALSE, discovering}
      BY <3>1 DEF StartNext
    <3>5. cursor' \in 0..Services
      BY <3>1, <3>2, <3>3, BleRanges DEF BleTypes
    <3> QED
      BY <3>1, <3>4, <3>5 DEF BleTypes
  <2>2. CASE CharacteristicFound
    <3>1. PICK p \in procs : /\ p.op = "characteristics" /\ Active(p.link) /\ found <= cursor /\ found' = found + 1
                             /\ UNCHANGED <<discovering, cursor>>
      BY <2>2 DEF CharacteristicFound
    <3>2. cursor < Services
      BY <3>1 DEF ProcsOnLinks
    <3> QED
      BY <3>1, <3>2, BleRanges DEF BleTypes
  <2>3. CASE GapConnected \/ GapDiscovers \/ GapDisconnected
    <3>1. discovering' \in {TRUE, FALSE, discovering} /\ cursor' \in {0, cursor} /\ found' \in {0, found}
      BY <2>3 DEF GapConnected, GapDiscovers, GapDisconnected, ResetConnectionData
    <3> QED
      BY <3>1, BleRanges DEF BleTypes
  <2> QED
    BY <2>1, <2>2, <2>3, GattMoved DEF BleTypes
<1>4. selected' \in 0..Services
  <2>1. CASE BleSelect
    BY <2>1, BleRanges DEF BleTypes, BleSelect
  <2>2. CASE GapConnected \/ GapDisconnected
    <3>1. selected' = 0
      BY <2>2 DEF GapConnected, GapDisconnected, ResetConnectionData
    <3> QED
      BY <3>1, BleRanges
  <2> QED
    BY <2>1, <2>2, SelectedMoved DEF BleTypes
<1>5. operationBusy' \in BOOLEAN
  <2>1. CASE DiscoveryEnds
    BY <2>1 DEF BleTypes, DiscoveryEnds, StartNext
  <2>2. CASE BleWriteTap \/ BleCall
    BY <2>2 DEF BleTypes, BleWriteTap, BleCall, Begin
  <2>3. CASE BleReadDone \/ BleWriteDone \/ DescriptorsDone \/ SubscriptionWritten
    BY <2>3 DEF BleTypes, BleReadDone, BleWriteDone, DescriptorsDone, SubscriptionWritten, Ends
  <2>4. CASE GapConnected \/ GapDisconnected \/ BleReadTap \/ BleSubscribeTap
    BY <2>4 DEF GapConnected, GapDisconnected, ResetConnectionData, BleReadTap, BleSubscribeTap, Begin
  <2> QED
    BY <2>1, <2>2, <2>3, <2>4, BusyMoved DEF BleTypes
<1>6. received' \in 0..MaxLinks
  <2>1. CASE BleReadDone
    <3>1. received' \in {0, conn}
      BY <2>1 DEF BleReadDone, Ends, Active
    <3> QED
      BY <3>1, BleRanges DEF BleTypes
  <2>2. CASE GapConnected \/ GapDisconnected \/ GapNotified \/ BleReadTap \/ BleWriteTap
    <3>1. received' \in {0, conn, received}
      BY <2>2 DEF GapConnected, GapDisconnected, ResetConnectionData, GapNotified, BleReadTap, BleWriteTap
    <3> QED
      BY <3>1, BleRanges DEF BleTypes
  <2> QED
    BY <2>1, <2>2, ReceivedMoved DEF BleTypes
<1>7. writeArmed' \in [chr : 0..Services, val : Values, link : 0..MaxLinks] /\ fresh' \in BOOLEAN
  <2>1. CASE BleArm
    <3>1. lv.chr \in 0..Services /\ lv.link \in 0..MaxLinks /\ text \in Values
      BY DEF BleTypes, BleSteps
    <3> QED
      BY <2>1, <3>1 DEF BleArm
  <2>2. CASE BleExpire
    BY <2>2 DEF BleTypes, BleExpire
  <2>3. CASE BleWriteTap
    BY <2>3, NoWriteTyped DEF BleTypes, BleWriteTap
  <2>4. CASE GapConnected \/ GapDisconnected \/ BleSelect \/ BleReadTap \/ BleShow \/ BleHome
    <3>1. writeArmed' = NoWrite /\ fresh' = FALSE
      BY <2>4 DEF GapConnected, GapDisconnected, ResetConnectionData, BleSelect, BleReadTap, BleShow, BleHome
    <3> QED
      BY <3>1, NoWriteTyped
  <2> QED
    BY <2>1, <2>2, <2>3, <2>4, ArmedMoved DEF BleTypes
<1>8. text' \in Values
  BY TextMoved DEF BleTypes, BleType
<1>9. sub' \in 0..Services /\ subTarget' \in 0..Services /\ subEnable' \in BOOLEAN
  <2>1. CASE SubscriptionWritten
    <3>1. UNCHANGED <<subTarget, subEnable>> /\ sub' \in {0, sub, subTarget}
      BY <2>1 DEF SubscriptionWritten
    <3> QED
      BY <3>1, BleRanges DEF BleTypes
  <2>2. CASE BleSubscribeTap
    <3>1. sub' = sub /\ subTarget' \in {subTarget, lv.chr} /\ subEnable' \in BOOLEAN
      BY <2>2 DEF BleSubscribeTap
    <3> QED
      BY <3>1 DEF BleTypes, BleSteps
  <2>3. CASE GapConnected \/ GapDisconnected
    <3>1. sub' = 0 /\ subTarget' = 0 /\ subEnable' = FALSE
      BY <2>3 DEF GapConnected, GapDisconnected, ResetConnectionData
    <3> QED
      BY <3>1, BleRanges
  <2> QED
    BY <2>1, <2>2, <2>3, SubsMoved DEF BleTypes
<1>10. cccd' \in 0..Services
  <2>1. CASE SubscriptionWritten
    <3>1. PICK p \in procs : cccd' \in {cccd, 0, p.chr}
      BY <2>1 DEF SubscriptionWritten
    <3>2. p.chr \in 0..Services
      BY <3>1 DEF BleSteps
    <3> QED
      BY <3>1, <3>2, BleRanges DEF BleTypes
  <2>2. CASE GapDisconnected
    BY <2>2, BleRanges DEF BleTypes, GapDisconnected
  <2> QED
    BY <2>1, <2>2, CccdMoved DEF BleTypes
<1>11. refused' \in BOOLEAN /\ forgot' \in BOOLEAN
  <2>1. CASE DiscoveryEnds
    BY <2>1 DEF BleTypes, DiscoveryEnds, StartNext
  <2>2. CASE BleHome
    BY <2>2 DEF BleTypes, BleHome
  <2> QED
    BY <2>1, <2>2, RefusedMoved, ForgotMoved DEF BleTypes
<1> QED
  BY <1>1, <1>2, <1>3, <1>4, <1>5, <1>6, <1>7, <1>8, <1>9, <1>10, <1>11 DEF BleTypes

LEMMA BleStepsKept == ASSUME BleTypes, BleSteps, ProcsOnLinks, BleNext PROVE BleSteps'
<1>1. attempt' \in {"none", "pending", "cancelled"}
  BY AttemptMoved DEF BleSteps, GapConnectFailed, GapConnected, BleConnectCall, BleHome
<1>2. link' \in [Links -> {"new", "up", "ending", "gone"}]
  <2>1. CASE GapConnected
    BY <2>1 DEF BleSteps, GapConnected
  <2>2. CASE GapDisconnected
    BY <2>2 DEF BleSteps, GapDisconnected
  <2>3. CASE GapRejects \/ BleTerminateCall
    <3>1. PICK h : Terminate(h)
      BY <2>3 DEF GapRejects, BleTerminateCall
    <3> QED
      BY <3>1 DEF BleSteps, Terminate
  <2> QED
    BY <2>1, <2>2, <2>3, LinkMoved DEF BleSteps
<1>3. lv' \in [op : {"none", "connect", "terminate"} \cup TapOps \cup CallOps, link : 0..MaxLinks, chr : 0..Services]
  <2>1. CASE BleTap
    <3>1. PICK op \in TapOps : lv' = [op |-> op, link |-> conn, chr |-> selected]
      BY <2>1 DEF BleTap, TapOps
    <3> QED
      BY <3>1 DEF BleTypes
  <2>2. CASE BleConnect \/ BleDisconnect \/ BleHome
    <3>1. \/ lv' = Free
          \/ lv' = [Free EXCEPT !.op = "connect"]
          \/ lv' = [Free EXCEPT !.op = "terminate", !.link = conn]
      BY <2>2 DEF BleConnect, BleDisconnect, BleHome
    <3>2. conn \in 0..MaxLinks
      BY DEF BleTypes
    <3>3. lv' = [Free EXCEPT !.op = "terminate", !.link = conn] => lv' = [op |-> "terminate", link |-> conn, chr |-> 0]
      BY DEF Free
    <3>4. lv' = [Free EXCEPT !.op = "connect"] => lv' = [op |-> "connect", link |-> 0, chr |-> 0]
      BY DEF Free
    <3> QED
      BY <3>1, <3>2, <3>3, <3>4, BleRanges DEF Free
  <2>3. CASE BleReadTap \/ BleSubscribeTap
    <3>1. PICK op \in CallOps : lv' = [lv EXCEPT !.op = op]
      BY <2>3 DEF BleReadTap, BleSubscribeTap, CallOps
    <3> QED
      BY <3>1 DEF BleSteps
  <2>4. CASE BleWriteTap
    <3>1. lv' = Free \/ lv' = [lv EXCEPT !.op = "call write"]
      BY <2>4 DEF BleWriteTap
    <3>2. Free \in [op : {"none", "connect", "terminate"} \cup TapOps \cup CallOps, link : 0..MaxLinks, chr : 0..Services]
      BY BleRanges DEF Free
    <3>3. lv' = [lv EXCEPT !.op = "call write"] =>
            lv' \in [op : {"none", "connect", "terminate"} \cup TapOps \cup CallOps, link : 0..MaxLinks, chr : 0..Services]
      BY DEF BleSteps, CallOps
    <3> QED
      BY <3>1, <3>2, <3>3
  <2>5. CASE BleConnectCall \/ BleTerminateCall \/ BleRefusedTap \/ BleArm \/ BleCall
    <3>1. lv' = Free
      BY <2>5 DEF BleConnectCall, BleTerminateCall, BleRefusedTap, BleArm, BleCall
    <3> QED
      BY <3>1, BleRanges DEF Free
  <2> QED
    BY <2>1, <2>2, <2>3, <2>4, <2>5, LvMoved DEF BleSteps
<1>4. host' \in [op : {"none", "discover", "terminate"}, link : 0..MaxLinks, chr : {0}]
  <2>1. CASE GapConnected
    <3>1. PICK h \in Links : \/ host' = [Free EXCEPT !.op = "discover", !.link = h]
                             \/ host' = [Free EXCEPT !.op = "terminate", !.link = h]
      BY <2>1 DEF GapConnected
    <3> QED
      BY <3>1, BleRanges DEF Free
  <2>2. CASE GapRejects \/ GapDiscovers
    <3>1. host' = Free
      BY <2>2 DEF GapRejects, GapDiscovers
    <3> QED
      BY <3>1, BleRanges DEF Free
  <2> QED
    BY <2>1, <2>2, HostMoved DEF BleSteps
<1>5. procs' \subseteq [op : OperationOps \cup DiscoveryOps, link : Links, chr : 0..Services]
  <2> DEFINE AllProcs == [op : OperationOps \cup DiscoveryOps, link : Links, chr : 0..Services]
  <2>1. CASE GapDiscovers
    <3>1. IsUp(host.link) /\ host.link \in 0..MaxLinks
      BY <2>1 DEF GapDiscovers, ProcsOnLinks, BleSteps
    <3>2. host.link \in Links
      BY <3>1, BleRanges DEF IsUp, Links
    <3>3. [op |-> "services", link |-> host.link, chr |-> 0] \in AllProcs
      BY <3>2, BleRanges DEF DiscoveryOps
    <3>4. procs' \subseteq procs \cup {[op |-> "services", link |-> host.link, chr |-> 0]}
      BY <2>1 DEF GapDiscovers
    <3> QED
      BY <3>3, <3>4 DEF BleSteps
  <2>2. CASE DiscoveryEnds
    <3>1. PICK p \in procs :
            procs' \subseteq procs \cup {[op |-> "characteristics", link |-> p.link, chr |-> 0]}
      BY <2>2 DEF DiscoveryEnds, StartNext
    <3>2. [op |-> "characteristics", link |-> p.link, chr |-> 0] \in AllProcs
      BY <3>1, BleRanges DEF DiscoveryOps, BleSteps
    <3> QED
      BY <3>1, <3>2 DEF BleSteps
  <2>3. CASE DescriptorsDone
    <3>1. PICK p \in procs : procs' \subseteq procs \cup {[p EXCEPT !.op = "enable"]}
      BY <2>3 DEF DescriptorsDone, Ends
    <3>2. [p EXCEPT !.op = "enable"] \in AllProcs
      BY <3>1 DEF OperationOps, BleSteps
    <3> QED
      BY <3>1, <3>2 DEF BleSteps
  <2>4. CASE BleCall
    <3>1. PICK op \in DOMAIN Calls :
            \/ procs' = procs
            \/ IsUp(lv.link) /\ procs' = procs \cup {[op |-> op, link |-> lv.link, chr |-> lv.chr]}
      BY <2>4 DEF BleCall
    <3>2. op \in OperationOps
      BY <3>1 DEF Calls, OperationOps
    <3>3. IsUp(lv.link) => lv.link \in Links
      BY BleRanges DEF IsUp, Links, BleSteps
    <3>4. IsUp(lv.link) => [op |-> op, link |-> lv.link, chr |-> lv.chr] \in AllProcs
      BY <3>2, <3>3 DEF BleSteps
    <3> QED
      BY <3>1, <3>4 DEF BleSteps
  <2>5. CASE GapDisconnected \/ BleReadDone \/ BleWriteDone \/ SubscriptionWritten
    <3>1. procs' \subseteq procs
      BY <2>5 DEF GapDisconnected, BleReadDone, BleWriteDone, SubscriptionWritten, Ends
    <3> QED
      BY <3>1 DEF BleSteps
  <2> QED
    BY <2>1, <2>2, <2>3, <2>4, <2>5, ProcsMoved DEF BleSteps
<1> QED
  BY <1>1, <1>2, <1>3, <1>4, <1>5 DEF BleSteps

\* What a callback of the page carries from its lock to its call.
LEMMA LvCarries ==
  ASSUME BleSteps, BleNext
  PROVE  /\ BleConnect => lv'.op = "connect"
         /\ BleTap => lv'.op \in TapOps /\ lv'.link = conn /\ lv'.chr = selected
         /\ BleDisconnect \/ BleHome =>
              \/ lv'.op = "none"
              \/ connected /\ lv'.op = "terminate" /\ lv'.link = conn
         /\ BleReadTap => lv.op = "read" /\ lv'.op = "call read"
         /\ BleSubscribeTap => lv.op = "subscribe" /\ lv'.op = IF sub = lv.chr THEN "call disable" ELSE "call descriptors"
         /\ BleWriteTap => lv.op = "write" /\ lv'.op \in {"none", "call write"}
         /\ BleReadTap \/ BleSubscribeTap \/ BleWriteTap =>
              lv'.op = "none" \/ (lv'.link = lv.link /\ lv'.chr = lv.chr)
         /\ BleConnectCall \/ BleTerminateCall \/ BleRefusedTap \/ BleArm \/ BleCall => lv'.op = "none"
<1>1. BleConnect => lv'.op = "connect"
  BY DEF BleConnect, Free
<1>2. BleTap => lv'.op \in TapOps /\ lv'.link = conn /\ lv'.chr = selected
  BY DEF BleTap, TapOps
<1>3. BleDisconnect \/ BleHome =>
        \/ lv'.op = "none"
        \/ connected /\ lv'.op = "terminate" /\ lv'.link = conn
  <2>1. lv' = [Free EXCEPT !.op = "terminate", !.link = conn] => lv'.op = "terminate" /\ lv'.link = conn
    <3>1. lv' = [Free EXCEPT !.op = "terminate", !.link = conn] => lv' = [op |-> "terminate", link |-> conn, chr |-> 0]
      BY DEF Free
    <3> QED
      BY <3>1
  <2>2. lv' = Free => lv'.op = "none"
    BY DEF Free
  <2> QED
    BY <2>1, <2>2 DEF BleDisconnect, BleHome
<1>4. \A op \in CallOps : lv' = [lv EXCEPT !.op = op] => lv'.op = op /\ lv'.link = lv.link /\ lv'.chr = lv.chr
  BY DEF BleSteps
<1>5. lv' = Free => lv'.op = "none"
  BY DEF Free
<1>6. BleReadTap => lv.op = "read" /\ lv'.op = "call read" /\ lv'.link = lv.link /\ lv'.chr = lv.chr
  BY <1>4 DEF BleReadTap, CallOps
<1>7. BleSubscribeTap => /\ lv.op = "subscribe" /\ lv'.op = IF sub = lv.chr THEN "call disable" ELSE "call descriptors"
                         /\ lv'.link = lv.link /\ lv'.chr = lv.chr
  BY <1>4 DEF BleSubscribeTap, CallOps
<1>8. BleWriteTap => /\ lv.op = "write" /\ lv'.op \in {"none", "call write"}
                     /\ lv'.op = "none" \/ (lv'.link = lv.link /\ lv'.chr = lv.chr)
  BY <1>4, <1>5 DEF BleWriteTap, CallOps
<1>9. BleConnectCall \/ BleTerminateCall \/ BleRefusedTap \/ BleArm \/ BleCall => lv'.op = "none"
  BY <1>5 DEF BleConnectCall, BleTerminateCall, BleRefusedTap, BleArm, BleCall
<1> QED
  BY <1>1, <1>2, <1>3, <1>6, <1>7, <1>8, <1>9

\* A link comes up once, stays up until the event of its end, and is never new again.
LEMMA LinkLives ==
  ASSUME BleSteps, BleNext
  PROVE  /\ \A h \in Links : IsUp(h) => IsUp(h)' \/ GapDisconnected
         /\ \A h \in Links : IsUp(h)' => IsUp(h) \/ GapConnected
         /\ Made \subseteq Made'
<1>1. CASE GapConnected
  <2>1. PICK h \in Links \ Made : link' = [link EXCEPT ![h] = "up"]
    BY <1>1 DEF GapConnected
  <2>2. \A g \in Links : link'[g] = IF g = h THEN "up" ELSE link[g]
    BY <2>1 DEF BleSteps
  <2> QED
    BY <1>1, <2>2, BleRanges DEF IsUp, Made
<1>2. CASE GapDisconnected
  <2>1. PICK h \in Made : IsUp(h) /\ link' = [link EXCEPT ![h] = "gone"]
    BY <1>2 DEF GapDisconnected
  <2>2. \A g \in Links : link'[g] = IF g = h THEN "gone" ELSE link[g]
    BY <2>1 DEF BleSteps
  <2> QED
    BY <1>2, <2>1, <2>2 DEF IsUp, Made
<1>3. CASE GapRejects \/ BleTerminateCall
  <2>1. PICK h : Terminate(h)
    BY <1>3 DEF GapRejects, BleTerminateCall
  <2>2. \A g \in Links : link'[g] \in {link[g], IF link[g] = "up" THEN "ending" ELSE link[g]}
    BY <2>1 DEF BleSteps, Terminate
  <2> QED
    BY <2>2 DEF IsUp, Made
<1>4. CASE UNCHANGED link
  BY <1>4 DEF IsUp, Made
<1> QED
  BY <1>1, <1>2, <1>3, <1>4, LinkMoved

\* A new link has nothing under way.
LEMMA NewLinkIdle ==
  ASSUME BleSteps, ProcsOnLinks, NEW h \in Links \ Made
  PROVE  ~IsUp(h) /\ \A p \in procs : p.link # h
  BY DEF BleSteps, ProcsOnLinks, IsUp, Made

LEMMA ProcsUp == ASSUME BleTypes, BleSteps, ProcsOnLinks, BleNext PROVE \A p \in procs' : IsUp(p.link)'
<1>0. \A p \in procs : p.link \in Links /\ IsUp(p.link)
  BY DEF BleSteps, ProcsOnLinks
<1>1. CASE GapDisconnected
  <2>1. PICK h \in Made : link' = [link EXCEPT ![h] = "gone"] /\ procs' = {p \in procs : p.link # h}
    BY <1>1 DEF GapDisconnected
  <2>2. \A g \in Links : g # h => link'[g] = link[g]
    BY <2>1 DEF BleSteps
  <2> QED
    BY <1>0, <2>1, <2>2 DEF IsUp
<1>2. CASE GapDiscovers
  <2>1. procs' \subseteq procs \cup {[op |-> "services", link |-> host.link, chr |-> 0]} /\ IsUp(host.link) /\ link' = link
    BY <1>2 DEF GapDiscovers, ProcsOnLinks
  <2> QED
    BY <1>0, <2>1 DEF IsUp
<1>3. CASE DiscoveryEnds
  <2>1. PICK p \in procs : /\ procs' \subseteq procs \cup {[op |-> "characteristics", link |-> p.link, chr |-> 0]}
                           /\ link' = link
    BY <1>3 DEF DiscoveryEnds, StartNext
  <2> QED
    BY <1>0, <2>1 DEF IsUp
<1>4. CASE DescriptorsDone
  <2>1. PICK p \in procs : /\ procs' \subseteq procs \cup {[p EXCEPT !.op = "enable"]}
                           /\ link' = link
    BY <1>4 DEF DescriptorsDone, Ends
  <2>2. [p EXCEPT !.op = "enable"].link = p.link
    BY <2>1 DEF BleSteps
  <2> QED
    BY <1>0, <2>1, <2>2 DEF IsUp
<1>5. CASE BleCall
  <2>1. PICK op \in DOMAIN Calls :
          /\ \/ procs' = procs
             \/ IsUp(lv.link) /\ procs' = procs \cup {[op |-> op, link |-> lv.link, chr |-> lv.chr]}
          /\ link' = link
    BY <1>5 DEF BleCall
  <2> QED
    BY <1>0, <2>1 DEF IsUp
<1>6. CASE BleReadDone \/ BleWriteDone \/ SubscriptionWritten
  <2>1. procs' \subseteq procs /\ link' = link
    BY <1>6 DEF BleReadDone, BleWriteDone, SubscriptionWritten, Ends
  <2> QED
    BY <1>0, <2>1 DEF IsUp
<1>7. CASE UNCHANGED procs /\ ~GapDisconnected
  BY <1>0, <1>7, LinkLives
<1> QED
  BY <1>1, <1>2, <1>3, <1>4, <1>5, <1>6, <1>7, ProcsMoved

\* A link is discovered by one procedure at a time, and only while services are left.
LEMMA DiscoveryAlone ==
  ASSUME BleTypes, BleSteps, ProcsOnLinks, BleNext
  PROVE  /\ \A p, q \in procs' : p.link = q.link /\ {p.op, q.op} \subseteq DiscoveryOps => p = q
         /\ host'.op = "discover" => \A p \in procs' : p.op \in DiscoveryOps => p.link # host'.link
         /\ \A p \in procs' : p.op = "characteristics" /\ Active(p.link)' => cursor' < Services
<1> DEFINE Apart(set) == \A p, q \in set : p.link = q.link /\ {p.op, q.op} \subseteq DiscoveryOps => p = q
           Waits(set, h) == h.op = "discover" => \A p \in set : p.op \in DiscoveryOps => p.link # h.link
           Within(set, c) == \A p \in set : p.op = "characteristics" /\ Active(p.link) => c < Services
<1>1. Apart(procs) /\ Waits(procs, host) /\ Within(procs, cursor)
  BY DEF ProcsOnLinks
<1>2. CASE GapConnected
  <2>1. PICK h \in Links \ Made : host'.link = h /\ conn' = h /\ procs' = procs
    <3>1. PICK h \in Links \ Made :
            /\ host' = [Free EXCEPT !.op = IF Keep THEN "discover" ELSE "terminate", !.link = h]
            /\ conn' = h /\ procs' = procs
      BY <1>2 DEF GapConnected
    <3> QED
      BY <3>1 DEF Free
  <2> QED
    BY <1>1, <2>1, NewLinkIdle DEF Active
<1>3. CASE GapConnectFailed \/ GapDisconnected
  <2>1. procs' \subseteq procs /\ host' = host /\ connected' = FALSE
    BY <1>3 DEF GapConnectFailed, GapDisconnected
  <2> QED
    BY <1>1, <2>1 DEF Active
<1>4. CASE GapDiscovers
  <2>1. /\ procs' \subseteq procs \cup {[op |-> "services", link |-> host.link, chr |-> 0]} /\ host'.op = "none"
        /\ host.op = "discover" /\ UNCHANGED <<cursor, connected, conn>>
    BY <1>4 DEF GapDiscovers, HostOnly, flags, Free
  <2> QED
    BY <1>1, <2>1 DEF Active, DiscoveryOps
<1>5. CASE DiscoveryEnds
  <2>1. PICK p \in procs :
          /\ p.op \in DiscoveryOps /\ Active(p.link)
          /\ \/ procs' \subseteq procs \ {p}
             \/ /\ procs' \subseteq (procs \ {p}) \cup {[op |-> "characteristics", link |-> p.link, chr |-> 0]}
                /\ cursor' < Services
          /\ host'.op = "none" /\ UNCHANGED <<connected, conn>>
    <3>1. PICK p \in procs :
            /\ host = Free /\ p.op \in {"services", "characteristics"} /\ Active(p.link)
            /\ \/ StartNext(p.link, IF p.op = "services" THEN 0 ELSE cursor + 1, procs \ {p})
               \/ procs' = procs \ {p}
            /\ UNCHANGED <<connected, conn>> /\ host' = host
      BY <1>5 DEF DiscoveryEnds, HostOnly, flags
    <3>2. CASE procs' = procs \ {p}
      BY <3>1, <3>2 DEF DiscoveryOps, Free
    <3>3. CASE StartNext(p.link, IF p.op = "services" THEN 0 ELSE cursor + 1, procs \ {p})
      <4> DEFINE next == IF p.op = "services" THEN 0 ELSE cursor + 1
      <4>1. next \in Nat
        BY BleRanges DEF BleTypes
      <4> HIDE DEF next
      <4>2. \/ procs' = procs \ {p}
            \/ /\ procs' = (procs \ {p}) \cup {[op |-> "characteristics", link |-> p.link, chr |-> 0]}
               /\ cursor' < Services
        BY <3>3, <4>1, BleRanges DEF StartNext, next
      <4> QED
        BY <3>1, <4>2 DEF DiscoveryOps, Free
    <3> QED
      BY <3>1, <3>2, <3>3
  <2>2. \A q \in procs \ {p} : q.op \in DiscoveryOps => q.link # p.link
    BY <1>1, <2>1
  <2> QED
    BY <1>1, <2>1, <2>2 DEF Active, DiscoveryOps
<1>6. CASE DescriptorsDone
  <2>1. PICK p \in procs : /\ procs' \subseteq procs \cup {[p EXCEPT !.op = "enable"]}
                           /\ UNCHANGED <<host, cursor, connected, conn>>
    BY <1>6 DEF DescriptorsDone, Ends, HostOnly, flags, gatt
  <2>2. [p EXCEPT !.op = "enable"].op \notin DiscoveryOps
    BY <2>1 DEF BleSteps, DiscoveryOps
  <2> QED
    BY <1>1, <2>1, <2>2 DEF Active, DiscoveryOps
<1>7. CASE BleCall
  <2>1. PICK op \in DOMAIN Calls :
          /\ procs' \subseteq procs \cup {[op |-> op, link |-> lv.link, chr |-> lv.chr]}
          /\ UNCHANGED <<host, cursor, connected, conn>>
    BY <1>7 DEF BleCall, flags, gatt
  <2>2. op \notin DiscoveryOps
    BY <2>1 DEF Calls, DiscoveryOps
  <2> QED
    BY <1>1, <2>1, <2>2 DEF Active, DiscoveryOps
<1>8. CASE /\ procs' \subseteq procs /\ host' \in {host, Free} /\ cursor' = cursor
           /\ \A h : Active(h)' => Active(h)
  BY <1>1, <1>8 DEF Free
<1>9. CASE CharacteristicFound \/ BleReadDone \/ BleWriteDone \/ SubscriptionWritten \/ GapRejects \/ BleConnect
           \/ BleConnectCall \/ BleDisconnect \/ BleHome
  <2>1. /\ procs' \subseteq procs /\ host' \in {host, Free} /\ cursor' = cursor
        /\ UNCHANGED <<connected, conn>>
    BY <1>9 DEF CharacteristicFound, BleReadDone, BleWriteDone, SubscriptionWritten, GapRejects, BleConnect,
                BleConnectCall, BleDisconnect, BleHome, Ends, HostOnly, flags, gatt, StackOnly
  <2> QED
    BY <1>8, <2>1 DEF Active
<1>10. CASE UNCHANGED <<procs, host, discovering, cursor, found, connecting, connected, stopping, conn>>
  BY <1>8, <1>10 DEF Active
<1> QED
  BY <1>2, <1>3, <1>4, <1>5, <1>6, <1>7, <1>9, <1>10, ProcsMoved, HostMoved, GattMoved, FlagsMoved

LEMMA ProcsOnLinksKept == ASSUME BleTypes, BleSteps, ProcsOnLinks, BleNext PROVE ProcsOnLinks'
<1>1. (host.op # "none" => IsUp(host.link))'
  <2>1. CASE GapConnected
    <3>1. PICK h \in Links : host'.link = h /\ link'[h] = "up"
      <4>1. PICK h \in Links :
              /\ host' = [Free EXCEPT !.op = IF Keep THEN "discover" ELSE "terminate", !.link = h]
              /\ link' = [link EXCEPT ![h] = "up"]
        BY <2>1 DEF GapConnected
      <4> QED
        BY <4>1 DEF Free, BleSteps
    <3> QED
      BY <3>1, BleRanges DEF IsUp, Links
  <2>2. CASE GapRejects \/ GapDiscovers
    BY <2>2 DEF GapRejects, GapDiscovers, Free
  <2>3. CASE GapDisconnected
    BY <2>3 DEF GapDisconnected, Free
  <2>4. CASE host' = host /\ ~GapDisconnected
    <3>1. host.op # "none" => IsUp(host.link) /\ host.link \in Links
      BY BleRanges DEF ProcsOnLinks, IsUp, BleSteps, Links
    <3> QED
      BY <2>4, <3>1, LinkLives DEF IsUp
  <2> QED
    BY <2>1, <2>2, <2>3, <2>4, HostMoved
<1>2. connected' => conn' \in Made'
  <2>1. CASE GapConnected
    <3>1. PICK h \in Links : conn' = h /\ link' = [link EXCEPT ![h] = "up"]
      BY <2>1 DEF GapConnected
    <3> QED
      BY <3>1 DEF Made, BleSteps
  <2>2. CASE GapConnectFailed \/ GapDisconnected
    BY <2>2 DEF GapConnectFailed, GapDisconnected
  <2>3. CASE UNCHANGED <<connected, conn>>
    BY <2>3, LinkLives DEF ProcsOnLinks
  <2> QED
    BY <2>1, <2>2, <2>3, FlagsMoved DEF BleConnect, BleConnectCall, BleDisconnect, BleHome
<1>3. lv'.op \notin {"none", "connect"} => lv'.link \in Made'
  <2>1. CASE BleTap
    BY <2>1, LvCarries, LinkLives DEF BleTap, Snapshot, ProcsOnLinks
  <2>2. CASE BleDisconnect \/ BleHome
    BY <2>2, LvCarries, LinkLives DEF ProcsOnLinks
  <2>3. CASE BleReadTap \/ BleSubscribeTap \/ BleWriteTap
    BY <2>3, LvCarries, LinkLives DEF ProcsOnLinks
  <2>4. CASE BleConnect \/ BleConnectCall \/ BleTerminateCall \/ BleRefusedTap \/ BleArm \/ BleCall
    BY <2>4, LvCarries
  <2>5. CASE UNCHANGED lv
    BY <2>5, LinkLives DEF ProcsOnLinks
  <2> QED
    BY <2>1, <2>2, <2>3, <2>4, <2>5, LvMoved
<1> QED
  BY <1>1, <1>2, <1>3, ProcsUp, DiscoveryAlone DEF ProcsOnLinks

LEMMA OneLinkIsBusy == BleTypes /\ BleSteps /\ OneLink => BusyUnlessForgotten
<1> SUFFICES ASSUME BleTypes, BleSteps, OneLink, ~forgot
             PROVE  BusyWhileLinked /\ (connected => IsUp(conn)) /\ Cardinality({h \in Made : IsUp(h)}) <= 1
  BY DEF BusyUnlessForgotten
<1>1. BusyWhileLinked
  BY DEF OneLink, BusyWhileLinked, BleBusy, Made
<1>2. Cardinality({h \in Made : IsUp(h)}) <= 1
  <2>1. {h \in Made : IsUp(h)} \subseteq {conn}
    BY DEF OneLink, Made
  <2>2. IsFiniteSet({conn}) /\ Cardinality({conn}) = 1
    BY FS_Singleton
  <2> QED
    BY <2>1, <2>2, FS_Subset
<1> QED
  BY <1>1, <1>2 DEF OneLink

\* A link that has been forgotten stays so; Home forgets one only while it is stopping.
LEMMA ForgottenStays ==
  ASSUME BleTypes, BleNext, ~forgot'
  PROVE  ~forgot /\ (BleHome => (stopping => stopping'))
  BY ForgotMoved DEF BleTypes, BleHome

LEMMA OneLinkKept ==
  ASSUME BleTypes, BleSteps, ProcsOnLinks, OneLink, BleNext
  PROVE  OneLink'
<1> SUFFICES ASSUME ~forgot'
             PROVE  /\ \A h \in Links : IsUp(h)' => h = conn' /\ ~connecting' /\ (connected' \/ stopping')
                    /\ (connected => IsUp(conn))'
                    /\ attempt' # "none" => connecting'
                    /\ connecting' => ~connected'
                    /\ lv'.op = "connect" => connecting' /\ attempt' = "none"
                    /\ ~connected' => cccd' = 0
  BY DEF OneLink
<1>1. /\ \A h \in Links : IsUp(h) => h = conn /\ ~connecting /\ (connected \/ stopping)
      /\ connected => IsUp(conn)
      /\ attempt # "none" => connecting
      /\ connecting => ~connected
      /\ lv.op = "connect" => connecting /\ attempt = "none"
      /\ ~connected => cccd = 0
  BY ForgottenStays DEF OneLink
<1>2. CASE GapConnectFailed
  <2>1. /\ attempt # "none" /\ attempt' = "none" /\ UNCHANGED <<link, lv, cccd>>
        /\ connecting' = FALSE /\ connected' = FALSE
    BY <1>2 DEF GapConnectFailed, ghosts
  <2> QED
    BY <1>1, <2>1 DEF IsUp
<1>3. CASE GapConnected
  <2>1. PICK h \in Links : /\ attempt # "none" /\ attempt' = "none" /\ UNCHANGED <<lv, cccd>>
                           /\ link' = [link EXCEPT ![h] = "up"] /\ conn' = h
                           /\ connecting' = FALSE /\ connected' = Keep /\ stopping' = ~Keep
    BY <1>3 DEF GapConnected, Rejects, ghosts
  <2>2. link'[h] = "up" /\ \A g \in Links : g # h => link'[g] = link[g]
    BY <2>1 DEF BleSteps
  <2>3. h # 0 /\ \A g \in Links : IsUp(g)' => g = h
    BY <1>1, <2>1, <2>2, BleRanges DEF IsUp, Links
  <2>4. IsUp(conn)'
    BY <2>1, <2>2, <2>3 DEF IsUp
  <2> QED
    BY <1>1, <2>1, <2>3, <2>4
<1>4. CASE GapDisconnected
  <2>1. PICK h \in Made : /\ IsUp(h) /\ link' = [link EXCEPT ![h] = "gone"]
                          /\ cccd' = IF h = conn THEN 0 ELSE cccd
                          /\ UNCHANGED <<attempt, lv>> /\ connecting' = FALSE /\ connected' = FALSE
    BY <1>4 DEF GapDisconnected
  <2>2. h \in Links /\ h = conn /\ ~connecting
    BY <1>1, <2>1 DEF Made
  <2>3. link'[h] = "gone" /\ \A g \in Links : g # h => link'[g] = link[g]
    BY <2>1, <2>2 DEF BleSteps
  <2>4. \A g \in Links : ~IsUp(g)'
    BY <1>1, <2>2, <2>3 DEF IsUp
  <2> QED
    BY <1>1, <2>1, <2>2, <2>4
<1>5. CASE BleConnect
  <2>1. /\ ~connecting /\ ~connected /\ ~stopping /\ connecting' = TRUE
        /\ UNCHANGED <<connected, stopping, conn, attempt, link, cccd>>
    BY <1>5 DEF BleConnect, StackOnly, ghosts
  <2> QED
    BY <1>1, <2>1 DEF IsUp
<1>6. CASE BleConnectCall
  <2>1. /\ lv.op = "connect" /\ lv'.op = "none" /\ UNCHANGED <<connected, stopping, conn, link, cccd>>
        /\ (attempt' = "pending" /\ connecting' = connecting) \/ (connecting' = FALSE /\ attempt' = attempt)
    BY <1>6 DEF BleConnectCall, ghosts, Free
  <2> QED
    BY <1>1, <2>1 DEF IsUp
<1>7. CASE BleDisconnect
  <2>1. /\ lv'.op = "terminate" /\ stopping' = TRUE
        /\ UNCHANGED <<connecting, connected, conn, attempt, link, cccd>>
    BY <1>7 DEF BleDisconnect, StackOnly, ghosts, Free
  <2> QED
    BY <1>1, <2>1 DEF IsUp
<1>8. CASE BleHome
  <2>1. /\ lv'.op \in {"none", "terminate"} /\ stopping' = (connecting \/ connected)
        /\ attempt' # "none" => attempt # "none"
        /\ UNCHANGED <<connecting, connected, conn, link, cccd>>
    BY <1>8 DEF BleHome, Free
  <2>2. stopping => stopping'
    BY <1>8, ForgottenStays
  <2> QED
    BY <1>1, <2>1, <2>2 DEF IsUp
<1>9. CASE UNCHANGED <<connecting, connected, stopping, conn>> /\ ~GapConnected /\ ~GapDisconnected
           /\ ~GapConnectFailed /\ ~BleConnectCall /\ ~BleHome /\ ~BleConnect
  <2>1. attempt' = attempt
    BY <1>9, AttemptMoved
  <2>2. cccd' = cccd \/ connected
    BY <1>9, CccdMoved DEF SubscriptionWritten, Ends, Active
  <2>3. lv'.op = "connect" => lv.op = "connect"
    BY <1>9, LvCarries, LvMoved DEF TapOps
  <2>4. \A h \in Links : IsUp(h)' <=> IsUp(h)
    BY <1>9, LinkLives
  <2>5. connected => conn \in Links
    BY DEF ProcsOnLinks, Made
  <2>6. (connected => IsUp(conn))'
    BY <1>1, <1>9, <2>4, <2>5 DEF IsUp
  <2> QED
    BY <1>1, <1>9, <2>1, <2>2, <2>3, <2>4, <2>6
<1> QED
  BY <1>2, <1>3, <1>4, <1>5, <1>6, <1>7, <1>8, <1>9, FlagsMoved

LEMMA LvOfThisLinkKept ==
  ASSUME BleTypes, BleSteps, ProcsOnLinks, OneLink, LvOfThisLink, BleNext
  PROVE  LvOfThisLink'
<1> SUFFICES ASSUME ~forgot'
             PROVE  /\ lv'.op \notin {"none", "connect"} => ~connecting' /\ (connected' => lv'.link = conn')
                    /\ lv'.op = "write" /\ fresh' => writeArmed'.link = lv'.link
                    /\ fresh' /\ connected' => writeArmed'.link = conn'
  BY DEF LvOfThisLink
<1>1. /\ lv.op \notin {"none", "connect"} => ~connecting /\ (connected => lv.link = conn)
      /\ lv.op = "write" /\ fresh => writeArmed.link = lv.link
      /\ fresh /\ connected => writeArmed.link = conn
      /\ attempt # "none" => connecting
      /\ connecting => ~connected
  BY ForgottenStays DEF LvOfThisLink, OneLink
<1>2. CASE GapConnectFailed \/ GapDisconnected
  <2>1. /\ connecting' = FALSE /\ connected' = FALSE /\ lv' = lv
        /\ fresh' = FALSE \/ UNCHANGED <<writeArmed, fresh>>
    BY <1>2 DEF GapConnectFailed, GapDisconnected, ResetConnectionData, writing
  <2> QED
    BY <1>1, <2>1
<1>3. CASE GapConnected
  <2>1. attempt # "none" /\ lv' = lv /\ fresh' = FALSE
    BY <1>3 DEF GapConnected, ResetConnectionData
  <2> QED
    BY <1>1, <2>1
<1>4. CASE BleConnect \/ BleConnectCall
  <2>1. lv'.op \in {"none", "connect"} /\ UNCHANGED <<connected, conn, writeArmed, fresh>>
    BY <1>4 DEF BleConnect, BleConnectCall, writing, Free
  <2> QED
    BY <1>1, <2>1
<1>5. CASE BleDisconnect \/ BleHome
  <2>1. /\ UNCHANGED <<connecting, connected, conn>>
        /\ fresh' = FALSE \/ UNCHANGED <<writeArmed, fresh>>
    BY <1>5 DEF BleDisconnect, BleHome, writing
  <2>2. \/ lv'.op = "none"
        \/ connected /\ lv'.op = "terminate" /\ lv'.link = conn
    BY <1>5, LvCarries
  <2> QED
    BY <1>1, <2>1, <2>2
<1>6. CASE BleTap
  <2>1. connected /\ UNCHANGED <<connecting, connected, conn, writeArmed, fresh>>
    BY <1>6 DEF BleTap, Snapshot, flags, writing
  <2> QED
    BY <1>1, <1>6, <2>1, LvCarries
<1>7. CASE BleReadTap \/ BleSubscribeTap \/ BleWriteTap
  <2>1. UNCHANGED <<connecting, connected, conn>> /\ (fresh' = FALSE \/ UNCHANGED <<writeArmed, fresh>>)
    BY <1>7 DEF BleReadTap, BleSubscribeTap, BleWriteTap, TapOnly, flags
  <2>2. lv'.op # "write" /\ (lv'.op = "none" \/ (lv.op \notin {"none", "connect"} /\ lv'.link = lv.link))
    BY <1>7, LvCarries
  <2> QED
    BY <1>1, <2>1, <2>2
<1>8. CASE BleArm
  <2>1. /\ lv.op = "write" /\ lv'.op = "none" /\ UNCHANGED <<connecting, connected, conn>>
        /\ writeArmed'.link = lv.link
    BY <1>8 DEF BleArm, TapOnly, flags, Free
  <2> QED
    BY <1>1, <2>1
<1>9. CASE BleTerminateCall \/ BleRefusedTap \/ BleCall
  <2>1. lv'.op = "none" /\ UNCHANGED <<connecting, connected, conn, writeArmed, fresh>>
    BY <1>9 DEF BleTerminateCall, BleRefusedTap, BleCall, TapOnly, flags, writing, Free
  <2> QED
    BY <1>1, <2>1
<1>10. CASE /\ UNCHANGED <<connecting, connected, stopping, conn, lv>>
            /\ fresh' = FALSE \/ UNCHANGED <<writeArmed, fresh>>
  BY <1>1, <1>10
<1>11. CASE BleSelect \/ BleExpire \/ BleShow
  <2>1. UNCHANGED <<connecting, connected, stopping, conn, lv>> /\ fresh' = FALSE
    BY <1>11 DEF BleSelect, BleExpire, BleShow, flags
  <2> QED
    BY <1>10, <2>1
<1> QED
  BY <1>2, <1>3, <1>4, <1>5, <1>6, <1>7, <1>8, <1>9, <1>10, <1>11, FlagsMoved, LvMoved, ArmedMoved

LEMMA OfThisPeerKept ==
  ASSUME BleTypes, BleSteps, OneLink, OfThisPeer, LvOfThisLink', BleNext
  PROVE  OfThisPeer'
<1>1. (~forgot /\ lv.op = "write" /\ Confirmed => writeArmed.link = lv.link)'
  BY DEF LvOfThisLink, Confirmed
<1>2. received # 0 /\ connected => received = conn
  BY DEF OfThisPeer
<1>3. CASE GapConnectFailed
  <2>1. attempt # "none" /\ connected' = FALSE /\ received' = received
    BY <1>3 DEF GapConnectFailed
  <2>2. ~forgot' => received = 0
    BY <2>1, ForgottenStays DEF OneLink, OfThisPeer
  <2> QED
    BY <1>1, <2>1, <2>2 DEF OfThisPeer
<1>4. CASE GapConnected \/ GapDisconnected
  <2>1. received' = 0
    BY <1>4 DEF GapConnected, GapDisconnected, ResetConnectionData
  <2> QED
    BY <1>1, <2>1 DEF OfThisPeer
<1>5. CASE UNCHANGED <<connected, conn>> /\ (received' \in {0, received} \/ (connected /\ received' = conn))
  BY <1>1, <1>2, <1>5, ForgottenStays DEF OfThisPeer
<1>6. CASE GapNotified \/ BleReadDone \/ BleReadTap \/ BleWriteTap
  <2>1. UNCHANGED <<connected, conn>> /\ (received' \in {0, received} \/ (connected /\ received' = conn))
    BY <1>6 DEF GapNotified, BleReadDone, BleReadTap, BleWriteTap, Ends, Active, HostOnly, TapOnly, flags
  <2> QED
    BY <1>5, <2>1
<1>7. UNCHANGED <<connected, conn>> \/ GapConnectFailed \/ GapConnected \/ GapDisconnected
  BY FlagsMoved DEF BleConnect, BleConnectCall, BleDisconnect, BleHome
<1> QED
  BY <1>3, <1>4, <1>5, <1>6, <1>7, ReceivedMoved

LEMMA OperationsAreOne == OperationAgrees => OneOperation
<1> SUFFICES ASSUME OperationAgrees, ~refused, ~forgot PROVE Cardinality(Operations) <= 1
  BY DEF OneOperation, OperationAgrees
<1>1. \A p, q \in Operations : p = q
  BY DEF OperationAgrees
<1>2. CASE Operations = {}
  BY <1>2, FS_EmptySet
<1>3. CASE Operations # {}
  <2>1. PICK p \in Operations : TRUE
    BY <1>3
  <2>2. Operations = {p}
    BY <1>1, <2>1
  <2>3. Cardinality(Operations) = 1
    BY <2>2, FS_Singleton
  <2> QED
    BY <2>3
<1> QED
  BY <1>2, <1>3

LEMMA OperationAgreesKept ==
  ASSUME BleTypes, BleSteps, ProcsOnLinks, OneLink, LvOfThisLink, OperationAgrees, BleNext, ProcsOnLinks', OneLink'
  PROVE  OperationAgrees'
<1> DEFINE Matches(p) == /\ p.op \in {"descriptors", "enable"} => subEnable /\ subTarget = p.chr
                         /\ p.op = "disable" => ~subEnable
           Due(call) == IsUp(call.link) => /\ call.op = "call descriptors" => subEnable /\ subTarget = call.chr
                                           /\ call.op = "call disable" => ~subEnable
<1> SUFFICES ASSUME ~refused', ~forgot'
             PROVE  /\ \A p, q \in Operations' : p = q
                    /\ Operations' # {} => operationBusy'
                    /\ connected' => sub' = cccd'
                    /\ lv'.op \in CallOps => Operations' = {}
                    /\ lv'.op \in CallOps /\ IsUp(lv.link)' => operationBusy'
                    /\ \A p \in Operations' : Matches(p)'
                    /\ Due(lv)'
  BY DEF OperationAgrees
<1>1. ~refused /\ ~forgot
  BY ForgottenStays, RefusedMoved DEF BleTypes, DiscoveryEnds, StartNext
<1>2. /\ \A p, q \in Operations : p = q
      /\ Operations # {} => operationBusy
      /\ connected => sub = cccd
      /\ lv.op \in CallOps => Operations = {}
      /\ lv.op \in CallOps /\ IsUp(lv.link) => operationBusy
      /\ \A p \in Operations : Matches(p)
      /\ Due(lv)
  BY <1>1 DEF OperationAgrees
<1>3. \A p \in procs : p \in Operations <=> p.op \in OperationOps
  BY DEF Operations, OperationOps
<1>4. \A p \in procs' : p \in Operations' <=> p.op \in OperationOps
  BY DEF Operations, OperationOps
<1>5. Operations \subseteq procs /\ Operations' \subseteq procs'
  BY DEF Operations
\* What a callback has still to call is in progress only while its link is up.
<1>6. lv' = lv /\ IsUp(lv.link)' => IsUp(lv.link) \/ GapConnected
  <2>1. IsUp(lv.link)' /\ lv' = lv => lv.link \in Links
    BY BleRanges DEF IsUp, BleSteps, Links
  <2> QED
    BY <2>1, LinkLives DEF IsUp
\* A step that is not about operations.
<1>7. CASE /\ Operations' = Operations /\ UNCHANGED <<operationBusy, sub, subTarget, subEnable, cccd>>
           /\ connected' => connected
           /\ lv' = lv \/ lv'.op \notin CallOps
           /\ ~GapConnected
  BY <1>2, <1>6, <1>7 DEF CallOps
<1>8. CASE GapConnected
  <2>1. /\ attempt # "none" /\ UNCHANGED <<procs, lv, cccd>> /\ sub' = 0
    BY <1>8 DEF GapConnected, ResetConnectionData, ghosts
  <2>2. connecting /\ ~connected /\ cccd = 0 /\ lv.op \notin CallOps
    <3>1. connecting /\ ~connected /\ cccd = 0
      BY <1>1, <2>1 DEF OneLink
    <3>2. lv.op \in {"none", "connect"}
      BY <1>1, <3>1 DEF LvOfThisLink
    <3> QED
      BY <3>1, <3>2 DEF CallOps
  <2>3. procs = {}
    BY <1>1, <2>2 DEF OneLink, ProcsOnLinks, BleSteps
  <2>4. Operations' = {}
    BY <1>5, <2>1, <2>3
  <2> QED
    BY <2>1, <2>2, <2>4 DEF CallOps
<1>9. CASE GapDisconnected
  <2>1. /\ connected' = FALSE /\ stopping' = FALSE /\ lv' = lv
    BY <1>9 DEF GapDisconnected
  <2>2. \A h \in Links : ~IsUp(h)'
    BY <2>1 DEF OneLink
  <2>3. procs' = {}
    BY <1>9, <2>2 DEF ProcsOnLinks, BleSteps, GapDisconnected
  <2>4. ~IsUp(lv.link)'
    BY <2>1, <2>2, BleRanges DEF IsUp, BleSteps, Links
  <2>5. Operations' = {}
    BY <1>5, <2>3
  <2> QED
    BY <1>2, <2>1, <2>4, <2>5
<1>10. CASE GapConnectFailed
  <2>1. Operations' = Operations /\ UNCHANGED <<operationBusy, sub, subTarget, subEnable, cccd, lv>> /\ connected' = FALSE
    BY <1>10 DEF GapConnectFailed, subs, ghosts, Operations
  <2>2. link' = link
    BY <1>10 DEF GapConnectFailed
  <2>3. IsUp(lv.link)' <=> IsUp(lv.link)
    BY <2>1, <2>2 DEF IsUp
  <2> QED
    BY <1>2, <2>1, <2>3
<1>11. CASE GapDiscovers
  <2>1. /\ UNCHANGED <<operationBusy, sub, subTarget, subEnable, cccd, connected, lv>>
        /\ \/ procs' = procs
           \/ procs' = procs \cup {[op |-> "services", link |-> host.link, chr |-> 0]}
        /\ link' = link
    BY <1>11 DEF GapDiscovers, HostOnly, Unarmed, flags, subs, ghosts
  <2>2. Operations' = Operations
    BY <2>1 DEF Operations
  <2> QED
    BY <1>2, <2>1, <2>2 DEF IsUp
<1>12. CASE DiscoveryEnds
  <2>1. PICK p \in procs :
          /\ p.op \in DiscoveryOps
          /\ \/ StartNext(p.link, IF p.op = "services" THEN 0 ELSE cursor + 1, procs \ {p})
             \/ procs' = procs \ {p} /\ operationBusy' = operationBusy
          /\ UNCHANGED <<sub, subTarget, subEnable, cccd, connected, lv, link>>
    BY <1>12 DEF DiscoveryEnds, HostOnly, Unarmed, flags, subs, DiscoveryOps
  <2>2. /\ \/ procs' = procs \ {p}
           \/ procs' = (procs \ {p}) \cup {[op |-> "characteristics", link |-> p.link, chr |-> 0]}
        /\ operationBusy' = operationBusy
    BY <2>1 DEF StartNext
  <2>3. Operations' = Operations
    BY <2>1, <2>2 DEF Operations, DiscoveryOps
  <2> QED
    BY <1>2, <2>1, <2>2, <2>3 DEF IsUp
<1>13. CASE BleReadDone \/ BleWriteDone
  <2>1. PICK p \in procs : /\ p.op \in {"read", "write"} /\ procs' = procs \ {p} /\ connected' = connected
                           /\ UNCHANGED <<sub, subTarget, subEnable, cccd, lv>>
    BY <1>13 DEF BleReadDone, BleWriteDone, Ends, HostOnly, Unarmed, flags, subs, ghosts
  <2>2. p \in Operations
    BY <1>3, <2>1 DEF OperationOps
  <2>3. Operations' = {}
    BY <1>2, <2>1, <2>2 DEF Operations
  <2> QED
    BY <1>2, <2>1, <2>2, <2>3 DEF CallOps
<1>14. CASE DescriptorsDone
  <2>1. PICK p \in procs :
          /\ p.op = "descriptors"
          /\ \/ procs' = procs \ {p}
             \/ operationBusy' = operationBusy /\ procs' = (procs \ {p}) \cup {[p EXCEPT !.op = "enable"]}
          /\ UNCHANGED <<connected, sub, subTarget, subEnable, cccd, lv>>
    BY <1>14 DEF DescriptorsDone, Ends, HostOnly, Unarmed, flags, subs, ghosts
  <2>2. p \in Operations
    BY <1>3, <2>1 DEF OperationOps
  <2>3. Operations = {p} /\ operationBusy /\ lv.op \notin CallOps /\ subEnable /\ subTarget = p.chr
    BY <1>2, <2>1, <2>2
  <2>4. CASE procs' = procs \ {p}
    <3>1. Operations' = {}
      BY <2>3, <2>4 DEF Operations
    <3> QED
      BY <1>2, <2>1, <2>3, <3>1 DEF CallOps
  <2>5. CASE operationBusy' = operationBusy /\ procs' = (procs \ {p}) \cup {[p EXCEPT !.op = "enable"]}
    <3>1. /\ [p EXCEPT !.op = "enable"].op = "enable" /\ [p EXCEPT !.op = "enable"].chr = p.chr
      BY <2>1 DEF BleSteps
    <3>2. Operations' = {[p EXCEPT !.op = "enable"]}
      BY <2>3, <2>5, <3>1 DEF Operations
    <3> QED
      BY <1>2, <2>1, <2>3, <2>5, <3>1, <3>2 DEF CallOps
  <2> QED
    BY <2>1, <2>4, <2>5
<1>15. CASE SubscriptionWritten
  <2>1. PICK p \in procs :
          /\ p.op \in {"enable", "disable"} /\ procs' = procs \ {p}
          /\ \/ /\ cccd' = IF p.op = "enable" THEN p.chr ELSE 0
                /\ sub' = IF subEnable THEN subTarget ELSE 0
             \/ UNCHANGED <<cccd, sub>>
          /\ UNCHANGED <<connected, subTarget, subEnable, lv>>
    BY <1>15 DEF SubscriptionWritten, Ends, HostOnly, flags
  <2>2. p \in Operations
    BY <1>3, <2>1 DEF OperationOps
  <2>3. Operations = {p} /\ lv.op \notin CallOps /\ Matches(p)
    BY <1>2, <2>2
  <2>4. Operations' = {}
    BY <2>1, <2>3 DEF Operations
  <2>5. connected' => sub' = cccd'
    BY <1>2, <2>1, <2>3
  <2> QED
    BY <2>1, <2>3, <2>4, <2>5 DEF CallOps
<1>16. CASE BleReadTap \/ BleSubscribeTap \/ BleWriteTap
  <2>1. /\ UNCHANGED <<procs, connected, sub, cccd, link>>
        /\ \/ ~operationBusy /\ operationBusy' = TRUE
           \/ operationBusy' = operationBusy /\ lv' = Free /\ UNCHANGED <<subTarget, subEnable>>
    BY <1>16 DEF BleReadTap, BleSubscribeTap, BleWriteTap, Begin, TapOnly, StackOnly, flags, subs, ghosts
  <2>2. Operations' = Operations
    BY <2>1 DEF Operations
  <2>3. CASE ~operationBusy /\ operationBusy' = TRUE
    <3>1. Operations' = {}
      BY <1>2, <2>2, <2>3
    <3>2. /\ lv'.op = "call descriptors" => subEnable' /\ subTarget' = lv'.chr
          /\ lv'.op = "call disable" => ~subEnable'
      <4>1. CASE BleSubscribeTap
        <5>1. lv'.op = (IF sub = lv.chr THEN "call disable" ELSE "call descriptors") /\ lv'.chr = lv.chr
          BY <4>1, LvCarries
        <5>2. subEnable' = (sub # lv.chr) /\ subTarget' = IF sub = lv.chr THEN subTarget ELSE lv.chr
          BY <4>1 DEF BleSubscribeTap
        <5> QED
          BY <5>1, <5>2
      <4>2. CASE BleReadTap \/ BleWriteTap
        BY <4>2, LvCarries
      <4> QED
        BY <1>16, <4>1, <4>2
    <3> QED
      BY <1>2, <2>1, <2>3, <3>1, <3>2
  <2>4. CASE operationBusy' = operationBusy /\ lv' = Free /\ UNCHANGED <<subTarget, subEnable>>
    <3>1. lv'.op = "none"
      BY <2>4 DEF Free
    <3> QED
      BY <1>2, <2>1, <2>2, <2>4, <3>1 DEF CallOps
  <2> QED
    BY <2>1, <2>3, <2>4
<1>17. CASE BleCall
  <2>1. PICK op \in DOMAIN Calls :
          /\ lv.op = Calls[op]
          /\ \/ /\ IsUp(lv.link) /\ operationBusy' = operationBusy
                /\ procs' = procs \cup {[op |-> op, link |-> lv.link, chr |-> lv.chr]}
             \/ procs' = procs
          /\ UNCHANGED <<connected, sub, subTarget, subEnable, cccd>>
    BY <1>17 DEF BleCall, flags, subs, ghosts
  <2>2. /\ lv.op \in CallOps /\ op \in {"read", "write", "disable", "descriptors"}
        /\ op = "descriptors" => lv.op = "call descriptors"
        /\ op = "disable" => lv.op = "call disable"
    <3>1. DOMAIN Calls = {"read", "write", "disable", "descriptors"}
      BY DEF Calls
    <3>2. /\ Calls["read"] = "call read" /\ Calls["write"] = "call write"
          /\ Calls["disable"] = "call disable" /\ Calls["descriptors"] = "call descriptors"
      BY DEF Calls
    <3> QED
      BY <2>1, <3>1, <3>2 DEF CallOps
  <2>3. Operations = {} /\ lv'.op = "none"
    BY <1>2, <1>17, <2>2, LvCarries
  <2>4. CASE procs' = procs
    <3>1. Operations' = {}
      BY <2>3, <2>4 DEF Operations
    <3> QED
      BY <1>2, <2>1, <2>3, <3>1 DEF CallOps
  <2>5. CASE /\ IsUp(lv.link) /\ operationBusy' = operationBusy
             /\ procs' = procs \cup {[op |-> op, link |-> lv.link, chr |-> lv.chr]}
    <3>1. Operations' = {[op |-> op, link |-> lv.link, chr |-> lv.chr]}
      <4>1. \A p \in procs : p.op \notin OperationOps
        BY <1>3, <2>3
      <4>2. Operations' = {p \in procs' : p.op \in OperationOps}
        BY DEF Operations, OperationOps
      <4>3. op \in OperationOps
        BY <2>2 DEF OperationOps
      <4> QED
        BY <2>5, <4>1, <4>2, <4>3
    <3>2. Matches([op |-> op, link |-> lv.link, chr |-> lv.chr]) /\ operationBusy
      BY <1>2, <2>2, <2>5
    <3> QED
      BY <1>2, <2>1, <2>3, <2>5, <3>1, <3>2 DEF CallOps
  <2> QED
    BY <2>1, <2>4, <2>5
<1>18. CASE UNCHANGED <<procs, operationBusy, sub, subTarget, subEnable, cccd>> /\ ~GapConnected /\ ~GapDisconnected
            /\ ~GapConnectFailed /\ ~BleReadTap /\ ~BleSubscribeTap /\ ~BleWriteTap /\ ~BleCall
  <2>1. connected' = connected
    BY <1>18, FlagsMoved DEF BleConnect, BleConnectCall, BleDisconnect, BleHome
  <2>2. lv' = lv \/ lv'.op \notin CallOps
    BY <1>18, LvMoved, LvCarries DEF CallOps, TapOps
  <2>3. Operations' = Operations
    BY <1>18 DEF Operations
  <2> QED
    BY <1>7, <1>18, <2>1, <2>2, <2>3
<1> QED
  BY <1>8, <1>9, <1>10, <1>11, <1>12, <1>13, <1>14, <1>15, <1>16, <1>17, <1>18, ProcsMoved, BusyMoved, SubsMoved,
     CccdMoved

LEMMA BleInitially == BleInit => BleIInv
<1> SUFFICES ASSUME BleInit PROVE BleIInv
  OBVIOUS
<1>1. \A h \in Links : link[h] = "new" /\ ~IsUp(h)
  BY DEF BleInit, IsUp
<1>2. lv = Free /\ host = Free /\ lv.op = "none" /\ host.op = "none" /\ procs = {}
  BY DEF BleInit, Free
<1>3. BleTypes
  <2>1. text = NoWrite.val /\ NoWrite.val \in Values
    BY BleAssumption DEF BleInit, NoWrite
  <2>2. writeArmed \in [chr : 0..Services, val : Values, link : 0..MaxLinks]
    BY NoWriteTyped DEF BleInit
  <2>3. /\ conn \in 0..MaxLinks /\ received \in 0..MaxLinks
        /\ cursor \in 0..Services /\ found \in 0..Services /\ selected \in 0..Services
        /\ sub \in 0..Services /\ subTarget \in 0..Services /\ cccd \in 0..Services
    BY BleRanges DEF BleInit
  <2> QED
    BY <2>1, <2>2, <2>3 DEF BleInit, BleTypes
<1>4. BleSteps
  <2>1. Free \in [op : {"none", "connect", "terminate"} \cup TapOps \cup CallOps, link : 0..MaxLinks, chr : 0..Services]
    BY BleRanges DEF Free
  <2>2. Free \in [op : {"none", "discover", "terminate"}, link : 0..MaxLinks, chr : {0}]
    BY BleRanges DEF Free
  <2> QED
    BY <1>2, <2>1, <2>2 DEF BleInit, BleSteps
<1>5. ProcsOnLinks
  BY <1>2 DEF BleInit, ProcsOnLinks
<1>6. OneLink
  BY <1>1, <1>2 DEF BleInit, OneLink
<1>7. LvOfThisLink
  BY <1>2 DEF BleInit, LvOfThisLink
<1>8. OperationAgrees
  <2>1. Operations = {} /\ lv.op \notin CallOps
    BY <1>2 DEF Operations, CallOps
  <2> QED
    BY <2>1 DEF BleInit, OperationAgrees, CallOps
<1>9. OfThisPeer
  BY <1>2 DEF BleInit, OfThisPeer
<1> QED
  BY <1>3, <1>4, <1>5, <1>6, <1>7, <1>8, <1>9, OneLinkIsBusy, OperationsAreOne DEF BleIInv, BleInv

LEMMA BleStep == BleIInv /\ [BleNext]_bleVars => BleIInv'
<1> SUFFICES ASSUME BleIInv, [BleNext]_bleVars PROVE BleIInv'
  OBVIOUS
<1> USE DEF BleIInv, BleInv
<1>1. CASE BleNext
  <2>1. BleTypes' /\ BleSteps' /\ ProcsOnLinks'
    BY <1>1, BleTypesKept, BleStepsKept, ProcsOnLinksKept
  <2>2. OneLink' /\ LvOfThisLink'
    BY <1>1, OneLinkKept, LvOfThisLinkKept
  <2>3. OfThisPeer' /\ OperationAgrees'
    BY <1>1, <2>1, <2>2, OfThisPeerKept, OperationAgreesKept
  <2>4. BusyUnlessForgotten' /\ OneOperation'
    BY <2>1, <2>2, <2>3, OneLinkIsBusy, OperationsAreOne, PTL
  <2> QED
    BY <2>1, <2>2, <2>3, <2>4
<1>2. CASE UNCHANGED bleVars
  <2> USE <1>2 DEF bleVars, flags, gatt, writing, subs, ghosts
  <2>1. BleTypes' /\ BleSteps' /\ ProcsOnLinks'
    BY DEF BleTypes, BleSteps, ProcsOnLinks, IsUp, Active, Made
  <2>2. OneLink' /\ LvOfThisLink' /\ OfThisPeer'
    BY DEF OneLink, LvOfThisLink, OfThisPeer, IsUp, Confirmed
  <2>3. OperationAgrees' /\ OneOperation'
    BY DEF OperationAgrees, OneOperation, Operations, IsUp
  <2>4. BusyUnlessForgotten'
    BY DEF BusyUnlessForgotten, BusyWhileLinked, BleBusy, Made, IsUp
  <2> QED
    BY <2>1, <2>2, <2>3, <2>4
<1> QED
  BY <1>1, <1>2

\* For any services, values and number of links: the explorer is busy while a link is up
\* or being made, runs one operation at a time on it, knows what it is notified of, and
\* shows only what came from the peer that is connected - until Home forgets a link.
THEOREM BleExplorerAgrees == BleSpec => []BleInv
<1>1. BleIInv => BleInv
  BY DEF BleIInv
<1> QED
  BY <1>1, BleInitially, BleStep, PTL DEF BleSpec
================================================================================
