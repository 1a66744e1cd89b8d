--------------------------- MODULE StorageReplace ---------------------------
(***************************************************************************)
(* src/main/storage_io.c: replacing a document on the FAT card through a   *)
(* temporary file and a backup, and recovering it after a power loss.      *)
(*                                                                         *)
(* One step is one file-system call of storage_commit_replace_file() or    *)
(* storage_recover_replace(), because power can fail between any two.  A   *)
(* call that reports an error may or may not have taken effect.  The card  *)
(* itself keeps rename and remove atomic and durable once they return;     *)
(* data is durable only after the sync, until then a file reads as Torn.   *)
(***************************************************************************)
EXTENDS Naturals

CONSTANTS
    Contents,    \* complete contents of the document
    Absent,      \* no file of that name
    Torn,        \* a file whose data was never synced
    NoRequest

ASSUME StorageConstants ==
    /\ Absent \notin Contents /\ Torn \notin Contents /\ NoRequest \notin Contents
    /\ Absent # Torn

VARIABLES
    tmp, final, backup,   \* the three files
    step,                 \* the next call of the operation in progress
    request,              \* the content written to the open stream
    reply                 \* what the last replace reported to its caller

disk == <<tmp, final, backup>>
vars == <<tmp, final, backup, step, request, reply>>

\* Publishing differs in one respect: whether a backup was made on the way.
CommitSteps == {"close", "statFinal", "removeBackup", "moveFinal",
                "publishNew", "publishOver", "restore", "failed", "done"}
RecoverSteps == {"recover", "recoverBackup", "recovered", "recoverFailed"}

TypeOK ==
    /\ tmp \in Contents \cup {Absent, Torn}
    /\ final \in Contents \cup {Absent, Torn}
    /\ backup \in Contents \cup {Absent, Torn}
    /\ step \in {"idle", "writing"} \cup CommitSteps \cup RecoverSteps
    /\ request \in Contents \cup {NoRequest}
    /\ reply \in {"none", "ok", "failed"}

\* A card with no document, with one, or with one and the backup of the last.
Init ==
    /\ tmp = Absent
    /\ final \in Contents \cup {Absent}
    /\ backup \in Contents \cup {Absent}
    /\ step = "idle"
    /\ request = NoRequest
    /\ reply = "none"

Goto(s) == step' = s

-----------------------------------------------------------------------------
\* The caller opens its temporary file, writes the content and commits it.
OpenTemporary(v) ==
    /\ step = "idle"
    /\ tmp' = Torn
    /\ request' = v
    /\ reply' = "none"
    /\ Goto("writing")
    /\ UNCHANGED <<final, backup>>

\* A failed write: the caller closes and removes the file, as far as it can.
WriteFails ==
    /\ step = "writing"
    /\ tmp' \in {tmp, Absent}
    /\ Goto("failed")
    /\ UNCHANGED <<final, backup, request, reply>>

WriteSucceeds ==
    /\ step = "writing"
    /\ Goto("close")
    /\ UNCHANGED <<disk, request, reply>>

\* Faulty close for mutation: an unsynced stream counts as closed.
CloseIgnoringSync ==
    /\ step = "close"
    /\ tmp' \in {tmp, request}
    /\ Goto("statFinal")
    /\ UNCHANGED <<final, backup, request, reply>>

\* close_synced(); discard_failed_stream() removes the file if anything failed.
CloseSynced ==
    /\ step = "close"
    /\ \/ tmp' = request /\ Goto("statFinal")
       \/ tmp' \in {Absent, Torn, request} /\ Goto("failed")
    /\ UNCHANGED <<final, backup, request, reply>>

\* path_exists(final_path)
StatFinal ==
    /\ step = "statFinal"
    /\ \/ Goto("failed")
       \/ Goto(IF final = Absent THEN "publishNew" ELSE "removeBackup")
    /\ UNCHANGED <<disk, request, reply>>

\* remove(backup_path), only when there is a final file to take its place.
RemoveBackup ==
    /\ step = "removeBackup"
    /\ \/ backup' = Absent /\ Goto("moveFinal")
       \/ backup' \in {backup, Absent} /\ Goto("failed")
    /\ UNCHANGED <<tmp, final, request, reply>>

MoveFinal ==
    /\ step = "moveFinal"
    /\ \/ backup' = final /\ final' = Absent /\ Goto("publishOver")
       \/ UNCHANGED <<final, backup>> /\ Goto("failed")
       \/ backup' = final /\ final' = Absent /\ Goto("failed")
    /\ UNCHANGED <<tmp, request, reply>>

\* rename(temporary_path, final_path)
Publish ==
    /\ step \in {"publishNew", "publishOver"}
    /\ \/ final' = tmp /\ tmp' = Absent /\ Goto("done")
       \/ /\ \/ UNCHANGED <<tmp, final>>
             \/ final' = tmp /\ tmp' = Absent
          /\ Goto(IF step = "publishOver" THEN "restore" ELSE "failed")
    /\ UNCHANGED <<backup, request, reply>>

\* Faulty rollback for mutation: the backup is renamed over whatever is there.
RestoreOver ==
    /\ step = "restore"
    /\ \/ final' = backup /\ backup' = Absent
       \/ UNCHANGED <<final, backup>>
    /\ Goto("failed")
    /\ UNCHANGED <<tmp, request, reply>>

\* The best-effort rollback; FAT refuses to rename over an existing file.
Restore ==
    /\ step = "restore"
    /\ \/ final = Absent /\ final' = backup /\ backup' = Absent
       \/ UNCHANGED <<final, backup>>
    /\ Goto("failed")
    /\ UNCHANGED <<tmp, request, reply>>

\* storage_commit_replace_file() returns to its caller.
ReplaceReturns ==
    /\ step \in {"done", "failed"}
    /\ reply' = IF step = "done" THEN "ok" ELSE "failed"
    /\ request' = NoRequest
    /\ Goto("idle")
    /\ UNCHANGED disk

CommitStep ==
    CloseSynced \/ StatFinal \/ RemoveBackup \/ MoveFinal \/ Publish \/ Restore

-----------------------------------------------------------------------------
\* storage_recover_replace(): the first stat, the second stat and the rename.
CallRecover ==
    /\ step = "idle"
    /\ Goto("recover")
    /\ UNCHANGED <<disk, request, reply>>

RecoverStatFinal ==
    /\ step = "recover"
    /\ \/ Goto("recoverFailed")
       \/ Goto(IF final # Absent THEN "recovered" ELSE "recoverBackup")
    /\ UNCHANGED <<disk, request, reply>>

RecoverBackup ==
    /\ step = "recoverBackup"
    /\ \/ Goto("recoverFailed") /\ UNCHANGED <<final, backup>>
       \/ backup = Absent /\ Goto("recovered") /\ UNCHANGED <<final, backup>>
       \/ /\ backup # Absent
          /\ final' = backup /\ backup' = Absent
          /\ step' \in {"recovered", "recoverFailed"}
    /\ UNCHANGED <<tmp, request, reply>>

RecoverReturns ==
    /\ step \in {"recovered", "recoverFailed"}
    /\ Goto("idle")
    /\ UNCHANGED <<disk, request, reply>>

RecoverStep == RecoverStatFinal \/ RecoverBackup

\* Power fails between two calls: the caller is gone, unsynced data may be too.
PowerLoss ==
    /\ tmp' \in (IF tmp = Torn THEN {Torn, Absent} ELSE {tmp})
    /\ Goto("idle")
    /\ request' = NoRequest
    /\ reply' = "none"
    /\ UNCHANGED <<final, backup>>

Next ==
    \/ \E v \in Contents : OpenTemporary(v)
    \/ WriteFails \/ WriteSucceeds
    \/ CommitStep \/ ReplaceReturns
    \/ CallRecover \/ RecoverStep \/ RecoverReturns
    \/ PowerLoss

Spec == Init /\ [][Next]_vars

-----------------------------------------------------------------------------
\* What the next recovery makes of the card: the document the user owns.
Document == IF final # Absent THEN final ELSE backup

\* A file published under the document's name, or kept as its backup, always
\* holds synced, complete data (close_synced before any rename).
NeverTorn == final # Torn /\ backup # Torn

\* After a recovery that reports success the document is back under its own
\* name, so the fopen that follows reads the document and not an empty file.
RecoveredIsComplete == step = "recovered" => final = Document

\* Through failures, ambiguous errors, rollbacks and power losses the document
\* is only ever the old content or the requested one, and a reported success is
\* durable: the three files implement DurableDocument.
Durable == INSTANCE DurableDocument WITH document <- Document
ImplementsDurable == Durable!Spec

\* Where each step of a commit leaves the three files.
CommitInv ==
    /\ IF step \in CommitSteps \cup {"writing"} THEN request \in Contents
                                              ELSE request = NoRequest
    /\ step \in {"statFinal", "removeBackup", "moveFinal", "publishNew", "publishOver"} =>
         tmp = request
    /\ step \in {"removeBackup", "moveFinal"} => final # Absent
    /\ step = "moveFinal" => backup = Absent
    /\ step \in {"publishNew", "publishOver"} => final = Absent
    /\ step = "restore" => final \in {Absent, request}
    /\ step = "done" => final = request
    /\ step = "recoverBackup" => final = Absent
    /\ step \in {"recovered"} => final # Absent \/ backup = Absent

\* The inductive invariant behind the refinement.
IInv == TypeOK /\ NeverTorn /\ CommitInv
=============================================================================
