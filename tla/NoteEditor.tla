----------------------------- MODULE NoteEditor -----------------------------
(***************************************************************************)
(* The Notes application of src/main/main.c (notes_clicked, load_note,     *)
(* save_note, notes_leave), a client of StorageReplace.                    *)
(*                                                                         *)
(* Every handler runs to completion on the LVGL task, so only a power loss *)
(* comes between its file-system calls.  A note the editor cannot show     *)
(* (too long, or with NUL bytes) is a content outside Texts.               *)
(***************************************************************************)
EXTENDS StorageReplace

CONSTANTS
    Texts,      \* contents load_note accepts
    EmptyText   \* the text shown when there is no note yet

ASSUME NoteConstants == Texts \subseteq Contents /\ EmptyText \in Texts

VARIABLES
    editor,    \* "closed", "loading", "blocked" or "open" (note_can_save)
    shown,     \* the text area
    sdReady,   \* sd_ready
    known      \* the documents this session has loaded or tried to save

noteVars == <<editor, shown, sdReady, known>>
allVars == <<vars, noteVars>>

NoteTypeOK ==
    /\ TypeOK
    /\ editor \in {"closed", "loading", "blocked", "open"}
    /\ shown \in Contents
    /\ sdReady \in BOOLEAN
    /\ known \subseteq Contents \cup {Absent}

NoteInit ==
    /\ Init
    /\ editor = "closed"
    /\ shown = EmptyText
    /\ sdReady \in BOOLEAN
    /\ known = {}

\* sd_record_error(): an error that means the medium is gone ends SD use.
RecordError == sdReady' \in {sdReady, FALSE}

-----------------------------------------------------------------------------
\* notes_clicked(): without a card or memory the page opens with Save disabled.
OpenUnavailable ==
    /\ editor = "closed" /\ step = "idle"
    /\ editor' = "blocked"
    /\ shown' = EmptyText
    /\ UNCHANGED <<vars, sdReady, known>>

OpenNotes ==
    /\ editor = "closed" /\ sdReady
    /\ CallRecover
    /\ editor' = "loading"
    /\ UNCHANGED <<shown, sdReady, known>>

\* load_note() fails: the recovery or the read, or a note it cannot show.
LoadFails ==
    /\ editor = "loading"
    /\ RecoverReturns
    /\ editor' = "blocked"
    /\ shown' = EmptyText
    /\ RecordError
    /\ UNCHANGED known

\* Faulty load for mutation: the length and NUL checks are dropped.
LoadsAnything ==
    /\ editor = "loading" /\ step = "recovered"
    /\ RecoverReturns
    /\ shown' = IF final = Absent THEN EmptyText ELSE final
    /\ known' = {final}
    /\ editor' = "open"
    /\ UNCHANGED sdReady

\* load_note() returns 0: the note's text, or nothing when there is no note.
LoadSucceeds ==
    /\ editor = "loading" /\ step = "recovered"
    /\ RecoverReturns
    /\ final \in Texts \cup {Absent}
    /\ shown' = IF final = Absent THEN EmptyText ELSE final
    /\ known' = {final}
    /\ editor' = "open"
    /\ UNCHANGED sdReady

EditNote(t) ==
    /\ editor = "open" /\ step = "idle"
    /\ shown' = t
    /\ UNCHANGED <<vars, editor, sdReady, known>>

\* save_note() up to the fopen of NOTE.TMP fails; a text that is too long or a
\* missing card is refused before any file is touched.
SaveRefused ==
    /\ editor = "open" /\ step = "idle"
    /\ IF sdReady /\ shown \in Texts
       THEN tmp' \in {tmp, Absent, Torn} /\ RecordError
       ELSE UNCHANGED <<tmp, sdReady>>
    /\ UNCHANGED <<final, backup, step, request, reply, editor, shown, known>>

SaveNote ==
    /\ editor = "open" /\ sdReady /\ shown \in Texts
    /\ OpenTemporary(shown)
    /\ known' = known \cup {shown}
    /\ UNCHANGED <<editor, shown, sdReady>>

\* The status line after a save; errors are recorded on the way.
SaveReturns ==
    /\ ReplaceReturns
    /\ IF step = "failed" THEN RecordError ELSE UNCHANGED sdReady
    /\ UNCHANGED <<editor, shown, known>>

FileStep ==
    /\ WriteFails \/ WriteSucceeds \/ CommitStep \/ RecoverStep
    /\ UNCHANGED noteVars

NotesLeave ==
    /\ editor \in {"open", "blocked"} /\ step = "idle"
    /\ editor' = "closed"
    /\ shown' = EmptyText
    /\ known' = {}
    /\ UNCHANGED <<vars, sdReady>>

\* Power loss and the next boot, which mounts the card or not.
Reboot ==
    /\ PowerLoss
    /\ editor' = "closed"
    /\ shown' = EmptyText
    /\ known' = {}
    /\ sdReady' \in BOOLEAN

NoteNext ==
    \/ OpenUnavailable \/ OpenNotes \/ LoadFails \/ LoadSucceeds
    \/ \E t \in Contents : EditNote(t)
    \/ SaveRefused \/ SaveNote \/ SaveReturns \/ FileStep
    \/ NotesLeave \/ Reboot

NoteSpec == NoteInit /\ [][NoteNext]_allVars

-----------------------------------------------------------------------------
\* While Save is enabled the document on the card is one this session loaded or
\* tried to save: no failed load lets the user replace a note they never saw.
SessionKnowsDocument == editor = "open" => Document \in known

\* The invariant of the replace protocol holds under the editor's use of it: no
\* torn file is ever published, and a recovery that succeeds finds the document;
\* and no document is replaced that the session does not know.
NoteInv == NoteTypeOK /\ IInv /\ RecoveredIsComplete /\ SessionKnowsDocument

\* Only an open editor saves, and what it saves, or has loaded, is a text it can show.
SavesFromEditor ==
    /\ request # NoRequest => editor = "open" /\ request \in known
    /\ known \subseteq Texts \cup {Absent}

NoteIInv == NoteInv /\ SavesFromEditor

\* A note the editor cannot show (EFBIG, EILSEQ) is never replaced or removed.
ForeignKept ==
    [][Document \notin Texts \cup {Absent} => Document' = Document]_allVars
=============================================================================
