------------------------------- MODULE CsvLog -------------------------------
(* An append-only CSV log on the card: storage_repair_csv_tail             *)
(* (storage_io.c) and the writers that call it before each row: the HTTP   *)
(* and MQTT metadata logs (append_log) and the ring's heart-rate log       *)
(* (ring_hr_append_log), which repairs once more after a failed row and    *)
(* tries the same row again.                                               *)
(*                                                                         *)
(* The file is a sequence of bytes.  A row is abstracted to RowBytes       *)
(* copies of its number and a newline, the header to the same with 0, so   *)
(* that a torn or a merged line is told from a whole one.  A step is one   *)
(* call that can fail or be the last before a power loss.  What a power    *)
(* loss leaves is any content the file had since the last sync that was    *)
(* confirmed (the order of unsynced writes is kept, as FAT appends and     *)
(* truncates one cluster chain).                                           *)
EXTENDS Integers, Sequences, SequencesExt, FiniteSetsExt

CONSTANTS
  RowBytes,     \* bytes of a row before its newline
  BlockBytes,   \* bytes the repair reads at a time (512)
  MaxRows,      \* rows given to the log (a bound on the runs)
  MaxFaults     \* I/O errors and power losses (a bound on the runs)

ASSUME CsvAssumption ==
  /\ RowBytes \in Nat \ {0} /\ BlockBytes \in Nat \ {0}
  /\ MaxRows \in Nat /\ MaxFaults \in Nat

VARIABLES
  file,        \* the bytes a reader sees
  survivors,   \* what a power loss may leave
  confirmed,   \* rows whose append was reported as saved
  row,         \* the number of the row being appended, or appended last
  ring,        \* the log is the ring's
  at,          \* the writer's next call
  faults

csvVars == <<file, survivors, confirmed, row, ring, at, faults>>

NL == -1
Header == 0
Line(number) == Append([i \in 1..RowBytes |-> number], NL)

CsvInit ==
  /\ file = <<>>
  /\ survivors = {<<>>}
  /\ confirmed = {}
  /\ row = 0
  /\ ring \in BOOLEAN
  /\ at = "idle"
  /\ faults = 0

\* The file changes; until a sync is confirmed the old content may come back.
Put(bytes) ==
  /\ file' = bytes
  /\ survivors' = survivors \cup {bytes}

Synced == survivors' = {file} /\ UNCHANGED file

CanFail == faults < MaxFaults /\ faults' = faults + 1

-----------------------------------------------------------------------------
(* The scan for the last complete row.                                     *)

\* scan[offset] is the length up to the last newline among the first offset
\* bytes, found block by block from the end; 0 when there is none.
ScanBlocks(bytes) ==
  LET scan[offset \in 0..Len(bytes)] ==
        LET start == IF offset > BlockBytes THEN offset - BlockBytes ELSE 0
            newlines == {i \in start + 1 .. offset : bytes[i] = NL}
        IN IF offset = 0 THEN 0
           ELSE IF newlines = {} THEN scan[start] ELSE Max(newlines)
  IN scan

RepairedLength(bytes) ==
  IF bytes = <<>> \/ Last(bytes) = NL THEN Len(bytes)
  ELSE ScanBlocks(bytes)[Len(bytes) - 1]

-----------------------------------------------------------------------------
(* The writer.                                                             *)

\* Mutant: a row is appended without repairing the tail.
AppendLogUnrepaired(again) ==
  /\ at = "idle"
  /\ IF again THEN ring /\ row > 0 /\ row \notin confirmed /\ row' = row
              ELSE row < MaxRows /\ row' = row + 1
  /\ at' = "write"
  /\ UNCHANGED <<file, survivors, confirmed, ring, faults>>

\* Mutant: the ring gives a row again although it was saved.
AppendLogSaved(again) ==
  /\ at = "idle"
  /\ IF again THEN ring /\ row > 0 /\ row' = row
              ELSE row < MaxRows /\ row' = row + 1
  /\ at' = "repair"
  /\ UNCHANGED <<file, survivors, confirmed, ring, faults>>

\* The next row: the ring gives the row that was not saved again.
AppendLog(again) ==
  /\ at = "idle"
  /\ IF again THEN ring /\ row > 0 /\ row \notin confirmed /\ row' = row
              ELSE row < MaxRows /\ row' = row + 1
  /\ at' = "repair"
  /\ UNCHANGED <<file, survivors, confirmed, ring, faults>>

\* ring_hr_load_last_saved repairs the log before it reads it.
LoadCheckpoint ==
  /\ at = "idle" /\ ring
  /\ at' = "mend"
  /\ UNCHANGED <<file, survivors, confirmed, row, ring, faults>>

\* The steps of storage_repair_csv_tail, before a row ("repair") or, for the
\* ring, on its own ("mend").
Repairing == {"repair", "mend"}
AfterRepair == IF at = "repair" THEN "write" ELSE "idle"

RepairScan ==
  /\ at \in Repairing
  /\ IF RepairedLength(file) < Len(file)
     THEN /\ Put(SubSeq(file, 1, RepairedLength(file)))
          /\ at' = IF at = "repair" THEN "repairSync" ELSE "mendSync"
     ELSE at' = AfterRepair /\ UNCHANGED <<file, survivors>>
  /\ UNCHANGED <<confirmed, row, ring, faults>>

\* Any call up to the opening of the stream fails.  An error before the
\* truncation leaves the file alone, a later one leaves it truncated.
PrepareFails ==
  /\ at \in Repairing \cup {"repairSync", "mendSync", "write"}
  /\ CanFail
  /\ at' = "idle"
  /\ UNCHANGED <<file, survivors, confirmed, row, ring>>

RepairSync ==
  /\ at \in {"repairSync", "mendSync"}
  /\ Synced
  /\ at' = IF at = "repairSync" THEN "write" ELSE "idle"
  /\ UNCHANGED <<confirmed, row, ring, faults>>

\* What the stream holds when it is flushed: a header in an empty file.
Pending == (IF file = <<>> THEN Line(Header) ELSE <<>>) \o Line(row)

WriteRow ==
  /\ at = "write"
  /\ Put(file \o Pending)
  /\ at' = "sync"
  /\ UNCHANGED <<confirmed, row, ring, faults>>

\* A write fails part of the way: any prefix may have reached the file.
RowWriteFails ==
  /\ at = "write"
  /\ CanFail
  /\ \E n \in 0..Len(Pending) : Put(file \o SubSeq(Pending, 1, n))
  /\ at' = IF ring THEN "mend" ELSE "idle"
  /\ UNCHANGED <<confirmed, row, ring>>

SyncRow ==
  /\ at = "sync"
  /\ Synced
  /\ at' = "close"
  /\ UNCHANGED <<confirmed, row, ring, faults>>

\* The close reports the row as saved.
CloseRow ==
  /\ at = "close"
  /\ confirmed' = confirmed \cup {row}
  /\ at' = "idle"
  /\ UNCHANGED <<file, survivors, row, ring, faults>>

\* The sync or the close fails: the row stays, but nobody is told it did.
SaveFails ==
  /\ at \in {"sync", "close"}
  /\ CanFail
  /\ at' = IF ring THEN "mend" ELSE "idle"
  /\ UNCHANGED <<file, survivors, confirmed, row, ring>>

\* Power is lost at any point and the card is mounted again.
CsvPowerLoss ==
  /\ CanFail
  /\ file' \in survivors
  /\ survivors' = {file'}
  /\ at' = "idle"
  /\ UNCHANGED <<confirmed, row, ring>>

CsvNext ==
  \/ \E again \in BOOLEAN : AppendLog(again)
  \/ LoadCheckpoint
  \/ RepairScan \/ RepairSync \/ PrepareFails
  \/ WriteRow \/ RowWriteFails
  \/ SyncRow \/ CloseRow \/ SaveFails
  \/ CsvPowerLoss

CsvSpec == CsvInit /\ [][CsvNext]_csvVars

-----------------------------------------------------------------------------
(* What the log promises its readers.                                      *)

\* The variables stay in their domains, and only given rows are confirmed.
CsvTypeOK ==
  /\ file \in Seq(-1..MaxRows)
  /\ file \in survivors
  /\ \A bytes \in survivors : bytes \in Seq(-1..MaxRows)
  /\ confirmed \subseteq 1..row
  /\ row \in 0..MaxRows
  /\ ring \in BOOLEAN
  /\ at \in {"idle", "repair", "repairSync", "write", "sync", "close",
             "mend", "mendSync"}
  /\ faults \in 0..MaxFaults

LineBytes == RowBytes + 1

\* The k-th line, when the complete lines all have their length.
KthLine(bytes, k) == SubSeq(bytes, (k - 1) * LineBytes + 1, k * LineBytes)
LineCount(bytes) == Len(bytes) \div LineBytes
Numbers(bytes) == [k \in 1..LineCount(bytes) |-> KthLine(bytes, k)[1]]

\* Every line of the file is one whole row, but for an unfinished last one:
\* a row never runs into the remains of another, whatever failed before.
\* The first line is the header, and it is not repeated.
LinesWhole ==
  /\ \A k \in 1..LineCount(file) :
       \E number \in 0..row : /\ KthLine(file, k) = Line(number)
                              /\ (number = Header) <=> (k = 1)
  /\ \E number \in 0..row :
       IsPrefix(SubSeq(file, LineCount(file) * LineBytes + 1, Len(file)),
                Line(number))

\* A row reported as saved is in the file for good: no later failure,
\* repair or power loss takes it away.
ConfirmedKept ==
  \A number \in confirmed : \A bytes \in survivors :
    \E k \in 1..LineCount(bytes) : KthLine(bytes, k) = Line(number)

\* Rows stand in the order they were given, and only the ring's log repeats
\* one (docs/data-formats.md: a retry can repeat a row whose persistence was
\* unconfirmed).
RowsInOrder ==
  \A k \in 2..LineCount(file) :
    \/ Numbers(file)[k - 1] < Numbers(file)[k]
    \/ ring /\ Numbers(file)[k - 1] = Numbers(file)[k]

\* The block-wise scan keeps every complete row and nothing else: it finds
\* the longest prefix that ends a line.
RepairKeepsLines ==
  LET ends == {n \in 1..Len(file) : file[n] = NL}
  IN RepairedLength(file) = IF ends = {} THEN 0 ELSE Max(ends)

\* The log as a whole: types, whole lines in order, confirmed rows kept for good,
\* and a repair that keeps them.
LogInv == CsvTypeOK /\ LinesWhole /\ RowsInOrder /\ RepairKeepsLines /\ ConfirmedKept

\* The rows behind the header, as a reader numbers them.
StoredRows == [k \in 1..LineCount(file) - 1 |-> file[k * LineBytes + 1]]

\* Torn writes, repairs, retries and power losses are none of a reader's or a writer's
\* business: seen as rows, the log implements DurableLog.
Durably == INSTANCE DurableLog WITH entries <- StoredRows, given <- row, repeats <- ring
ImplementsLog == Durably!Spec
=============================================================================
