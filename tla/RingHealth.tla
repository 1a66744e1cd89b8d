----------------------------- MODULE RingHealth -----------------------------
(* The ring's heart-rate history and manual readings (main.c): what is     *)
(* exchanged over the ring's link and how it reaches HR.CSV.  The NimBLE   *)
(* host task runs the completions and notifications (ring_subscribed,      *)
(* ring_history_requested, ring_handle_history, govee_gap_event); the LVGL *)
(* task runs the switch, the Measure button and ring_health_tick, which    *)
(* saves the queued samples and asks for the next day.                     *)
(*                                                                         *)
(* A step is one critical section with the calls around it that nothing    *)
(* can come between, or one call that can fail.  The ring and the stack    *)
(* are external: a write that succeeds may be answered, at any later time. *)
(* Days are numbered from the oldest one, 1, and midnight may come between *)
(* any two steps.  The time of the n-th sample of a day is day * DayLength *)
(* + n, that of a manual reading comes after the samples of its day, and 0 *)
(* is the unset clock.                                                     *)
(* How the log's bytes are repaired is CsvLog's subject: here the log is a *)
(* sequence of rows, each confirmed or not.  How the link comes and goes   *)
(* is ProductLink's: here it does both at any time.                        *)
EXTENDS Integers, Sequences, SequencesExt, FiniteSetsExt

CONSTANTS
  SyncDays,     \* RING_HR_SYNC_DAYS: the days asked for before today
  Stored,       \* samples the ring holds of each day, from the oldest to the
                \* last day of the run
  QueueSlots,   \* the capacity of ring_hr_samples
  TailRows,     \* rows in the tail read for the checkpoint
  MaxLinks, MaxTaps, MaxReadings, MaxTroubles   \* bounds on the runs

LastDay == Len(Stored)

ASSUME RingAssumption ==
  /\ SyncDays \in Nat /\ TailRows \in Nat \ {0} /\ QueueSlots \in Nat \ {0}
  /\ Stored \in Seq(0..QueueSlots) /\ SyncDays < LastDay
  /\ {MaxLinks, MaxTaps, MaxReadings, MaxTroubles} \subseteq Nat

VARIABLES
  today,       \* the day of the clock
  ringLink,    \* [enabled, connected]: ring_enabled and ring_connected
  measuring,   \* ring_hr_active
  syncing,     \* [active, pending, daysAgo, total, day]: the ring_sync_ fields
  gatt,        \* writes the stack has not completed, in order
  air,         \* notifications not handled yet, in order
  samples,     \* ring_hr_samples
  hrLog,       \* the rows of HR.CSV
  saved,       \* ring_hr_last_saved, and whether it is loaded
  card,        \* sd_ready
  health,      \* where the LVGL task is, with the day it has asked for
  reached,     \* how far the sync has come: the day last asked for, the one
               \* after it once that is finished, or 1
  hidden,      \* times of history samples a newer row may keep out of the log
  owed,        \* times of history samples that have to be kept
  blurred,     \* a request timed out, was answered before it was recorded, or
               \* was answered in part while the ring was switched off
  count        \* links, taps, readings and troubles so far

promise == <<reached, hidden, owed>>
ringVars == <<today, ringLink, measuring, syncing, gatt, air, samples, hrLog, saved,
              card, health, promise, blurred, count>>
exchange == <<ringLink, measuring, syncing, gatt, air>>
storage == <<hrLog, saved, card>>

DayLength == QueueSlots + MaxReadings + 1
TimeOf(day, n) == day * DayLength + n
Now == TimeOf(today, QueueSlots + 1 + count.readings)

\* The times of what the ring holds of some days.
HistoryOf(days) == UNION {{TimeOf(d, n) : n \in 1..Stored[d]} : d \in days}

\* A sample: the time it is given, the time it was taken, and whether the
\* answer was to the request on record.
Measured(time, taken, sure) == [time |-> time, taken |-> taken, sure |-> sure]

Write(what) == [to |-> what, day |-> 0]
At(place) == [at |-> place, day |-> 0]

NoSync == [active |-> FALSE, pending |-> FALSE, daysAgo |-> SyncDays,
           total |-> 0, day |-> 0]
Unloaded == [time |-> 0, loaded |-> FALSE]

RingInit ==
  /\ today = SyncDays + 1
  /\ ringLink = [enabled |-> FALSE, connected |-> FALSE]
  /\ measuring = FALSE
  /\ syncing = NoSync
  /\ gatt = <<>> /\ air = <<>> /\ samples = <<>>
  /\ hrLog = <<>>
  /\ saved = Unloaded
  /\ card = TRUE
  /\ health = At("idle")
  /\ reached = 1 /\ hidden = {} /\ owed = {}
  /\ blurred = FALSE
  /\ count = [links |-> 0, taps |-> 0, readings |-> 0, troubles |-> 0]

Counts(what, most) == count[what] < most /\ count' = [count EXCEPT ![what] = @ + 1]
Trouble == Counts("troubles", MaxTroubles)

\* ring_connection_active, for the one link there is.
LinkActive == ringLink.enabled /\ ringLink.connected

-----------------------------------------------------------------------------
(* The link, and the chain of writes that follows a connection.            *)

\* CONNECT: the host subscribes to the ring's notifications.
RingConnected ==
  /\ ringLink.enabled /\ ~ringLink.connected
  /\ Counts("links", MaxLinks)
  /\ ringLink' = [ringLink EXCEPT !.connected = TRUE]
  /\ gatt' = <<Write("subscribe")>>
  /\ UNCHANGED <<measuring, syncing, air, samples, storage, health, promise, blurred>>

\* DISCONNECT: the writes under way end with errors, nothing else arrives.
RingDisconnected ==
  /\ ringLink.connected
  /\ ringLink' = [ringLink EXCEPT !.connected = FALSE]
  /\ measuring' = FALSE
  /\ syncing' = [syncing EXCEPT !.active = FALSE, !.pending = FALSE]
  /\ gatt' = <<>> /\ air' = <<>>
  /\ UNCHANGED <<samples, storage, health, promise, blurred, count>>

\* A write succeeded: its completion sends the next of the chain, or
\* schedules the sync.
Scheduled == [syncing EXCEPT !.daysAgo = SyncDays, !.active = FALSE, !.pending = TRUE]

ChainNext == [subscribe |-> "auto", auto |-> "battery"]
InChain(write) == write.to \in {"subscribe", "auto", "battery"}

\* What the ring may send once it has a request.
Answers(write) ==
  CASE write.to = "history" ->
         LET n == Stored[write.day]
             data == [i \in 1..n |-> [kind |-> "data", n |-> i, day |-> write.day]]
         IN {<<>>} \cup
            IF n = 0 THEN {<<[kind |-> "none"]>>, <<[kind |-> "header", total |-> 1]>>}
            ELSE {<<[kind |-> "header", total |-> n + 1]>> \o data}
    [] OTHER -> {<<>>, <<[kind |-> "reading", ok |-> TRUE]>>,
                 <<[kind |-> "reading", ok |-> FALSE]>>}

ChainWritten ==
  /\ gatt # <<>> /\ InChain(Head(gatt))
  /\ IF ~LinkActive THEN gatt' = Tail(gatt) /\ UNCHANGED <<syncing, reached>>
     ELSE IF Head(gatt).to = "battery"
     THEN gatt' = Tail(gatt) /\ syncing' = Scheduled /\ reached' = 1
     ELSE /\ gatt' = Tail(gatt) \o <<Write(ChainNext[Head(gatt).to])>>
          /\ UNCHANGED <<syncing, reached>>
  /\ UNCHANGED <<ringLink, measuring, air, samples, storage, health, hidden, owed,
                 blurred, count>>

\* The history or the reading has been asked for.
AskWritten ==
  /\ gatt # <<>> /\ ~InChain(Head(gatt))
  /\ gatt' = Tail(gatt)
  /\ \E answer \in Answers(Head(gatt)) : air' = air \o answer
  /\ UNCHANGED <<ringLink, measuring, syncing, samples, storage, health, promise, blurred, count>>

\* ring_history_requested puts a refused request back; the other writes of a
\* link end with a warning.
WriteRefused ==
  /\ gatt # <<>>
  /\ Trouble
  /\ gatt' = Tail(gatt)
  /\ syncing' = IF Head(gatt).to = "history" /\ LinkActive
                THEN [syncing EXCEPT !.active = FALSE, !.pending = TRUE]
                ELSE syncing
  /\ UNCHANGED <<ringLink, measuring, air, samples, storage, health, promise, blurred>>

-----------------------------------------------------------------------------
(* Notifications.                                                          *)

\* ring_history_finished: the next day is due, today was the last.
Finished(s) ==
  IF s.daysAgo > 0 THEN [s EXCEPT !.active = FALSE, !.daysAgo = @ - 1, !.pending = TRUE]
  ELSE [s EXCEPT !.active = FALSE]

Enqueue(sample) ==
  samples' = IF Len(samples) < QueueSlots THEN Append(samples, sample) ELSE samples

\* An answer that comes while the request is not on record yet.
Early == health.at = "requested"

HistoryHeader ==
  /\ LinkActive
  /\ \/ Head(air).kind = "none" /\ syncing' = Finished(syncing)
     \/ /\ Head(air).kind = "header"
        /\ LET counted == [syncing EXCEPT !.total = Head(air).total]
           IN syncing' = IF Head(air).total <= 1 THEN Finished(counted) ELSE counted
  /\ blurred' = (blurred \/ Early)
  /\ UNCHANGED <<measuring, samples, hidden, owed, count>>

HistoryData ==
  /\ LinkActive
  /\ Head(air).kind = "data"
  /\ LET n == Head(air).n
         taken == TimeOf(Head(air).day, n)
         sure == ~blurred /\ ~Early
     IN /\ Enqueue(Measured(TimeOf(syncing.day, n), taken, sure))
        /\ owed' = owed \cup IF sure THEN {taken} \ hidden ELSE {}
        /\ syncing' = IF syncing.total > 0 /\ n = syncing.total - 1
                      THEN Finished(syncing) ELSE syncing
  /\ blurred' = (blurred \/ Early)
  /\ UNCHANGED <<measuring, hidden, count>>

\* A manual reading ends the measurement; a good one is queued with the
\* present time: it is newer than the history that has not been handled yet.
Reading ==
  /\ LinkActive
  /\ Head(air).kind = "reading"
  /\ measuring' = FALSE
  /\ count.readings < MaxReadings
  /\ IF Head(air).ok
     THEN /\ Enqueue(Measured(Now, Now, TRUE))
          /\ hidden' = hidden \cup (HistoryOf(1..today) \ owed)
          /\ count' = [count EXCEPT !.readings = @ + 1]
     ELSE UNCHANGED <<samples, hidden, count>>
  /\ UNCHANGED <<syncing, owed, blurred>>

\* Nothing is taken from a link that is switched off.
Ignored ==
  /\ ~LinkActive
  /\ blurred' = (blurred \/ Head(air).kind = "data")
  /\ UNCHANGED <<measuring, syncing, samples, hidden, owed, count>>

RingNotified ==
  /\ air # <<>>
  /\ air' = Tail(air)
  /\ HistoryHeader \/ HistoryData \/ Reading \/ Ignored
  /\ reached' = reached + (syncing.daysAgo - syncing'.daysAgo)
  /\ UNCHANGED <<ringLink, gatt, storage, health>>

-----------------------------------------------------------------------------
(* The LVGL task: the switch and the Measure button.                       *)

RingToggled ==
  /\ health.at = "idle"
  /\ Counts("taps", MaxTaps)
  /\ ringLink' = [ringLink EXCEPT !.enabled = ~@]
  /\ IF ringLink.enabled
     THEN /\ measuring' = FALSE
          /\ syncing' = [syncing EXCEPT !.active = FALSE, !.pending = FALSE]
     ELSE UNCHANGED <<measuring, syncing>>
  /\ UNCHANGED <<gatt, air, samples, storage, health, promise, blurred>>

\* ring_hr_begin: the reading is asked for first and on record after.
MeasureTapped ==
  /\ health.at = "idle"
  /\ LinkActive /\ ~measuring /\ ~syncing.active
  /\ Counts("taps", MaxTaps)
  /\ gatt' = Append(gatt, Write("reading"))
  /\ health' = At("measure")
  /\ UNCHANGED <<ringLink, measuring, syncing, air, samples, storage, promise, blurred>>

MeasureBegun ==
  /\ health.at = "measure"
  /\ measuring' = TRUE
  /\ health' = At("idle")
  /\ UNCHANGED <<ringLink, syncing, gatt, air, samples, storage, promise, blurred, count>>

-----------------------------------------------------------------------------
(* ring_health_tick.                                                       *)

\* What is overdue is given up; the day is asked for again.
Overdue ==
  \/ UNCHANGED <<measuring, syncing, blurred, count>>
  \/ /\ measuring \/ syncing.active
     /\ Trouble
     /\ measuring' = FALSE
     /\ syncing' = IF syncing.active
                   THEN [syncing EXCEPT !.active = FALSE, !.pending = TRUE] ELSE syncing
     /\ blurred' = TRUE

HealthTick ==
  /\ health.at = "idle"
  /\ Overdue
  /\ health' = At("load")
  /\ UNCHANGED <<ringLink, gatt, air, samples, storage, promise>>

\* ring_hr_load_last_saved: the newest time of the log's tail.
TailOf(rows) == SubSeq(rows, Len(rows) - TailRows + 1, Len(rows))
Checkpoint(rows) ==
  LET tail == IF Len(rows) > TailRows THEN TailOf(rows) ELSE rows
  IN Max({row.time : row \in Range(tail)} \cup {saved.time})

LoadLastSaved ==
  /\ health.at = "load"
  /\ IF card
     THEN /\ saved' = IF saved.loaded THEN saved
                      ELSE [time |-> Checkpoint(hrLog), loaded |-> TRUE]
          /\ health' = At("drain")
     ELSE health' = At("idle") /\ UNCHANGED saved
  /\ UNCHANGED <<exchange, samples, hrLog, card, promise, blurred, count>>

\* Mutant: a log that could not be read counts as loaded.
LoadFailsLoaded ==
  /\ health.at = "load"
  /\ card /\ ~saved.loaded
  /\ Trouble
  /\ card' \in BOOLEAN
  /\ saved' = [saved EXCEPT !.loaded = TRUE]
  /\ health' = At("idle")
  /\ UNCHANGED <<exchange, samples, hrLog, promise, blurred>>

\* The log cannot be read: nothing is saved and nothing is asked for.
LoadFails ==
  /\ health.at = "load"
  /\ card /\ ~saved.loaded
  /\ Trouble
  /\ card' \in BOOLEAN
  /\ health' = At("idle")
  /\ UNCHANGED <<exchange, samples, hrLog, saved, promise, blurred>>

Row(sample, ok) ==
  [time |-> sample.time, taken |-> sample.taken, sure |-> sample.sure, confirmed |-> ok]

\* The next sample is saved, or was saved before.
DrainSample ==
  /\ health.at = "drain" /\ samples # <<>>
  /\ LET sample == Head(samples) IN
       IF sample.time > saved.time
       THEN /\ card
            /\ hrLog' = Append(hrLog, Row(sample, TRUE))
            /\ saved' = [saved EXCEPT !.time = sample.time]
       ELSE UNCHANGED <<hrLog, saved>>
  /\ samples' = Tail(samples)
  /\ UNCHANGED <<exchange, card, health, promise, blurred, count>>

\* It cannot be saved: it stays queued, and its row may be in the file.
DrainFails ==
  /\ health.at = "drain" /\ samples # <<>>
  /\ Head(samples).time > saved.time
  /\ IF card THEN /\ Trouble
                  /\ card' \in BOOLEAN
                  /\ hrLog' \in {hrLog, Append(hrLog, Row(Head(samples), FALSE))}
             ELSE UNCHANGED <<card, count, hrLog>>
  /\ health' = At("idle")
  /\ UNCHANGED <<exchange, samples, saved, promise, blurred>>

CanRequest ==
  /\ LinkActive /\ ~measuring
  /\ ~syncing.active /\ syncing.pending

\* ring_request_history, once the queue is empty: the request is written, for
\* a day counted back from the clock.  A day that midnight moved out of the
\* count is passed over...
RequestHistory ==
  /\ health.at = "drain" /\ samples = <<>>
  /\ IF CanRequest
     THEN LET day == today - syncing.daysAgo
          IN /\ gatt' = Append(gatt, [to |-> "history", day |-> day])
             /\ health' = [at |-> "requested", day |-> day]
             /\ reached' = day
             /\ hidden' = hidden \cup HistoryOf(reached .. day - 1)
     ELSE health' = At("idle") /\ UNCHANGED <<gatt, reached, hidden>>
  /\ UNCHANGED <<ringLink, measuring, syncing, air, samples, storage, owed, blurred, count>>

\* ... and put on record after.
Record(day) ==
  /\ syncing' = [syncing EXCEPT !.day = day, !.total = 0,
                                !.pending = FALSE, !.active = TRUE]
  /\ UNCHANGED <<ringLink, measuring, gatt, air, samples, storage, promise, blurred, count>>

RequestRecorded ==
  /\ health.at = "requested"
  /\ Record(health.day)
  /\ health' = At("idle")

-----------------------------------------------------------------------------
\* The clock goes on to the next day.
Midnight ==
  /\ today < LastDay
  /\ today' = today + 1
  /\ UNCHANGED <<exchange, samples, storage, health, promise, blurred, count>>

\* Power is lost: what was confirmed stays, and whatever came before it.
RingReboot ==
  /\ Trouble
  /\ \E kept \in 0..Len(hrLog) :
       /\ \A i \in kept + 1 .. Len(hrLog) : ~hrLog[i].confirmed
       /\ hrLog' = SubSeq(hrLog, 1, kept)
       /\ owed' = owed \cap {hrLog[i].time : i \in 1..kept}
  /\ ringLink' = [enabled |-> FALSE, connected |-> FALSE]
  /\ measuring' = FALSE
  /\ syncing' = NoSync
  /\ gatt' = <<>> /\ air' = <<>> /\ samples' = <<>>
  /\ saved' = Unloaded
  /\ card' = TRUE
  /\ health' = At("idle")
  /\ reached' = 1
  /\ UNCHANGED <<hidden, blurred>>

RingStep ==
  \/ RingConnected \/ RingDisconnected
  \/ ChainWritten \/ AskWritten \/ WriteRefused
  \/ RingNotified
  \/ RingToggled
  \/ MeasureTapped \/ MeasureBegun
  \/ HealthTick
  \/ LoadLastSaved \/ LoadFails
  \/ DrainSample \/ DrainFails
  \/ RequestHistory \/ RequestRecorded
  \/ RingReboot

RingNext == Midnight \/ (RingStep /\ UNCHANGED today)

RingSpec == RingInit /\ [][RingNext]_ringVars

-----------------------------------------------------------------------------

\* The variables stay in their domains.
RingTypes ==
  LET times == 0..TimeOf(LastDay + 1, 0)
      entry == [time : times, taken : times, sure : BOOLEAN]
  IN /\ today \in 1..LastDay /\ reached \in 1..LastDay
     /\ ringLink \in [enabled : BOOLEAN, connected : BOOLEAN]
     /\ measuring \in BOOLEAN /\ blurred \in BOOLEAN /\ card \in BOOLEAN
     /\ syncing \in [active : BOOLEAN, pending : BOOLEAN, daysAgo : 0..SyncDays,
                     total : 0..QueueSlots + 1, day : 0..LastDay]
     /\ Range(samples) \subseteq entry /\ Len(samples) <= QueueSlots
     /\ saved \in [time : times, loaded : BOOLEAN]
     /\ health.at \in {"idle", "load", "drain", "requested", "measure"}
     /\ health.day \in 0..LastDay
     /\ {hidden, owed} \subseteq SUBSET times

\* HR.CSV is in the order of the samples' times, over failed appends, failed
\* loads and restarts, and a row whose append was confirmed is never written
\* again, however often the ring repeats its history (docs/testing.md: "without
\* appending historical duplicates"; docs/data-formats.md: "a retry can repeat
\* a row whose persistence was unconfirmed").
LogSortedOnce ==
  \A i, j \in 1..Len(hrLog) :
    i < j => \/ hrLog[i].time < hrLog[j].time
             \/ hrLog[i].time = hrLog[j].time /\ ~hrLog[i].confirmed

\* A history sample the host has handled is queued or in the log until power
\* is lost, and in the log for good once it is there: no full queue, failed
\* append, second sync or checkpoint takes it away.  Left out are the samples
\* that had not been handled when a manual reading came in, which is newer and
\* raises the checkpoint over them; those of a day that a sync passed over
\* because midnight came between two of its requests: the next day's samples
\* raise the checkpoint over them, and a later sync that does ask for the day
\* has them dropped; those of an answer to a request that had timed out
\* or was not on record yet; and what comes after an answer that was ignored in
\* part because the ring was switched off and on again under its link: the rest
\* of that answer raises the checkpoint over the samples that were ignored.
HistoryKept ==
  \A time \in owed :
    \/ \E e \in Range(samples) : e.sure /\ e.taken = time
    \/ \E row \in Range(hrLog) : row.sure /\ row.taken = time

\* A sample carries the time it was taken at: the answer to one day's request
\* is not dated by another's, unless a request timed out, or was answered before
\* it was on record or in part while the ring was switched off.
OnItsDay ==
  /\ \A i \in 1..Len(samples) : samples[i].sure => samples[i].time = samples[i].taken
  /\ \A i \in 1..Len(hrLog) : hrLog[i].sure => hrLog[i].time = hrLog[i].taken

\* The history as a whole: types, an ordered log without confirmed duplicates,
\* no handled sample lost, and every sample on its day.
RingInv == RingTypes /\ LogSortedOnce /\ HistoryKept /\ OnItsDay
=============================================================================
