----------------------------- MODULE DurableLog -----------------------------
(***************************************************************************)
(* What an append-only log on the card (HTTP.CSV, MQTT.CSV, HR.CSV) is to  *)
(* those who write and read it: rows are only ever added behind the ones   *)
(* that are there; a row is confirmed only while it is there, and then it  *)
(* is neither added again nor lost; a power loss takes the last rows at    *)
(* most, and none that was confirmed.  The log that repeats a row does so  *)
(* only while the row is not confirmed.                                    *)
(***************************************************************************)
EXTENDS Naturals, Sequences

VARIABLES
    entries,     \* the rows a reader finds, oldest first
    given,       \* the number of the row given last
    confirmed,   \* the rows whose writer was told that they are saved
    repeats      \* may a row that was not confirmed be added again?

vars == <<entries, given, confirmed, repeats>>

Found(number) == \E k \in 1..Len(entries) : entries[k] = number

Init ==
    /\ entries = <<>>
    /\ given = 0
    /\ confirmed = {}
    /\ repeats \in BOOLEAN

Give ==
    /\ given' = given + 1
    /\ UNCHANGED <<entries, confirmed, repeats>>

Add ==
    /\ given > 0 /\ given \notin confirmed
    /\ Found(given) => repeats
    /\ entries' = Append(entries, given)
    /\ UNCHANGED <<given, confirmed, repeats>>

Confirm ==
    /\ Found(given)
    /\ confirmed' = confirmed \cup {given}
    /\ UNCHANGED <<entries, given, repeats>>

PowerLoss ==
    /\ \E n \in 0..Len(entries) : entries' = SubSeq(entries, 1, n)
    /\ \A number \in confirmed : Found(number)'
    /\ UNCHANGED <<given, confirmed, repeats>>

Next == Give \/ Add \/ Confirm \/ PowerLoss

Spec == Init /\ [][Next]_vars
=============================================================================
