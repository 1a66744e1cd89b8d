-------------------------- MODULE DurableDocument --------------------------
(***************************************************************************)
(* What src/main/storage_io.c promises to the owner of a document that is  *)
(* kept by replacement (NOTE.TXT, SUMMARY.CSV): seen from the next start,  *)
(* the document changes in one step from the old content to the content of *)
(* the request in progress; a request reports success only after that; a   *)
(* request that fails or is cut off by a power loss leaves one of the two. *)
(***************************************************************************)
CONSTANTS Contents, Absent, NoRequest

VARIABLES
    document,   \* what a reader finds after recovery
    request,    \* the content being saved, or NoRequest
    reply       \* what the last request reported: "none", "ok" or "failed"

vars == <<document, request, reply>>

Init ==
    /\ document \in Contents \cup {Absent}
    /\ request = NoRequest
    /\ reply = "none"

Begin(v) ==
    /\ request = NoRequest
    /\ request' = v
    /\ reply' = "none"
    /\ UNCHANGED document

Publish ==
    /\ request # NoRequest
    /\ document' = request
    /\ UNCHANGED <<request, reply>>

Succeed ==
    /\ request # NoRequest
    /\ document = request
    /\ request' = NoRequest
    /\ reply' = "ok"
    /\ UNCHANGED document

Fail ==
    /\ request # NoRequest
    /\ request' = NoRequest
    /\ reply' = "failed"
    /\ UNCHANGED document

PowerLoss ==
    /\ request' = NoRequest
    /\ reply' = "none"
    /\ UNCHANGED document

Next == (\E v \in Contents : Begin(v)) \/ Publish \/ Succeed \/ Fail \/ PowerLoss

Spec == Init /\ [][Next]_vars
=============================================================================
