-------------------------------- MODULE ToolJob --------------------------------
(***************************************************************************)
(* What a network tool promises its user: one request at a time is taken,  *)
(* a request that was taken ends, and the result on record belongs to the  *)
(* request it names.                                                       *)
(***************************************************************************)
CONSTANTS Requests, NoRequest

VARIABLES
    current,    \* the request being worked on
    result      \* the request that ended last, until the next one is taken

vars == <<current, result>>

Init == current = NoRequest /\ result = NoRequest

\* A new request discards the result of the one before.
Take(r) ==
    /\ current = NoRequest
    /\ current' = r
    /\ result' = NoRequest

End ==
    /\ current # NoRequest
    /\ current' = NoRequest
    /\ result' = current

\* Taking a request that cannot be started at all ends it at once.
TakeAndEnd(r) ==
    /\ current = NoRequest
    /\ result' = r
    /\ UNCHANGED current

Next == End \/ \E r \in Requests : Take(r) \/ TakeAndEnd(r)

\* What may happen, and that what was taken ends.
SafeSpec == Init /\ [][Next]_vars
Spec == SafeSpec /\ WF_vars(End)

================================================================================
