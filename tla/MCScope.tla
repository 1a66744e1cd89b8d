------------------------------- MODULE MCScope -------------------------------
(* The scope alone, for what the documentation says of its saved traces.     *)
EXTENDS ScopeSampler
=============================================================================
