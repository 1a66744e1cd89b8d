---------------------------- MODULE MCHttpConsole ----------------------------
(* The HTTP console with the requests of MCHttpConsole.cfg.                *)
EXTENDS HttpConsole
=============================================================================
