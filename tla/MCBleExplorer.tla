--------------------------- MODULE MCBleExplorer ---------------------------
(* The Bluetooth explorer alone, for what the documentation says of a        *)
(* restart while it is linked.                                               *)
EXTENDS BleExplorer
============================================================================
