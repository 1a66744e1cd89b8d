CONSTANTS
  ring = ring
  kickr = kickr
  r1 = r1
  k1 = k1
  Products = {ring, kickr}
  Peers = {r1, k1}
  ProductOf <- OnePeerEach
  NoPeer = NoPeer
  DialMayFail = FALSE
  CloseMayFail = FALSE
  MaxToggles = 4

SPECIFICATION LinkSpec
INVARIANTS
  RestartRefusedWhileLinked

CHECK_DEADLOCK FALSE
