---------------------------- MODULE MCProductLink ----------------------------
(* Small instances of ProductLink: one ring and one trainer in range.      *)
EXTENDS ProductLink, TLC

\* The profile each device advertises.
CONSTANTS ring, kickr, r1, k1
OnePeerEach == (r1 :> ring) @@ (k1 :> kickr)

=============================================================================
