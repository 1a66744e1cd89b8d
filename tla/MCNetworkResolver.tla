------------------------ MODULE MCNetworkResolver ------------------------
(* The two users of the resolver, two names, a literal address and a string
   that is no host name.  The callers are alike, and so are the names. *)
EXTENDS NetworkResolver, TLC

CONSTANTS http, diag, name1, name2, literal, malformed

TwoSlots == {0, 1}
TwoCallers == {http, diag}
EveryKindOfHost == {name1, name2, literal, malformed}
LiteralHosts == {literal}
MalformedHosts == {malformed}
Alike == Permutations(TwoCallers) \cup Permutations({name1, name2})

\* Both hand over an array for one address; lwIP may find two.
OneAddress == [c \in Callers |-> 1]
=============================================================================
