------------------------------ MODULE MCGroups ------------------------------
(* Instances of Groups for TLC: at the start everyone knows everyone. *)
EXTENDS Groups

CONSTANTS a, b, c, f, g

Everyone    == {p \in User \X User : p[1] # p[2]}
OneChanging == {<<b, c>>}
OthersOnly  == Everyone

=============================================================================
