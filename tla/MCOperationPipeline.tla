------------------------- MODULE MCOperationPipeline -------------------------
(***************************************************************************)
(* Instances of OperationPipeline for TLC.  `join' succeeds only after     *)
(* `invite', as Add Membership does only after Invite.                     *)
(***************************************************************************)
EXTENDS OperationPipeline

CONSTANTS n1, n2, invite, join

MCAccepts(j, op) == op = join => \E i \in 1..Len(j) : j[i] = [op |-> invite, ok |-> TRUE]

=============================================================================
