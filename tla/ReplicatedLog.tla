---------------------------- MODULE ReplicatedLog ----------------------------
(***************************************************************************)
(* What the operation pipeline promises: there is one ledger, in which     *)
(* every operation has one outcome, and every node's history is a prefix   *)
(* of it.  Two nodes that have come equally far hold the same database.    *)
(***************************************************************************)
EXTENDS Integers, Sequences

CONSTANTS Node, Op, Accepts(_, _)

VARIABLES
  ledger,  \* the outcomes [op, ok], in order
  view     \* view[n]: the outcomes node n has come to

\* An operation is executed once, and only where it is acceptable.
Verdict(op) ==
  [op |-> op,
   ok |-> /\ \A i \in 1..Len(ledger) : ~(ledger[i].op = op /\ ledger[i].ok)
          /\ Accepts(ledger, op)]

Init == ledger = <<>> /\ view = [n \in Node |-> <<>>]

\* A node that has seen the whole ledger extends it.
Extend(n) ==
  /\ view[n] = ledger
  /\ \E op \in Op : ledger' = Append(ledger, Verdict(op))
  /\ view' = [view EXCEPT ![n] = ledger']

\* A node that is behind takes the next outcome as it stands.
Follow(n) ==
  /\ Len(view[n]) < Len(ledger)
  /\ view' = [view EXCEPT ![n] = SubSeq(ledger, 1, Len(view[n]) + 1)]
  /\ UNCHANGED ledger

Next == \E n \in Node : Extend(n) \/ Follow(n)

Spec == Init /\ [][Next]_<<ledger, view>>

=============================================================================
