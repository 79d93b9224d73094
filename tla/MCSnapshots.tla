----------------------------- MODULE MCSnapshots -----------------------------
(* Instances of Snapshots for TLC: one seed group that can verify QuotaOf users. *)
EXTENDS Snapshots

CONSTANTS a, b, g, QuotaOf

MCQuota == [x \in Group |-> QuotaOf]

=============================================================================
