---------------------------- MODULE MCSponsorships ----------------------------
(* Instances of Sponsorships for TLC. *)
EXTENDS Sponsorships

CONSTANTS x, u, j1, j2, MaxDocs

MCSlot == 1..MaxDocs

=============================================================================
