----------------------------- MODULE MCProfile -----------------------------
EXTENDS Profile, TLC

CONSTANTS c1, c2, u1, u2, d1, d2

\* Two entries of the large data do not fit into one channel.
MCSizeOf == (d1 :> 1) @@ (d2 :> 2)
=============================================================================
