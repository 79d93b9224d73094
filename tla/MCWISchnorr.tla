----------------------------- MODULE MCWISchnorr -----------------------------
EXTENDS WISchnorr, TLC

CONSTANTS i1, i2

\* Two infos that give different elements of the subgroup of order 3 modulo 7.
MCFOf == (i1 :> 3) @@ (i2 :> 2)

\* A mixing function of its arguments.
MCHash(alpha, beta, zed, m) == (alpha + 2 * beta * beta + 3 * alpha * beta * zed + 5 * m * alpha + m) \div 2
=============================================================================
