------------------------ MODULE MCBlindVerifications ------------------------
EXTENDS BlindVerifications, TLC

CONSTANTS x, y, x1, x2, y1, w1, w2

\* The devices of one user, and one of another.
MCUserOf == [c \in Client |-> IF c = y1 THEN y ELSE x]
=============================================================================
