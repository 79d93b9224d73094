---------------------------- MODULE MCRateLimits ----------------------------
EXTENDS RateLimits

CONSTANTS u1, u2, a1, w1, w2
=============================================================================
