------------------------- MODULE ToolRateLimiterMC -------------------------
EXTENDS ToolRateLimiter, TLC

\* Checks differ in nothing but what they have done.
AnyCheck == Permutations(Checks)
=============================================================================
