--------------------------- MODULE AuthSessionsMC ---------------------------
EXTENDS AuthSessions, TLC

\* Requests differ in nothing but what they have done.
AnyRequest == Permutations(Requests)
=============================================================================
