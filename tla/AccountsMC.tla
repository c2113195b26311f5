----------------------------- MODULE AccountsMC -----------------------------
EXTENDS Accounts, TLC

\* Requests and registrations differ in nothing but what they have done.
AnyRequest == Permutations(Requests) \cup Permutations(Registrations)
=============================================================================
