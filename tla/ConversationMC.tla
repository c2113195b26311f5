--------------------------- MODULE ConversationMC ---------------------------
EXTENDS Conversation, TLC

\* Requests differ in nothing but what they have done.
AnyTurn == Permutations(Turns)
=============================================================================
