---------------------------- MODULE AgentToolsMC ----------------------------
(***************************************************************************)
(* A tool that writes and one that reads; a call without the arguments of  *)
(* the message fails in the plugin.                                        *)
(***************************************************************************)
EXTENDS AgentTools

CONSTANT WritingTools

Itself(x) == x
WritesFor(x) == x.tool \in WritingTools /\ x.arguments = "extracted"
AnswerFor(x) == IF x.arguments = "extracted" THEN "request" ELSE "failure"
OneHour(x) == 1
=============================================================================
