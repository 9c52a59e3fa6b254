--------------------------- MODULE MCAgentSession ---------------------------
(* AgentSession with the lists of tool calls that model replies ask for.    *)
EXTENDS AgentSession

CONSTANTS c1, c2

TwoCalls == {<<c1, c2>>}
=============================================================================
