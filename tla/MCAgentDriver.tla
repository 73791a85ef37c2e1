---------------------------- MODULE MCAgentDriver ----------------------------
(* Small instances of AgentDriver. *)
EXTENDS AgentDriver

CONSTANTS m1, m2

TwoMsgs == {m1, m2}
UserCancels == {"user"}
==============================================================================
