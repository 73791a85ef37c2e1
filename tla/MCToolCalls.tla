----------------------------- MODULE MCToolCalls -----------------------------
(* Small instances of ToolCalls. *)
EXTENDS ToolCalls
==============================================================================
