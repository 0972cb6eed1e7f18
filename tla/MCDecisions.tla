----------------------------- MODULE MCDecisions -----------------------------
(***************************************************************************)
(* An instance of Decisions.tla for TLC: a session with two requests, one   *)
(* of them for a tool that blocks before its request id is known, and one   *)
(* of another tmux session.                                                *)
(***************************************************************************)
EXTENDS Decisions, TLC

CONSTANTS s1, s2, r1, r2, r3, c1, c2, Bash

Hook(type, sid, tool) ==
  [type |-> type, sid |-> sid, reason |-> "", tool |-> tool,
   request |-> NoRequest]

MCSids == {s1, s2}
MCTools == {Bash}
MCRequests == {r1, r2, r3}
MCClients == {c1, c2}
MCOwner == (r1 :> s1) @@ (r2 :> s1) @@ (r3 :> s2)
MCToolOf == (r1 :> Bash) @@ (r2 :> "AskUserQuestion") @@ (r3 :> "ExitPlanMode")
MCEvents ==
  {Hook("session_start", s1, NoTool), Hook("post_tool_use", s1, NoTool),
   Hook("pre_tool_use", s1, "AskUserQuestion"),
   [Hook("session_end", s1, NoTool) EXCEPT !.reason = "other"]}
=============================================================================
