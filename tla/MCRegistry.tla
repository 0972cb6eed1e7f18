----------------------------- MODULE MCRegistry -----------------------------
(***************************************************************************)
(* An instance of Registry.tla for TLC: one tmux session whose claude moves *)
(* between two panes, with two sessions that start, are used and end.      *)
(***************************************************************************)
EXTENDS Registry

CONSTANTS s1, s2, p1, p2, t1, Bash, r1

Hook(type, sid, reason) ==
  [type |-> type, sid |-> sid, reason |-> reason, tool |-> NoTool,
   request |-> NoRequest]

MCSids == {s1, s2}
MCPanes == {p1, p2}
MCTmuxes == {t1}
MCTools == {Bash}
MCRequests == {r1}
MCEvents ==
  {Hook("session_start", s1, ""), Hook("session_start", s2, ""),
   Hook("user_prompt_submit", s1, ""), Hook("session_end", s1, "clear")}
=============================================================================
