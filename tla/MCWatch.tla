------------------------------ MODULE MCWatch -------------------------------
(***************************************************************************)
(* An instance of Watch.tla for TLC: one session whose subagent uses a tool,*)
(* in terminals whose panes hold one block or two.                         *)
(***************************************************************************)
EXTENDS Watch

CONSTANTS s1, s2, Bash, quiet, busy

Hook(type, sid, tool) ==
  [type |-> type, sid |-> sid, reason |-> "", tool |-> tool, request |-> NoRequest]

MCSids == {s1, s2}
MCTools == {Bash}
MCEvents == {Hook("pre_tool_use", s2, Bash), Hook("session_end", s1, NoTool)}
MCActivities == {quiet, busy}
MCModes == {"bar", "tty", "log"}
MCBaselines == {Idle("stop"), Working(NoTool), Dead("session_end")}
MCSizes == {18, 22}
MCWraps == [spinner \in BOOLEAN |-> IF spinner THEN {0, 1} ELSE {0}]
=============================================================================
