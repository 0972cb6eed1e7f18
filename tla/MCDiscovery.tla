---------------------------- MODULE MCDiscovery -----------------------------
(***************************************************************************)
(* An instance of Discovery.tla for TLC: two sessions that start, end in    *)
(* every way, come back and run inside one another.                        *)
(***************************************************************************)
EXTENDS Discovery

CONSTANTS s1, s2, p1, p2, Bash, r1

Hook(type, sid, reason) ==
  [type |-> type, sid |-> sid, reason |-> reason, tool |-> NoTool,
   request |-> NoRequest]

MCSids == {s1, s2}
MCPanes == {p1, p2}
MCTools == {Bash}
MCRequests == {r1}
MCEvents ==
  {Hook("session_start", sid, "") : sid \in MCSids}
  \cup {Hook("user_prompt_submit", s1, ""), Hook("session_end", EmptySid, "other")}
  \cup {Hook("session_end", sid, reason) :
          sid \in MCSids, reason \in {"clear", "prompt_input_exit", "other"}}
=============================================================================
