----------------------------- MODULE MCBackend -----------------------------
(***************************************************************************)
(* Instances of Backend.tla for TLC: hook events small enough to combine   *)
(* in every order.                                                         *)
(***************************************************************************)
EXTENDS BackendClaims

CONSTANTS s1, s2, Bash, r1

Hook(type, sid) ==
  [type |-> type, sid |-> sid, reason |-> "", tool |-> NoTool,
   request |-> NoRequest]
Start(sid) == Hook("session_start", sid)
Submit(sid) == Hook("user_prompt_submit", sid)
Stop(sid) == Hook("stop", sid)
End(sid, reason) == [Hook("session_end", sid) EXCEPT !.reason = reason]

MCSids == {s1, s2}
MCTools == {Bash}
MCRequests == {r1}

(* A tool that needs a permission, and one that blocks before its request. *)
Ask(sid) ==
  [Hook("permission_request", sid) EXCEPT !.tool = Bash, !.request = r1]
Plan(sid) == [Hook("pre_tool_use", sid) EXCEPT !.tool = "ExitPlanMode"]

(* One session from its start to its end, with a dialog.                   *)
LifecycleEvents == {Start(s1), Submit(s1), Stop(s1), Ask(s1), End(s1, "other")}
(* Its start, a turn, its dialogs and its end, and an event without an id. *)
EndEvents ==
  {Start(s1), Submit(s1), Ask(s1), Plan(s1), Stop(EmptySid), End(s1, "other")}
=============================================================================
