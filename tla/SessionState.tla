---------------------------- MODULE SessionState ----------------------------
(***************************************************************************)
(* The four session states of state.py and the two pure transition         *)
(* functions of state_machine.py.  No variables: Backend.tla, Decisions.tla *)
(* and StateMachine.tla apply these operators to the state they keep.      *)
(*                                                                         *)
(* A payload is reduced to what the transition functions and the           *)
(* properties tell apart: the tool's name, the session_end reason and the  *)
(* request id.  The raw tool_input dict is left out.                       *)
(***************************************************************************)
CONSTANTS
  Sids,        \* claude session ids
  NoSid,       \* Python's None as a primary
  EmptySid,    \* the id of an event without a claude.session_id ("")
  OtherTools,  \* names of tools that do not wait for the user
  Requests,    \* decision-socket request ids
  NoRequest    \* no request id (None)

ASSUME IdAssumption ==
  /\ NoSid \notin Sids \cup {EmptySid}
  /\ EmptySid \notin Sids
  /\ NoRequest \notin Requests

-----------------------------------------------------------------------------
(* States.  None is the state before the first event that binds a session. *)

NoTool == ""
BlockingTools == {"AskUserQuestion", "ExitPlanMode"}
ToolNames == OtherTools \cup BlockingTools \cup {NoTool}
BlockKinds == {"permission", "ask_user", "exit_plan_mode"}
IdleReasons == {"start", "stop", "interrupted"}
DeadReasons == {"session_end", "pane_lost", "process_gone"}

None == [class |-> "None"]
Idle(reason) == [class |-> "Idle", reason |-> reason]
Working(tool) == [class |-> "Working", tool |-> tool]
Blocked(kind, tool, request) ==
  [class |-> "Blocked", kind |-> kind, tool |-> tool, request |-> request,
   expired |-> FALSE]
Dead(reason) == [class |-> "Dead", reason |-> reason]

States ==
       [class : {"None"}]
  \cup [class : {"Idle"}, reason : IdleReasons]
  \cup [class : {"Working"}, tool : ToolNames]
  \cup [class : {"Blocked"}, kind : BlockKinds, tool : ToolNames,
        request : Requests \cup {NoRequest}, expired : BOOLEAN]
  \cup [class : {"Dead"}, reason : DeadReasons]

IsIdle(s) == s.class = "Idle"
IsWorking(s) == s.class = "Working"
IsBlocked(s) == s.class = "Blocked"
IsDead(s) == s.class = "Dead"

(* A dialog whose structured path drop_to_tui has closed.                  *)
(* (Mutant: the state is not marked.)                                      *)
Expired(s) == IsBlocked(s) /\ s.expired
LeaveUnmarked(s) == s
Marked(s) == [s EXCEPT !.expired = TRUE]

-----------------------------------------------------------------------------
(* Hook events, as claude-tap writes them to events.jsonl.                 *)

EventTypes == {"session_start", "session_end", "user_prompt_submit",
               "pre_tool_use", "permission_request", "post_tool_use", "stop",
               "notification"}
EndReasons == {"", "clear", "prompt_input_exit", "other"}

HookEvents ==
  [type : EventTypes, sid : Sids \cup {EmptySid}, reason : EndReasons,
   tool : ToolNames, request : Requests \cup {NoRequest}]

(* What a Blocked state is about.  (Mutant: the default is forgotten.)      *)
KindWithoutDefault(tool) ==
  IF tool = "AskUserQuestion" THEN "ask_user"
  ELSE IF tool = "ExitPlanMode" THEN "exit_plan_mode" ELSE "None"
KindOf(tool) ==
  IF tool = "AskUserQuestion" THEN "ask_user"
  ELSE IF tool = "ExitPlanMode" THEN "exit_plan_mode" ELSE "permission"

(* What a hook event of the primary session turns state st into, the       *)
(* session_* events aside.  A tool that waits for the user blocks already   *)
(* at its pre_tool_use, before any request id is known.                    *)
HookTarget(st, ev) ==
  IF ev.type \in {"user_prompt_submit", "post_tool_use"} THEN Working(NoTool)
  ELSE IF ev.type = "pre_tool_use" /\ ev.tool \in BlockingTools
  THEN Blocked(KindOf(ev.tool), ev.tool, NoRequest)
  ELSE IF ev.type = "pre_tool_use" THEN Working(ev.tool)
  ELSE IF ev.type = "permission_request"
  THEN Blocked(KindOf(ev.tool), ev.tool, ev.request)
  ELSE IF ev.type = "stop" THEN Idle("stop") ELSE st

(* A transition is shown when the record differs in any field.             *)
(* (Mutant: only when its class does.)                                     *)
EmitsOnClassChange(new, st) == new.class # st.class
Emits(new, st) == new # st

(* The ids of this tmux session grow by every id but the empty one.        *)
(* (Mutants: by the empty one, too; each id replaces the others.)          *)
LearnAny(kn, sid) == kn \cup {sid}
LearnLast(kn, sid) == {sid} \ {EmptySid}
Learn(kn, sid) == kn \cup ({sid} \ {EmptySid})

(* A session_end after which the same session may go on.                   *)
EndsNothing(ev) == ev.type = "session_end" /\ ev.reason = "prompt_input_exit"

(* state_machine.apply: the step hook event ev makes from state st, primary *)
(* session prim and known session ids kn.                                  *)
Apply(st, prim, kn, ev) ==
  LET step(new, session, emit) == [state |-> new, primary |-> session,
                                   known |-> Learn(kn, ev.sid), emit |-> emit]
      to(new, session) == step(new, session, Emits(new, st))
      stay == step(st, prim, FALSE)
  IN IF ev.type = "session_start"
     THEN IF prim = NoSid THEN to(Idle("start"), ev.sid) ELSE stay
     ELSE IF ev.sid # prim \/ EndsNothing(ev) THEN stay
     ELSE IF ev.type = "session_end"
     THEN IF ev.reason = "clear" THEN step(st, NoSid, FALSE)
                                 ELSE step(Dead("session_end"), prim, TRUE)
     ELSE to(HookTarget(st, ev), prim)

Triggers == {"spinner_grace", "pane_lost", "process_gone"}

(* state_machine.apply_safety_net: Dead absorbs every trigger, and only a   *)
(* Working session can be found interrupted.  (Mutant: Dead is moved, too.) *)
ApplySafetyNetToDead(st, trigger) ==
  IF trigger # "spinner_grace" THEN [state |-> Dead(trigger), emit |-> TRUE]
  ELSE IF IsWorking(st) THEN [state |-> Idle("interrupted"), emit |-> TRUE]
  ELSE [state |-> st, emit |-> FALSE]
ApplySafetyNet(st, trigger) ==
  LET to(new) == [state |-> new, emit |-> TRUE]
      stay == [state |-> st, emit |-> FALSE]
  IN IF IsDead(st) THEN stay
     ELSE IF trigger # "spinner_grace" THEN to(Dead(trigger))
     ELSE IF IsWorking(st) THEN to(Idle("interrupted")) ELSE stay
=============================================================================
