------------------------------- MODULE Mirror -------------------------------
(***************************************************************************)
(* One tmux session seen twice: the state machine's primary, which decides *)
(* whose events and transcripts a Backend follows, and the registry's      *)
(* current_session_id, which decides what the other tools attach to.  Both *)
(* fold the same lines of events.jsonl; bindings.py says that its fold     *)
(* mirrors the primary tracking of state_machine.apply.                    *)
(***************************************************************************)
EXTENDS Binding

CONSTANTS
  Events,    \* the hook events of this tmux session
  MaxEvents  \* bound: lines of events.jsonl

(* Every session_start names its session.  (apply takes an empty id for the  *)
(* primary, _step ignores the event.)                                      *)
ASSUME EventsAssumption ==
  Events \subseteq {ev \in HookEvents : ev.type = "session_start" => ev.sid # EmptySid}
ASSUME MaxAssumption == MaxEvents \in Nat

VARIABLES
  state, primary, known,  \* as a Backend that replays the log has them
  binding,                \* the entry of this tmux session in the registry
  over,                   \* a fatal session_end of the primary was folded
  line                    \* lines folded so far

vars == <<state, primary, known, binding, over, line>>

Init ==
  /\ state = None /\ primary = NoSid /\ known = {}
  /\ binding = NoBinding
  /\ over = FALSE /\ line = 0

(* One line of events.jsonl, folded by both.                               *)
Fold(ev, pane) ==
  /\ line < MaxEvents
  /\ LET step == Apply(state, primary, known, ev)
     IN /\ state' = step.state /\ primary' = step.primary /\ known' = step.known
        /\ over' = (over \/ IsDead(step.state))
  /\ binding' = Step(binding, ev, pane, line + 1)
  /\ line' = line + 1

Next == \E ev \in Events, pane \in Panes : Fold(ev, pane)

Spec == Init /\ [][Next]_vars

-----------------------------------------------------------------------------
(* Up to the first fatal end of the session the two folds agree on who is  *)
(* attached, through clear, background exits, resumptions and subagents.   *)
(* (After it apply keeps its primary, and _step detaches it.)              *)
MirrorsUntilEnd == ~over => binding.current = primary

(* The Backend forwards the transcripts of every session the registry      *)
(* offers for resumption.                                                  *)
HistoryKnown == Hosted(binding) \subseteq known
=============================================================================
