---------------------------- MODULE StateMachine ----------------------------
(***************************************************************************)
(* What may happen to the triple (state, primary, known): hook events and  *)
(* safety-net triggers are folded into it, one at a time, and drop_to_tui  *)
(* marks a dialog in it, one that is shown or one that it read before it   *)
(* waited for the listener.  Backend.tla, with its tasks, suspensions and  *)
(* cancellations, is checked and proved to implement this.                 *)
(***************************************************************************)
EXTENDS SessionState

CONSTANT Events   \* the hook events that may occur

VARIABLES
  state,    \* Backend._state
  primary,  \* Backend._primary
  known,    \* Backend._known_session_ids
  dialogs   \* the states read by the calls of drop_to_tui that wait

vars == <<state, primary, known, dialogs>>

Init ==
  /\ state = None
  /\ primary = NoSid
  /\ known = {}
  /\ dialogs = {}

(* One hook event of this tmux session.                                    *)
Hook(ev) ==
  LET step == Apply(state, primary, known, ev)
  IN /\ state' = step.state
     /\ primary' = step.primary
     /\ known' = step.known
     /\ UNCHANGED dialogs

(* One safety-net trigger.  The step's primary and known ids are dropped.  *)
SafetyNet(trigger) ==
  /\ state' = ApplySafetyNet(state, trigger).state
  /\ UNCHANGED <<primary, known, dialogs>>

(* drop_to_tui waits for the listener with the state it has read.          *)
DropReads ==
  /\ IsBlocked(state) /\ ~Expired(state)
  /\ dialogs' = dialogs \cup {state}
  /\ UNCHANGED <<state, primary, known>>

(* It marks the state it has read, at once or after the wait, or the wait  *)
(* raises and it marks nothing.                                            *)
DropWrites ==
  /\ \/ IsBlocked(state) /\ ~Expired(state) /\ state' = Marked(state)
     \/ \E s \in dialogs : state' = Marked(s)
     \/ UNCHANGED state
  /\ dialogs' \in SUBSET dialogs
  /\ UNCHANGED <<primary, known>>

Next ==
  \/ \E ev \in Events : Hook(ev)
  \/ \E trigger \in Triggers : SafetyNet(trigger)
  \/ DropReads \/ DropWrites

Spec == Init /\ [][Next]_vars
=============================================================================
