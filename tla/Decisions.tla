------------------------------ MODULE Decisions ------------------------------
(***************************************************************************)
(* The decision socket of a Backend that is entered and not left yet, dead  *)
(* or alive.  A permission hook of claude                                   *)
(* logs a permission_request and waits on the socket; _event_consumer shows *)
(* the request id on the Blocked state, _decision_consumer lets the hooks   *)
(* of other sessions go, and the clients answer the hook with a respond_...  *)
(* method or let it go with drop_to_tui.  The hook's side and the           *)
(* DecisionListener are claude-tap's: modelled from what backend.py asks;   *)
(* the listener may raise wherever it is awaited.                          *)
(*                                                                         *)
(* Of the event consumer and of the tasks that pull a safety-net trigger    *)
(* only the fold is here; what they emit, flush and start is in            *)
(* Backend.tla, and so is the one event that may be folded after _stopped  *)
(* is set.  The answers' JSON is left out.                                 *)
(***************************************************************************)
EXTENDS Naturals, Sequences, SessionState

CONSTANTS
  Clients,    \* callers of respond_* and drop_to_tui
  Owner,      \* the session a request comes from
  ToolOf,     \* the tool it asks for
  Events,     \* the other events claude logs
  Pulled,     \* the safety-net triggers that may be pulled
  Serial,     \* a session whose hook waits logs nothing meanwhile
  MaxEvents,  \* bound: events of Events logged
  MaxUnread   \* bound: events the event consumer has still to read

ASSUME DecisionAssumption ==
  /\ Owner \in [Requests -> Sids]
  /\ ToolOf \in [Requests -> ToolNames]
  /\ Events \subseteq {ev \in HookEvents : ev.type # "permission_request"}
  /\ Pulled \subseteq Triggers
  /\ Serial \in BOOLEAN /\ MaxEvents \in Nat /\ MaxUnread \in Nat

VARIABLES
  state, primary, known,  \* _state, _primary, _known_session_ids
  stopped,                \* _stopped
  log,                    \* events the event consumer has still to read
  logged,                 \* events of Events logged so far
  hook,                   \* whether each request's hook waits
  queue,                  \* requests the listener holds for the consumer
  consuming,              \* _decision_consumer has not ended
  releasing,              \* the request it lets go
  op,                     \* what each client is doing
  dropped                 \* requests whose drop_to_tui has returned (history)

backendVars == <<state, primary, known, stopped>>
claudeVars == <<log, logged>>
socketVars == <<queue, consuming, releasing>>
vars == <<state, primary, known, stopped, log, logged, hook, queue, consuming,
          releasing, op, dropped>>

HookStates == {"none", "waiting", "over"}
Free == [does |-> "nothing", seen |-> None]
Ops == [does : {"nothing", "respond", "drop", "mark"}, seen : States]

Init ==
  /\ state = None /\ primary = NoSid /\ known = {} /\ stopped = FALSE
  /\ log = <<>> /\ logged = 0
  /\ hook = [r \in Requests |-> "none"]
  /\ queue = <<>> /\ consuming = TRUE /\ releasing = NoRequest
  /\ op = [c \in Clients |-> Free]
  /\ dropped = {}

-----------------------------------------------------------------------------
(* claude and claude-tap.                                                  *)

AskEvent(r) ==
  [type |-> "permission_request", sid |-> Owner[r], reason |-> "",
   tool |-> ToolOf[r], request |-> r]

Waits(sid) == \E r \in Requests : Owner[r] = sid /\ hook[r] = "waiting"

HookAsks(r) ==
  /\ Len(log) < MaxUnread
  /\ hook[r] = "none" /\ (Serial => ~Waits(Owner[r]))
  /\ hook' = [hook EXCEPT ![r] = "waiting"]
  /\ log' = Append(log, AskEvent(r))
  /\ queue' = Append(queue, r)
  /\ UNCHANGED <<backendVars, logged, consuming, releasing, op, dropped>>

ClaudeLogs(ev) ==
  /\ Len(log) < MaxUnread /\ logged < MaxEvents /\ (Serial => ~Waits(ev.sid))
  /\ log' = Append(log, ev) /\ logged' = logged + 1
  /\ UNCHANGED <<backendVars, hook, socketVars, op, dropped>>

(* The hook gives up before anyone has answered.  The Backend is not told. *)
HookTimesOut(r) ==
  /\ hook[r] = "waiting"
  /\ hook' = [hook EXCEPT ![r] = "over"]
  /\ UNCHANGED <<backendVars, claudeVars, socketVars, op, dropped>>

(* Answered, or released with {}.  Too late, it changes nothing.            *)
Resolves(r) ==
  hook' = IF hook[r] = "waiting" THEN [hook EXCEPT ![r] = "over"] ELSE hook

-----------------------------------------------------------------------------
(* The Backend's tasks.                                                    *)

(* The session's end sets _stopped, unless it is part of the backlog.      *)
EventRead ==
  /\ log # <<>> /\ ~stopped
  /\ LET step == Apply(state, primary, known, Head(log))
     IN /\ state' = step.state /\ primary' = step.primary /\ known' = step.known
        /\ stopped' \in (IF IsDead(step.state) THEN BOOLEAN ELSE {FALSE})
  /\ log' = Tail(log)
  /\ UNCHANGED <<logged, hook, socketVars, op, dropped>>

Trigger(trigger) ==
  /\ state' = ApplySafetyNet(state, trigger).state
  /\ stopped' = (stopped \/ IsDead(state'))
  /\ UNCHANGED <<primary, known, claudeVars, hook, socketVars, op, dropped>>

(* (Mutant: the comparison turned round.)                                  *)
ReleasesOwn(r) == Owner[r] = primary
Releases(r) == Owner[r] # primary

(* The first request after _stopped is set ends the consumer, and is let   *)
(* go by nobody.                                                           *)
ConsumerTakes ==
  /\ consuming /\ releasing = NoRequest /\ queue # <<>>
  /\ queue' = Tail(queue)
  /\ consuming' = ~stopped
  /\ releasing' = IF ~stopped /\ Releases(Head(queue)) THEN Head(queue) ELSE NoRequest
  /\ UNCHANGED <<backendVars, claudeVars, hook, op, dropped>>

ConsumerReleased ==
  /\ releasing # NoRequest
  /\ Resolves(releasing)
  /\ releasing' = NoRequest
  /\ UNCHANGED <<backendVars, claudeVars, queue, consuming, op, dropped>>

(* The listener raises, as it is iterated or awaited: the consumer ends.   *)
ConsumerFails ==
  /\ consuming
  /\ consuming' = FALSE /\ releasing' = NoRequest
  /\ UNCHANGED <<backendVars, claudeVars, hook, queue, op, dropped>>

-----------------------------------------------------------------------------
(* The clients.  A call whose guard fails raises, and changes nothing.     *)

Does(c, what) == op' = [op EXCEPT ![c] = [does |-> what, seen |-> state]]

(* respond_permission, respond_question and respond_exit_plan, for the kind *)
(* each is about, up to the await of the listener.                         *)
Respond(c, kind) ==
  /\ op[c] = Free
  /\ IsBlocked(state)
  /\ state.kind = kind /\ ~state.expired
  /\ state.request # NoRequest
  /\ Does(c, "respond")
  /\ UNCHANGED <<backendVars, claudeVars, hook, socketVars, dropped>>

RespondDone(c) ==
  /\ op[c].does = "respond"
  /\ Resolves(op[c].seen.request)
  /\ op' = [op EXCEPT ![c] = Free]
  /\ UNCHANGED <<backendVars, claudeVars, socketVars, dropped>>

(* drop_to_tui without a request id has nothing to await.                  *)
(* (Mutant: it marks the state first.)                                     *)
DropMarkingFirst(c) ==
  /\ op[c] = Free
  /\ IsBlocked(state) /\ ~state.expired
  /\ state' = Marked(state)
  /\ IF state.request = NoRequest THEN op' = op ELSE Does(c, "drop")
  /\ UNCHANGED <<primary, known, stopped, claudeVars, hook, socketVars, dropped>>
Drop(c) ==
  /\ op[c] = Free
  /\ IsBlocked(state) /\ ~state.expired
  /\ IF state.request = NoRequest
     THEN state' = Marked(state) /\ op' = op
     ELSE Does(c, "drop") /\ UNCHANGED state
  /\ UNCHANGED <<primary, known, stopped, claudeVars, hook, socketVars, dropped>>

DropReleases(c) ==
  /\ op[c].does = "drop"
  /\ Resolves(op[c].seen.request)
  /\ op' = [op EXCEPT ![c].does = "mark"]
  /\ UNCHANGED <<backendVars, claudeVars, socketVars, dropped>>

(* The state written is the one read before the await.                     *)
DropMarks(c) ==
  /\ op[c].does = "mark"
  /\ state' = Marked(op[c].seen)
  /\ dropped' = dropped \cup {op[c].seen.request}
  /\ op' = [op EXCEPT ![c] = Free]
  /\ UNCHANGED <<primary, known, stopped, claudeVars, hook, socketVars>>

(* The listener raises, and so does the call.                              *)
CallRaises(c) ==
  /\ op[c].does \in {"respond", "drop"}
  /\ op' = [op EXCEPT ![c] = Free]
  /\ UNCHANGED <<backendVars, claudeVars, hook, socketVars, dropped>>

-----------------------------------------------------------------------------
Consumer == ConsumerTakes \/ ConsumerReleased
Returns(c) ==
  RespondDone(c) \/ DropReleases(c) \/ DropMarks(c) \/ CallRaises(c)
Next ==
  \/ \E r \in Requests : HookAsks(r) \/ HookTimesOut(r)
  \/ \E ev \in Events : ClaudeLogs(ev)
  \/ EventRead \/ \E trigger \in Pulled : Trigger(trigger)
  \/ Consumer \/ ConsumerFails
  \/ \E c \in Clients :
       Drop(c) \/ Returns(c) \/ \E kind \in BlockKinds : Respond(c, kind)

(* The event loop goes on running the consumer, as long as it has not ended *)
(* or failed; the rest may stop.                                           *)
Spec == Init /\ [][Next]_vars /\ WF_vars(Consumer)

-----------------------------------------------------------------------------
TypeOK ==
  /\ state \in States
  /\ primary \in Sids \cup {NoSid, EmptySid} /\ known \subseteq Sids
  /\ stopped \in BOOLEAN /\ consuming \in BOOLEAN
  /\ log \in Seq(HookEvents) /\ logged \in 0..MaxEvents
  /\ hook \in [Requests -> HookStates]
  /\ queue \in Seq(Requests) /\ releasing \in Requests \cup {NoRequest}
  /\ op \in [Clients -> Ops]
  /\ dropped \subseteq Requests

(* A state that tells its frontend to drive the terminal is about a hook    *)
(* that no longer waits: the dialog is there, whoever resolved it, and      *)
(* whatever was folded while drop_to_tui was waiting for the listener.     *)
ExpiredHookIsOver ==
  (IsBlocked(state) /\ state.expired /\ state.request # NoRequest)
    => hook[state.request] = "over"

(* Once drop_to_tui has returned, no structured answer to that request is   *)
(* started, whichever states were folded or written back meanwhile.        *)
DroppedStaysDropped ==
  [][\A c \in Clients :
       (op[c] = Free /\ op'[c].does = "respond") => op'[c].seen.request \notin dropped]_vars

(* The hook of a session that never runs in this tmux session does not wait *)
(* for its timeout, however the primary changes: unless the consumer ends, *)
(* which the first request after Dead makes it do, or a listener that      *)
(* raises.  Nobody is left to let such a hook go.                          *)
Foreign ==
  {r \in Requests :
     \A ev \in Events : ev.type = "session_start" => ev.sid # Owner[r]}
ForeignReleased ==
  \A r \in Foreign : hook[r] = "waiting" ~> (hook[r] # "waiting" \/ ~consuming)

(* The design of drop_to_tui: "State remains `Blocked` until claude         *)
(* unblocks via TUI keypress (the next pane event will trigger the natural *)
(* state transition)".  So a session that was seen to go on is shown as     *)
(* blocked again only because of another event.                            *)
BlockedByEvents == [][~IsBlocked(state) /\ IsBlocked(state') => log # log']_vars
=============================================================================
