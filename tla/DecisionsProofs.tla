-------------------------- MODULE DecisionsProofs --------------------------
(***************************************************************************)
(* Answering and letting go of requests, for any number of requests,        *)
(* sessions and clients, and logs of every length.                         *)
(***************************************************************************)
EXTENDS Decisions, SessionStateProofs

-----------------------------------------------------------------------------
(* The inductive invariant.                                                *)

Busy(c) == op[c].does # "nothing"
Asks(ev) == ev.type = "permission_request"
Shows(s, r) == IsBlocked(s) /\ s.request = r

(* The requests the Backend has heard of: shown, held by a call that waits *)
(* for the listener, or let go before.                                     *)
Met(r) ==
  \/ Shows(state, r)
  \/ \E c \in Clients : Busy(c) /\ op[c].seen.request = r
  \/ r \in dropped

(* A call holds the Blocked state it found, with a request and unexpired;   *)
(* the hook is over when the call is about to write that state back.       *)
CallsInv ==
  \A c \in Clients : Busy(c) =>
    /\ IsBlocked(op[c].seen) /\ op[c].seen.request \in Requests
    /\ op[c].does = "mark" => hook[op[c].seen.request] = "over"

(* A request is asked once: one that is still in the log is in there once,  *)
(* and the Backend has not met it.                                         *)
LogInv ==
  /\ \A i \in 1..Len(log) : Asks(log[i]) =>
       /\ log[i].request \in Requests
       /\ hook[log[i].request] # "none"
       /\ ~Met(log[i].request)
  /\ \A i, j \in 1..Len(log) :
       Asks(log[i]) /\ Asks(log[j]) /\ log[i].request = log[j].request => i = j

(* What was met was asked, and what was let go is shown as expired only.   *)
MetInv ==
  /\ \A r \in Requests : Met(r) => hook[r] # "none"
  /\ \A r \in dropped : Shows(state, r) => state.expired

DecisionsInv ==
  TypeOK /\ CallsInv /\ LogInv /\ MetInv /\ ExpiredHookIsOver

-----------------------------------------------------------------------------
(* Lemmas about the operators.                                             *)

(* A blocked state that an event leads to is the state before, or is        *)
(* unexpired and about the event's request, if it is about one.            *)
LEMMA ApplyBlocked ==
  ASSUME NEW st, NEW prim, NEW kn, NEW ev,
         IsBlocked(Apply(st, prim, kn, ev).state)
  PROVE  \/ Apply(st, prim, kn, ev).state = st
         \/ /\ ~Apply(st, prim, kn, ev).state.expired
            /\ \/ Apply(st, prim, kn, ev).state.request = NoRequest
               \/ Asks(ev) /\ Apply(st, prim, kn, ev).state.request = ev.request
<1>1. ~IsBlocked(Idle("start")) /\ ~IsBlocked(Dead("session_end"))
  BY DEF IsBlocked, Idle, Dead
<1>2. IsBlocked(HookTarget(st, ev)) =>
        \/ HookTarget(st, ev) = st
        \/ /\ ~HookTarget(st, ev).expired
           /\ \/ HookTarget(st, ev).request = NoRequest
              \/ Asks(ev) /\ HookTarget(st, ev).request = ev.request
  BY DEF HookTarget, IsBlocked, Blocked, Working, Idle, Asks
<1> QED
  BY <1>1, <1>2 DEF Apply

(* What a permission_request hook logs is a hook event that asks.          *)
LEMMA AskEventTyped ==
  ASSUME NEW r \in Requests
  PROVE  AskEvent(r) \in HookEvents /\ Asks(AskEvent(r)) /\ AskEvent(r).request = r
  BY DecisionAssumption DEF AskEvent, HookEvents, EventTypes, EndReasons, Asks

(* Letting a hook go, or answering it, moves that hook to its end only.    *)
LEMMA ResolvesHook ==
  ASSUME NEW r \in Requests, hook \in [Requests -> HookStates], Resolves(r)
  PROVE  /\ hook' \in [Requests -> HookStates]
         /\ \A q \in Requests : hook'[q] = hook[q] \/ hook'[q] = "over"
         /\ \A q \in Requests : hook[q] # "none" => hook'[q] # "none"
         /\ hook[r] # "none" => hook'[r] = "over"
  BY DEF Resolves, HookStates

-----------------------------------------------------------------------------
LEMMA DecisionsInit == Init => DecisionsInv
<1> SUFFICES ASSUME Init PROVE DecisionsInv
  OBVIOUS
<1>1. ~IsBlocked(state)
  BY DEF Init, IsBlocked, None
<1>2. \A c \in Clients : ~Busy(c)
  BY DEF Init, Busy, Free
<1>3. log = <<>> /\ Len(log) = 0 /\ dropped = {}
  BY DEF Init
<1>4. TypeOK
  <2>1. None \in States
    BY Constructed
  <2>2. Free \in Ops
    BY <2>1 DEF Free, Ops
  <2>3. stopped \in BOOLEAN /\ consuming \in BOOLEAN
    BY DEF Init
  <2>4. queue \in Seq(Requests) /\ log \in Seq(HookEvents)
    BY DEF Init
  <2> QED
    BY <2>1, <2>2, <2>3, <2>4, DecisionAssumption DEF Init, TypeOK, HookStates
<1>5. \A r : ~Met(r)
  BY <1>1, <1>2, <1>3 DEF Met, Shows
<1> QED
  BY <1>1, <1>2, <1>3, <1>4, <1>5
     DEF DecisionsInv, CallsInv, LogInv, MetInv, ExpiredHookIsOver

-----------------------------------------------------------------------------
(* The steps that leave the log alone.                                     *)

(* Hooks only go on: none is forgotten, and one that changes is over.       *)
HooksGoOn ==
  /\ hook' \in [Requests -> HookStates]
  /\ \A q \in Requests : hook'[q] = hook[q] \/ hook'[q] = "over"
  /\ \A q \in Requests : hook[q] # "none" => hook'[q] # "none"

(* Nothing new is met, so what is in the log is still unknown.             *)
LEMMA LogKept ==
  ASSUME LogInv, MetInv, HooksGoOn, log' = log,
         \A r : Met(r)' => Met(r),
         \A r \in dropped' : Shows(state', r) => state'.expired
  PROVE  LogInv' /\ MetInv'
<1>1. LogInv'
  BY DEF LogInv, HooksGoOn
<1>2. \A r \in Requests : Met(r)' => hook'[r] # "none"
  BY DEF MetInv, HooksGoOn
<1> QED
  BY <1>1, <1>2 DEF MetInv

(* Steps of a hook or of _decision_consumer: at most a hook gets over.     *)
LEMMA HooksStep ==
  ASSUME DecisionsInv, HooksGoOn, TypeOK',
         UNCHANGED <<state, log, op, dropped>>
  PROVE  DecisionsInv'
<1>1. \A r : Met(r)' <=> Met(r)
  BY DEF Met, Busy, Shows
<1>2. CallsInv'
  BY DEF DecisionsInv, CallsInv, Busy, HooksGoOn
<1>3. ExpiredHookIsOver'
  <2>1. IsBlocked(state) => state.request \in Requests \cup {NoRequest}
    BY BlockedFields DEF DecisionsInv, TypeOK
  <2> QED
    BY <2>1 DEF DecisionsInv, ExpiredHookIsOver, HooksGoOn
<1> QED
  BY <1>1, <1>2, <1>3, LogKept DEF DecisionsInv, MetInv

LEMMA TimesOutStep ==
  ASSUME DecisionsInv, NEW r \in Requests, HookTimesOut(r) PROVE DecisionsInv'
<1>1. HooksGoOn
  BY DEF DecisionsInv, TypeOK, HookTimesOut, HooksGoOn, HookStates
<1>2. TypeOK'
  BY <1>1 DEF DecisionsInv, TypeOK, HookTimesOut, HooksGoOn, backendVars, claudeVars, socketVars
<1> QED
  BY <1>1, <1>2, HooksStep DEF HookTimesOut, backendVars, claudeVars

LEMMA ConsumerStep ==
  ASSUME DecisionsInv, Consumer \/ ConsumerFails PROVE DecisionsInv'
<1>1. CASE ConsumerTakes
  <2>1. HooksGoOn
    BY <1>1 DEF DecisionsInv, TypeOK, ConsumerTakes, HooksGoOn
  <2>2. Head(queue) \in Requests /\ Tail(queue) \in Seq(Requests)
    BY <1>1 DEF DecisionsInv, TypeOK, ConsumerTakes
  <2>3. TypeOK'
    BY <1>1, <2>2 DEF DecisionsInv, TypeOK, ConsumerTakes, backendVars, claudeVars
  <2> QED
    BY <1>1, <2>1, <2>3, HooksStep DEF ConsumerTakes, backendVars, claudeVars
<1>2. CASE ConsumerReleased
  <2>1. HooksGoOn
    BY <1>2, ResolvesHook DEF DecisionsInv, TypeOK, ConsumerReleased, HooksGoOn
  <2>2. TypeOK'
    BY <1>2, <2>1 DEF DecisionsInv, TypeOK, ConsumerReleased, HooksGoOn, backendVars, claudeVars
  <2> QED
    BY <1>2, <2>1, <2>2, HooksStep DEF ConsumerReleased, backendVars, claudeVars
<1>3. CASE ConsumerFails
  <2>1. HooksGoOn
    BY <1>3 DEF DecisionsInv, TypeOK, ConsumerFails, HooksGoOn
  <2>2. TypeOK'
    BY <1>3 DEF DecisionsInv, TypeOK, ConsumerFails, backendVars, claudeVars
  <2> QED
    BY <1>3, <2>1, <2>2, HooksStep DEF ConsumerFails, backendVars, claudeVars
<1> QED
  BY <1>1, <1>2, <1>3 DEF Consumer

-----------------------------------------------------------------------------
(* Calls.                                                                  *)

(* A call starts about the request that is shown.                          *)
LEMMA StartsStep ==
  ASSUME DecisionsInv, NEW c \in Clients, NEW what \in {"respond", "drop"},
         Does(c, what), IsBlocked(state), state.request # NoRequest,
         UNCHANGED <<backendVars, claudeVars, hook, socketVars, dropped>>
  PROVE  DecisionsInv'
<1> USE DEF backendVars
<1>1. state \in States /\ state.request \in Requests
  BY BlockedFields DEF DecisionsInv, TypeOK
<1>2. op' = [op EXCEPT ![c] = [does |-> what, seen |-> state]]
      /\ [does |-> what, seen |-> state] \in Ops
  BY <1>1 DEF Does, Ops
<1>3. TypeOK'
  BY <1>2 DEF DecisionsInv, TypeOK, claudeVars, socketVars
<1>4. CallsInv'
  BY <1>1, <1>2 DEF DecisionsInv, TypeOK, CallsInv, Busy
<1>5. \A r : Met(r)' => Met(r)
  BY <1>1, <1>2 DEF DecisionsInv, TypeOK, Met, Busy, Shows
<1>6. HooksGoOn
  BY DEF DecisionsInv, TypeOK, HooksGoOn
<1>7. LogInv' /\ MetInv'
  BY <1>5, <1>6, LogKept DEF DecisionsInv, MetInv, claudeVars
<1> QED
  BY <1>3, <1>4, <1>7 DEF DecisionsInv, ExpiredHookIsOver

LEMMA DropUnasked ==
  ASSUME DecisionsInv, IsBlocked(state), state.request = NoRequest,
         state' = Marked(state), op' = op,
         UNCHANGED <<primary, known, stopped, claudeVars, hook, socketVars, dropped>>
  PROVE  DecisionsInv'
<1>1. /\ state' \in States /\ IsBlocked(state')
      /\ state'.request = NoRequest /\ state'.expired
  BY BlockedFields DEF DecisionsInv, TypeOK
<1>2. TypeOK'
  BY <1>1 DEF DecisionsInv, TypeOK, claudeVars, socketVars
<1>3. CallsInv'
  BY DEF DecisionsInv, CallsInv, Busy
<1>4. \A r : Met(r)' => Met(r)
  BY <1>1 DEF Met, Busy, Shows
<1>5. HooksGoOn
  BY DEF DecisionsInv, TypeOK, HooksGoOn
<1>6. LogInv' /\ MetInv'
  BY <1>1, <1>4, <1>5, LogKept DEF DecisionsInv, claudeVars
<1> QED
  BY <1>1, <1>2, <1>3, <1>6 DEF DecisionsInv, ExpiredHookIsOver

(* The listener has answered: the request a call holds is over.            *)
LEMMA ReturnsStep ==
  ASSUME DecisionsInv, NEW c \in Clients,
         RespondDone(c) \/ DropReleases(c)
  PROVE  DecisionsInv'
<1> DEFINE r == op[c].seen.request
<1>1. Busy(c) /\ op[c] \in Ops /\ op \in [Clients -> Ops]
  BY DEF RespondDone, DropReleases, Busy, DecisionsInv, TypeOK
<1>2. r \in Requests /\ IsBlocked(op[c].seen) /\ hook[r] # "none"
  BY <1>1 DEF DecisionsInv, CallsInv, MetInv, Met
<1>3. HooksGoOn /\ hook'[r] = "over"
  BY <1>2, ResolvesHook DEF DecisionsInv, TypeOK, RespondDone, DropReleases, HooksGoOn
<1>4. op' = [op EXCEPT ![c] = Free] \/ op' = [op EXCEPT ![c].does = "mark"]
  BY DEF RespondDone, DropReleases
<1>5. Free \in Ops /\ Free.does = "nothing"
  BY Constructed DEF Free, Ops
<1>6. /\ op'[c] \in Ops
      /\ op'[c].does = "nothing" \/ op'[c].seen = op[c].seen
  BY <1>1, <1>4, <1>5 DEF Ops
<1>7. \A d \in Clients : d # c => op'[d] = op[d]
  BY <1>1, <1>4
<1>8. op' \in [Clients -> Ops]
  BY <1>1, <1>4, <1>6, <1>7
<1>9. TypeOK'
  BY <1>3, <1>8
     DEF DecisionsInv, TypeOK, RespondDone, DropReleases, HooksGoOn,
         backendVars, claudeVars, socketVars
<1>10. CallsInv'
  BY <1>2, <1>3, <1>6, <1>7 DEF DecisionsInv, CallsInv, Busy, HooksGoOn
<1>11. \A q : Met(q)' => Met(q)
  BY <1>1, <1>6, <1>7 DEF Met, Busy, Shows, RespondDone, DropReleases, backendVars
<1>12. LogInv' /\ MetInv'
  BY <1>3, <1>11, LogKept
     DEF DecisionsInv, MetInv, RespondDone, DropReleases, backendVars, claudeVars
<1>13. ExpiredHookIsOver'
  <2>1. IsBlocked(state) => state.request \in Requests \cup {NoRequest}
    BY BlockedFields DEF DecisionsInv, TypeOK
  <2> QED
    BY <1>3, <2>1
       DEF DecisionsInv, ExpiredHookIsOver, HooksGoOn, RespondDone, DropReleases, backendVars
<1> QED
  BY <1>9, <1>10, <1>12, <1>13 DEF DecisionsInv

(* The listener raises: the call is over.                                  *)
LEMMA RaisesStep ==
  ASSUME DecisionsInv, NEW c \in Clients, CallRaises(c) PROVE DecisionsInv'
<1>1. Free \in Ops /\ Free.does = "nothing" /\ op \in [Clients -> Ops]
  BY Constructed DEF Free, Ops, DecisionsInv, TypeOK
<1>2. /\ op' = [op EXCEPT ![c] = Free]
      /\ UNCHANGED <<backendVars, claudeVars, hook, socketVars, dropped>>
  BY DEF CallRaises
<1>3. op' \in [Clients -> Ops] /\ \A d \in Clients : op'[d] = op[d] \/ op'[d] = Free
  BY <1>1, <1>2
<1>4. TypeOK'
  BY <1>2, <1>3 DEF DecisionsInv, TypeOK, backendVars, claudeVars, socketVars
<1>5. CallsInv' /\ ExpiredHookIsOver'
  BY <1>1, <1>2, <1>3
     DEF DecisionsInv, CallsInv, Busy, ExpiredHookIsOver, backendVars
<1>6. \A q : Met(q)' => Met(q)
  BY <1>1, <1>2, <1>3 DEF Met, Busy, Shows, backendVars
<1>7. HooksGoOn
  BY <1>2 DEF DecisionsInv, TypeOK, HooksGoOn
<1>8. LogInv' /\ MetInv'
  BY <1>2, <1>6, <1>7, LogKept DEF DecisionsInv, MetInv, backendVars, claudeVars
<1> QED
  BY <1>4, <1>5, <1>8 DEF DecisionsInv

(* drop_to_tui writes back the state it found, whatever was folded since.   *)
LEMMA DropMarksStep ==
  ASSUME DecisionsInv, NEW c \in Clients, DropMarks(c) PROVE DecisionsInv'
<1> DEFINE r == op[c].seen.request
<1>1. Busy(c) /\ op[c] \in Ops /\ op \in [Clients -> Ops] /\ op[c].seen \in States
  BY DEF DropMarks, Busy, DecisionsInv, TypeOK, Ops
<1>2. r \in Requests /\ IsBlocked(op[c].seen) /\ hook[r] = "over"
  BY <1>1 DEF DropMarks, DecisionsInv, CallsInv
<1>3. /\ state' \in States /\ IsBlocked(state')
      /\ state'.request = r /\ state'.expired
  BY <1>1, <1>2, BlockedFields DEF DropMarks
<1>4. Free \in Ops /\ Free.does = "nothing"
  BY Constructed DEF Free, Ops
<1>5. op' = [op EXCEPT ![c] = Free]
  BY DEF DropMarks
<1>6. TypeOK'
  BY <1>2, <1>3, <1>4, <1>5 DEF DropMarks, DecisionsInv, TypeOK, claudeVars, socketVars
<1>7. CallsInv'
  BY <1>1, <1>4, <1>5 DEF DropMarks, DecisionsInv, CallsInv, Busy
<1>8. \A q : Met(q)' => Met(q)
  BY <1>1, <1>3, <1>4, <1>5 DEF DropMarks, Met, Busy, Shows
<1>9. HooksGoOn
  BY DEF DropMarks, DecisionsInv, TypeOK, HooksGoOn
<1>10. LogInv' /\ MetInv'
  BY <1>3, <1>8, <1>9, LogKept DEF DropMarks, DecisionsInv, claudeVars
<1> QED
  BY <1>2, <1>3, <1>6, <1>7, <1>10 DEF DropMarks, DecisionsInv, ExpiredHookIsOver

-----------------------------------------------------------------------------
(* The steps of the log.                                                   *)

LEMMA LogsStep ==
  ASSUME DecisionsInv, NEW ev \in Events, ClaudeLogs(ev) PROVE DecisionsInv'
<1>1. ev \in HookEvents /\ ~Asks(ev) /\ log \in Seq(HookEvents)
  BY DecisionAssumption DEF Asks, DecisionsInv, TypeOK
<1>2. log' = Append(log, ev) /\ UNCHANGED <<state, hook, op, dropped>>
  BY DEF ClaudeLogs, backendVars
<1>3. /\ Len(log) \in Nat /\ Len(log') = Len(log) + 1 /\ log'[Len(log) + 1] = ev
      /\ \A i \in 1..Len(log) : log'[i] = log[i]
  BY <1>1, <1>2
<1>4. TypeOK'
  BY <1>1, DecisionAssumption
     DEF DecisionsInv, TypeOK, ClaudeLogs, backendVars, socketVars
<1>5. \A i \in 1..Len(log') : Asks(log'[i]) => i \in 1..Len(log) /\ log'[i] = log[i]
  BY <1>1, <1>3
<1>6. \A r : Met(r)' <=> Met(r)
  BY <1>2 DEF Met, Busy, Shows
<1>7. LogInv'
  BY <1>2, <1>5, <1>6 DEF DecisionsInv, LogInv
<1>8. MetInv' /\ CallsInv' /\ ExpiredHookIsOver'
  BY <1>2, <1>6 DEF DecisionsInv, MetInv, CallsInv, Busy, ExpiredHookIsOver
<1> QED
  BY <1>4, <1>7, <1>8 DEF DecisionsInv

LEMMA AsksStep ==
  ASSUME DecisionsInv, NEW r \in Requests, HookAsks(r) PROVE DecisionsInv'
<1> DEFINE ev == AskEvent(r)
<1>1. ev \in HookEvents /\ Asks(ev) /\ ev.request = r /\ log \in Seq(HookEvents)
  BY AskEventTyped DEF DecisionsInv, TypeOK
<1> HIDE DEF ev
<1>2. /\ log' = Append(log, ev) /\ UNCHANGED <<state, op, dropped>>
      /\ hook[r] = "none" /\ hook' = [hook EXCEPT ![r] = "waiting"]
      /\ hook \in [Requests -> HookStates]
  BY DEF HookAsks, backendVars, ev, DecisionsInv, TypeOK
<1>3. /\ Len(log) \in Nat /\ Len(log') = Len(log) + 1 /\ log'[Len(log) + 1] = ev
      /\ \A i \in 1..Len(log) : log'[i] = log[i]
  BY <1>1, <1>2
<1>4. TypeOK'
  BY <1>1, <1>2 DEF DecisionsInv, TypeOK, HookAsks, HookStates, backendVars
<1>5. \A q : Met(q)' <=> Met(q)
  BY <1>2 DEF Met, Busy, Shows
<1>6. ~Met(r)
  BY <1>2 DEF DecisionsInv, MetInv
<1>7. \A i \in 1..Len(log') :
        (i \in 1..Len(log) /\ log'[i] = log[i]) \/ (i = Len(log) + 1 /\ log'[i] = ev)
  BY <1>3
<1>8. \A i \in 1..Len(log) : Asks(log[i]) => log[i].request # r
  BY <1>2 DEF DecisionsInv, LogInv
<1>9. \A q \in Requests : hook[q] # "none" => hook'[q] = hook[q]
  BY <1>2
<1>10. hook'[r] # "none"
  BY <1>2
<1>11. LogInv'
  <2>1. \A i \in 1..Len(log') : Asks(log'[i]) =>
          \/ i \in 1..Len(log) /\ log'[i] = log[i]
          \/ i = Len(log) + 1 /\ log'[i].request = r
    BY <1>1, <1>7
  <2>2. ASSUME NEW i \in 1..Len(log'), Asks(log'[i])
        PROVE  /\ log'[i].request \in Requests
               /\ hook'[log'[i].request] # "none"
               /\ \A q : log'[i].request = q => ~Met(q)'
    <3>1. CASE i \in 1..Len(log) /\ log'[i] = log[i]
      BY <1>5, <1>9, <2>2, <3>1 DEF DecisionsInv, LogInv
    <3>2. CASE log'[i].request = r
      BY <1>5, <1>6, <1>10, <3>2
    <3> QED
      BY <2>1, <2>2, <3>1, <3>2
  <2>3. ASSUME NEW i \in 1..Len(log'), NEW j \in 1..Len(log'),
               Asks(log'[i]), Asks(log'[j]), log'[i].request = log'[j].request
        PROVE  i = j
    <3>1. CASE i = Len(log) + 1 \/ j = Len(log) + 1
      BY <1>8, <2>1, <2>3, <3>1, <1>3
    <3>2. CASE i \in 1..Len(log) /\ j \in 1..Len(log)
      BY <1>3, <2>3, <3>2 DEF DecisionsInv, LogInv
    <3> QED
      BY <2>1, <2>3, <3>1, <3>2
  <2> QED
    BY <2>2, <2>3 DEF LogInv
<1>12. MetInv'
  BY <1>2, <1>5, <1>9 DEF DecisionsInv, MetInv
<1>13. CallsInv'
  BY <1>2, <1>9 DEF DecisionsInv, CallsInv, Busy
<1>14. ExpiredHookIsOver'
  <2>1. IsBlocked(state) => state.request \in Requests \cup {NoRequest}
    BY BlockedFields DEF DecisionsInv, TypeOK
  <2> QED
    BY <1>2, <1>9, <2>1 DEF DecisionsInv, ExpiredHookIsOver
<1> QED
  BY <1>4, <1>11, <1>12, <1>13, <1>14 DEF DecisionsInv

LEMMA ReadStep ==
  ASSUME DecisionsInv, EventRead PROVE DecisionsInv'
<1> DEFINE ev == Head(log)
           step == Apply(state, primary, known, ev)
<1>1. /\ log \in Seq(HookEvents) /\ log # <<>> /\ ev \in HookEvents
      /\ Len(log) \in Nat /\ 1 \in 1..Len(log) /\ ev = log[1]
  BY DEF EventRead, DecisionsInv, TypeOK
<1>2. /\ state' = step.state /\ primary' = step.primary /\ known' = step.known
      /\ log' = Tail(log) /\ stopped' \in BOOLEAN
      /\ UNCHANGED <<logged, hook, queue, consuming, releasing, op, dropped>>
  BY DEF EventRead, socketVars
<1>3. /\ log' \in Seq(HookEvents) /\ Len(log') = Len(log) - 1
      /\ \A i \in 1..Len(log') : i + 1 \in 1..Len(log) /\ log'[i] = log[i + 1]
  BY <1>1, <1>2
<1>4. IsBlocked(state') =>
        \/ state' = state
        \/ /\ ~state'.expired
           /\ state'.request = NoRequest \/ (Asks(ev) /\ state'.request = ev.request)
  BY <1>2, ApplyBlocked
<1> HIDE DEF ev, step
<1>5. TypeOK'
  <2>1. step.state \in States /\ step.primary \in PrimaryValues /\ step.known \in SUBSET Sids
    BY <1>1, ApplyTyped DEF step, DecisionsInv, TypeOK, PrimaryValues
  <2> QED
    BY <1>2, <1>3, <2>1 DEF DecisionsInv, TypeOK, PrimaryValues
<1>6. CallsInv'
  BY <1>2 DEF DecisionsInv, CallsInv, Busy
<1>7. \A r : Met(r)' => Met(r) \/ r = NoRequest \/ (Asks(ev) /\ r = ev.request)
  BY <1>2, <1>4 DEF Met, Busy, Shows
<1>8. NoRequest \notin Requests
  BY IdAssumption
<1>9. Asks(ev) => ev.request \in Requests /\ hook[ev.request] # "none" /\ ~Met(ev.request)
  BY <1>1 DEF DecisionsInv, LogInv
<1>10. LogInv'
  <2>1. ASSUME NEW i \in 1..Len(log'), Asks(log'[i])
        PROVE  /\ log'[i].request \in Requests
               /\ hook'[log'[i].request] # "none"
               /\ \A q : log'[i].request = q => ~Met(q)'
    <3>1. i + 1 \in 1..Len(log) /\ log'[i] = log[i + 1] /\ i + 1 # 1
      BY <1>3
    <3>2. /\ log[i + 1].request \in Requests /\ hook[log[i + 1].request] # "none"
          /\ ~Met(log[i + 1].request)
      BY <2>1, <3>1 DEF DecisionsInv, LogInv
    <3>3. Asks(ev) => log[i + 1].request # ev.request
      BY <1>1, <2>1, <3>1 DEF DecisionsInv, LogInv
    <3> QED
      BY <1>2, <1>7, <1>8, <3>1, <3>2, <3>3
  <2>2. ASSUME NEW i \in 1..Len(log'), NEW j \in 1..Len(log'),
               Asks(log'[i]), Asks(log'[j]), log'[i].request = log'[j].request
        PROVE  i = j
    <3>1. i + 1 = j + 1
      BY <1>3, <2>2 DEF DecisionsInv, LogInv
    <3> QED
      BY <3>1
  <2> QED
    BY <2>1, <2>2 DEF LogInv
<1>11. MetInv'
  <2>1. \A r \in Requests : Met(r)' => hook'[r] # "none"
    BY <1>2, <1>7, <1>8, <1>9 DEF DecisionsInv, MetInv
  <2>2. \A r \in dropped' : Shows(state', r) => state'.expired
    <3>1. \A r \in dropped : r \in Requests /\ Met(r)
      BY DEF DecisionsInv, TypeOK, Met
    <3> QED
      BY <1>2, <1>4, <1>8, <1>9, <3>1 DEF DecisionsInv, MetInv, Shows
  <2> QED
    BY <2>1, <2>2 DEF MetInv
<1>12. ExpiredHookIsOver'
  BY <1>2, <1>4 DEF DecisionsInv, ExpiredHookIsOver
<1> QED
  BY <1>5, <1>6, <1>10, <1>11, <1>12 DEF DecisionsInv

(* A safety-net trigger blocks nothing.                                    *)
LEMMA TriggerStep ==
  ASSUME DecisionsInv, NEW trigger \in Pulled, Trigger(trigger) PROVE DecisionsInv'
<1> DEFINE step == ApplySafetyNet(state, trigger)
<1>1. step.state \in States
  BY DecisionAssumption, SafetyNetTyped DEF DecisionsInv, TypeOK
<1>2. IsBlocked(step.state) => step.state = state
  BY DEF ApplySafetyNet, IsBlocked, Idle, Dead
<1>3. /\ state' = step.state /\ stopped' \in BOOLEAN
      /\ UNCHANGED <<primary, known, claudeVars, hook, socketVars, op, dropped>>
  BY DEF Trigger, DecisionsInv, TypeOK
<1> HIDE DEF step
<1>4. TypeOK'
  BY <1>1, <1>3 DEF DecisionsInv, TypeOK, claudeVars, socketVars
<1>5. CallsInv' /\ ExpiredHookIsOver'
  BY <1>2, <1>3 DEF DecisionsInv, CallsInv, Busy, ExpiredHookIsOver
<1>6. \A q : Met(q)' => Met(q)
  BY <1>2, <1>3 DEF Met, Busy, Shows
<1>7. HooksGoOn
  BY <1>3 DEF DecisionsInv, TypeOK, HooksGoOn
<1>8. LogInv' /\ MetInv'
  BY <1>2, <1>3, <1>6, <1>7, LogKept DEF DecisionsInv, MetInv, Shows, claudeVars
<1> QED
  BY <1>4, <1>5, <1>8 DEF DecisionsInv

-----------------------------------------------------------------------------
LEMMA DecisionsStep == DecisionsInv /\ [Next]_vars => DecisionsInv'
<1> SUFFICES ASSUME DecisionsInv, [Next]_vars PROVE DecisionsInv'
  OBVIOUS
<1>1. ASSUME NEW r \in Requests, HookAsks(r) \/ HookTimesOut(r) PROVE DecisionsInv'
  BY <1>1, AsksStep, TimesOutStep
<1>2. ASSUME NEW ev \in Events, ClaudeLogs(ev) PROVE DecisionsInv'
  BY <1>2, LogsStep
<1>3. ASSUME NEW c \in Clients, Drop(c) PROVE DecisionsInv'
  <2>1. CASE state.request = NoRequest
    BY <1>3, <2>1, DropUnasked DEF Drop
  <2>2. CASE state.request # NoRequest
    BY <1>3, <2>2, StartsStep DEF Drop, backendVars
  <2> QED
    BY <2>1, <2>2
<1>4. ASSUME NEW c \in Clients, Returns(c) PROVE DecisionsInv'
  BY <1>4, ReturnsStep, RaisesStep, DropMarksStep DEF Returns
<1>5. ASSUME NEW c \in Clients, NEW kind \in BlockKinds, Respond(c, kind)
      PROVE  DecisionsInv'
  BY <1>5, StartsStep DEF Respond
<1>6. CASE UNCHANGED vars
  BY <1>6
     DEF vars, DecisionsInv, TypeOK, CallsInv, LogInv, MetInv, Met, Busy, Shows,
         ExpiredHookIsOver
<1> QED
  BY <1>1, <1>2, <1>3, <1>4, <1>5, <1>6, ReadStep, TriggerStep, ConsumerStep DEF Next

LEMMA DecisionsAlways == Spec => []DecisionsInv
BY DecisionsInit, DecisionsStep, PTL DEF Spec

(* The values of the fields: backend.py's three fields, the listener's      *)
(* queue and the calls under way keep their types.                         *)
THEOREM DecisionsTyped == Spec => []TypeOK
BY DecisionsAlways, PTL DEF DecisionsInv

(* A state marked expired is about a hook that is over, however drop_to_tui *)
(* of many clients, answers, timeouts and events interleave.               *)
THEOREM ExpiredOver == Spec => []ExpiredHookIsOver
BY DecisionsAlways, PTL DEF DecisionsInv

(* What drop_to_tui has let go is not answered any more: no respond_... is  *)
(* started about it, although the state it writes back may be stale.       *)
LEMMA RespondsToUndropped ==
  ASSUME DecisionsInv, [Next]_vars
  PROVE  \A c \in Clients :
           (op[c] = Free /\ op'[c].does = "respond") => op'[c].seen.request \notin dropped
<1> SUFFICES ASSUME NEW c \in Clients, op[c] = Free, op'[c].does = "respond"
             PROVE  op'[c].seen.request \notin dropped
  OBVIOUS
<1>1. op \in [Clients -> Ops] /\ Free.does = "nothing"
  BY DEF DecisionsInv, TypeOK, Free
<1>2. op'[c] # op[c]
  BY <1>1
<1>3. PICK d \in Clients, what \in {"respond", "drop"} :
        Does(d, what) /\ IsBlocked(state) /\ (what = "respond" => ~state.expired)
  <2>1. ASSUME NEW d \in Clients, Returns(d) PROVE FALSE
    BY <1>1, <2>1
       DEF Returns, RespondDone, DropReleases, DropMarks, CallRaises, Ops
  <2> QED
    BY <1>2, <2>1
       DEF Next, vars, HookAsks, HookTimesOut, ClaudeLogs, EventRead, Trigger,
           Consumer, ConsumerTakes, ConsumerReleased, ConsumerFails, Drop, Respond
<1>4. op'[c].seen = state /\ ~state.expired
  BY <1>1, <1>2, <1>3 DEF Does
<1> QED
  BY <1>3, <1>4 DEF DecisionsInv, MetInv, Shows

THEOREM DroppedStays == Spec => DroppedStaysDropped
<1>1. DecisionsInv /\ [Next]_vars =>
        [\A c \in Clients :
           (op[c] = Free /\ op'[c].does = "respond") => op'[c].seen.request \notin dropped]_vars
  BY RespondsToUndropped
<1> QED
  BY <1>1, DecisionsAlways, PTL DEF Spec, DroppedStaysDropped
=============================================================================
