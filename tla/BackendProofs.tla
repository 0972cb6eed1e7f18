---------------------------- MODULE BackendProofs ----------------------------
(***************************************************************************)
(* Theorems about Backend.tla, for every set of events, callers, session   *)
(* ids and tools, and every bound.                                         *)
(***************************************************************************)
EXTENDS Backend, SessionStateProofs

-----------------------------------------------------------------------------
(* What the shared pieces of the actions keep                              *)

(* The key sequences the actions build.                                    *)
LEMMA KeysTyped ==
  /\ \A prompts \in Seq(Nat) : Submission(prompts) \in Seq(KeySet)
  /\ Interruption \in Seq(KeySet)
<1>1. \A prompts \in Seq(Nat) : Text(prompts) \in KeySet
  BY DEF Text, KeySet
<1>2. /\ Press("C-u") \in KeySet
      /\ Press("Enter") \in KeySet
      /\ Press("Escape") \in KeySet
  BY DEF Press, KeySet
<1> QED BY <1>1, <1>2 DEF Submission, Interruption

(* A task that moves on leaves the others where they are.                  *)
LEMMA GotoTyped ==
  ASSUME ControlOK, NEW t \in Tasks, NEW where \in PCs, Goto(t, where)
  PROVE  /\ pc' \in [Tasks -> PCs] /\ pc'[t] = where
         /\ \A u \in Tasks \ {t} : pc'[u] = pc[u]
BY DEF ControlOK, Goto

(* A flush keeps the types of the queue and of the keys under way.         *)
LEMMA FlushTyped ==
  ASSUME KeysOK, NEW t \in Tasks, NEW s, FlushPending(t, s)
  PROVE  KeysOK'
<1>1. CASE Flushes(s)
  <2>1. job' = [job EXCEPT ![t] = Submission(pending)] /\ pending' = <<>>
    BY <1>1 DEF FlushPending
  <2>2. Submission(pending) \in Seq(KeySet)
    BY KeysTyped DEF KeysOK
  <2> QED BY <2>1, <2>2 DEF KeysOK
<1>2. CASE ~Flushes(s)
  BY <1>2 DEF FlushPending, KeysOK
<1> QED BY <1>1, <1>2

(* The end of the iterators keeps the types of the flags it sets.          *)
LEMMA TerminateTyped ==
  ASSUME stopped \in BOOLEAN, ended \subseteq Queues, NEW s, Terminate(s)
  PROVE  stopped' \in BOOLEAN /\ ended' \subseteq Queues
<1>1. CASE IsDead(s)
  BY <1>1 DEF Terminate
<1>2. CASE ~IsDead(s)
  BY <1>2 DEF Terminate
<1> QED BY <1>1, <1>2

(* The baseline that goes on the states queue is a state.                  *)
LEMMA BaselineTyped ==
  ASSUME MachineOK, OutputOK
  PROVE  WithBaseline \in Seq(States)
<1>1. statesQ \in Seq(States) /\ state \in States
  BY DEF MachineOK, OutputOK
<1> QED BY <1>1 DEF WithBaseline

(* What the event consumer does with a live event.                         *)
LEMMA HandleTyped ==
  ASSUME TypeOK, NEW ev \in Events, NEW q \in Seq(States), Handle(ev, q)
  PROVE  /\ MachineOK' /\ OutputOK' /\ KeysOK'
         /\ stopped' \in BOOLEAN /\ cur' \in Events \cup {NoEvent}
         /\ pc' \in [Tasks -> PCs] /\ pc'["event"] # "entering"
         /\ \A u \in Tasks \ {"event"} : pc'[u] = pc[u]
<1> DEFINE step == Apply(state, primary, known, ev)
<1>1. ev \in HookEvents /\ state \in States /\ primary \in PrimaryValues
      /\ known \in SUBSET Sids
  BY EventsAssumption DEF TypeOK, MachineOK, PrimaryValues
<1>2. /\ step.state \in States /\ step.primary \in PrimaryValues
      /\ step.known \in SUBSET Sids
  BY <1>1, ApplyTyped
<1>3. /\ state' = step.state /\ primary' = step.primary /\ known' = step.known
      /\ Terminate(step.state) /\ cur' = NoEvent
      /\ IF step.emit THEN /\ statesQ' = Append(q, step.state)
                           /\ FlushPending("event", step.state)
                      ELSE statesQ' = q /\ UNCHANGED <<job, pending>>
      /\ \/ Goto("event", "done")
         \/ Goto("event", "emitting")
         \/ Goto("event", "read")
  BY DEF Handle
<1> HIDE DEF step
<1>4. MachineOK'
  BY <1>2, <1>3 DEF MachineOK, PrimaryValues
<1>5. stopped' \in BOOLEAN /\ ended' \subseteq Queues
  BY <1>3, TerminateTyped DEF TypeOK, ControlOK, OutputOK
<1>6. statesQ' \in Seq(States)
  BY <1>2, <1>3
<1>7. KeysOK'
  <2>1. CASE step.emit
    BY <2>1, <1>3, FlushTyped DEF TypeOK, Tasks
  <2>2. CASE ~step.emit
    BY <2>2, <1>3 DEF TypeOK, KeysOK
  <2> QED BY <2>1, <2>2
<1>8. /\ pc' \in [Tasks -> PCs] /\ pc'["event"] # "entering"
      /\ \A u \in Tasks \ {"event"} : pc'[u] = pc[u]
  BY <1>3, GotoTyped DEF TypeOK, Tasks, PCs
<1> QED BY <1>3, <1>4, <1>5, <1>6, <1>7, <1>8 DEF OutputOK

(* What a safety-net trigger does.                                         *)
LEMMA TriggerTyped ==
  ASSUME TypeOK, NEW t \in Tasks, NEW trigger \in Triggers,
         TriggerSafety(t, trigger)
  PROVE  MachineOK' /\ OutputOK' /\ KeysOK' /\ stopped' \in BOOLEAN
<1> DEFINE step == ApplySafetyNet(state, trigger)
<1>1. step.state \in States
  BY SafetyNetTyped DEF TypeOK, MachineOK
<1>2. /\ state' = step.state /\ UNCHANGED <<primary, known>>
      /\ Terminate(step.state)
      /\ IF step.emit THEN /\ statesQ' = Append(statesQ, step.state)
                           /\ FlushPending(t, step.state)
                      ELSE UNCHANGED <<statesQ, job, pending>>
  BY DEF TriggerSafety
<1> HIDE DEF step
<1>3. MachineOK'
  BY <1>1, <1>2 DEF TypeOK, MachineOK
<1>4. stopped' \in BOOLEAN /\ ended' \subseteq Queues
  BY <1>2, TerminateTyped DEF TypeOK, ControlOK, OutputOK
<1>5. statesQ' \in Seq(States)
  BY <1>1, <1>2 DEF TypeOK, OutputOK
<1>6. KeysOK'
  <2>1. CASE step.emit
    BY <2>1, <1>2, FlushTyped DEF TypeOK
  <2>2. CASE ~step.emit
    BY <2>2, <1>2 DEF TypeOK, KeysOK
  <2> QED BY <2>1, <2>2
<1> QED BY <1>3, <1>4, <1>5, <1>6 DEF OutputOK

-----------------------------------------------------------------------------
(* Type correctness                                                        *)

(* The event consumer that waits for a flush of the baseline holds a hook  *)
(* event: what it goes on with, once the keys are in, is well defined.     *)
Held == pc["event"] = "entering" => cur \in Events
TypeInv == TypeOK /\ Held

LEMMA TypeInit == Init => TypeInv
<1> SUFFICES ASSUME Init PROVE TypeInv
  OBVIOUS
<1>1. MachineOK
  BY DEF Init, MachineOK, None, States
<1>2. pc \in [Tasks -> PCs] /\ pc["event"] = "read"
  BY DEF Init, Tasks, PCs
<1>3. job \in [Tasks \cup Callers -> Seq(KeySet)]
  BY DEF Init
<1>4. /\ call \in [Callers -> Calls] /\ held \in [Callers -> States]
      /\ \A c \in Callers : call[c] # "drop_to_tui"
  BY Constructed DEF Init, Calls
<1>5. ControlOK /\ Held
  BY <1>2 DEF Init, ControlOK, Held
<1>6. OutputOK /\ KeysOK /\ ClientsOK
  BY <1>3, <1>4 DEF Init, OutputOK, KeysOK, ClientsOK
<1>7. ExitOK /\ WorldOK
  BY DEF Init, ExitOK, WorldOK
<1> QED BY <1>1, <1>5, <1>6, <1>7 DEF TypeInv, TypeOK

(* Most actions leave most of the state alone.                             *)
Untouched == UNCHANGED <<clients, exiting, world, typed, nFaults>>
Rest == UNCHANGED <<machine, live, stopped, cur, sawSpinner, output, pending,
                    job>>
LEMMA UntouchedTyped ==
  ASSUME TypeOK, Untouched, nEvents' \in Nat
  PROVE  ClientsOK' /\ ExitOK' /\ WorldOK'
BY DEF TypeOK, Untouched, ClientsOK, ExitOK, WorldOK, clients, exiting, world

LEMMA MoveTyped ==
  ASSUME TypeInv, Untouched, Rest, UNCHANGED nEvents, pc' \in [Tasks -> PCs],
         pc'["event"] # "entering" \/ pc'["event"] = pc["event"]
  PROVE  TypeInv'
<1>1. ClientsOK' /\ ExitOK' /\ WorldOK'
  BY UntouchedTyped DEF TypeInv, TypeOK, WorldOK
<1>2. MachineOK' /\ OutputOK' /\ KeysOK'
  BY DEF TypeInv, TypeOK, Rest, MachineOK, OutputOK, KeysOK, machine, output
<1>3. ControlOK' /\ Held'
  BY DEF TypeInv, TypeOK, Rest, ControlOK, Held
<1> QED BY <1>1, <1>2, <1>3 DEF TypeInv, TypeOK

(* The event consumer.                                                     *)
LEMMA EventTyped == ASSUME TypeInv, EventConsumer PROVE TypeInv'
<1>1. TypeOK /\ (pc["event"] = "entering" => cur \in Events)
  BY DEF TypeInv, Held
<1>2. "event" \in Tasks /\ nEvents \in Nat /\ nEvents + 1 \in Nat
  BY <1>1 DEF TypeOK, WorldOK, Tasks
<1>3. ASSUME NEW ev \in Events, ReplayEvent(ev) PROVE TypeInv'
  <2> DEFINE step == Apply(state, primary, known, ev)
  <2>1. step.state \in States /\ step.primary \in PrimaryValues
        /\ step.known \in SUBSET Sids
    BY <1>1, EventsAssumption, ApplyTyped DEF TypeOK, MachineOK, PrimaryValues
  <2>2. /\ state' = step.state /\ primary' = step.primary /\ known' = step.known
        /\ nEvents' = nEvents + 1 /\ Untouched
        /\ UNCHANGED <<control, output, pending, job>>
    BY <1>3 DEF ReplayEvent, Untouched
  <2> HIDE DEF step
  <2>3. MachineOK' /\ OutputOK' /\ KeysOK'
    BY <1>1, <2>1, <2>2 DEF TypeOK, MachineOK, OutputOK, KeysOK, PrimaryValues,
       output
  <2>4. ControlOK' /\ Held'
    BY <1>1, <2>2 DEF TypeOK, ControlOK, Held, control
  <2>5. ClientsOK' /\ ExitOK' /\ WorldOK'
    BY <1>1, <1>2, <2>2, UntouchedTyped
  <2> QED BY <2>3, <2>4, <2>5 DEF TypeInv, TypeOK
<1>4. ASSUME NEW ev \in Events, LiveEvent(ev) PROVE TypeInv'
  <2>1. ClientsOK' /\ ExitOK' /\ WorldOK' /\ UNCHANGED sawSpinner
    BY <1>1, <1>2, <1>4 DEF LiveEvent, TypeOK, ClientsOK, ExitOK, WorldOK,
       clients, exiting
  <2>2. CASE ~live /\ Flushes(state)
    <3>1. /\ statesQ' = WithBaseline /\ FlushPending("event", state)
          /\ Goto("event", "entering") /\ cur' = ev
          /\ UNCHANGED <<machine, live, stopped, ended>>
      BY <1>4, <2>2 DEF LiveEvent
    <3>2. KeysOK'
      BY <1>1, <1>2, <3>1, FlushTyped DEF TypeOK
    <3>3. MachineOK' /\ OutputOK'
      BY <1>1, <3>1, BaselineTyped DEF TypeOK, MachineOK, OutputOK, machine
    <3>4. pc' \in [Tasks -> PCs]
      BY <1>1, <1>2, <3>1, GotoTyped DEF TypeOK, PCs
    <3>5. ControlOK' /\ Held'
      BY <1>1, <2>1, <3>1, <3>4 DEF TypeOK, ControlOK, Held
    <3> QED BY <2>1, <3>2, <3>3, <3>5 DEF TypeInv, TypeOK
  <2>3. CASE ~(~live /\ Flushes(state))
    <3> DEFINE q == IF live THEN statesQ ELSE WithBaseline
    <3>1. live' = TRUE /\ Handle(ev, q)
      BY <1>4, <2>3 DEF LiveEvent
    <3>2. q \in Seq(States)
      BY <1>1, BaselineTyped DEF TypeOK, OutputOK
    <3> HIDE DEF q
    <3>3. /\ MachineOK' /\ OutputOK' /\ KeysOK'
          /\ stopped' \in BOOLEAN /\ cur' \in Events \cup {NoEvent}
          /\ pc' \in [Tasks -> PCs] /\ pc'["event"] # "entering"
      BY <1>1, <3>1, <3>2, HandleTyped
    <3>4. ControlOK' /\ Held'
      BY <1>1, <2>1, <3>1, <3>3 DEF TypeOK, ControlOK, Held
    <3> QED BY <2>1, <3>3, <3>4 DEF TypeInv, TypeOK
  <2> QED BY <2>2, <2>3
<1>5. CASE EventEntered
  <2>1. /\ cur \in Events /\ live' = TRUE /\ Handle(cur, statesQ)
        /\ UNCHANGED sawSpinner /\ Untouched /\ UNCHANGED nEvents
    BY <1>1, <1>5 DEF EventEntered, Untouched
  <2>2. /\ MachineOK' /\ OutputOK' /\ KeysOK'
        /\ stopped' \in BOOLEAN /\ cur' \in Events \cup {NoEvent}
        /\ pc' \in [Tasks -> PCs] /\ pc'["event"] # "entering"
    BY <1>1, <2>1, HandleTyped DEF TypeOK, OutputOK
  <2>3. ControlOK' /\ Held'
    BY <1>1, <2>1, <2>2 DEF TypeOK, ControlOK, Held
  <2>4. ClientsOK' /\ ExitOK' /\ WorldOK'
    BY <1>1, <1>2, <2>1, UntouchedTyped
  <2> QED BY <2>2, <2>3, <2>4 DEF TypeInv, TypeOK
<1>6. CASE EventFlushed \/ EventStop
  <2>1. Goto("event", "read") \/ Goto("event", "done")
    BY <1>6 DEF EventFlushed, EventStop
  <2>2. Untouched /\ Rest /\ UNCHANGED nEvents
    BY <1>6 DEF EventFlushed, EventStop, Untouched, Rest
  <2>3. pc' \in [Tasks -> PCs] /\ pc'["event"] # "entering"
    BY <1>1, <1>2, <2>1, GotoTyped DEF TypeOK, PCs
  <2> QED BY <2>2, <2>3, MoveTyped
<1> QED BY <1>3, <1>4, <1>5, <1>6 DEF EventConsumer

(* The fallback timer and the task that starts the others.                 *)
LEMMA EnterTyped ==
  ASSUME TypeInv, FallbackFires \/ FallbackEntered \/ OnLive
  PROVE  TypeInv'
<1>1. TypeOK
  BY DEF TypeInv
<1>2. "fallback" \in Tasks /\ "fallback" # "event"
  BY DEF Tasks
<1>3. CASE FallbackFires \/ FallbackEntered
  <2>1. /\ Untouched /\ UNCHANGED <<machine, stopped, cur, sawSpinner, ended,
                                    nEvents>>
        /\ live' = TRUE \/ UNCHANGED live
        /\ statesQ' = WithBaseline \/ UNCHANGED statesQ
        /\ FlushPending("fallback", state) \/ UNCHANGED <<job, pending>>
        /\ Goto("fallback", "done") \/ Goto("fallback", "flushing")
    BY <1>3 DEF FallbackFires, FallbackEntered, Untouched, output
  <2>2. ClientsOK' /\ ExitOK' /\ WorldOK'
    BY <1>1, <2>1, UntouchedTyped DEF TypeOK, WorldOK
  <2>3. MachineOK' /\ OutputOK'
    BY <1>1, <2>1, BaselineTyped DEF TypeOK, MachineOK, OutputOK, machine
  <2>4. KeysOK'
    <3>1. CASE FlushPending("fallback", state)
      BY <1>1, <1>2, <3>1, FlushTyped DEF TypeOK
    <3>2. CASE UNCHANGED <<job, pending>>
      BY <1>1, <3>2 DEF TypeOK, KeysOK
    <3> QED BY <2>1, <3>1, <3>2
  <2>5. pc' \in [Tasks -> PCs] /\ pc'["event"] = pc["event"]
    BY <1>1, <1>2, <2>1, GotoTyped DEF TypeOK, PCs, Tasks
  <2>6. ControlOK' /\ Held'
    BY <2>1, <2>5 DEF TypeInv, TypeOK, ControlOK, Held
  <2> QED BY <2>2, <2>3, <2>4, <2>6 DEF TypeInv, TypeOK
<1>4. CASE OnLive
  <2>1. Untouched /\ Rest /\ UNCHANGED nEvents
    BY <1>4 DEF OnLive, Untouched, Rest
  <2>2. pc' \in [Tasks -> PCs] /\ pc'["event"] = pc["event"]
    BY <1>1, <1>4 DEF OnLive, GraceLooks, TypeOK, ControlOK, Tasks, LiveTasks, PCs
  <2> QED BY <2>1, <2>2, MoveTyped
<1> QED BY <1>3, <1>4

(* The live-phase tasks: one either moves on or pulls a safety-net trigger. *)
LEMMA LiveTaskTyped ==
  ASSUME TypeInv, MessageStop \/ SpinnerStart \/ SpinnerEnds \/ Grace \/ Probe
  PROVE  TypeInv'
<1>1. TypeOK
  BY DEF TypeInv
<1>2. ASSUME NEW t \in LiveTasks, NEW trigger \in Triggers,
             TriggerSafety(t, trigger), Goto(t, "done") \/ Goto(t, "flushing")
             \/ Goto(t, "start"), sawSpinner' \in BOOLEAN,
             nFaults' \in Nat,
             UNCHANGED <<live, cur, clients, exiting, world, typed, nEvents>>
      PROVE  TypeInv'
  <2>1. t \in Tasks /\ t # "event"
    BY DEF Tasks, LiveTasks
  <2>2. MachineOK' /\ OutputOK' /\ KeysOK' /\ stopped' \in BOOLEAN
    BY <1>1, <1>2, <2>1, TriggerTyped
  <2>3. pc' \in [Tasks -> PCs] /\ pc'["event"] = pc["event"]
    BY <1>1, <1>2, <2>1, GotoTyped DEF TypeOK, ControlOK, PCs, Tasks
  <2>4. ControlOK' /\ Held'
    BY <1>2, <2>2, <2>3 DEF TypeInv, TypeOK, ControlOK, Held
  <2>5. ClientsOK' /\ ExitOK' /\ WorldOK'
    BY <1>1, <1>2 DEF TypeOK, ClientsOK, ExitOK, WorldOK, clients, exiting, world
  <2> QED BY <2>2, <2>4, <2>5 DEF TypeInv, TypeOK
<1>3. ASSUME NEW t \in LiveTasks, NEW where \in PCs, Goto(t, where),
             Untouched, Rest \/ (sawSpinner' \in BOOLEAN
               /\ UNCHANGED <<machine, live, stopped, cur, output, pending, job>>),
             UNCHANGED nEvents
      PROVE  TypeInv'
  <2>1. t \in Tasks /\ t # "event"
    BY DEF Tasks, LiveTasks
  <2>2. pc' \in [Tasks -> PCs] /\ pc'["event"] = pc["event"]
    BY <1>1, <1>3, <2>1, GotoTyped DEF TypeOK, Tasks
  <2>3. ClientsOK' /\ ExitOK' /\ WorldOK'
    BY <1>1, <1>3, UntouchedTyped DEF TypeOK, WorldOK
  <2>4. MachineOK' /\ OutputOK' /\ KeysOK'
    BY <1>1, <1>3 DEF TypeOK, Rest, MachineOK, OutputOK, KeysOK, machine, output
  <2>5. ControlOK' /\ Held'
    BY <1>3, <2>2 DEF TypeInv, TypeOK, Rest, ControlOK, Held
  <2> QED BY <2>3, <2>4, <2>5 DEF TypeInv, TypeOK
<1> USE DEF LiveTasks, PCs, Triggers, Untouched, Rest, GraceLooks
<1>4. CASE MessageStop
  BY <1>3, <1>4 DEF MessageStop
<1>5. CASE SpinnerStart
  BY <1>3, <1>5 DEF SpinnerStart
<1>6. CASE SpinnerEnds
  BY <1>1, <1>2, <1>6 DEF SpinnerEnds, TypeOK, ControlOK, WorldOK
<1>7. ASSUME NEW spinner \in BOOLEAN, NEW static \in BOOLEAN,
             GraceTick(spinner, static)
      PROVE  TypeInv'
  <2>1. CASE IsWorking(state) /\ sawSpinner /\ ~spinner /\ static
    <3>1. /\ TriggerSafety("grace", "spinner_grace")
          /\ Goto("grace", "done") \/ Goto("grace", "start")
             \/ Goto("grace", "flushing")
          /\ UNCHANGED <<live, cur, clients, exiting, world, typed, nEvents,
                         nFaults>>
      BY <1>7, <2>1 DEF GraceTick
    <3>2. sawSpinner' \in BOOLEAN /\ nFaults' \in Nat
      BY <1>1, <1>7, <2>1 DEF GraceTick, TypeOK, ControlOK, WorldOK
    <3> QED BY <1>2, <3>1, <3>2
  <2>2. CASE ~(IsWorking(state) /\ sawSpinner /\ ~spinner /\ static)
    <3>1. sawSpinner' \in BOOLEAN
      BY <1>1, <1>7, <2>2 DEF GraceTick, TypeOK, ControlOK
    <3>2. /\ Goto("grace", "done") \/ Goto("grace", "start")
          /\ UNCHANGED <<machine, live, stopped, cur, output, pending, job>>
          /\ Untouched /\ UNCHANGED nEvents
      BY <1>7, <2>2 DEF GraceTick
    <3> QED BY <1>3, <3>1, <3>2
  <2> QED BY <2>1, <2>2
<1>8. CASE GraceFlushed \/ GraceStop
  BY <1>3, <1>8 DEF GraceFlushed, GraceStop
<1>9. ASSUME NEW fault \in BOOLEAN, ProbeFails(fault) PROVE TypeInv'
  BY <1>1, <1>2, <1>9 DEF ProbeFails, TypeOK, ControlOK, WorldOK
<1>10. CASE ProbeStop
  BY <1>3, <1>10 DEF ProbeStop
<1> QED BY <1>4, <1>5, <1>6, <1>7, <1>8, <1>9, <1>10 DEF Grace, Probe

(* Key injection.                                                          *)
LEMMA InjectionTyped == ASSUME TypeInv, Injection PROVE TypeInv'
<1>1. TypeOK
  BY DEF TypeInv
<1>2. PICK t \in Tasks \cup Callers : KeyDelivered(t) \/ KeyFails(t)
  BY DEF Injection
<1>3. job[t] \in Seq(KeySet) /\ <<>> \in Seq(KeySet)
  BY <1>1 DEF TypeOK, KeysOK
<1>4. CASE KeyDelivered(t)
  <2>1. Head(job[t]) \in KeySet /\ Tail(job[t]) \in Seq(KeySet)
    BY <1>3, <1>4 DEF KeyDelivered
  <2>2. /\ job' = [job EXCEPT ![t] = Tail(job[t])]
        /\ typed' = Append(typed, Head(job[t]))
        /\ UNCHANGED <<machine, control, output, pending, clients, exiting,
                       world, nEvents, nFaults>>
    BY <1>4 DEF KeyDelivered
  <2>3. KeysOK'
    BY <1>1, <2>1, <2>2 DEF TypeOK, KeysOK
  <2>4. MachineOK' /\ OutputOK' /\ ControlOK' /\ Held'
    BY <2>2 DEF TypeInv, TypeOK, MachineOK, OutputOK, ControlOK, Held,
       machine, output, control
  <2>5. ClientsOK' /\ ExitOK' /\ WorldOK'
    BY <1>1, <2>1, <2>2 DEF TypeOK, ClientsOK, ExitOK, WorldOK, clients,
       exiting, world
  <2> QED BY <2>3, <2>4, <2>5 DEF TypeInv, TypeOK
<1>5. CASE KeyFails(t)
  <2>1. /\ job' = [job EXCEPT ![t] = <<>>]
        /\ nFaults' = nFaults + 1 \/ UNCHANGED nFaults
        /\ UNCHANGED <<machine, live, stopped, cur, sawSpinner, output,
                       pending, held, nCalls, exiting, world, typed, nEvents>>
        /\ \/ t \in Tasks /\ Goto(t, "done") /\ UNCHANGED call
           \/ t \in Callers /\ call' = [call EXCEPT ![t] = "none"] /\ UNCHANGED pc
    BY <1>2, <1>5 DEF KeyFails
  <2>2. KeysOK'
    BY <1>1, <1>3, <2>1 DEF TypeOK, KeysOK
  <2>3. /\ pc' \in [Tasks -> PCs]
        /\ pc'["event"] # "entering" \/ pc'["event"] = pc["event"]
    BY <1>1, <2>1, GotoTyped DEF TypeOK, ControlOK, PCs, Tasks
  <2>4. MachineOK' /\ OutputOK' /\ ControlOK' /\ Held'
    BY <2>1, <2>3 DEF TypeInv, TypeOK, MachineOK, OutputOK, ControlOK, Held,
       machine, output
  <2>5. ClientsOK'
    BY <1>1, <2>1 DEF TypeOK, ClientsOK, Calls
  <2>6. ExitOK' /\ WorldOK'
    BY <1>1, <2>1 DEF TypeOK, ExitOK, WorldOK, exiting, world
  <2> QED BY <2>2, <2>4, <2>5, <2>6 DEF TypeInv, TypeOK
<1> QED BY <1>2, <1>4, <1>5

(* The client's calls that send keys, and those of drop_to_tui.            *)
Calling(c) == SendPrompt(c) \/ Interrupt(c) \/ Return(c)
Dropping(c) == DropToTui(c) \/ DropMarks(c)

LEMMA CallingTyped ==
  ASSUME TypeInv, NEW c \in Callers, Calling(c) PROVE TypeInv'
<1>1. TypeOK
  BY DEF TypeInv
<1>2. SendPrompt(c) \/ Interrupt(c) \/ Return(c)
  BY DEF Calling
<1>3. UNCHANGED <<machine, control, output, exiting, world, typed, nEvents,
                  nFaults>>
  BY <1>2 DEF SendPrompt, Interrupt, Return
<1>4. MachineOK' /\ OutputOK' /\ ControlOK' /\ Held'
  BY <1>3 DEF TypeInv, TypeOK, MachineOK, OutputOK, ControlOK, Held,
     machine, output, control
<1>5. ExitOK' /\ WorldOK'
  BY <1>1, <1>3 DEF TypeOK, ExitOK, WorldOK, exiting, world
<1>6. nCalls + 1 \in Nat /\ pending \in Seq(Nat)
      /\ job \in [Tasks \cup Callers -> Seq(KeySet)]
  BY <1>1 DEF TypeOK, ClientsOK, KeysOK
<1>7. CASE SendPrompt(c)
  <2>1. <<nCalls + 1>> \in Seq(Nat)
    BY <1>6
  <2> DEFINE keys == Submission(<<nCalls + 1>>)
  <2>2. keys \in Seq(KeySet)
    BY <2>1, KeysTyped
  <2>3. /\ nCalls' = nCalls + 1
        /\ \/ /\ job' = [job EXCEPT ![c] = keys]
              /\ call' = [call EXCEPT ![c] = "send_prompt"]
              /\ UNCHANGED pending
           \/ /\ pending' = Append(pending, nCalls + 1)
              /\ UNCHANGED <<job, call>>
    BY <1>7 DEF SendPrompt
  <2> HIDE DEF keys
  <2>4. job' \in [Tasks \cup Callers -> Seq(KeySet)]
    BY <1>6, <2>2, <2>3
  <2>5. pending' \in Seq(Nat)
    BY <1>6, <2>3
  <2>6. ClientsOK'
    BY <1>1, <1>6, <1>7, <2>3 DEF SendPrompt, TypeOK, ClientsOK, Calls
  <2> QED BY <1>4, <1>5, <2>4, <2>5, <2>6 DEF TypeInv, TypeOK, KeysOK
<1>8. CASE Interrupt(c)
  BY <1>1, <1>4, <1>5, <1>6, <1>8, KeysTyped
     DEF Interrupt, TypeInv, TypeOK, KeysOK, ClientsOK, Calls
<1>9. CASE Return(c)
  BY <1>1, <1>4, <1>5, <1>6, <1>9
     DEF Return, TypeInv, TypeOK, KeysOK, ClientsOK, Calls
<1> QED BY <1>2, <1>7, <1>8, <1>9

(* drop_to_tui moves the state only to a dialog that is marked.            *)
LEMMA DroppingMarks ==
  ASSUME TypeInv, NEW c \in Callers, Dropping(c)
  PROVE  /\ UNCHANGED <<primary, known, control, output, pending, job, exiting,
                        world, typed, nEvents, nFaults>>
         /\ nCalls' = nCalls + 1 \/ UNCHANGED nCalls
         /\ UNCHANGED state \/ (Expired(state') /\ state' \in States)
         /\ call[c] \in {"none", "drop_to_tui"}
         /\ \A d \in Callers \ {c} : call'[d] = call[d]
<1>1. /\ state \in States /\ held \in [Callers -> States] /\ call \in [Callers -> Calls]
      /\ call[c] = "drop_to_tui" => IsBlocked(held[c])
  BY DEF TypeInv, TypeOK, MachineOK, ClientsOK
<1>2. ASSUME NEW s \in States, IsBlocked(s)
      PROVE  Marked(s) \in States /\ Expired(Marked(s))
  BY <1>2, BlockedFields DEF Expired
<1>3. CASE DropToTui(c)
  BY <1>1, <1>2, <1>3 DEF DropToTui
<1>4. CASE DropMarks(c)
  BY <1>1, <1>2, <1>4 DEF DropMarks
<1> QED BY <1>3, <1>4 DEF Dropping

LEMMA DroppingTyped ==
  ASSUME TypeInv, NEW c \in Callers, Dropping(c) PROVE TypeInv'
<1>1. TypeOK /\ state \in States /\ None \in States /\ nCalls \in Nat
  BY Constructed DEF TypeInv, TypeOK, MachineOK, ClientsOK
<1>2. /\ UNCHANGED <<primary, known, control, output, pending, job, exiting,
                     world, typed, nEvents, nFaults>>
      /\ state' \in States /\ nCalls' \in Nat
  BY <1>1, DroppingMarks
<1>3. ClientsOK'
  <2>1. CASE DropToTui(c)
    BY <1>1, <1>2, <2>1 DEF DropToTui, TypeOK, ClientsOK, Calls
  <2>2. CASE DropMarks(c)
    BY <1>1, <1>2, <2>2 DEF DropMarks, TypeOK, ClientsOK, Calls
  <2> QED BY <2>1, <2>2 DEF Dropping
<1>4. MachineOK' /\ OutputOK' /\ ControlOK' /\ Held'
  BY <1>1, <1>2 DEF TypeInv, TypeOK, MachineOK, OutputOK, ControlOK, Held,
     output, control
<1>5. KeysOK' /\ ExitOK' /\ WorldOK'
  BY <1>1, <1>2 DEF TypeOK, KeysOK, ExitOK, WorldOK, exiting, world
<1> QED BY <1>3, <1>4, <1>5 DEF TypeInv, TypeOK

LEMMA ClientTyped == ASSUME TypeInv, Client PROVE TypeInv'
BY CallingTyped, DroppingTyped DEF Client, Calling, Dropping

(* __aexit__.                                                              *)
LEMMA AExitTyped == ASSUME TypeInv, AExit PROVE TypeInv'
<1>1. TypeOK
  BY DEF TypeInv
<1>2. /\ UNCHANGED <<machine, live, cur, sawSpinner, statesQ, pending, clients,
                     world, typed, nEvents, nFaults>>
      /\ stopped' = TRUE \/ UNCHANGED stopped
      /\ ended' = Queues \/ UNCHANGED ended
      /\ exit' \in {"closing", "cancelling", "exited"} /\ doomed' \subseteq Tasks
      /\ \/ UNCHANGED <<pc, job>>
         \/ \E t \in Tasks : /\ Goto(t, "done")
                             /\ job' = [job EXCEPT ![t] =
                                  IF @ = <<>> THEN <<>> ELSE <<Head(@)>>]
  <2>1. CASE ExitBegins
    BY <1>1, <2>1 DEF ExitBegins, output, TypeOK, ExitOK
  <2>2. ASSUME NEW ts \in SUBSET Tasks, CancelFrom(ts)
        PROVE  /\ ended' = Queues \/ UNCHANGED ended
               /\ exit' \in {"cancelling", "exited"} /\ doomed' \subseteq Tasks
               /\ \/ UNCHANGED <<pc, job>>
                  \/ \E t \in Tasks : /\ Goto(t, "done")
                                      /\ job' = [job EXCEPT ![t] =
                                           IF @ = <<>> THEN <<>> ELSE <<Head(@)>>]
    BY <2>2 DEF CancelFrom
  <2>3. CASE ExitSnapshot
    BY <2>2, <2>3 DEF ExitSnapshot
  <2>4. CASE ExitCancels
    BY <1>1, <2>2, <2>4 DEF ExitCancels, TypeOK, ExitOK
  <2> QED BY <2>1, <2>3, <2>4 DEF AExit
<1>3. MachineOK' /\ OutputOK' /\ ClientsOK' /\ ExitOK' /\ WorldOK'
  BY <1>1, <1>2 DEF TypeOK, MachineOK, OutputOK, ClientsOK, ExitOK, WorldOK,
     machine, clients, world
<1>4. /\ KeysOK' /\ pc' \in [Tasks -> PCs]
      /\ pc'["event"] # "entering" \/ pc'["event"] = pc["event"]
  <2>1. CASE UNCHANGED <<pc, job>>
    BY <1>1, <1>2, <2>1 DEF TypeOK, KeysOK, ControlOK
  <2>2. ASSUME NEW t \in Tasks, Goto(t, "done"),
               job' = [job EXCEPT ![t] = IF @ = <<>> THEN <<>> ELSE <<Head(@)>>]
        PROVE  /\ KeysOK' /\ pc' \in [Tasks -> PCs]
               /\ pc'["event"] # "entering" \/ pc'["event"] = pc["event"]
    <3>1. job[t] \in Seq(KeySet)
      BY <1>1 DEF TypeOK, KeysOK
    <3>2. (IF job[t] = <<>> THEN <<>> ELSE <<Head(job[t])>>) \in Seq(KeySet)
      BY <3>1
    <3>3. KeysOK'
      BY <1>1, <1>2, <2>2, <3>2 DEF TypeOK, KeysOK
    <3> QED BY <1>1, <2>2, <3>3, GotoTyped DEF TypeOK, PCs, Tasks
  <2> QED BY <1>2, <2>1, <2>2
<1>5. ControlOK' /\ Held'
  BY <1>2, <1>4 DEF TypeInv, TypeOK, ControlOK, Held
<1> QED BY <1>3, <1>4, <1>5 DEF TypeInv, TypeOK

LEMMA WorldTyped == ASSUME TypeInv, World PROVE TypeInv'
<1>1. /\ UNCHANGED <<machine, control, output, pending, job, clients, exiting,
                     typed, nEvents, nFaults>>
      /\ replaying' \in {replaying, FALSE} /\ paneUp' \in {paneUp, FALSE}
      /\ claudeUp' \in {claudeUp, FALSE}
  BY DEF World, BacklogRead, ClaudeExits, PaneKilled
<1>2. MachineOK' /\ OutputOK' /\ ControlOK' /\ Held'
  BY <1>1 DEF TypeInv, TypeOK, MachineOK, OutputOK, ControlOK, Held,
     machine, output, control
<1>3. KeysOK' /\ ClientsOK' /\ ExitOK' /\ WorldOK'
  BY <1>1 DEF TypeInv, TypeOK, KeysOK, ClientsOK, ExitOK, WorldOK, clients,
     exiting
<1> QED BY <1>2, <1>3 DEF TypeInv, TypeOK

(* A step that changes nothing.                                            *)
LEMMA StutterTyped == ASSUME TypeInv, UNCHANGED vars PROVE TypeInv'
<1>1. MachineOK' /\ OutputOK' /\ ControlOK' /\ Held'
  BY DEF TypeInv, TypeOK, MachineOK, OutputOK, ControlOK, Held, vars,
     machine, output, control
<1>2. KeysOK' /\ ClientsOK' /\ ExitOK' /\ WorldOK'
  BY DEF TypeInv, TypeOK, KeysOK, ClientsOK, ExitOK, WorldOK, vars, clients,
     exiting, world
<1> QED BY <1>1, <1>2 DEF TypeInv, TypeOK

LEMMA TypeStep == ASSUME TypeInv, [Next]_vars PROVE TypeInv'
BY EventTyped, EnterTyped, LiveTaskTyped, InjectionTyped, ClientTyped,
   AExitTyped, WorldTyped, StutterTyped DEF Next

(* Every variable keeps the type of the field it stands for, whatever the  *)
(* hook events, the callers and the bounds, and an event consumer that     *)
(* comes back from the flush of the baseline holds the event it will fold. *)
THEOREM TypeCorrect == Spec => []TypeOK
<1>1. TypeInv /\ [Next]_vars => TypeInv'
  BY TypeStep
<1>2. TypeInv => TypeOK
  BY DEF TypeInv
<1> QED BY <1>1, <1>2, TypeInit, PTL DEF Spec

-----------------------------------------------------------------------------
(* The live phase: two safety properties from one inductive invariant, and  *)
(* the refinement of StateMachine.tla.                                     *)


(* The baseline has been put on the states queue: the live phase is        *)
(* entered, or one of the two tasks that enter it waits for the baseline's *)
(* prompts to be typed.                                                    *)
Entered ==
  live \/ pc["event"] = "entering" \/ pc["fallback"] = "flushing"

(* The inductive invariant.  NoStrandedPrompt and StatesFollowState speak  *)
(* of the live phase only, but the event or trigger that could break them  *)
(* may come while the baseline is still being flushed: they hold from the  *)
(* moment the baseline is shown.  The backlog is over then, so no event is *)
(* folded in silently any more; and as long as nothing has been folded in, *)
(* nothing is shown, which is what a baseline of None relies on.  A state  *)
(* that drop_to_tui has written is expired, and so neither None nor Idle.  *)
LiveInv ==
  /\ Entered => /\ ~replaying
                /\ Shown = state \/ Expired(state)
                /\ IsIdle(state) => pending = <<>>
  /\ state = None => statesQ = <<>>

Last(q) == IF q = <<>> THEN None ELSE q[Len(q)]

LEMMA LastAppended ==
  ASSUME NEW q \in Seq(States), NEW s \in States
  PROVE  Append(q, s) \in Seq(States) /\ Last(Append(q, s)) = s
<1>1. /\ Append(q, s) \in Seq(States)
      /\ Len(Append(q, s)) = Len(q) + 1 /\ Append(q, s)[Len(q) + 1] = s
      /\ Len(q) \in Nat
  OBVIOUS
<1>2. Append(q, s) # <<>>
  BY <1>1
<1> QED BY <1>1, <1>2 DEF Last

(* What a transition shows is never None.                                  *)
LEMMA ApplyShown ==
  ASSUME NEW st, NEW prim, NEW kn, NEW ev, Apply(st, prim, kn, ev).emit
  PROVE  Apply(st, prim, kn, ev).state # None
<1>1. /\ \A reason : Idle(reason) # None /\ Dead(reason) # None
      /\ \A tool : Working(tool) # None
      /\ \A kind, tool, request : Blocked(kind, tool, request) # None
  BY DEF Idle, Dead, Working, Blocked, None
<1>2. HookTarget(st, ev) # st => HookTarget(st, ev) # None
  BY <1>1 DEF HookTarget
<1> QED BY <1>1, <1>2 DEF Apply, Emits

LEMMA SafetyNetShown ==
  ASSUME NEW st, NEW trigger, ApplySafetyNet(st, trigger).emit
  PROVE  ApplySafetyNet(st, trigger).state # None
<1>1. \A reason : Idle(reason) # None /\ Dead(reason) # None
  BY DEF Idle, Dead, None
<1> QED BY <1>1 DEF ApplySafetyNet

(* The baseline is shown, or there is none.                                *)
LEMMA BaselineShown ==
  ASSUME TypeOK, LiveInv
  PROVE  /\ WithBaseline \in Seq(States) /\ Last(WithBaseline) = state
         /\ state = None => WithBaseline = <<>>
<1>1. state \in States /\ statesQ \in Seq(States)
  BY DEF TypeOK, MachineOK, OutputOK
<1>2. CASE state = None
  BY <1>1, <1>2 DEF WithBaseline, LiveInv, Last
<1>3. CASE state # None
  BY <1>1, <1>3, LastAppended DEF WithBaseline
<1> QED BY <1>2, <1>3

(* After a flush on s, a queue is left only if s is not Idle.              *)
LEMMA FlushEmpties ==
  ASSUME NEW t, NEW s, FlushPending(t, s), IsIdle(s)
  PROVE  pending' = <<>>
BY DEF FlushPending, Flushes

(* A transition, applied, shown and flushed as the event consumer does.    *)
LEMMA HandleShows ==
  ASSUME TypeOK, NEW ev \in Events, NEW q \in Seq(States), Handle(ev, q),
         Last(q) = state \/ Expired(state), state = None => q = <<>>,
         IsIdle(state) => pending = <<>>
  PROVE  /\ Shown' = state' \/ Expired(state')
         /\ IsIdle(state') => pending' = <<>>
         /\ state' = None => statesQ' = <<>>
<1> DEFINE step == Apply(state, primary, known, ev)
<1>1. step.state \in States
  BY ApplyTyped, EventsAssumption DEF TypeOK, MachineOK, PrimaryValues
<1>2. step.emit => step.state # None
  BY ApplyShown
<1>3. ~step.emit => step.state = state
  BY ApplySilent
<1>4. /\ state' = step.state
      /\ IF step.emit THEN /\ statesQ' = Append(q, step.state)
                           /\ FlushPending("event", step.state)
                      ELSE statesQ' = q /\ UNCHANGED <<job, pending>>
  BY DEF Handle
<1> HIDE DEF step
<1>5. Shown' = Last(statesQ')
  BY DEF Shown, Last
<1>6. CASE step.emit
  BY <1>1, <1>2, <1>4, <1>5, <1>6, LastAppended, FlushEmpties
<1>7. CASE ~step.emit
  BY <1>3, <1>4, <1>5, <1>7
<1> QED BY <1>6, <1>7

(* The same for a safety-net trigger.                                      *)
LEMMA TriggerShows ==
  ASSUME TypeOK, LiveInv, NEW t \in Tasks, NEW trigger \in Triggers,
         TriggerSafety(t, trigger), Entered' => Entered, UNCHANGED replaying
  PROVE  LiveInv'
<1> DEFINE step == ApplySafetyNet(state, trigger)
<1>1. step.state \in States /\ statesQ \in Seq(States)
  BY SafetyNetTyped DEF TypeOK, MachineOK, OutputOK
<1>2. step.emit => step.state # None
  BY SafetyNetShown
<1>3. ~step.emit => step.state = state
  BY SafetyNetSilent
<1>4. /\ state' = step.state
      /\ IF step.emit THEN /\ statesQ' = Append(statesQ, step.state)
                           /\ FlushPending(t, step.state)
                      ELSE UNCHANGED <<statesQ, job, pending>>
  BY DEF TriggerSafety
<1> HIDE DEF step
<1>5. Shown' = Last(statesQ') /\ Shown = Last(statesQ)
  BY DEF Shown, Last
<1>6. CASE step.emit
  <2>1. Shown' = state' /\ state' # None /\ (IsIdle(state') => pending' = <<>>)
    BY <1>1, <1>2, <1>4, <1>5, <1>6, LastAppended, FlushEmpties
  <2> QED BY <2>1 DEF LiveInv
<1>7. CASE ~step.emit
  BY <1>3, <1>4, <1>5, <1>7 DEF LiveInv
<1> QED BY <1>6, <1>7

(* A step that shows nothing, moves no state and queues no prompt on Idle. *)
LEMMA QuietStep ==
  ASSUME LiveInv, Entered' => Entered, UNCHANGED <<state, statesQ>>,
         ~replaying => ~replaying',
         IsIdle(state) /\ pending = <<>> => pending' = <<>>
  PROVE  LiveInv'
<1>1. Shown' = Shown
  BY DEF Shown
<1> QED BY <1>1 DEF LiveInv

-----------------------------------------------------------------------------
LEMMA LiveInit == Init => LiveInv
BY DEF Init, LiveInv, Entered, Tasks, Shown

(* The event consumer.                                                     *)
LEMMA EventLive == ASSUME TypeInv, LiveInv, EventConsumer PROVE LiveInv'
<1>1. TypeOK /\ (pc["event"] = "entering" => cur \in Events)
  BY DEF TypeInv, Held
<1>2. statesQ \in Seq(States) /\ Shown = Last(statesQ) /\ "event" \in Tasks
      /\ "fallback" \in Tasks /\ pc \in [Tasks -> PCs]
  BY <1>1 DEF TypeOK, OutputOK, ControlOK, Shown, Last, Tasks
<1>3. ASSUME NEW ev \in Events, ReplayEvent(ev) PROVE LiveInv'
  <2> DEFINE step == Apply(state, primary, known, ev)
  <2>1. ~Entered /\ statesQ' = statesQ /\ state' = step.state /\ ~Entered'
    BY <1>3 DEF ReplayEvent, LiveInv, Entered, control, output
  <2>2. state # None => step.state # None
    BY ApplyShown, ApplySilent
  <2> HIDE DEF step
  <2>3. ASSUME state' = None PROVE statesQ' = <<>>
    BY <2>1, <2>2, <2>3 DEF LiveInv
  <2> QED BY <2>1, <2>3 DEF LiveInv
<1>4. ASSUME NEW ev \in Events, LiveEvent(ev) PROVE LiveInv'
  <2>1. replaying' = FALSE
    BY <1>4 DEF LiveEvent
  <2>2. CASE ~live /\ Flushes(state)
    <3>1. statesQ' = WithBaseline /\ pending' = <<>> /\ state' = state
      BY <1>4, <2>2 DEF LiveEvent, FlushPending, machine
    <3>2. Shown' = Last(statesQ')
      BY DEF Shown, Last
    <3>3. /\ Last(WithBaseline) = state
          /\ state = None => WithBaseline = <<>>
      BY <1>1, BaselineShown
    <3> QED BY <2>1, <3>1, <3>2, <3>3 DEF LiveInv
  <2>3. CASE ~(~live /\ Flushes(state))
    <3> DEFINE q == IF live THEN statesQ ELSE WithBaseline
    <3>1. Handle(ev, q)
      BY <1>4, <2>3 DEF LiveEvent
    <3>2. /\ q \in Seq(States)
          /\ Last(q) = state \/ Expired(state)
          /\ state = None => q = <<>>
      BY <1>1, <1>2, BaselineShown DEF LiveInv, Entered
    <3>3. IsIdle(state) => pending = <<>>
      BY <2>3 DEF LiveInv, Entered, Flushes
    <3> HIDE DEF q
    <3> QED BY <1>1, <2>1, <3>1, <3>2, <3>3, HandleShows DEF LiveInv
  <2> QED BY <2>2, <2>3
<1>5. CASE EventEntered
  <2>1. cur \in Events /\ Handle(cur, statesQ) /\ UNCHANGED replaying /\ Entered
    BY <1>1, <1>5 DEF EventEntered, world, Entered
  <2>2. /\ Last(statesQ) = state \/ Expired(state)
        /\ ~replaying
        /\ state = None => statesQ = <<>>
        /\ IsIdle(state) => pending = <<>>
    BY <1>2, <2>1 DEF LiveInv
  <2> QED BY <1>1, <1>2, <2>1, <2>2, HandleShows DEF LiveInv
<1>6. CASE EventFlushed \/ EventStop
  <2>1. /\ Goto("event", "read") \/ Goto("event", "done")
        /\ UNCHANGED <<machine, live, output, pending, world>>
    BY <1>6 DEF EventFlushed, EventStop
  <2>2. Entered' => Entered
    BY <1>2, <2>1 DEF Entered, Goto
  <2> QED BY <2>1, <2>2, QuietStep DEF machine, output, world
<1> QED BY <1>3, <1>4, <1>5, <1>6 DEF EventConsumer

(* The fallback timer and the task that starts the others.                 *)
LEMMA EnterLive ==
  ASSUME TypeInv, LiveInv, FallbackFires \/ FallbackEntered \/ OnLive
  PROVE  LiveInv'
<1>1. TypeOK /\ pc \in [Tasks -> PCs] /\ "fallback" \in Tasks /\ "event" \in Tasks
  BY DEF TypeInv, TypeOK, ControlOK, Tasks
<1>2. CASE FallbackFires
  <2>1. ~replaying /\ UNCHANGED <<machine, world>>
    BY <1>2 DEF FallbackFires
  <2>2. CASE live
    <3>1. UNCHANGED <<live, statesQ, pending>> /\ (Entered' => Entered)
      BY <1>2, <2>2 DEF FallbackFires, Entered
    <3> QED BY <2>1, <3>1, QuietStep DEF machine, world
  <2>3. CASE ~live
    <3>1. /\ statesQ' = WithBaseline /\ (IsIdle(state) => pending' = <<>>)
          /\ UNCHANGED state
      BY <1>2, <2>1, <2>3 DEF FallbackFires, FlushPending, Flushes, machine
    <3>2. Shown' = Last(statesQ')
      BY DEF Shown, Last
    <3>3. /\ Last(WithBaseline) = state
          /\ state = None => WithBaseline = <<>>
      BY <1>1, BaselineShown
    <3> QED BY <2>1, <3>1, <3>2, <3>3 DEF LiveInv, world
  <2> QED BY <2>2, <2>3
<1>3. CASE FallbackEntered
  <2>1. UNCHANGED <<machine, output, pending, world>> /\ Entered
    BY <1>3 DEF FallbackEntered, Entered
  <2> QED BY <2>1, QuietStep DEF machine, output, world
<1>4. CASE OnLive
  <2>1. UNCHANGED <<machine, output, pending, world>> /\ Entered
    BY <1>4 DEF OnLive, Entered
  <2> QED BY <2>1, QuietStep DEF machine, output, world
<1> QED BY <1>2, <1>3, <1>4

(* The live-phase tasks.                                                   *)
LEMMA LiveTaskLive ==
  ASSUME TypeInv, LiveInv,
         MessageStop \/ SpinnerStart \/ SpinnerEnds \/ Grace \/ Probe
  PROVE  LiveInv'
<1>1. TypeOK /\ pc \in [Tasks -> PCs] /\ LiveTasks \subseteq Tasks
  BY DEF TypeInv, TypeOK, ControlOK, Tasks, LiveTasks
<1>2. /\ UNCHANGED <<live, world>>
      /\ UNCHANGED pc \/ \E t \in LiveTasks, where \in PCs : Goto(t, where)
  BY DEF MessageStop, SpinnerStart, SpinnerEnds, Grace, GraceTick, GraceFlushed,
     GraceStop, GraceLooks, Probe, ProbeFails, ProbeStop, LiveTasks, PCs
<1>3. pc'["event"] = pc["event"] /\ pc'["fallback"] = pc["fallback"]
  BY <1>1, <1>2 DEF Goto, LiveTasks, Tasks
<1>4. (Entered' => Entered) /\ UNCHANGED replaying
  BY <1>2, <1>3 DEF Entered, world
<1>5. \/ UNCHANGED <<machine, statesQ, pending>>
      \/ \E t \in LiveTasks, trigger \in Triggers : TriggerSafety(t, trigger)
  BY DEF MessageStop, SpinnerStart, SpinnerEnds, Grace, GraceTick, GraceFlushed,
     GraceStop, Probe, ProbeFails, ProbeStop, LiveTasks, Triggers, output
<1> QED BY <1>1, <1>4, <1>5, QuietStep, TriggerShows DEF machine

(* Key injection, the client, __aexit__ and the world show nothing.        *)
LEMMA OthersLive ==
  ASSUME TypeInv, LiveInv, Injection \/ Client \/ AExit \/ World
  PROVE  LiveInv'
<1>1. pc \in [Tasks -> PCs] /\ "fallback" \in Tasks /\ "event" \in Tasks
  BY DEF TypeInv, TypeOK, ControlOK, Tasks
<1>2. CASE Injection
  <2>1. PICK t \in Tasks \cup Callers : KeyDelivered(t) \/ KeyFails(t)
    BY <1>2 DEF Injection
  <2>2. /\ UNCHANGED <<machine, live, output, pending, world>>
        /\ UNCHANGED pc \/ (t \in Tasks /\ Goto(t, "done"))
    BY <2>1 DEF KeyDelivered, KeyFails, control
  <2>3. Entered' => Entered
    BY <1>1, <2>2 DEF Entered, Goto
  <2> QED BY <2>2, <2>3, QuietStep DEF machine, output, world
<1>3. CASE Client
  <2>1. ASSUME NEW c \in Callers, Calling(c) PROVE LiveInv'
    <3>1. UNCHANGED <<machine, control, output, world>>
      BY <2>1 DEF Calling, SendPrompt, Interrupt, Return
    <3>2. IsIdle(state) /\ pending = <<>> => pending' = <<>>
      BY <2>1 DEF Calling, SendPrompt, Interrupt, Return, IsIdle, IsWorking, None
    <3> QED BY <3>1, <3>2, QuietStep DEF Entered, machine, control, output, world
  <2>2. ASSUME NEW c \in Callers, Dropping(c) PROVE LiveInv'
    <3>1. UNCHANGED <<live, pc, statesQ, pending, replaying>>
      BY <2>2, DroppingMarks DEF control, output, world
    <3>2. CASE UNCHANGED state
      BY <3>1, <3>2, QuietStep DEF Entered
    <3>3. CASE Expired(state')
      <4>1. ~IsIdle(state') /\ state' # None
        BY <3>3 DEF Expired, IsBlocked, IsIdle, None
      <4> QED BY <3>1, <3>3, <4>1 DEF LiveInv, Entered
    <3> QED BY <2>2, <3>2, <3>3, DroppingMarks
  <2> QED BY <1>3, <2>1, <2>2 DEF Client, Calling, Dropping
<1>4. CASE AExit
  <2>1. /\ UNCHANGED <<machine, live, statesQ, pending, world>>
        /\ UNCHANGED pc \/ \E t \in Tasks : Goto(t, "done")
    <3>1. CASE ExitBegins
      BY <3>1 DEF ExitBegins, output
    <3>2. ASSUME NEW ts \in SUBSET Tasks, CancelFrom(ts)
          PROVE  UNCHANGED pc \/ \E t \in Tasks : Goto(t, "done")
      BY <3>2 DEF CancelFrom
    <3>3. CASE ExitSnapshot
      BY <3>2, <3>3 DEF ExitSnapshot
    <3>4. CASE ExitCancels
      BY <3>2, <3>4 DEF ExitCancels, TypeInv, TypeOK, ExitOK
    <3> QED BY <1>4, <3>1, <3>3, <3>4 DEF AExit
  <2>2. Entered' => Entered
    BY <1>1, <2>1 DEF Entered, Goto
  <2> QED BY <2>1, <2>2, QuietStep DEF machine, world
<1>5. CASE World
  <2>1. UNCHANGED <<machine, control, output, pending>> /\ (~replaying => ~replaying')
    BY <1>5 DEF World, BacklogRead, ClaudeExits, PaneKilled
  <2> QED BY <2>1, QuietStep DEF Entered, machine, control, output
<1> QED BY <1>2, <1>3, <1>4, <1>5

LEMMA LiveStep == ASSUME TypeInv, LiveInv, [Next]_vars PROVE LiveInv'
<1>1. CASE UNCHANGED vars
  <2>1. UNCHANGED <<state, statesQ, pending, replaying, live, pc>>
    BY <1>1 DEF vars, machine, control, output, world
  <2> QED BY <2>1, QuietStep DEF Entered
<1> QED BY <1>1, EventLive, EnterLive, LiveTaskLive, OthersLive DEF Next

LEMMA LiveCorrect == Spec => []LiveInv
<1>1. TypeInv /\ LiveInv /\ [Next]_vars => TypeInv' /\ LiveInv'
  BY TypeStep, LiveStep
<1> QED BY <1>1, TypeInit, LiveInit, PTL DEF Spec

(* No prompt queued while claude was not idle is left in the queue of an   *)
(* idle live session: whichever of the three tasks moves the state to Idle *)
(* takes the whole queue with it, and send_prompt queues only outside Idle. *)
THEOREM PromptsFlushed == Spec => []NoStrandedPrompt
<1>1. LiveInv => NoStrandedPrompt
  BY DEF LiveInv, Entered, NoStrandedPrompt
<1> QED BY <1>1, LiveCorrect, PTL

(* The last state put on states() is _state, in every live phase, unless   *)
(* _state is a dialog that drop_to_tui has marked.                         *)
THEOREM StatesFollow == Spec => []StatesFollowState
<1>1. LiveInv => StatesFollowState
  BY DEF LiveInv, Entered, StatesFollowState
<1> QED BY <1>1, LiveCorrect, PTL

-----------------------------------------------------------------------------
(* What a step does to the triple (state, primary, known)                  *)

(* The triple is left alone, or one event is folded in, silently or not,   *)
(* or one trigger, or drop_to_tui marks a dialog in it.                    *)
Folded(ev) ==
  LET step == Apply(state, primary, known, ev)
  IN state' = step.state /\ primary' = step.primary /\ known' = step.known

LEMMA MachineMoves ==
  ASSUME TypeInv, Next
  PROVE  \/ UNCHANGED machine /\ Dialogs' \subseteq Dialogs
         \/ /\ UNCHANGED clients
            /\ \E ev \in Events : Folded(ev) /\ (replaying \/ Terminate(state'))
         \/ /\ UNCHANGED clients
            /\ \E t \in LiveTasks, trigger \in Triggers : TriggerSafety(t, trigger)
         \/ \E c \in Callers : Dropping(c)
<1> DEFINE Goal ==
      \/ UNCHANGED machine /\ Dialogs' \subseteq Dialogs
      \/ /\ UNCHANGED clients
         /\ \E ev \in Events : Folded(ev) /\ (replaying \/ Terminate(state'))
      \/ /\ UNCHANGED clients
         /\ \E t \in LiveTasks, trigger \in Triggers : TriggerSafety(t, trigger)
      \/ \E c \in Callers : Dropping(c)
<1>0. UNCHANGED clients => Dialogs' = Dialogs
  BY DEF clients, Dialogs
<1>1. ASSUME NEW ev \in Events, NEW q, Handle(ev, q)
      PROVE  Folded(ev) /\ Terminate(state')
  BY <1>1 DEF Handle, Folded
<1>2. CASE EventConsumer
  <2>1. ASSUME NEW ev \in Events, ReplayEvent(ev) PROVE Goal
    BY <2>1 DEF ReplayEvent, Folded
  <2>2. ASSUME NEW ev \in Events, LiveEvent(ev) PROVE Goal
    BY <1>0, <1>1, <2>2 DEF LiveEvent
  <2>3. CASE EventEntered
    BY <1>1, <2>3 DEF EventEntered, TypeInv, Held
  <2>4. CASE EventFlushed \/ EventStop
    BY <1>0, <2>4 DEF EventFlushed, EventStop
  <2> QED BY <1>2, <2>1, <2>2, <2>3, <2>4 DEF EventConsumer
<1>3. CASE FallbackFires \/ FallbackEntered \/ OnLive
  BY <1>0, <1>3 DEF FallbackFires, FallbackEntered, OnLive
<1>4. CASE MessageStop \/ SpinnerStart \/ SpinnerEnds \/ Grace \/ Probe
  BY <1>0, <1>4 DEF MessageStop, SpinnerStart, SpinnerEnds, Grace, GraceTick,
     GraceFlushed, GraceStop, Probe, ProbeFails, ProbeStop, LiveTasks, Triggers
<1>5. CASE Injection \/ Client
  <2>1. ASSUME NEW c, NEW what, what # "drop_to_tui",
               call' = [call EXCEPT ![c] = what], UNCHANGED held
        PROVE  Dialogs' \subseteq Dialogs
    BY <2>1 DEF TypeInv, TypeOK, ClientsOK, Dialogs
  <2>2. CASE Injection
    BY <1>0, <2>1, <2>2 DEF Injection, KeyDelivered, KeyFails, clients, Dialogs
  <2>3. ASSUME NEW c \in Callers, Calling(c) PROVE Goal
    <3>1. UNCHANGED <<machine, held>>
      BY <2>3 DEF Calling, SendPrompt, Interrupt, Return
    <3>2. \/ UNCHANGED call \/ call' = [call EXCEPT ![c] = "send_prompt"]
          \/ call' = [call EXCEPT ![c] = "interrupt"]
          \/ call' = [call EXCEPT ![c] = "none"]
      BY <2>3 DEF Calling, SendPrompt, Interrupt, Return
    <3>3. Dialogs' \subseteq Dialogs
      BY <2>1, <3>1, <3>2 DEF Dialogs
    <3> QED BY <3>1, <3>3
  <2> QED BY <1>5, <2>2, <2>3 DEF Client, Calling, Dropping
<1>6. CASE AExit \/ World
  BY <1>0, <1>6 DEF AExit, ExitBegins, ExitSnapshot, ExitCancels, World, BacklogRead,
     ClaudeExits, PaneKilled
<1> QED BY <1>2, <1>3, <1>4, <1>5, <1>6 DEF Next

(* Once the backlog is read, no step makes the session Dead without        *)
(* stopping the tasks and ending the iterators.                            *)
THEOREM DeadEnds == Spec => DeadTransitionEnds
<1>1. ASSUME TypeInv, [Next]_vars, ~replaying, IsDead(state'), ~IsDead(state)
      PROVE  stopped' /\ Queues \ {"states"} \subseteq ended'
  <2>1. ~UNCHANGED machine
    BY <1>1 DEF machine
  <2>2. Next
    BY <1>1, <2>1 DEF vars
  <2>3. ~\E c \in Callers : Dropping(c)
    BY <1>1, DroppingMarks DEF Expired, IsBlocked, IsDead
  <2>4. Terminate(state')
    BY <1>1, <2>1, <2>2, <2>3, MachineMoves DEF TriggerSafety
  <2> QED BY <1>1, <2>4 DEF Terminate
<1>2. TypeInv /\ [Next]_vars => TypeInv'
  BY TypeStep
<1> QED BY <1>1, <1>2, TypeInit, PTL DEF Spec, DeadTransitionEnds

(* A trigger moves no session that is Dead.                                *)
LEMMA DeadAbsorbs ==
  ASSUME IsDead(state), NEW t, NEW trigger, TriggerSafety(t, trigger)
  PROVE  UNCHANGED <<state, statesQ>>
BY DEF TriggerSafety, ApplySafetyNet

(* Behind the end that stopped the tasks nothing is shown and the state     *)
(* stays, but for an event already in the hands of the consumer and for    *)
(* the dialog of a drop_to_tui that was waiting.                           *)
THEOREM EndStays == Spec => DeadStays
<1>1. ASSUME TypeInv, [Next]_vars, live, stopped, IsDead(state),
             pc["event"] # "entering"
      PROVE  UNCHANGED statesQ /\ (UNCHANGED state \/ Expired(state'))
  <2>1. CASE UNCHANGED vars
    BY <2>1 DEF vars, machine, output
  <2>2. CASE EventConsumer
    BY <1>1, <2>2 DEF EventConsumer, ReplayEvent, LiveEvent, EventEntered, EventFlushed,
       EventStop, machine, output
  <2>3. CASE FallbackFires \/ FallbackEntered \/ OnLive
    BY <1>1, <2>3 DEF FallbackFires, FallbackEntered, OnLive, machine, output
  <2>4. CASE MessageStop \/ SpinnerStart \/ SpinnerEnds
    BY <1>1, <2>4, DeadAbsorbs DEF MessageStop, SpinnerStart, SpinnerEnds, machine, output
  <2>5. CASE Grace
    BY <1>1, <2>5, DeadAbsorbs DEF Grace, GraceTick, GraceFlushed, GraceStop, machine, output
  <2>6. CASE Probe
    BY <1>1, <2>6, DeadAbsorbs DEF Probe, ProbeFails, ProbeStop, machine, output
  <2>7. CASE Injection \/ Client
    <3>1. ASSUME NEW c \in Callers, Dropping(c)
          PROVE  UNCHANGED statesQ /\ (UNCHANGED state \/ Expired(state'))
      BY <1>1, <3>1, DroppingMarks DEF output
    <3> QED BY <2>7, <3>1 DEF Injection, KeyDelivered, KeyFails, Client, SendPrompt,
           Interrupt, Return, Dropping, machine, output
  <2>8. CASE AExit \/ World
    BY <2>8 DEF AExit, ExitBegins, ExitSnapshot, ExitCancels, World, BacklogRead,
       ClaudeExits, PaneKilled, machine, output
  <2> QED BY <1>1, <2>1, <2>2, <2>3, <2>4, <2>5, <2>6, <2>7, <2>8 DEF Next
<1>2. TypeInv /\ [Next]_vars => TypeInv'
  BY TypeStep
<1> QED BY <1>1, <1>2, TypeInit, PTL DEF Spec, DeadStays

(* Backend implements StateMachine: whatever the tasks do at once and      *)
(* however they are suspended and cancelled, (state, primary, known) moves *)
(* by whole steps of apply and apply_safety_net, and none is lost but to   *)
(* the write of a drop_to_tui, which is a step of its own.                 *)
THEOREM Refinement == Spec => RefinesStateMachine
<1>1. Init => Machine!Init
  BY DEF Init, Machine!Init, None, Machine!None, Dialogs
<1>2. ASSUME NEW ev \in Events, Folded(ev), UNCHANGED clients PROVE Machine!Hook(ev)
  BY <1>2 DEF Folded, Machine!Hook, Apply, Machine!Apply, Learn, Machine!Learn,
     Emits, Machine!Emits, EndsNothing, Machine!EndsNothing, HookTarget,
     Machine!HookTarget, KindOf, Machine!KindOf, Idle, Machine!Idle, Working,
     Machine!Working, Blocked, Machine!Blocked, Dead, Machine!Dead, NoTool,
     Machine!NoTool, BlockingTools, Machine!BlockingTools, clients, Dialogs
<1>3. ASSUME NEW t, NEW trigger \in Triggers, TriggerSafety(t, trigger),
             UNCHANGED clients
      PROVE  Machine!SafetyNet(trigger)
  BY <1>3 DEF TriggerSafety, Machine!SafetyNet, ApplySafetyNet,
     Machine!ApplySafetyNet, IsDead, Machine!IsDead, IsWorking,
     Machine!IsWorking, Idle, Machine!Idle, Dead, Machine!Dead, clients, Dialogs
<1>0. ASSUME UNCHANGED machine, Dialogs' \subseteq Dialogs PROVE Machine!DropWrites
  BY <1>0 DEF Machine!DropWrites, machine
<1>6. ASSUME TypeInv, NEW c \in Callers, Dropping(c)
      PROVE  Machine!DropReads \/ Machine!DropWrites
  <2>1. UNCHANGED <<primary, known>>
    BY <1>6, DroppingMarks
  <2>2. call \in [Callers -> Calls] /\ held \in [Callers -> States]
    BY <1>6 DEF TypeInv, TypeOK, ClientsOK
  <2>3. CASE DropToTui(c) /\ state.request = NoRequest
    <3>1. /\ IsBlocked(state) /\ ~Expired(state) /\ state' = Marked(state)
          /\ Dialogs' = Dialogs
      BY <2>3 DEF DropToTui, Dialogs
    <3> QED BY <2>1, <3>1 DEF Machine!DropWrites, IsBlocked, Machine!IsBlocked,
           Expired, Machine!Expired, Marked, Machine!Marked
  <2>4. CASE DropToTui(c) /\ state.request # NoRequest
    <3>1. /\ IsBlocked(state) /\ ~Expired(state) /\ UNCHANGED state
          /\ call[c] = "none"
          /\ call' = [call EXCEPT ![c] = "drop_to_tui"]
          /\ held' = [held EXCEPT ![c] = state]
      BY <2>4 DEF DropToTui
    <3>2. /\ \A d \in Callers \ {c} : call'[d] = call[d] /\ held'[d] = held[d]
          /\ call'[c] = "drop_to_tui" /\ held'[c] = state
      BY <2>2, <3>1
    <3>3. Dialogs' = Dialogs \cup {state}
      BY <3>1, <3>2 DEF Dialogs
    <3> QED BY <2>1, <3>1, <3>3 DEF Machine!DropReads, IsBlocked, Machine!IsBlocked,
           Expired, Machine!Expired
  <2>5. CASE DropMarks(c)
    <3>1. /\ state' = Marked(held[c]) \/ UNCHANGED state
          /\ held[c] \in Dialogs
      BY <2>5 DEF DropMarks, Dialogs
    <3>2. /\ \A d \in Callers \ {c} : call'[d] = call[d] /\ held'[d] = held[d]
          /\ call'[c] = "none"
      BY <2>2, <2>5 DEF DropMarks
    <3>3. Dialogs' \subseteq Dialogs
      BY <3>2 DEF Dialogs
    <3> QED BY <2>1, <3>1, <3>3 DEF Machine!DropWrites, Marked, Machine!Marked
  <2> QED BY <1>6, <2>3, <2>4, <2>5 DEF Dropping
<1>4. ASSUME TypeInv, [Next]_vars PROVE [Machine!Next]_Machine!vars
  <2>1. CASE UNCHANGED vars
    BY <2>1 DEF vars, machine, Machine!vars, clients, Dialogs
  <2>2. CASE Next
    BY <1>0, <1>2, <1>3, <1>4, <1>6, <2>2, MachineMoves
       DEF Machine!Next, Triggers, Machine!Triggers
  <2> QED BY <1>4, <2>1, <2>2
<1>5. TypeInv /\ [Next]_vars => TypeInv'
  BY TypeStep
<1> QED BY <1>1, <1>4, <1>5, TypeInit, PTL DEF Spec, RefinesStateMachine,
       Machine!Spec

-----------------------------------------------------------------------------
(***************************************************************************)
(* What becomes of a prompt between send_prompt and the pane, and what     *)
(* __aexit__ leaves behind, for every number of callers and every bound.   *)
(***************************************************************************)

(* The prompts in a sequence of keys                                       *)

LEMMA TypingEmpty == Typing(<<>>) = {}
BY DEF Typing

LEMMA TypingSubmission ==
  ASSUME NEW prompts \in Seq(Nat)
  PROVE  /\ Typing(Submission(prompts)) = {prompts[i] : i \in DOMAIN prompts}
         /\ \A i, j \in DOMAIN Submission(prompts) :
              i # j => Prompts(Submission(prompts)[i])
                         \cap Prompts(Submission(prompts)[j]) = {}
<1> DEFINE keys == Submission(prompts)
<1>1. /\ DOMAIN keys = 1 .. 3 /\ keys[1] = Press("C-u")
      /\ keys[2] = Text(prompts) /\ keys[3] = Press("Enter")
  BY DEF Submission
<1>2. /\ Prompts(keys[1]) = {} /\ Prompts(keys[3]) = {}
      /\ Prompts(keys[2]) = {prompts[i] : i \in DOMAIN prompts}
  BY <1>1 DEF Prompts, Press, Text
<1> HIDE DEF keys
<1>3. Typing(keys) = {prompts[i] : i \in DOMAIN prompts}
  BY <1>1, <1>2 DEF Typing
<1>4. ASSUME NEW i \in DOMAIN keys, NEW j \in DOMAIN keys, i # j
      PROVE  Prompts(keys[i]) \cap Prompts(keys[j]) = {}
  BY <1>1, <1>2, <1>4
<1> QED BY <1>3, <1>4 DEF keys

LEMMA TypingInterruption ==
  /\ Typing(Interruption) = {}
  /\ \A i \in DOMAIN Interruption : Prompts(Interruption[i]) = {}
<1>1. /\ DOMAIN Interruption = 1 .. 2 /\ Interruption[1] = Press("Escape")
      /\ Interruption[2] = Press("C-u")
  BY DEF Interruption
<1>2. Prompts(Interruption[1]) = {} /\ Prompts(Interruption[2]) = {}
  BY <1>1 DEF Prompts, Press
<1> QED BY <1>1, <1>2 DEF Typing

LEMMA TypingHeadTail ==
  ASSUME NEW keys \in Seq(KeySet), keys # <<>>
  PROVE  /\ Head(keys) = keys[1] /\ 1 \in DOMAIN keys
         /\ DOMAIN Tail(keys) = 1 .. Len(keys) - 1
         /\ \A i \in DOMAIN Tail(keys) :
              i + 1 \in DOMAIN keys /\ Tail(keys)[i] = keys[i + 1]
         /\ Typing(keys) = Prompts(Head(keys)) \cup Typing(Tail(keys))
         /\ Typing(<<Head(keys)>>) = Prompts(Head(keys))
<1>1. Len(keys) \in Nat \ {0} /\ DOMAIN keys = 1 .. Len(keys)
  OBVIOUS
<1>2. /\ Head(keys) = keys[1] /\ 1 \in DOMAIN keys
      /\ DOMAIN Tail(keys) = 1 .. Len(keys) - 1
      /\ \A i \in DOMAIN Tail(keys) :
           i + 1 \in DOMAIN keys /\ Tail(keys)[i] = keys[i + 1]
  BY <1>1
<1>3. ASSUME NEW i \in DOMAIN keys, i # 1
      PROVE  i - 1 \in DOMAIN Tail(keys) /\ keys[i] = Tail(keys)[i - 1]
  BY <1>1, <1>2, <1>3
<1>4. Typing(keys) = Prompts(Head(keys)) \cup Typing(Tail(keys))
  BY <1>2, <1>3 DEF Typing
<1>5. Typing(<<Head(keys)>>) = Prompts(Head(keys))
  BY DEF Typing
<1> QED BY <1>2, <1>4, <1>5

LEMMA TypingAppend ==
  ASSUME NEW keys \in Seq(KeySet), NEW key \in KeySet
  PROVE  /\ DOMAIN Append(keys, key) = 1 .. Len(keys) + 1
         /\ \A i \in DOMAIN keys : Append(keys, key)[i] = keys[i]
         /\ Append(keys, key)[Len(keys) + 1] = key
         /\ Typing(Append(keys, key)) = Typing(keys) \cup Prompts(key)
<1>1. /\ Len(keys) \in Nat /\ DOMAIN keys = 1 .. Len(keys)
      /\ DOMAIN Append(keys, key) = 1 .. Len(keys) + 1
      /\ \A i \in DOMAIN keys : Append(keys, key)[i] = keys[i]
      /\ Append(keys, key)[Len(keys) + 1] = key
  OBVIOUS
<1>2. DOMAIN Append(keys, key) = DOMAIN keys \cup {Len(keys) + 1}
  BY <1>1
<1>3. Typing(Append(keys, key)) = Typing(keys) \cup Prompts(key)
  BY <1>1, <1>2 DEF Typing
<1> QED BY <1>1, <1>3

-----------------------------------------------------------------------------
(* A task or a caller that has no keys under way has none left over        *)

Sending == {"send_prompt", "interrupt"}
JobsIdle ==
  /\ \A t \in Tasks :
       job[t] # <<>> => pc[t] \in {"entering", "emitting", "flushing", "done"}
  /\ \A c \in Callers : job[c] # <<>> => call[c] \in Sending

(* The live-phase tasks are not there before the live phase, and the other *)
(* three are from the start.                                               *)
Created ==
  /\ pc["onlive"] = "wait" => \A t \in LiveTasks : pc[t] = "off"
  /\ \A t \in {"event", "fallback", "onlive"} : pc[t] # "off"
  /\ (\E t \in LiveTasks : pc[t] # "off") => live
  /\ \A t \in doomed : t \in Tasks /\ pc[t] # "off"

TasksInv == JobsIdle /\ Created

LEMMA TasksInit == Init => TasksInv
BY DEF Init, TasksInv, JobsIdle, Created, Tasks, LiveTasks

(* A step in which one task moves on with an empty job, or to where keys   *)
(* may be under way.                                                       *)
LEMMA TaskMoves ==
  ASSUME TypeOK, TasksInv, NEW t \in Tasks, NEW where \in PCs, Goto(t, where),
         where \notin {"off", "wait"}, pc[t] # "off", t = "onlive" => where = "done",
         \A u \in (Tasks \cup Callers) \ {t} : job'[u] = job[u],
         where \notin {"entering", "emitting", "flushing", "done"} => job'[t] = <<>>,
         live => live', UNCHANGED call,
         \A u \in doomed' : u \in doomed \/ (u \in Tasks /\ pc[u] # "off")
  PROVE  TasksInv'
<1>1. /\ pc' \in [Tasks -> PCs] /\ pc'[t] = where
      /\ \A u \in Tasks \ {t} : pc'[u] = pc[u]
  BY GotoTyped DEF TypeOK
<1>2. \A u \in Tasks : pc'[u] = "off" <=> pc[u] = "off"
  BY <1>1
<1>3. pc'["onlive"] = "wait" => pc["onlive"] = "wait"
  BY <1>1 DEF Tasks
<1>4. JobsIdle'
  <2>1. \A u \in Tasks :
          job'[u] # <<>> => pc'[u] \in {"entering", "emitting", "flushing", "done"}
    BY <1>1 DEF TasksInv, JobsIdle
  <2>2. \A c \in Callers : job'[c] # <<>> => call'[c] \in Sending
    BY CallersAssumption DEF TasksInv, JobsIdle
  <2> QED BY <2>1, <2>2 DEF JobsIdle
<1>5. Created'
  <2>1. {"event", "fallback", "onlive"} \subseteq Tasks /\ LiveTasks \subseteq Tasks
    BY DEF Tasks, LiveTasks
  <2> QED BY <1>2, <1>3, <2>1 DEF TasksInv, Created
<1> QED BY <1>4, <1>5 DEF TasksInv

(* A step that leaves the tasks where they are and adds no keys to them.   *)
LEMMA TasksStay ==
  ASSUME TasksInv, UNCHANGED <<pc, live, doomed>>,
         \A t \in Tasks : job[t] = <<>> => job'[t] = <<>>,
         \A c \in Callers : job'[c] # <<>> => call'[c] \in Sending
  PROVE  TasksInv'
BY DEF TasksInv, JobsIdle, Created

(* What a flush by t does to the keys.                                     *)
LEMMA FlushJobs ==
  ASSUME TypeOK, NEW t \in Tasks, NEW s, FlushPending(t, s)
  PROVE  /\ \A u \in (Tasks \cup Callers) \ {t} : job'[u] = job[u]
         /\ ~Flushes(s) => UNCHANGED <<job, pending>>
BY DEF FlushPending, TypeOK, KeysOK

LEMMA HandleTasks ==
  ASSUME TypeOK, TasksInv, NEW ev, NEW q, Handle(ev, q), live' = TRUE,
         UNCHANGED <<call, doomed>>, job["event"] = <<>>
  PROVE  TasksInv'
<1> DEFINE step == Apply(state, primary, known, ev)
<1>1. /\ IF step.emit THEN FlushPending("event", step.state)
                      ELSE UNCHANGED <<job, pending>>
      /\ Goto("event", IF IsDead(step.state) THEN "done"
                      ELSE IF step.emit /\ Flushes(step.state) THEN "emitting"
                      ELSE "read")
  BY DEF Handle
<1> HIDE DEF step
<1>2. "event" \in Tasks /\ pc["event"] # "off"
  BY DEF Tasks, TasksInv, Created
<1>3. /\ \A u \in (Tasks \cup Callers) \ {"event"} : job'[u] = job[u]
      /\ ~(step.emit /\ Flushes(step.state)) => UNCHANGED job
  BY <1>1, <1>2, FlushJobs
<1>4. PICK where \in {"done", "emitting", "read"} :
        /\ Goto("event", where)
        /\ where = "read" => job'["event"] = <<>>
  BY <1>1, <1>3
<1> QED BY <1>2, <1>3, <1>4, TaskMoves DEF PCs

LEMMA EventTasks == ASSUME TypeInv, TasksInv, EventConsumer PROVE TasksInv'
<1>1. TypeOK /\ "event" \in Tasks /\ pc["event"] # "off"
  BY DEF TypeInv, Tasks, TasksInv, Created
<1>2. pc["event"] = "read" => job["event"] = <<>>
  BY <1>1 DEF TasksInv, JobsIdle
<1>3. ASSUME NEW ev \in Events, ReplayEvent(ev) PROVE TasksInv'
  BY <1>3, TasksStay DEF ReplayEvent, control, clients, exiting, TasksInv, JobsIdle
<1>4. ASSUME NEW ev \in Events, LiveEvent(ev) PROVE TasksInv'
  <2>1. UNCHANGED <<call, doomed>> /\ job["event"] = <<>>
    BY <1>2, <1>4 DEF LiveEvent, clients, exiting
  <2>2. CASE ~live /\ Flushes(state)
    <3>1. FlushPending("event", state) /\ Goto("event", "entering") /\ UNCHANGED live
      BY <1>4, <2>2 DEF LiveEvent
    <3> QED BY <1>1, <2>1, <3>1, FlushJobs, TaskMoves DEF PCs
  <2>3. CASE ~(~live /\ Flushes(state))
    <3>1. live' = TRUE /\ Handle(ev, IF live THEN statesQ ELSE WithBaseline)
      BY <1>4, <2>3 DEF LiveEvent
    <3> QED BY <1>1, <2>1, <3>1, HandleTasks
  <2> QED BY <2>2, <2>3
<1>5. CASE EventEntered
  BY <1>1, <1>5, HandleTasks DEF EventEntered, clients, exiting
<1>6. CASE EventFlushed \/ EventStop
  <2>1. /\ Goto("event", "read") \/ Goto("event", "done")
        /\ job["event"] = <<>> /\ UNCHANGED <<job, live, call, doomed>>
    BY <1>2, <1>6 DEF EventFlushed, EventStop, clients, exiting
  <2> QED BY <1>1, <2>1, TaskMoves DEF PCs
<1> QED BY <1>3, <1>4, <1>5, <1>6 DEF EventConsumer

LEMMA EnterTasks ==
  ASSUME TypeInv, TasksInv, FallbackFires \/ FallbackEntered \/ OnLive
  PROVE  TasksInv'
<1>1. TypeOK /\ "fallback" \in Tasks /\ pc["fallback"] # "off" /\ "fallback" # "onlive"
  BY DEF TypeInv, Tasks, TasksInv, Created
<1>2. CASE FallbackFires \/ FallbackEntered
  <2>1. /\ FlushPending("fallback", state) \/ UNCHANGED job
        /\ Goto("fallback", "done") \/ Goto("fallback", "flushing")
        /\ UNCHANGED <<call, doomed>> /\ (live => live')
    BY <1>2 DEF FallbackFires, FallbackEntered, clients, exiting
  <2>2. \A u \in (Tasks \cup Callers) \ {"fallback"} : job'[u] = job[u]
    BY <1>1, <2>1, FlushJobs
  <2> QED BY <1>1, <2>1, <2>2, TaskMoves DEF PCs
<1>3. CASE OnLive
  <2>1. /\ live /\ live' /\ UNCHANGED <<job, call, doomed>>
        /\ pc["onlive"] = "wait"
        /\ pc' = [t \in Tasks |-> IF t = "onlive" THEN "done"
                                  ELSE IF t = "grace" THEN GraceLooks
                                  ELSE IF t \in LiveTasks THEN "start" ELSE pc[t]]
    BY <1>3 DEF OnLive, clients, exiting
  <2>2. \A t \in LiveTasks : job[t] = <<>>
    BY <2>1 DEF TasksInv, Created, JobsIdle, LiveTasks, Tasks
  <2>3. /\ pc'["onlive"] = "done"
        /\ \A t \in {"event", "fallback"} : pc'[t] = pc[t]
        /\ \A t \in Tasks \ (LiveTasks \cup {"onlive"}) : pc'[t] = pc[t]
    BY <2>1 DEF Tasks, LiveTasks
  <2>4. JobsIdle'
    BY <2>1, <2>2, <2>3 DEF TasksInv, JobsIdle
  <2>5. \A t \in Tasks : pc[t] # "off" => pc'[t] # "off"
    BY <2>1 DEF GraceLooks
  <2>6. Created'
    BY <2>1, <2>3, <2>5 DEF TasksInv, Created
  <2> QED BY <2>4, <2>6 DEF TasksInv
<1> QED BY <1>2, <1>3

(* A trigger other than spinner_grace leads to Dead: it types nothing.     *)
LEMMA DeadTypesNothing ==
  ASSUME NEW t, NEW trigger \in {"pane_lost", "process_gone"},
         TriggerSafety(t, trigger)
  PROVE  UNCHANGED <<job, pending>>
BY DEF TriggerSafety, ApplySafetyNet, FlushPending, Flushes, IsIdle, IsDead, Dead

LEMMA LiveTaskTasks ==
  ASSUME TypeInv, TasksInv,
         MessageStop \/ SpinnerStart \/ SpinnerEnds \/ Grace \/ Probe
  PROVE  TasksInv'
<1>1. TypeOK /\ LiveTasks \subseteq Tasks \ {"onlive"} /\ "grace" \in Tasks
  BY DEF TypeInv, Tasks, LiveTasks
<1>2. UNCHANGED <<live, call, doomed>>
  BY DEF MessageStop, SpinnerStart, SpinnerEnds, Grace, GraceTick, GraceFlushed,
     GraceStop, Probe, ProbeFails, ProbeStop, clients, exiting
<1>3. CASE MessageStop \/ SpinnerStart \/ SpinnerEnds \/ Probe
  <2>1. PICK t \in {"message", "spinner", "probe"}, where \in {"run", "done"} :
          Goto(t, where) /\ pc[t] \in {"start", "run"}
    BY <1>3 DEF MessageStop, SpinnerStart, SpinnerEnds, Probe, ProbeFails, ProbeStop
  <2>2. UNCHANGED job
    BY <1>3, DeadTypesNothing
       DEF MessageStop, SpinnerStart, SpinnerEnds, Probe, ProbeFails, ProbeStop
  <2>3. t \in Tasks /\ job'[t] = <<>>
    BY <1>1, <2>1, <2>2 DEF LiveTasks, TasksInv, JobsIdle
  <2> QED BY <1>1, <1>2, <2>1, <2>2, <2>3, TaskMoves DEF LiveTasks, PCs
<1>4. ASSUME NEW spinner \in BOOLEAN, NEW static \in BOOLEAN,
             GraceTick(spinner, static)
      PROVE  TasksInv'
  <2>1. pc["grace"] = "start" /\ job["grace"] = <<>>
    BY <1>1, <1>4 DEF GraceTick, TasksInv, JobsIdle
  <2>2. CASE IsWorking(state) /\ sawSpinner /\ ~spinner /\ static
    <3>1. /\ FlushPending("grace", ApplySafetyNet(state, "spinner_grace").state)
             \/ UNCHANGED <<job, pending>>
          /\ IF pending = <<>> THEN Goto("grace", GraceLooks)
                               ELSE Goto("grace", "flushing")
      BY <1>4, <2>2 DEF GraceTick, TriggerSafety
    <3>2. \A u \in (Tasks \cup Callers) \ {"grace"} : job'[u] = job[u]
      BY <1>1, <3>1, FlushJobs
    <3>3. pending = <<>> => job'["grace"] = <<>>
      BY <2>1, <3>1 DEF FlushPending, Flushes
    <3>4. PICK where \in {"done", "start", "flushing"} :
            /\ Goto("grace", where)
            /\ where = "start" => job'["grace"] = <<>>
      BY <3>1, <3>3 DEF GraceLooks
    <3> QED BY <1>1, <1>2, <2>1, <3>2, <3>4, TaskMoves DEF PCs
  <2>3. CASE ~(IsWorking(state) /\ sawSpinner /\ ~spinner /\ static)
    <3>1. UNCHANGED job /\ (Goto("grace", "done") \/ Goto("grace", "start"))
      BY <1>4, <2>3 DEF GraceTick, GraceLooks
    <3> QED BY <1>1, <1>2, <2>1, <3>1, TaskMoves DEF PCs
  <2> QED BY <2>2, <2>3
<1>5. CASE GraceFlushed \/ GraceStop
  <2>1. /\ UNCHANGED job /\ job["grace"] = <<>> /\ pc["grace"] # "off"
        /\ Goto("grace", "done") \/ Goto("grace", "start")
    BY <1>1, <1>5 DEF GraceFlushed, GraceStop, GraceLooks, TasksInv, JobsIdle
  <2> QED BY <1>1, <1>2, <2>1, TaskMoves DEF PCs
<1> QED BY <1>3, <1>4, <1>5 DEF Grace

LEMMA OthersTasks ==
  ASSUME TypeInv, TasksInv, Injection \/ Client \/ AExit \/ World
  PROVE  TasksInv'
<1>1. TypeOK
  BY DEF TypeInv
<1>2. job \in [Tasks \cup Callers -> Seq(KeySet)] /\ call \in [Callers -> Calls]
  BY <1>1 DEF TypeOK, KeysOK, ClientsOK
<1>3. CASE Injection
  <2>1. PICK t \in Tasks \cup Callers : KeyDelivered(t) \/ KeyFails(t)
    BY <1>3 DEF Injection
  <2>2. /\ job[t] # <<>> /\ UNCHANGED <<live, doomed>>
        /\ \A u \in (Tasks \cup Callers) \ {t} : job'[u] = job[u]
    BY <1>2, <2>1 DEF KeyDelivered, KeyFails, control, exiting
  <2>3. CASE KeyDelivered(t)
    <3>1. UNCHANGED <<pc, call>>
      BY <2>3 DEF KeyDelivered, control, clients
    <3> QED BY <2>2, <3>1, TasksStay DEF TasksInv, JobsIdle
  <2>4. CASE KeyFails(t)
    <3>1. CASE t \in Tasks
      <4>1. Goto(t, "done") /\ UNCHANGED call
        BY <2>4, <3>1 DEF KeyFails
      <4>2. pc[t] # "off"
        BY <2>2, <3>1 DEF TasksInv, JobsIdle
      <4> QED BY <1>1, <2>2, <3>1, <4>1, <4>2, TaskMoves DEF PCs
    <3>2. CASE t \notin Tasks
      <4>1. /\ UNCHANGED pc /\ call' = [call EXCEPT ![t] = "none"]
            /\ job' = [job EXCEPT ![t] = <<>>]
        BY <2>4, <3>2 DEF KeyFails
      <4>2. \A c \in Callers : job'[c] # <<>> => call'[c] \in Sending
        BY <1>2, <4>1 DEF TasksInv, JobsIdle
      <4> QED BY <2>2, <3>2, <4>1, <4>2, TasksStay
    <3> QED BY <3>1, <3>2
  <2> QED BY <2>1, <2>3, <2>4
<1>4. CASE Client
  <2>1. PICK c \in Callers : Calling(c) \/ Dropping(c)
    BY <1>4 DEF Client, Calling, Dropping
  <2>2. UNCHANGED <<pc, live, doomed>>
    BY <2>1, DroppingMarks DEF Calling, SendPrompt, Interrupt, Return, control, exiting
  <2>3. \A t \in Tasks : job'[t] = job[t]
    BY <1>2, <2>1, DroppingMarks, CallersAssumption
       DEF Calling, SendPrompt, Interrupt, Return
  <2>4. \A d \in Callers : job'[d] # <<>> => call'[d] \in Sending
    <3>1. CASE Calling(c)
      BY <1>2, <3>1 DEF Calling, SendPrompt, Interrupt, Return, TasksInv, JobsIdle,
         Sending
    <3>2. CASE Dropping(c)
      <4>1. job[c] = <<>>
        BY <1>1, <3>2, DroppingMarks DEF TasksInv, JobsIdle, Sending
      <4>2. UNCHANGED job /\ \A d \in Callers \ {c} : call'[d] = call[d]
        BY <3>2, DroppingMarks
      <4> QED BY <4>1, <4>2 DEF TasksInv, JobsIdle
    <3> QED BY <2>1, <3>1, <3>2
  <2> QED BY <2>2, <2>3, <2>4, TasksStay
<1>5. CASE AExit
  <2>1. UNCHANGED <<live, call>>
    BY <1>5 DEF AExit, ExitBegins, ExitSnapshot, ExitCancels, clients
  <2>2. CASE ExitBegins
    BY <2>1, <2>2, TasksStay DEF ExitBegins, TasksInv, JobsIdle
  <2>3. ASSUME NEW ts \in SUBSET Tasks, CancelFrom(ts), \A t \in ts : pc[t] # "off"
        PROVE  TasksInv'
    <3>1. CASE \A t \in ts : pc[t] = "done"
      <4>1. doomed' = {} /\ UNCHANGED <<pc, job>>
        BY <2>3, <3>1 DEF CancelFrom
      <4> QED BY <2>1, <3>1, <4>1 DEF TasksInv, JobsIdle, Created
    <3>2. CASE ~\A t \in ts : pc[t] = "done"
      <4>1. PICK t \in ts :
              /\ Goto(t, "done")
              /\ job' = [job EXCEPT ![t] = IF @ = <<>> THEN <<>> ELSE <<Head(@)>>]
              /\ doomed' \subseteq ts
        BY <2>3, <3>2 DEF CancelFrom
      <4>2. \A u \in (Tasks \cup Callers) \ {t} : job'[u] = job[u]
        BY <1>2, <4>1
      <4> QED BY <1>1, <2>1, <2>3, <4>1, <4>2, TaskMoves DEF PCs
    <3> QED BY <3>1, <3>2
  <2>4. CASE ExitSnapshot
    BY <2>3, <2>4 DEF ExitSnapshot
  <2>5. CASE ExitCancels
    BY <2>3, <2>5 DEF ExitCancels, TasksInv, Created
  <2> QED BY <1>5, <2>2, <2>4, <2>5 DEF AExit
<1>6. CASE World
  BY <1>6, TasksStay DEF World, BacklogRead, ClaudeExits, PaneKilled, control,
     clients, exiting, TasksInv, JobsIdle
<1> QED BY <1>3, <1>4, <1>5, <1>6

LEMMA TasksStep == ASSUME TypeInv, TasksInv, [Next]_vars PROVE TasksInv'
<1>1. CASE UNCHANGED vars
  <2>1. UNCHANGED <<pc, live, doomed, job, call>>
    BY <1>1 DEF vars, control, clients, exiting
  <2> QED BY <2>1, TasksStay DEF TasksInv, JobsIdle
<1> QED BY <1>1, EventTasks, EnterTasks, LiveTaskTasks, OthersTasks DEF Next

-----------------------------------------------------------------------------
(* What a step may do to the prompts                                       *)

(* Nothing, or: a task that has no keys under way takes the whole queue; a *)
(* caller begins to type its prompt, or an interruption; a prompt is       *)
(* queued; one key is delivered; keys are given up; the queue is dropped.  *)
(* Every call takes a number, drop_to_tui one that no prompt bears.        *)
Takes == \E t \in {"event", "fallback", "grace"} :
  /\ pc[t] \notin {"off", "done"}
  /\ job[t] = <<>> /\ job' = [job EXCEPT ![t] = Submission(pending)]
  /\ pending' = <<>> /\ UNCHANGED <<typed, nCalls>>
Sends == \E c \in Callers, keys \in {Submission(<<nCalls'>>), Interruption} :
  /\ job[c] = <<>> /\ job' = [job EXCEPT ![c] = keys]
  /\ nCalls' = nCalls + 1 /\ UNCHANGED <<pending, typed>>
Enqueues ==
  /\ pending' = Append(pending, nCalls') /\ nCalls' = nCalls + 1
  /\ UNCHANGED <<job, typed>>
Delivers == \E t \in Tasks \cup Callers :
  /\ job[t] # <<>> /\ job' = [job EXCEPT ![t] = Tail(job[t])]
  /\ typed' = Append(typed, Head(job[t])) /\ UNCHANGED <<pending, nCalls>>
GivesUp == \E t \in Tasks \cup Callers :
  /\ \/ job' = [job EXCEPT ![t] = <<>>]
     \/ job[t] # <<>> /\ job' = [job EXCEPT ![t] = <<Head(job[t])>>]
  /\ Drops /\ UNCHANGED <<pending, typed, nCalls>>
Clears == pending' = <<>> /\ Drops /\ UNCHANGED <<job, typed, nCalls>>
Rests ==
  (nCalls' = nCalls + 1 \/ UNCHANGED nCalls) /\ UNCHANGED <<pending, job, typed>>
PromptMoves ==
  Takes \/ Sends \/ Enqueues \/ Delivers \/ GivesUp \/ Clears \/ Rests

LEMMA FlushMoves ==
  ASSUME NEW t \in {"event", "fallback", "grace"}, NEW s, FlushPending(t, s),
         pc[t] \notin {"off", "done"}, job[t] = <<>>, UNCHANGED <<typed, nCalls>>
  PROVE  PromptMoves
BY DEF FlushPending, PromptMoves, Takes, Rests

LEMMA HandleMoves ==
  ASSUME NEW ev, NEW q, Handle(ev, q), job["event"] = <<>>,
         pc["event"] \notin {"off", "done"}, UNCHANGED <<typed, nCalls>>
  PROVE  PromptMoves
<1>1. \/ FlushPending("event", Apply(state, primary, known, ev).state)
      \/ UNCHANGED <<job, pending>>
  BY DEF Handle
<1> QED BY <1>1, FlushMoves DEF PromptMoves, Rests

LEMMA StepMovesPrompts ==
  ASSUME TypeInv, TasksInv, [Next]_vars
  PROVE  PromptMoves
<1>1. TypeOK
  BY DEF TypeInv
<1>2. \A t \in Tasks : pc[t] \in {"read", "start", "sleep"} => job[t] = <<>>
  BY DEF TasksInv, JobsIdle
<1>3. CASE UNCHANGED vars
  BY <1>3 DEF vars, clients, PromptMoves, Rests
<1>4. CASE EventConsumer
  <2>1. UNCHANGED <<typed, nCalls>> /\ "event" \in Tasks
    BY <1>4 DEF EventConsumer, ReplayEvent, LiveEvent, EventEntered,
       EventFlushed, EventStop, clients, Tasks
  <2>2. ASSUME NEW ev \in Events, LiveEvent(ev) PROVE PromptMoves
    <3>1. job["event"] = <<>> /\ pc["event"] = "read"
      BY <1>2, <2>1, <2>2 DEF LiveEvent
    <3>2. \/ FlushPending("event", state)
          \/ Handle(ev, IF live THEN statesQ ELSE WithBaseline)
      BY <2>2 DEF LiveEvent
    <3> QED BY <2>1, <3>1, <3>2, FlushMoves, HandleMoves
  <2>3. CASE EventEntered
    BY <2>1, <2>3, HandleMoves DEF EventEntered
  <2>4. CASE EventFlushed \/ EventStop \/ \E ev \in Events : ReplayEvent(ev)
    BY <2>1, <2>4 DEF EventFlushed, EventStop, ReplayEvent, PromptMoves, Rests
  <2> QED BY <1>4, <2>2, <2>3, <2>4 DEF EventConsumer
<1>5. CASE FallbackFires \/ FallbackEntered \/ OnLive
  <2>1. UNCHANGED <<typed, nCalls>> /\ "fallback" \in Tasks
    BY <1>5 DEF FallbackFires, FallbackEntered, OnLive, clients, Tasks
  <2>2. CASE FallbackFires
    <3>1. FlushPending("fallback", state) \/ UNCHANGED <<job, pending>>
      BY <2>2 DEF FallbackFires
    <3>2. job["fallback"] = <<>> /\ pc["fallback"] = "sleep"
      BY <1>2, <2>1, <2>2 DEF FallbackFires
    <3> QED BY <2>1, <3>1, <3>2, FlushMoves DEF PromptMoves, Rests
  <2>3. CASE FallbackEntered \/ OnLive
    BY <2>1, <2>3 DEF FallbackEntered, OnLive, PromptMoves, Rests
  <2> QED BY <1>5, <2>2, <2>3
<1>6. CASE MessageStop \/ SpinnerStart \/ SpinnerEnds \/ Grace \/ Probe
  <2>1. UNCHANGED <<typed, nCalls>> /\ "grace" \in Tasks
    BY <1>6 DEF MessageStop, SpinnerStart, SpinnerEnds, Grace, GraceTick,
       GraceFlushed, GraceStop, Probe, ProbeFails, ProbeStop, clients, Tasks
  <2>2. CASE MessageStop \/ SpinnerStart \/ SpinnerEnds \/ Probe
    <3>1. UNCHANGED <<job, pending>>
      BY <2>2, DeadTypesNothing
         DEF MessageStop, SpinnerStart, SpinnerEnds, Probe, ProbeFails, ProbeStop
    <3> QED BY <2>1, <3>1 DEF PromptMoves, Rests
  <2>3. ASSUME NEW spinner \in BOOLEAN, NEW static \in BOOLEAN,
               GraceTick(spinner, static)
        PROVE  PromptMoves
    <3>1. job["grace"] = <<>> /\ pc["grace"] = "start"
      BY <1>2, <2>1, <2>3 DEF GraceTick
    <3>2. \/ FlushPending("grace", ApplySafetyNet(state, "spinner_grace").state)
          \/ UNCHANGED <<job, pending>>
      BY <2>3 DEF GraceTick, TriggerSafety
    <3> QED BY <2>1, <3>1, <3>2, FlushMoves DEF PromptMoves, Rests
  <2>4. CASE GraceFlushed \/ GraceStop
    BY <2>1, <2>4 DEF GraceFlushed, GraceStop, PromptMoves, Rests
  <2> QED BY <1>6, <2>2, <2>3, <2>4 DEF Grace
<1>7. CASE Injection
  <2>1. PICK t \in Tasks \cup Callers : KeyDelivered(t) \/ KeyFails(t)
    BY <1>7 DEF Injection
  <2>2. CASE KeyDelivered(t)
    BY <2>2 DEF KeyDelivered, clients, PromptMoves, Delivers
  <2>3. CASE KeyFails(t)
    <3>1. nFaults' # nFaults \/ ~paneUp
      BY <1>1, <2>3 DEF KeyFails, TypeOK, WorldOK
    <3> QED BY <2>3, <3>1 DEF KeyFails, PromptMoves, GivesUp, Drops
  <2> QED BY <2>1, <2>2, <2>3
<1>8. CASE Client
  <2>1. PICK c \in Callers : SendPrompt(c) \/ Interrupt(c) \/ Return(c) \/ Dropping(c)
    BY <1>8 DEF Client, Dropping
  <2>2. CASE SendPrompt(c) \/ Interrupt(c)
    <3>1. job[c] = <<>>
      BY <2>2 DEF SendPrompt, Interrupt, TasksInv, JobsIdle, Sending
    <3> QED BY <2>2, <3>1 DEF SendPrompt, Interrupt, PromptMoves, Sends, Enqueues
  <2>3. CASE Return(c)
    <3>1. call' = [call EXCEPT ![c] = "none"] /\ call \in [Callers -> Calls]
      BY <1>1, <2>3 DEF Return, TypeOK, ClientsOK
    <3>2. call[c] = "interrupt" => Drops
      BY <3>1 DEF Drops
    <3> QED BY <2>3, <3>2 DEF Return, PromptMoves, Clears, Rests
  <2>4. CASE Dropping(c)
    BY <1>1, <2>4, DroppingMarks DEF PromptMoves, Rests
  <2> QED BY <2>1, <2>2, <2>3, <2>4
<1>9. CASE AExit
  <2>1. ASSUME NEW ts \in SUBSET Tasks, CancelFrom(ts), exit # "no",
               UNCHANGED <<pending, typed, nCalls>>
        PROVE  PromptMoves
    <3>1. CASE UNCHANGED job
      BY <2>1, <3>1 DEF PromptMoves, Rests
    <3>2. CASE ~UNCHANGED job
      <4>1. PICK t \in ts :
              job' = [job EXCEPT ![t] = IF @ = <<>> THEN <<>> ELSE <<Head(@)>>]
        BY <2>1, <3>2 DEF CancelFrom
      <4> QED BY <2>1, <4>1 DEF PromptMoves, GivesUp, Drops
    <3> QED BY <3>1, <3>2
  <2>2. CASE ExitBegins
    BY <2>2 DEF ExitBegins, clients, PromptMoves, Rests
  <2>3. CASE ExitSnapshot \/ ExitCancels
    BY <2>1, <2>3 DEF ExitSnapshot, ExitCancels, clients, TasksInv, Created
  <2> QED BY <1>9, <2>2, <2>3 DEF AExit
<1>10. CASE World
  BY <1>10 DEF World, BacklogRead, ClaudeExits, PaneKilled, clients,
     PromptMoves, Rests
<1> QED BY <1>3, <1>4, <1>5, <1>6, <1>7, <1>8, <1>9, <1>10 DEF Next

-----------------------------------------------------------------------------
(* The inductive invariant behind TypedOnce: every prompt that is not lost *)
(* is in one place only, the queue, the keys of one task or caller, or the *)
(* pane, and its number is one that was given out.                         *)
Apart(keys) ==
  \A i, j \in DOMAIN keys : i # j => Prompts(keys[i]) \cap Prompts(keys[j]) = {}
Senders == Tasks \cup Callers
OneHome ==
  /\ Apart(typed) /\ Queued \cap Typing(typed) = {}
  /\ \A t \in Senders :
       /\ Apart(job[t]) /\ Typing(job[t]) \cap (Queued \cup Typing(typed)) = {}
       /\ \A u \in Senders \ {t} : Typing(job[t]) \cap Typing(job[u]) = {}
  /\ Queued \cup Typing(typed) \subseteq 1 .. nCalls
  /\ \A t \in Senders : Typing(job[t]) \subseteq 1 .. nCalls

LEMMA OneHomeInit == Init => OneHome
<1> SUFFICES ASSUME Init PROVE OneHome
  OBVIOUS
<1>1. typed = <<>> /\ pending = <<>> /\ \A t \in Senders : job[t] = <<>>
  BY DEF Init, Senders
<1>2. Queued = {} /\ Typing(typed) = {} /\ Apart(typed)
  BY <1>1, TypingEmpty DEF Queued, Apart
<1>3. \A t \in Senders : Typing(job[t]) = {} /\ Apart(job[t])
  BY <1>1, TypingEmpty DEF Apart
<1> QED BY <1>2, <1>3 DEF OneHome

(* One sender's keys are replaced by keys whose prompts come from the       *)
(* queue, from those it had or from a new number.                          *)
LEMMA ReplaceJob ==
  ASSUME OneHome, NEW t \in Senders, NEW keys, Apart(keys),
         job \in [Senders -> Seq(KeySet)], job' = [job EXCEPT ![t] = keys],
         UNCHANGED typed, Queued' \subseteq Queued,
         Typing(keys) \cap (Queued' \cup Typing(typed)) = {},
         \A u \in Senders \ {t} : Typing(keys) \cap Typing(job[u]) = {},
         nCalls \in Nat, nCalls' \in Nat, nCalls' >= nCalls,
         Typing(keys) \subseteq 1 .. nCalls'
  PROVE  OneHome'
<1>1. /\ \A u \in Senders \ {t} : job'[u] = job[u]
      /\ job'[t] = keys
  OBVIOUS
<1>2. 1 .. nCalls \subseteq 1 .. nCalls'
  OBVIOUS
<1>3. Apart(typed)' /\ Typing(typed)' = Typing(typed)
  BY DEF OneHome, Apart, Typing
<1>4. /\ Apart(keys)' /\ Typing(keys)' = Typing(keys)
      /\ \A u \in Senders \ {t} : Apart(job[u])' /\ Typing(job[u])' = Typing(job[u])
      /\ Apart(job[t])' /\ Typing(job[t])' = Typing(keys)
  BY <1>1 DEF OneHome, Apart, Typing
<1>5. \A u \in Senders : Apart(job[u])' /\ Typing(job[u])' \cap (Queued' \cup Typing(typed)') = {}
  BY <1>3, <1>4 DEF OneHome
<1>6. \A u \in Senders, v \in Senders : u # v => Typing(job[u])' \cap Typing(job[v])' = {}
  BY <1>4 DEF OneHome
<1>7. Queued' \cup Typing(typed)' \subseteq 1 .. nCalls'
  BY <1>2, <1>3 DEF OneHome
<1>8. \A u \in Senders : Typing(job[u])' \subseteq 1 .. nCalls'
  BY <1>2, <1>4 DEF OneHome
<1>9. Queued' \cap Typing(typed)' = {}
  BY <1>3 DEF OneHome
<1> QED BY <1>3, <1>5, <1>6, <1>7, <1>8, <1>9 DEF OneHome, Senders, Tasks

LEMMA OneHomeStep ==
  ASSUME TypeOK, OneHome, PromptMoves
  PROVE  OneHome'
<1>1. /\ job \in [Senders -> Seq(KeySet)] /\ pending \in Seq(Nat)
      /\ typed \in Seq(KeySet) /\ nCalls \in Nat
  BY DEF TypeOK, KeysOK, ClientsOK, WorldOK, Senders
<1>2. CASE Takes
  <2>1. PICK t \in Tasks :
          /\ job[t] = <<>> /\ job' = [job EXCEPT ![t] = Submission(pending)]
          /\ pending' = <<>> /\ UNCHANGED <<typed, nCalls>>
    BY <1>2 DEF Takes, Tasks
  <2>2. /\ Typing(Submission(pending)) = Queued /\ Queued' = {}
        /\ Apart(Submission(pending))
    BY <1>1, <2>1, TypingSubmission DEF Queued, Apart
  <2> QED BY <1>1, <2>1, <2>2, ReplaceJob DEF OneHome, Senders
<1>3. CASE Sends
  <2>1. PICK c \in Callers, keys \in {Submission(<<nCalls'>>), Interruption} :
          /\ job[c] = <<>> /\ job' = [job EXCEPT ![c] = keys]
          /\ nCalls' = nCalls + 1 /\ UNCHANGED <<pending, typed>>
    BY <1>3 DEF Sends
  <2>2. <<nCalls'>> \in Seq(Nat) /\ {<<nCalls'>>[i] : i \in DOMAIN <<nCalls'>>} = {nCalls'}
    BY <1>1, <2>1
  <2>3. Typing(keys) \subseteq {nCalls'} /\ Apart(keys)
    BY <2>1, <2>2, TypingSubmission, TypingInterruption DEF Apart
  <2>4. nCalls' \notin 1 .. nCalls /\ nCalls' \in 1 .. nCalls' /\ nCalls' >= nCalls
    BY <1>1, <2>1
  <2>5. Queued' = Queued
    BY <2>1 DEF Queued
  <2>6. c \in Senders
    BY DEF Senders
  <2>7. /\ Typing(keys) \cap (Queued' \cup Typing(typed)) = {}
        /\ \A u \in Senders \ {c} : Typing(keys) \cap Typing(job[u]) = {}
        /\ Typing(keys) \subseteq 1 .. nCalls' /\ nCalls' \in Nat
    BY <1>1, <2>1, <2>3, <2>4, <2>5 DEF OneHome
  <2> QED BY <1>1, <2>1, <2>3, <2>4, <2>5, <2>6, <2>7, ReplaceJob
<1>4. CASE Enqueues
  <2>1. /\ pending' = Append(pending, nCalls') /\ nCalls' = nCalls + 1
        /\ UNCHANGED <<job, typed>>
    BY <1>4 DEF Enqueues
  <2>2. Queued' = Queued \cup {nCalls'}
    <3>1. /\ DOMAIN pending' = DOMAIN pending \cup {Len(pending) + 1}
          /\ \A i \in DOMAIN pending : pending'[i] = pending[i]
          /\ pending'[Len(pending) + 1] = nCalls'
      BY <1>1, <2>1
    <3> QED BY <3>1 DEF Queued
  <2>3. nCalls' \notin 1 .. nCalls /\ 1 .. nCalls' = (1 .. nCalls) \cup {nCalls'}
    BY <1>1, <2>1
  <2>4. Typing(typed)' = Typing(typed) /\ Apart(typed)'
        /\ \A t \in Senders : Typing(job[t])' = Typing(job[t]) /\ Apart(job[t])'
    BY <2>1 DEF OneHome, Typing, Apart
  <2> QED BY <2>2, <2>3, <2>4 DEF OneHome, Senders, Tasks
<1>5. CASE Delivers
  <2>1. PICK t \in Senders :
          /\ job[t] # <<>> /\ job' = [job EXCEPT ![t] = Tail(job[t])]
          /\ typed' = Append(typed, Head(job[t])) /\ UNCHANGED <<pending, nCalls>>
    BY <1>5 DEF Delivers, Senders
  <2> DEFINE head == Head(job[t])
  <2>2. job[t] \in Seq(KeySet) /\ head \in KeySet
    BY <1>1, <2>1
  <2>3. /\ head = job[t][1] /\ 1 \in DOMAIN job[t]
        /\ DOMAIN Tail(job[t]) = 1 .. Len(job[t]) - 1
        /\ \A i \in DOMAIN Tail(job[t]) :
             i + 1 \in DOMAIN job[t] /\ Tail(job[t])[i] = job[t][i + 1]
        /\ Typing(job[t]) = Prompts(head) \cup Typing(Tail(job[t]))
    BY <2>1, <2>2, TypingHeadTail
  <2>4. Apart(Tail(job[t])) /\ Typing(Tail(job[t])) \cap Prompts(head) = {}
    <3>1. \A i, j \in DOMAIN job[t] :
            i # j => Prompts(job[t][i]) \cap Prompts(job[t][j]) = {}
      BY <2>1 DEF OneHome, Apart
    <3>2. /\ \A i \in DOMAIN Tail(job[t]) : i + 1 # 1
          /\ \A i, j \in DOMAIN Tail(job[t]) : i # j => i + 1 # j + 1
      BY <2>3
    <3> HIDE DEF head
    <3>3. \A i \in DOMAIN Tail(job[t]) : Prompts(Tail(job[t])[i]) \cap Prompts(head) = {}
      BY <2>3, <3>1, <3>2
    <3>4. Apart(Tail(job[t]))
      BY <2>3, <3>1, <3>2 DEF Apart
    <3> QED BY <3>3, <3>4 DEF Typing
  <2>5. /\ DOMAIN typed' = 1 .. Len(typed) + 1
        /\ \A i \in DOMAIN typed : typed'[i] = typed[i]
        /\ typed'[Len(typed) + 1] = head
        /\ Typing(typed') = Typing(typed) \cup Prompts(head)
    BY <1>1, <2>1, <2>2, TypingAppend
  <2> HIDE DEF head
  <2>6. Apart(typed')
    <3>1. Prompts(head) \cap Typing(typed) = {}
      BY <2>3 DEF OneHome
    <3>2. \A i \in DOMAIN typed : Prompts(typed[i]) \subseteq Typing(typed)
      BY DEF Typing
    <3>3. DOMAIN typed' = DOMAIN typed \cup {Len(typed) + 1}
      BY <1>1, <2>5
    <3> QED BY <2>5, <3>1, <3>2, <3>3 DEF OneHome, Apart
  <2>7. /\ job'[t] = Tail(job[t]) /\ \A u \in Senders \ {t} : job'[u] = job[u]
        /\ Queued' = Queued
    BY <1>1, <2>1 DEF Queued
  <2>8. /\ Typing(typed)' = Typing(typed) \cup Prompts(head) /\ Apart(typed)'
        /\ Typing(job[t])' = Typing(Tail(job[t])) /\ Apart(job[t])'
        /\ \A u \in Senders \ {t} : Typing(job[u])' = Typing(job[u]) /\ Apart(job[u])'
    <3>1. Typing(typed)' = Typing(typed) \cup Prompts(head) /\ Apart(typed)'
      BY <2>5, <2>6 DEF Typing, Apart, Prompts
    <3>2. Typing(job[t])' = Typing(Tail(job[t])) /\ Apart(job[t])'
      <4>1. /\ Typing(job[t])' = Typing(job'[t]) /\ (Apart(job[t])' <=> Apart(job'[t]))
        BY DEF Typing, Apart, Prompts
      <4> QED BY <2>4, <2>7, <4>1
    <3>3. \A u \in Senders \ {t} : Typing(job[u])' = Typing(job[u]) /\ Apart(job[u])'
      <4> SUFFICES ASSUME NEW u \in Senders \ {t}
                   PROVE  Typing(job[u])' = Typing(job[u]) /\ Apart(job[u])'
        OBVIOUS
      <4>1. job'[u] = job[u] /\ Apart(job[u])
        BY <2>7 DEF OneHome
      <4> QED BY <4>1 DEF Typing, Apart, Prompts
    <3> QED BY <3>1, <3>2, <3>3
  <2>9. \A u \in Senders :
          /\ Apart(job[u])' /\ Typing(job[u])' \cap (Queued' \cup Typing(typed)') = {}
          /\ \A v \in Senders \ {u} : Typing(job[u])' \cap Typing(job[v])' = {}
          /\ Typing(job[u])' \subseteq 1 .. nCalls'
    BY <2>1, <2>3, <2>4, <2>7, <2>8 DEF OneHome
  <2>10. Queued' \cap Typing(typed)' = {} /\ Queued' \cup Typing(typed)' \subseteq 1 .. nCalls'
    BY <2>1, <2>3, <2>7, <2>8 DEF OneHome
  <2> QED BY <2>8, <2>9, <2>10 DEF OneHome, Senders, Tasks
<1>6. CASE GivesUp
  <2>1. PICK t \in Senders :
          /\ \/ job' = [job EXCEPT ![t] = <<>>]
             \/ job[t] # <<>> /\ job' = [job EXCEPT ![t] = <<Head(job[t])>>]
          /\ UNCHANGED <<pending, typed, nCalls>>
    BY <1>6 DEF GivesUp, Senders
  <2>2. Queued' = Queued
    BY <2>1 DEF Queued
  <2>3. CASE job' = [job EXCEPT ![t] = <<>>]
    <3>1. Typing(<<>>) = {} /\ Apart(<<>>)
      BY TypingEmpty DEF Apart
    <3>2. /\ Typing(<<>>) \cap (Queued' \cup Typing(typed)) = {}
          /\ \A u \in Senders \ {t} : Typing(<<>>) \cap Typing(job[u]) = {}
          /\ Typing(<<>>) \subseteq 1 .. nCalls'
      BY <3>1
    <3>3. Queued' \subseteq Queued /\ nCalls' \in Nat /\ nCalls' >= nCalls
      BY <1>1, <2>1, <2>2
    <3> QED BY <1>1, <2>1, <2>3, <3>1, <3>2, <3>3, ReplaceJob
  <2>4. CASE job[t] # <<>> /\ job' = [job EXCEPT ![t] = <<Head(job[t])>>]
    <3>1. Typing(<<Head(job[t])>>) \subseteq Typing(job[t])
      BY <1>1, <2>4, TypingHeadTail
    <3>2. Apart(<<Head(job[t])>>)
      BY DEF Apart
    <3>3. /\ Typing(<<Head(job[t])>>) \cap (Queued' \cup Typing(typed)) = {}
          /\ \A u \in Senders \ {t} : Typing(<<Head(job[t])>>) \cap Typing(job[u]) = {}
          /\ Typing(<<Head(job[t])>>) \subseteq 1 .. nCalls'
      BY <2>1, <2>2, <3>1 DEF OneHome
    <3>4. Queued' \subseteq Queued /\ nCalls' \in Nat /\ nCalls' >= nCalls
      BY <1>1, <2>1, <2>2
    <3> QED BY <1>1, <2>1, <2>4, <3>2, <3>3, <3>4, ReplaceJob
  <2> QED BY <2>1, <2>3, <2>4
<1>7. CASE Clears \/ Rests
  <2>1. UNCHANGED <<job, typed>> /\ Queued' \subseteq Queued
    BY <1>7 DEF Clears, Rests, Queued
  <2>3. 1 .. nCalls \subseteq 1 .. nCalls'
    BY <1>1, <1>7 DEF Clears, Rests
  <2>2. Typing(typed)' = Typing(typed) /\ Apart(typed)'
        /\ \A t \in Senders : Typing(job[t])' = Typing(job[t]) /\ Apart(job[t])'
    BY <2>1 DEF OneHome, Typing, Apart
  <2> QED BY <2>1, <2>2, <2>3 DEF OneHome, Senders, Tasks
<1> QED BY <1>2, <1>3, <1>4, <1>5, <1>6, <1>7 DEF PromptMoves

LEMMA KeysCorrect == Spec => [](TypeInv /\ TasksInv /\ OneHome)
<1>1. ASSUME TypeInv, TasksInv, OneHome, [Next]_vars
      PROVE  (TypeInv /\ TasksInv /\ OneHome)'
  BY <1>1, TypeStep, TasksStep, StepMovesPrompts, OneHomeStep DEF TypeInv
<1> QED BY <1>1, TypeInit, TasksInit, OneHomeInit, PTL DEF Spec

(* A prompt is in one place at a time, so no two keys of the pane carry it: *)
(* a task that flushes the queue leaves nothing of it for the next one, and *)
(* none of them overwrites keys it has still to send.                      *)
THEOREM PromptsTypedOnce == Spec => []TypedOnce
<1>1. OneHome => TypedOnce
  BY DEF OneHome, Apart, TypedOnce
<1> QED BY <1>1, KeysCorrect, PTL

(* No step loses a prompt from the queue or from the keys under way, other *)
(* than the three the property names.                                      *)
THEOREM NoPromptLost == Spec => PromptsKept
<1>1. ASSUME TypeInv, TasksInv, [Next]_vars
      PROVE  Drops \/ Waiting \subseteq Waiting' \cup Typing(typed')
  <2>1. job \in [Senders -> Seq(KeySet)] /\ pending \in Seq(Nat)
        /\ typed \in Seq(KeySet) /\ nCalls \in Nat
    BY <1>1 DEF TypeInv, TypeOK, KeysOK, ClientsOK, WorldOK, Senders
  <2>2. Waiting = Queued \cup UNION {Typing(job[t]) : t \in Senders}
    BY DEF Waiting, Senders
  <2>3. ASSUME NEW t \in Senders, Typing(job[t]) = {}, NEW keys,
               job' = [job EXCEPT ![t] = keys], Queued \subseteq Queued' \cup Typing(keys)
        PROVE  Waiting \subseteq Waiting'
    <3>1. /\ Typing(job'[t]) = Typing(keys) /\ job'[t] = keys
          /\ \A u \in Senders \ {t} : job'[u] = job[u]
      BY <2>1, <2>3
    <3>2. \A u \in Senders : u # t => Typing(job[u]) \subseteq Waiting'
      BY <3>1 DEF Waiting, Senders, Typing, Prompts
    <3>3. Queued \subseteq Waiting'
      BY <2>3, <3>1 DEF Waiting, Senders, Typing, Prompts
    <3> QED BY <2>2, <2>3, <3>2, <3>3
  <2>4. CASE Takes
    <3>1. PICK t \in Tasks :
            /\ job[t] = <<>> /\ job' = [job EXCEPT ![t] = Submission(pending)]
      BY <2>4 DEF Takes, Tasks
    <3>2. Queued = Typing(Submission(pending)) /\ Typing(job[t]) = {}
      BY <2>1, <3>1, TypingSubmission, TypingEmpty DEF Queued
    <3> QED BY <2>3, <3>1, <3>2 DEF Senders
  <2>5. CASE Sends
    <3>1. PICK c \in Callers, keys \in {Submission(<<nCalls'>>), Interruption} :
            /\ job[c] = <<>> /\ job' = [job EXCEPT ![c] = keys]
            /\ UNCHANGED pending
      BY <2>5 DEF Sends
    <3>2. Queued' = Queued /\ Typing(job[c]) = {}
      BY <3>1, TypingEmpty DEF Queued
    <3> QED BY <2>3, <3>1, <3>2 DEF Senders
  <2>6. CASE Enqueues
    <3>1. pending' = Append(pending, nCalls') /\ UNCHANGED job
      BY <2>6 DEF Enqueues
    <3>2. Queued \subseteq Queued'
      <4>1. /\ DOMAIN pending \subseteq DOMAIN pending'
            /\ \A i \in DOMAIN pending : pending'[i] = pending[i]
        BY <2>1, <3>1
      <4> QED BY <4>1 DEF Queued
    <3>3. \A t \in Senders : Typing(job'[t]) \subseteq Waiting'
      BY DEF Waiting, Senders, Typing, Prompts
    <3>4. Queued \subseteq Waiting'
      BY <3>2 DEF Waiting
    <3> QED BY <2>2, <3>1, <3>3, <3>4
  <2>7. CASE Delivers
    <3>1. PICK t \in Senders :
            /\ job[t] # <<>> /\ job' = [job EXCEPT ![t] = Tail(job[t])]
            /\ typed' = Append(typed, Head(job[t])) /\ UNCHANGED pending
      BY <2>7 DEF Delivers, Senders
    <3>2. /\ Typing(job[t]) = Prompts(Head(job[t])) \cup Typing(Tail(job[t]))
          /\ Typing(typed') = Typing(typed) \cup Prompts(Head(job[t]))
      <4>1. job[t] \in Seq(KeySet) /\ Head(job[t]) \in KeySet
        BY <2>1, <3>1
      <4> QED BY <2>1, <3>1, <4>1, TypingHeadTail, TypingAppend
    <3>3. /\ job'[t] = Tail(job[t]) /\ \A u \in Senders \ {t} : job'[u] = job[u]
          /\ Queued' = Queued
      BY <2>1, <3>1 DEF Queued
    <3>4. \A u \in Senders : Typing(job'[u]) \subseteq Waiting'
      BY DEF Waiting, Senders, Typing, Prompts
    <3>5. Queued \subseteq Waiting'
      BY <3>3 DEF Waiting
    <3> QED BY <2>2, <3>2, <3>3, <3>4, <3>5
  <2>8. CASE GivesUp \/ Clears
    BY <2>8 DEF GivesUp, Clears
  <2>9. CASE Rests
    BY <2>9 DEF Rests, Waiting, Queued, Typing, Prompts
  <2> QED BY <1>1, <2>4, <2>5, <2>6, <2>7, <2>8, <2>9, StepMovesPrompts DEF PromptMoves
<1> QED BY <1>1, KeysCorrect, PTL DEF Spec, PromptsKept

-----------------------------------------------------------------------------
(* What __aexit__ leaves behind                                            *)

(* A task that is done stays done; the grace timer that is not created yet *)
(* goes where its first look at _stopped sends it; and a Backend that was  *)
(* told to stop is never told otherwise.                                   *)
LEMMA DoneStays ==
  ASSUME TypeInv, TasksInv, [Next]_vars
  PROVE  /\ \A t \in Tasks : pc[t] = "done" => pc'[t] = "done"
         /\ pc["grace"] = "off" => pc'["grace"] \in {"off", "done", GraceLooks}
         /\ stopped => stopped'
<1> DEFINE Goal == /\ \A t \in Tasks : pc[t] = "done" => pc'[t] = "done"
                   /\ pc["grace"] = "off" => pc'["grace"] \in {"off", "done", GraceLooks}
<1>1. pc \in [Tasks -> PCs] /\ "grace" \in Tasks
  BY DEF TypeInv, TypeOK, ControlOK, Tasks
<1>2. ASSUME NEW t \in Tasks, NEW where, Goto(t, where),
             where = "done" \/ pc[t] \notin {"off", "done"}
      PROVE  Goal
  BY <1>1, <1>2 DEF Goto
<1>3. stopped => stopped'
  <2>1. \A s : Terminate(s) => (stopped => stopped')
    BY DEF Terminate
  <2>2. CASE UNCHANGED stopped \/ stopped' = TRUE
    BY <2>2
  <2>3. CASE ~(UNCHANGED stopped \/ stopped' = TRUE)
    BY <2>1, <2>3 DEF Next, EventConsumer, ReplayEvent, LiveEvent, EventEntered,
       EventFlushed, EventStop, Handle, FallbackFires, FallbackEntered, OnLive,
       MessageStop, SpinnerStart, SpinnerEnds, Grace, GraceTick, GraceFlushed,
       GraceStop, Probe, ProbeFails, ProbeStop, TriggerSafety, Injection,
       KeyDelivered, KeyFails, Client, SendPrompt, Interrupt, Return, DropToTui,
       DropMarks, AExit, ExitBegins, ExitSnapshot, ExitCancels, World, BacklogRead, ClaudeExits,
       PaneKilled, control, vars
  <2> QED BY <2>2, <2>3
<1>4. CASE UNCHANGED pc
  BY <1>1, <1>3, <1>4
<1>5. CASE EventConsumer
  <2>1. UNCHANGED pc \/ \E where : Goto("event", where) /\ pc["event"] \notin {"off", "done"}
    BY <1>5 DEF EventConsumer, ReplayEvent, LiveEvent, EventEntered, EventFlushed,
       EventStop, Handle, control
  <2> QED BY <1>2, <1>3, <1>4, <2>1 DEF Tasks
<1>6. CASE FallbackFires \/ FallbackEntered
  <2>1. \E where : Goto("fallback", where) /\ pc["fallback"] \notin {"off", "done"}
    BY <1>6 DEF FallbackFires, FallbackEntered
  <2> QED BY <1>2, <1>3, <2>1 DEF Tasks
<1>7. CASE OnLive
  <2>1. /\ pc["onlive"] = "wait" /\ \A t \in LiveTasks : pc[t] = "off"
        /\ pc' = [t \in Tasks |-> IF t = "onlive" THEN "done"
                                  ELSE IF t = "grace" THEN GraceLooks
                                  ELSE IF t \in LiveTasks THEN "start" ELSE pc[t]]
    BY <1>7 DEF OnLive, TasksInv, Created
  <2>2. "grace" \in LiveTasks
    BY DEF LiveTasks
  <2>3. \A t \in Tasks : pc[t] = "done" => pc'[t] = "done"
    BY <2>1, <2>2
  <2>4. pc'["grace"] = GraceLooks
    BY <1>1, <2>1
  <2> QED BY <1>3, <2>3, <2>4
<1>8. CASE MessageStop \/ SpinnerStart \/ SpinnerEnds \/ Grace \/ Probe
  <2>1. \E t \in LiveTasks : \E where : Goto(t, where) /\ pc[t] \notin {"off", "done"}
    BY <1>8 DEF MessageStop, SpinnerStart, SpinnerEnds, Grace, GraceTick,
       GraceFlushed, GraceStop, Probe, ProbeFails, ProbeStop, LiveTasks
  <2> QED BY <1>2, <1>3, <2>1 DEF Tasks, LiveTasks
<1>9. CASE Injection \/ AExit
  <2>1. UNCHANGED pc \/ \E t \in Tasks : Goto(t, "done")
    <3>1. ASSUME NEW ts \in SUBSET Tasks, CancelFrom(ts)
          PROVE  UNCHANGED pc \/ \E t \in Tasks : Goto(t, "done")
      BY <3>1 DEF CancelFrom
    <3>2. CASE Injection
      BY <3>2 DEF Injection, KeyDelivered, KeyFails, control
    <3>3. CASE AExit
      BY <3>1, <3>3 DEF AExit, ExitBegins, ExitSnapshot, ExitCancels, TasksInv, Created
    <3> QED BY <1>9, <3>2, <3>3
  <2> QED BY <1>2, <1>3, <1>4, <2>1
<1>10. CASE Client \/ World \/ UNCHANGED vars
  BY <1>3, <1>4, <1>10 DEF Client, SendPrompt, Interrupt, Return, DropToTui,
     DropMarks, World,
     BacklogRead, ClaudeExits, PaneKilled, control, vars
<1> QED BY <1>5, <1>6, <1>7, <1>8, <1>9, <1>10 DEF Next

(* The inductive invariant behind ExitQuiet: once __aexit__ has listed the *)
(* tasks, every task that could flush the queue is done, still to be       *)
(* cancelled, or the grace timer that has not been created yet, and will   *)
(* find _stopped set when it is.                                           *)
ExitInv ==
  /\ exit # "no" => stopped
  /\ exit \in {"cancelling", "exited"} =>
       /\ \A t \in {"event", "fallback", "onlive"} : pc[t] = "done" \/ t \in doomed
       /\ pc["grace"] \in {"off", "done"} \/ "grace" \in doomed
  /\ exit = "exited" => doomed = {}

LEMMA ExitInit == Init => ExitInv
BY DEF Init, ExitInv

LEMMA ExitStep ==
  ASSUME TypeInv, TasksInv, ExitInv, [Next]_vars
  PROVE  ExitInv'
<1>1. /\ \A t \in Tasks : pc[t] = "done" => pc'[t] = "done"
      /\ pc["grace"] = "off" => pc'["grace"] \in {"off", "done", GraceLooks}
      /\ stopped => stopped'
  BY DoneStays
<1>2. {"event", "fallback", "onlive", "grace"} \subseteq Tasks /\ pc \in [Tasks -> PCs]
  BY DEF Tasks, TypeInv, TypeOK, ControlOK
<1>3. CASE UNCHANGED exiting
  <2>1. exit # "no" => GraceLooks = "done"
    BY DEF ExitInv, GraceLooks
  <2> QED BY <1>1, <1>2, <1>3, <2>1 DEF ExitInv, exiting
<1>4. CASE ExitBegins
  BY <1>4 DEF ExitBegins, ExitInv
<1>5. ASSUME NEW ts \in SUBSET Tasks, CancelFrom(ts), stopped, UNCHANGED stopped,
             \A t \in {"event", "fallback", "onlive"} : pc[t] = "done" \/ t \in ts,
             pc["grace"] \in {"off", "done"} \/ "grace" \in ts
      PROVE  ExitInv'
  <2>1. CASE \A t \in ts : pc[t] = "done"
    BY <1>1, <1>2, <1>5, <2>1 DEF CancelFrom, ExitInv
  <2>2. CASE ~\A t \in ts : pc[t] = "done"
    <3>1. PICK t \in ts :
            /\ Goto(t, "done") /\ exit' = "cancelling"
            /\ doomed' = {u \in ts : pc[u] # "done"} \ {t}
      BY <1>5, <2>2 DEF CancelFrom
    <3>2. pc'[t] = "done" /\ \A u \in Tasks \ {t} : pc'[u] = pc[u]
      BY <1>2, <3>1 DEF Goto
    <3> QED BY <1>2, <1>5, <3>1, <3>2 DEF ExitInv
  <2> QED BY <2>1, <2>2
<1>6. CASE ExitSnapshot
  <2>1. \A t \in {"event", "fallback", "onlive"} : pc[t] # "off"
    BY DEF TasksInv, Created
  <2> QED BY <1>2, <1>5, <1>6, <2>1 DEF ExitSnapshot, ExitInv
<1>7. CASE ExitCancels
  BY <1>5, <1>7 DEF ExitCancels, ExitInv, TasksInv, Created
<1>8. UNCHANGED exiting \/ AExit
  BY DEF Next, EventConsumer, ReplayEvent, LiveEvent, EventEntered,
     EventFlushed, EventStop, FallbackFires, FallbackEntered, OnLive,
     MessageStop, SpinnerStart, SpinnerEnds, Grace, GraceTick, GraceFlushed,
     GraceStop, Probe, ProbeFails, ProbeStop, Injection,
     KeyDelivered, KeyFails, Client, SendPrompt, Interrupt, Return, DropToTui,
     DropMarks, World, BacklogRead, ClaudeExits, PaneKilled, vars
<1> QED BY <1>3, <1>4, <1>6, <1>7, <1>8 DEF AExit

LEMMA ExitCorrect == Spec => [](TypeInv /\ TasksInv /\ ExitInv)
<1>1. ASSUME TypeInv, TasksInv, ExitInv, [Next]_vars
      PROVE  (TypeInv /\ TasksInv /\ ExitInv)'
  BY <1>1, TypeStep, TasksStep, ExitStep
<1> QED BY <1>1, TypeInit, TasksInit, ExitInit, PTL DEF Spec

(* Nothing that outlives __aexit__ begins to type.                         *)
THEOREM QuietAfterExit == Spec => ExitQuiet
<1>1. ASSUME TypeInv, TasksInv, ExitInv, [Next]_vars, exit = "exited",
             NEW t \in Tasks
      PROVE  Len(job'[t]) <= Len(job[t])
  <2>1. job \in [Tasks \cup Callers -> Seq(KeySet)] /\ t \notin Callers
    BY <1>1, CallersAssumption DEF TypeInv, TypeOK, KeysOK
  <2>2. job[t] \in Seq(KeySet) /\ Len(job[t]) \in Nat /\ Len(<<>>) = 0
    BY <2>1
  <2>3. ~Takes
    BY <1>1 DEF Takes, ExitInv
  <2>4. CASE job'[t] = job[t]
    BY <2>2, <2>4
  <2>5. CASE Delivers
    BY <2>1, <2>2, <2>5 DEF Delivers
  <2>6. CASE GivesUp
    BY <2>1, <2>2, <2>6 DEF GivesUp
  <2>7. CASE Sends \/ Enqueues \/ Clears \/ Rests
    <3>1. job'[t] = job[t]
      BY <2>1, <2>7 DEF Sends, Enqueues, Clears, Rests
    <3> QED BY <2>4, <3>1
  <2> QED BY <1>1, <2>3, <2>5, <2>6, <2>7, StepMovesPrompts DEF PromptMoves
<1>2. TypeInv /\ TasksInv /\ ExitInv /\ [Next]_vars
        => [exit = "exited" => \A t \in Tasks : Len(job'[t]) <= Len(job[t])]_vars
  BY <1>1
<1> QED BY <1>2, ExitCorrect, PTL DEF Spec, ExitQuiet

-----------------------------------------------------------------------------
(* Why the iterators end                                                   *)

(* states() only grows.                                                    *)
LEMMA StatesGrow ==
  ASSUME TypeInv, [Next]_vars, NEW i \in DOMAIN statesQ
  PROVE  i \in DOMAIN statesQ' /\ statesQ'[i] = statesQ[i]
<1>1. statesQ \in Seq(States)
  BY DEF TypeInv, TypeOK, OutputOK
<1>2. \A s : /\ i \in DOMAIN Append(statesQ, s) /\ Append(statesQ, s)[i] = statesQ[i]
             /\ \A r : /\ i \in DOMAIN Append(Append(statesQ, s), r)
                       /\ Append(Append(statesQ, s), r)[i] = statesQ[i]
  BY <1>1
<1>3. ASSUME NEW ev, NEW q, Handle(ev, q) PROVE statesQ' = q \/ \E s : statesQ' = Append(q, s)
  BY <1>3 DEF Handle
<1>4. WithBaseline = statesQ \/ WithBaseline = Append(statesQ, state)
  BY DEF WithBaseline
<1>5. \/ UNCHANGED statesQ \/ statesQ' = WithBaseline
      \/ \E s : statesQ' = Append(statesQ, s) \/ statesQ' = Append(WithBaseline, s)
  BY <1>3 DEF Next, EventConsumer, ReplayEvent, LiveEvent, EventEntered,
     EventFlushed, EventStop, FallbackFires, FallbackEntered, OnLive,
     MessageStop, SpinnerStart, SpinnerEnds, Grace, GraceTick, GraceFlushed,
     GraceStop, Probe, ProbeFails, ProbeStop, TriggerSafety, Injection,
     KeyDelivered, KeyFails, Client, SendPrompt, Interrupt, Return, DropToTui,
     DropMarks, AExit, ExitBegins, ExitSnapshot, ExitCancels, World, BacklogRead, ClaudeExits,
     PaneKilled, output, vars
<1> QED BY <1>2, <1>4, <1>5

(* What ends an iterator: the exit, or a transition to Dead in the live    *)
(* phase.                                                                  *)
LEMMA WhatEnds ==
  ASSUME TypeInv, TasksInv, [Next]_vars, ended' # ended
  PROVE  exit' = "exited" \/ (live' /\ IsDead(state'))
<1>1. ASSUME NEW s, Terminate(s), state' = s PROVE IsDead(state')
  BY <1>1 DEF Terminate
<1>2. ASSUME NEW ev, NEW q, Handle(ev, q) PROVE IsDead(state')
  BY <1>1, <1>2 DEF Handle
<1>3. ASSUME NEW t, NEW trigger, TriggerSafety(t, trigger) PROVE IsDead(state')
  BY <1>1, <1>3 DEF TriggerSafety
<1>4. CASE EventConsumer
  BY <1>2, <1>4 DEF EventConsumer, ReplayEvent, LiveEvent, EventEntered,
     EventFlushed, EventStop, output
<1>5. CASE SpinnerEnds \/ Grace \/ Probe
  <2>1. /\ UNCHANGED live
        /\ \E t \in LiveTasks : \E trigger : TriggerSafety(t, trigger) /\ pc[t] # "off"
    BY <1>5 DEF SpinnerEnds, Grace, GraceTick, GraceFlushed, GraceStop, Probe,
       ProbeFails, ProbeStop, LiveTasks, output
  <2> QED BY <1>3, <2>1 DEF TasksInv, Created
<1>6. CASE ~(EventConsumer \/ SpinnerEnds \/ Grace \/ Probe)
  BY <1>6 DEF Next, FallbackFires, FallbackEntered, OnLive, MessageStop,
     SpinnerStart, Injection, KeyDelivered, KeyFails, Client, SendPrompt,
     Interrupt, Return, DropToTui, DropMarks, AExit, ExitBegins, ExitSnapshot,
     ExitCancels, CancelFrom, World, BacklogRead, ClaudeExits, PaneKilled, output, vars
<1> QED BY <1>4, <1>5, <1>6

(* An iterator never ends on a consumer that cannot tell why: whichever    *)
(* task ends it, states() has a Dead by then, or __aexit__ has returned.   *)
THEOREM EndsExplained == Spec => []EndsAreExplained
<1>1. Init => EndsAreExplained
  BY DEF Init, EndsAreExplained
<1>2. ASSUME TypeInv, TasksInv, LiveInv, LiveInv', TypeInv', EndsAreExplained, [Next]_vars
      PROVE  EndsAreExplained'
  <2>1. exit = "exited" => exit' = "exited"
    BY <1>2 DEF Next, EventConsumer, ReplayEvent, LiveEvent, EventEntered,
       EventFlushed, EventStop, FallbackFires, FallbackEntered, OnLive,
       MessageStop, SpinnerStart, SpinnerEnds, Grace, GraceTick, GraceFlushed,
       GraceStop, Probe, ProbeFails, ProbeStop, Injection, KeyDelivered,
       KeyFails, Client, SendPrompt, Interrupt, Return, DropToTui, DropMarks,
       AExit, ExitBegins, ExitSnapshot, ExitCancels, World, BacklogRead, ClaudeExits, PaneKilled,
       exiting, vars
  <2>2. CASE ended' = ended
    BY <1>2, <2>1, <2>2, StatesGrow DEF EndsAreExplained
  <2>3. CASE live' /\ IsDead(state')
    <3>1. Shown' = state' /\ statesQ' \in Seq(States)
      BY <1>2, <2>3 DEF LiveInv, Entered, TypeInv, TypeOK, OutputOK, Expired,
         IsBlocked, IsDead
    <3>2. statesQ' # <<>> /\ IsDead(statesQ'[Len(statesQ')])
      BY <2>3, <3>1 DEF Shown, IsDead, None
    <3>3. Len(statesQ') \in DOMAIN statesQ'
      BY <3>1, <3>2
    <3> QED BY <3>2, <3>3 DEF EndsAreExplained
  <2> QED BY <1>2, <2>2, <2>3, WhatEnds DEF EndsAreExplained
<1>3. TypeInv /\ TasksInv /\ LiveInv /\ EndsAreExplained /\ [Next]_vars
        => (TypeInv /\ TasksInv /\ LiveInv /\ EndsAreExplained)'
  BY <1>2, TypeStep, TasksStep, LiveStep
<1> QED BY <1>1, <1>3, TypeInit, TasksInit, LiveInit, PTL DEF Spec
=============================================================================
