-------------------------- MODULE SessionStateProofs --------------------------
(***************************************************************************)
(* What the transition functions return, for every state and every event.  *)
(***************************************************************************)
EXTENDS SessionState, TLAPS

PrimaryValues == Sids \cup {EmptySid, NoSid}

(* The states the code constructs are states.                              *)
LEMMA Constructed ==
  /\ None \in States
  /\ \A reason \in IdleReasons : Idle(reason) \in States
  /\ \A tool \in ToolNames : Working(tool) \in States
  /\ \A kind \in BlockKinds, tool \in ToolNames, request \in Requests \cup {NoRequest} :
       Blocked(kind, tool, request) \in States
  /\ \A reason \in DeadReasons : Dead(reason) \in States
BY DEF States, None, Idle, Working, Blocked, Dead

(* A blocked state has the fields of one, and marking it sets one of them.  *)
LEMMA BlockedFields ==
  ASSUME NEW s \in States, IsBlocked(s)
  PROVE  /\ s.request \in Requests \cup {NoRequest} /\ s.expired \in BOOLEAN
         /\ Marked(s) \in States /\ IsBlocked(Marked(s))
         /\ Marked(s).request = s.request /\ Marked(s).expired
<1>1. s \in [class : {"Blocked"}, kind : BlockKinds, tool : ToolNames,
             request : Requests \cup {NoRequest}, expired : BOOLEAN]
  BY DEF States, IsBlocked
<1> QED
  BY <1>1 DEF Marked, States, IsBlocked

(* A hook event of the primary leads to a state.                           *)
LEMMA HookTargetTyped ==
  ASSUME NEW st \in States, NEW ev \in HookEvents
  PROVE  HookTarget(st, ev) \in States
<1>1. ev.tool \in ToolNames /\ ev.request \in Requests \cup {NoRequest}
  BY DEF HookEvents
<1>2. KindOf(ev.tool) \in BlockKinds
  BY DEF KindOf, BlockKinds
<1>3. NoTool \in ToolNames /\ "stop" \in IdleReasons /\ NoRequest \in Requests \cup {NoRequest}
  BY DEF ToolNames, IdleReasons
<1> QED BY <1>1, <1>2, <1>3, Constructed DEF HookTarget

(* apply keeps the types of what it is given.                              *)
LEMMA ApplyTyped ==
  ASSUME NEW st \in States, NEW prim \in PrimaryValues,
         NEW kn \in SUBSET Sids, NEW ev \in HookEvents
  PROVE  /\ Apply(st, prim, kn, ev).state \in States
         /\ Apply(st, prim, kn, ev).primary \in PrimaryValues
         /\ Apply(st, prim, kn, ev).known \in SUBSET Sids
         /\ Apply(st, prim, kn, ev).emit \in BOOLEAN
<1>1. HookTarget(st, ev) \in States
  BY HookTargetTyped
<1>2. Idle("start") \in States /\ Dead("session_end") \in States
  BY Constructed DEF IdleReasons, DeadReasons
<1>3. Learn(kn, ev.sid) \in SUBSET Sids /\ ev.sid \in PrimaryValues
  BY DEF Learn, HookEvents, PrimaryValues
<1> QED BY <1>1, <1>2, <1>3 DEF Apply, PrimaryValues, Emits

(* A step of apply that shows nothing leaves the state as it was.          *)
LEMMA ApplySilent ==
  ASSUME NEW st, NEW prim, NEW kn, NEW ev, ~Apply(st, prim, kn, ev).emit
  PROVE  Apply(st, prim, kn, ev).state = st
BY DEF Apply, Emits

(* apply_safety_net keeps the type of the state.                           *)
LEMMA SafetyNetTyped ==
  ASSUME NEW st \in States, NEW trigger \in Triggers
  PROVE  /\ ApplySafetyNet(st, trigger).state \in States
         /\ ApplySafetyNet(st, trigger).emit \in BOOLEAN
<1>1. trigger # "spinner_grace" => Dead(trigger) \in States
  BY Constructed DEF Triggers, DeadReasons
<1>2. Idle("interrupted") \in States
  BY Constructed DEF IdleReasons
<1> QED BY <1>1, <1>2 DEF ApplySafetyNet

(* A trigger that shows nothing leaves the state as it was.                *)
LEMMA SafetyNetSilent ==
  ASSUME NEW st, NEW trigger, ~ApplySafetyNet(st, trigger).emit
  PROVE  ApplySafetyNet(st, trigger).state = st
BY DEF ApplySafetyNet
=============================================================================
