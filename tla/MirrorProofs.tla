---------------------------- MODULE MirrorProofs ----------------------------
(***************************************************************************)
(* The two folds of Mirror.tla agree for every set of sessions, panes and   *)
(* events, and logs of every length; and so does the third, which a         *)
(* generator of Discovery.tla begins in the middle of the log.             *)
(***************************************************************************)
EXTENDS Discovery, BindingProofs

(* What an induction over the log needs beside the two properties: sound    *)
(* entries, and that a Dead state comes from a fatal end only.             *)
MirrorInv ==
  /\ binding \in Bindings /\ Sound(binding)
  /\ line \in Nat /\ binding.last <= line
  /\ primary \in Sids \cup {NoSid}
  /\ IsDead(state) => over
  /\ MirrorsUntilEnd
  /\ HistoryKnown

(* The primary after an event, of a session that is not at its fatal end.   *)
LEMMA ApplyPrimary ==
  ASSUME NEW st, NEW prim, NEW kn, NEW ev \in HookEvents, ~IsDead(st),
         ~IsDead(Apply(st, prim, kn, ev).state)
  PROVE  Apply(st, prim, kn, ev).primary =
           IF ev.type = "session_start" /\ prim = NoSid THEN ev.sid
           ELSE IF ev.type = "session_end" /\ ev.sid = prim /\ ~EndsNothing(ev)
                THEN NoSid ELSE prim
<1>1. CASE ev.type = "session_start"
  BY <1>1 DEF Apply
<1>2. CASE ev.type = "session_end" /\ ev.sid = prim /\ ~EndsNothing(ev)
  <2>1. ev.reason = "clear"
    BY <1>2 DEF Apply, IsDead, Dead
  <2> QED
    BY <1>2, <2>1 DEF Apply
<1>3. CASE ev.type # "session_start"
           /\ ~(ev.type = "session_end" /\ ev.sid = prim /\ ~EndsNothing(ev))
  BY <1>3 DEF Apply
<1> QED
  BY <1>1, <1>2, <1>3

(* Whatever an event does, its session is known afterwards.                *)
LEMMA ApplyKnown ==
  ASSUME NEW st, NEW prim, NEW kn, NEW ev
  PROVE  Apply(st, prim, kn, ev).known = Learn(kn, ev.sid)
  BY DEF Apply

LEMMA MirrorInit == Init => MirrorInv
<1> SUFFICES ASSUME Init PROVE MirrorInv
  OBVIOUS
<1>1. Hosted(NoBinding) = {}
  BY DEF NoBinding, Hosted
<1>2. ~IsDead(None)
  BY DEF IsDead, None
<1>3. NoBinding.current = NoSid
  BY DEF NoBinding
<1> QED
  BY <1>1, <1>2, <1>3, NoBindingSound DEF Init, MirrorInv, MirrorsUntilEnd, HistoryKnown

LEMMA MirrorStep == MirrorInv /\ [Next]_vars => MirrorInv'
<1> SUFFICES ASSUME MirrorInv, [Next]_vars PROVE MirrorInv'
  OBVIOUS
<1>1. CASE UNCHANGED vars
  BY <1>1 DEF vars, MirrorInv, MirrorsUntilEnd, HistoryKnown
<1>2. CASE Next
  <2> PICK ev \in Events, pane \in Panes : Fold(ev, pane)
    BY <1>2 DEF Next
  <2> DEFINE step == Apply(state, primary, known, ev)
             n == Step(binding, ev, pane, line + 1)
  <2>1. /\ ev \in HookEvents /\ ev.sid \in Sids \cup {EmptySid}
        /\ ev.type = "session_start" => ev.sid \in Sids
        /\ EmptySid \notin Sids \cup {NoSid}
    BY EventsAssumption, IdAssumption DEF HookEvents
  <2>2. /\ binding \in Bindings /\ Sound(binding) /\ line \in Nat
        /\ line + 1 \in Nat /\ binding.last < line + 1
        /\ primary \in Sids \cup {NoSid}
    BY DEF MirrorInv, Bindings
  <2>3. /\ state' = step.state /\ primary' = step.primary /\ known' = step.known
        /\ over' = (over \/ IsDead(step.state))
        /\ binding' = n /\ line' = line + 1
    BY DEF Fold
  <2>4. n \in Bindings /\ Sound(n) /\ n.last <= line + 1
    BY <2>1, <2>2, StepSound
  <2>5. primary' \in Sids \cup {NoSid}
    BY <2>1, <2>2, <2>3 DEF Apply
  <2>6. IsDead(state)' => over'
    BY <2>3 DEF IsDead
  <2>7. MirrorsUntilEnd'
    <3> SUFFICES ASSUME ~over' PROVE n.current = step.primary
      BY <2>3 DEF MirrorsUntilEnd
    <3>1. ~over /\ ~IsDead(step.state)
      BY <2>3
    <3>2. binding.current = primary /\ ~IsDead(state)
      BY <3>1 DEF MirrorInv, MirrorsUntilEnd
    <3>3. n.current = IF ev.type = "session_start" /\ binding.current = NoSid THEN ev.sid
                      ELSE IF Ends(binding, ev) THEN NoSid ELSE binding.current
      BY <2>1, <2>2, StepAttaches
    <3>4. step.primary = IF ev.type = "session_start" /\ primary = NoSid THEN ev.sid
                         ELSE IF ev.type = "session_end" /\ ev.sid = primary /\ ~EndsNothing(ev)
                              THEN NoSid ELSE primary
      BY <2>1, <3>1, <3>2, ApplyPrimary
    <3> QED
      BY <3>2, <3>3, <3>4 DEF Ends
  <2>8. HistoryKnown'
    <3>1. Hosted(n) \subseteq Hosted(binding) \cup ({ev.sid} \ {EmptySid})
      BY <2>1, <2>2, StepAttaches
    <3>2. step.known = known \cup ({ev.sid} \ {EmptySid})
      BY ApplyKnown DEF Learn
    <3>3. Hosted(binding) \subseteq known
      BY DEF MirrorInv, HistoryKnown
    <3> QED
      BY <2>3, <3>1, <3>2, <3>3 DEF HistoryKnown
  <2> QED
    BY <2>2, <2>3, <2>4, <2>5, <2>6, <2>7, <2>8 DEF MirrorInv
<1> QED
  BY <1>1, <1>2

(* bindings.py, _step against state_machine.apply: until the first fatal    *)
(* session_end both attach, keep and release the same session.             *)
THEOREM Mirrors == Spec => []MirrorsUntilEnd
<1>1. MirrorInv => MirrorsUntilEnd
  BY DEF MirrorInv
<1> QED
  BY <1>1, MirrorInit, MirrorStep, PTL DEF Spec

(* Every session of an entry's history is one whose transcripts a Backend   *)
(* of that tmux session forwards.                                          *)
THEOREM HistoryForwarded == Spec => []HistoryKnown
<1>1. MirrorInv => HistoryKnown
  BY DEF MirrorInv
<1> QED
  BY <1>1, MirrorInit, MirrorStep, PTL DEF Spec

-----------------------------------------------------------------------------
(* Discovery.tla.  Two entries that attach the same session in the same     *)
(* pane, whatever else they remember.                                      *)
Agree(b, c) == b.current = c.current /\ (Live(b) => b.pane = c.pane)

(* An entry that attaches a session has a history.                         *)
Hosts(b) == b \in Bindings /\ (Live(b) => Bound(b))

(* A step keeps it so.                                                     *)
LEMMA StepHosts ==
  ASSUME NEW b, Hosts(b), NEW ev \in HookEvents, NEW pane \in Panes, NEW ts \in Nat
  PROVE  Hosts(Step(b, ev, pane, ts))
<1>1. /\ b \in Bindings /\ b.history \in Seq(Sids) /\ (Live(b) => Bound(b))
      /\ ev.sid \in Sids \cup {EmptySid} /\ NoSid \notin Sids
  BY IdAssumption DEF Hosts, Bindings, HookEvents
<1>2. ASSUME ev.sid \in Sids PROVE Hosts(Fresh(ev.sid, pane, ts))
  BY <1>2 DEF Hosts, Fresh, Bindings, Bound
<1>3. ASSUME ev.sid \in Sids, Bound(b) PROVE Hosts(Reattach(b, ev.sid, pane, ts))
  <2>1. Append(b.history, ev.sid) \in Seq(Sids) /\ Append(b.history, ev.sid) # <<>>
    BY <1>1, <1>3
  <2> QED
    BY <1>1, <1>3, <2>1 DEF Hosts, Reattach, Bindings, Bound
<1>4. Hosts(Detach(b, ts))
  BY <1>1 DEF Hosts, Detach, Bindings, Live
<1>5. \A p \in {pane, b.pane} : Hosts(Touch(b, p, ts))
  BY <1>1 DEF Hosts, Touch, Bindings, Live, Bound
<1> QED
  BY <1>1, <1>2, <1>3, <1>4, <1>5 DEF Step, Hosts

(* Entries that agree do so after the same event.                          *)
LEMMA StepAgree ==
  ASSUME NEW b, NEW c, Hosts(b), Hosts(c), Agree(b, c),
         NEW ev \in HookEvents, NEW pane, NEW ts
  PROVE  Agree(Step(b, ev, pane, ts), Step(c, ev, pane, ts))
<1> SUFFICES ASSUME ev.sid # EmptySid PROVE Agree(Step(b, ev, pane, ts), Step(c, ev, pane, ts))
  BY DEF Step
<1>1. /\ b.current = c.current /\ (Live(b) => Bound(b) /\ Bound(c) /\ b.pane = c.pane)
      /\ ev.sid \in Sids /\ NoSid # ev.sid
  BY IdAssumption DEF Hosts, Agree, Live, HookEvents
<1>2. CASE Live(b)
  BY <1>1, <1>2 DEF Agree, Live, Step, Ends, Detach, Touch
<1>3. CASE ~Live(b) /\ ev.type = "session_start"
  BY <1>1, <1>3 DEF Agree, Live, Step, Fresh, Reattach
<1>4. CASE ~Live(b) /\ ev.type # "session_start"
  BY <1>1, <1>4 DEF Agree, Live, Step, Ends, Touch
<1> QED
  BY <1>2, <1>3, <1>4

LogEntries ==
  [ev : Events, pane : Panes, ts : Nat,
   folds : [entry : {b \in Bindings : Hosts(b)}, primary : Sids \cup {NoSid}, over : BOOLEAN]]

Before(i) == unread[i - 1].folds.entry

(* The lines behind the generator's position lead, step by step, from what  *)
(* it has read to the registry's fold of the whole log.                    *)
UnreadInv ==
  /\ unread \in Seq(LogEntries)
  /\ \A i \in DOMAIN unread : i # 1 =>
       unread[i].folds.entry = Step(Before(i), unread[i].ev, unread[i].pane, unread[i].ts)
  /\ unread # <<>> => unread[Len(unread)].folds.entry = binding
  /\ \A i \in DOMAIN unread :
       LET folds == unread[i].folds IN ~folds.over => folds.entry.current = folds.primary

(* What the generator has folded agrees with the registry at its position.  *)
ViewInv ==
  /\ Hosts(view) /\ clean \in BOOLEAN
  /\ ~Opened => view = NoBinding /\ unread = <<>>
  /\ Opened /\ clean /\ unread = <<>> => Agree(view, binding)
  /\ Opened /\ clean /\ unread # <<>> =>
       Agree(Step(view, unread[1].ev, unread[1].pane, unread[1].ts), unread[1].folds.entry)

DiscoveryInv == MirrorInv /\ over \in BOOLEAN /\ UnreadInv /\ ViewInv /\ FoundExact

LEMMA MirrorHosts == MirrorInv => Hosts(binding)
<1> SUFFICES ASSUME MirrorInv, Live(binding) PROVE Bound(binding)
  BY DEF MirrorInv, Hosts
<1>1. binding # NoBinding
  BY DEF Live, NoBinding
<1> QED
  BY <1>1 DEF MirrorInv, Sound

LEMMA DiscoveryStarts == DiscoveryInit => DiscoveryInv
<1> SUFFICES ASSUME DiscoveryInit PROVE DiscoveryInv
  OBVIOUS
<1>1. MirrorInv /\ over \in BOOLEAN
  BY MirrorInit DEF DiscoveryInit, Init
<1>2. UnreadInv /\ FoundExact
  BY DEF DiscoveryInit, UnreadInv, FoundExact
<1>3. Hosts(NoBinding)
  BY NoBindingSound DEF NoBinding, Hosts, Live
<1>4. ViewInv
  BY <1>3 DEF DiscoveryInit, ViewInv, Opened
<1> QED
  BY <1>1, <1>2, <1>4 DEF DiscoveryInv

(* A line is logged.                                                       *)
LEMMA LogDiscovery ==
  ASSUME DiscoveryInv, NEW ev \in Events, NEW pane \in Panes, Log(ev, pane)
  PROVE  DiscoveryInv'
<1> DEFINE e == [ev |-> ev, pane |-> pane, ts |-> line + 1,
                 folds |-> Folded(binding', primary', over')]
<1>1. MirrorInv'
  BY MirrorStep DEF DiscoveryInv, Next, Log
<1>2. /\ over' \in BOOLEAN /\ binding' = Step(binding, ev, pane, line + 1)
      /\ line \in Nat /\ line + 1 \in Nat /\ UNCHANGED <<phase, yielded, view, clean, found>>
  BY DEF Log, Fold, DiscoveryInv, MirrorInv
<1>3. Hosts(binding) /\ Hosts(binding') /\ Hosts(view) /\ ev \in HookEvents
  <2>1. Hosts(binding) /\ Hosts(view) /\ ev \in HookEvents
    BY MirrorHosts, EventsAssumption DEF DiscoveryInv, ViewInv
  <2>2. Hosts(Step(binding, ev, pane, line + 1))
    BY <1>2, <2>1, StepHosts
  <2> QED
    BY <1>2, <2>1, <2>2
<1>4. e \in LogEntries /\ e.ev = ev /\ e.pane = pane /\ e.ts = line + 1
      /\ e.folds.entry = binding' /\ e.folds.primary = primary' /\ e.folds.over = over'
  BY <1>1, <1>2, <1>3 DEF LogEntries, Folded, MirrorInv, Hosts
<1>5. FoundExact'
  BY <1>2 DEF DiscoveryInv, FoundExact
<1>6. CASE ~Opened
  <2>1. unread' = unread /\ unread = <<>> /\ ~Opened'
    BY <1>2, <1>6 DEF Log, DiscoveryInv, ViewInv, Opened
  <2>2. UnreadInv'
    BY <2>1 DEF UnreadInv
  <2>3. ViewInv'
    <3>1. Hosts(view) /\ clean \in BOOLEAN /\ view = NoBinding
      BY <1>6 DEF DiscoveryInv, ViewInv
    <3>2. view' = view /\ clean' = clean
      BY <1>2
    <3> QED
      BY <2>1, <3>1, <3>2 DEF ViewInv
  <2> QED
    BY <1>1, <1>2, <1>5, <2>2, <2>3 DEF DiscoveryInv
<1>7. CASE Opened
  <2>1. unread' = Append(unread, e) /\ Opened'
    BY <1>2, <1>7 DEF Log, Opened
  <2>2. ~over' => binding'.current = primary'
    BY <1>1 DEF MirrorInv, MirrorsUntilEnd
  <2> HIDE DEF e
  <2>3. /\ unread \in Seq(LogEntries) /\ unread' \in Seq(LogEntries)
        /\ Len(unread) \in Nat /\ DOMAIN unread = 1 .. Len(unread)
        /\ Len(unread') = Len(unread) + 1 /\ DOMAIN unread' = 1 .. Len(unread) + 1
        /\ unread'[Len(unread) + 1] = e
        /\ \A i \in 1 .. Len(unread) : unread'[i] = unread[i]
    BY <1>4, <2>1 DEF DiscoveryInv, UnreadInv
  <2>4. CASE unread = <<>>
    <3>1. Len(unread) = 0 /\ DOMAIN unread' = {1} /\ unread'[1] = e /\ unread' # <<>>
      BY <2>3, <2>4
    <3>2. UnreadInv'
      BY <1>4, <2>2, <2>3, <3>1 DEF UnreadInv
    <3>3. clean => Agree(Step(view, e.ev, e.pane, e.ts), e.folds.entry)
      BY <1>2, <1>3, <1>4, <1>7, <2>4, StepAgree DEF DiscoveryInv, ViewInv
    <3>4. ViewInv'
      BY <1>2, <2>1, <3>1, <3>3 DEF DiscoveryInv, ViewInv
    <3> QED
      BY <1>1, <1>2, <1>5, <3>2, <3>4 DEF DiscoveryInv
  <2>5. CASE unread # <<>>
    <3>1. Len(unread) >= 1 /\ unread' # <<>> /\ unread'[1] = unread[1]
          /\ unread'[Len(unread)] = unread[Len(unread)] /\ unread[Len(unread)].folds.entry = binding
      BY <2>3, <2>5 DEF DiscoveryInv, UnreadInv
    <3>2. ASSUME NEW i \in DOMAIN unread', i # 1
          PROVE  unread'[i].folds.entry =
                   Step(unread'[i - 1].folds.entry, unread'[i].ev, unread'[i].pane, unread'[i].ts)
      <4>1. CASE i = Len(unread) + 1
        <5>1. i - 1 = Len(unread) /\ unread'[i] = e /\ unread'[i - 1].folds.entry = binding
          BY <2>3, <3>1, <4>1
        <5> QED
          BY <1>2, <1>4, <5>1
      <4>2. CASE i \in 1 .. Len(unread)
        <5>1. i - 1 \in 1 .. Len(unread) /\ unread'[i] = unread[i] /\ unread'[i - 1] = unread[i - 1]
          BY <2>3, <3>2, <4>2
        <5> QED
          BY <2>3, <3>2, <4>2, <5>1 DEF DiscoveryInv, UnreadInv, Before
      <4> QED
        BY <2>3, <4>1, <4>2
    <3>3. ASSUME NEW i \in DOMAIN unread', ~unread'[i].folds.over
          PROVE  unread'[i].folds.entry.current = unread'[i].folds.primary
      BY <1>4, <2>2, <2>3, <3>3 DEF DiscoveryInv, UnreadInv
    <3>4. unread'[Len(unread')].folds.entry = binding'
      BY <1>4, <2>3
    <3>5. UnreadInv'
      BY <2>3, <3>2, <3>3, <3>4 DEF UnreadInv, Before
    <3>6. ViewInv'
      BY <1>2, <1>7, <2>1, <2>5, <3>1 DEF DiscoveryInv, ViewInv
    <3> QED
      BY <1>1, <1>2, <1>5, <3>5, <3>6 DEF DiscoveryInv
  <2> QED
    BY <2>4, <2>5
<1> QED
  BY <1>6, <1>7

(* The generator reads a line.                                             *)
LEMMA ReadsDiscovery ==
  ASSUME DiscoveryInv, Reads
  PROVE  DiscoveryInv'
<1> DEFINE e == unread[1]
           rest == Tail(unread)
<1>1. /\ phase = "tail" /\ Opened /\ unread # <<>> /\ unread' = rest /\ Head(unread) = e
      /\ unread \in Seq(LogEntries) /\ UNCHANGED <<clean, state, primary, known, binding, over, line>>
      /\ view' = Step(view, e.ev, e.pane, e.ts) /\ phase' \in {"tail", "yielded"}
  BY DEF Reads, Opened, DiscoveryInv, UnreadInv, vars
<1>2. /\ Len(unread) \in Nat /\ Len(unread) >= 1 /\ DOMAIN unread = 1 .. Len(unread)
      /\ rest \in Seq(LogEntries) /\ Len(rest) = Len(unread) - 1
      /\ DOMAIN rest = 1 .. Len(unread) - 1
      /\ \A i \in 1 .. Len(unread) - 1 : rest[i] = unread[i + 1]
  BY <1>1
<1>3. /\ e.ev \in HookEvents /\ e.pane \in Panes /\ e.ts \in Nat
      /\ Hosts(e.folds.entry)
  <2>1. e \in LogEntries
    BY <1>1, <1>2
  <2>2. e.ev \in Events /\ e.pane \in Panes /\ e.ts \in Nat /\ Hosts(e.folds.entry)
    BY <2>1 DEF LogEntries
  <2> QED
    BY <2>2, EventsAssumption
<1>4. Hosts(view') /\ (clean => Agree(view', e.folds.entry)) /\ Opened'
  BY <1>1, <1>3, StepHosts DEF DiscoveryInv, ViewInv, Opened
<1> HIDE DEF rest
<1>5. MirrorInv' /\ over' \in BOOLEAN
  BY <1>1 DEF DiscoveryInv, MirrorInv, MirrorsUntilEnd, HistoryKnown
<1>6. UnreadInv'
  <2>1. ASSUME NEW i \in DOMAIN rest, i # 1
        PROVE  rest[i].folds.entry =
                 Step(rest[i - 1].folds.entry, rest[i].ev, rest[i].pane, rest[i].ts)
    <3>1. /\ i + 1 \in DOMAIN unread /\ i + 1 # 1 /\ (i + 1) - 1 = i
          /\ i - 1 \in DOMAIN rest /\ (i - 1) + 1 = i
      <4>1. i \in 1 .. Len(unread) - 1
        BY <1>2
      <4>2. i + 1 \in 1 .. Len(unread) /\ i - 1 \in 1 .. Len(unread) - 1
        BY <1>2, <2>1, <4>1
      <4> QED
        BY <1>2, <2>1, <4>1, <4>2
    <3>2. rest[i] = unread[i + 1] /\ rest[i - 1] = unread[i]
      BY <1>2, <3>1
    <3> QED
      BY <3>1, <3>2 DEF DiscoveryInv, UnreadInv, Before
  <2>2. rest # <<>> => rest[Len(rest)].folds.entry = binding
    BY <1>1, <1>2 DEF DiscoveryInv, UnreadInv
  <2>3. ASSUME NEW i \in DOMAIN rest, ~rest[i].folds.over
        PROVE  rest[i].folds.entry.current = rest[i].folds.primary
    <3>1. i + 1 \in DOMAIN unread /\ rest[i] = unread[i + 1]
      BY <1>2
    <3> QED
      BY <2>3, <3>1 DEF DiscoveryInv, UnreadInv
  <2> QED
    BY <1>1, <1>2, <2>1, <2>2, <2>3 DEF UnreadInv, Before
<1>7. ViewInv'
  <2>1. CASE rest = <<>>
    <3>1. Len(unread) = 1
      <4>1. Len(rest) = 0
        BY <2>1
      <4>2. Len(unread) \in Nat /\ Len(rest) = Len(unread) - 1
        BY <1>2
      <4> HIDE DEF rest
      <4> QED
        BY <4>1, <4>2
    <3>2. e.folds.entry = binding
      BY <1>1, <3>1 DEF DiscoveryInv, UnreadInv
    <3> QED
      BY <1>1, <1>4, <2>1, <3>2 DEF DiscoveryInv, ViewInv
  <2>2. CASE rest # <<>>
    <3> DEFINE n == unread[2]
    <3>1. Len(unread) >= 2 /\ rest[1] = n /\ 2 \in DOMAIN unread
      BY <1>2, <2>2
    <3>2. n.folds.entry = Step(e.folds.entry, n.ev, n.pane, n.ts)
      BY <3>1 DEF DiscoveryInv, UnreadInv, Before
    <3>3. n.ev \in HookEvents
      <4>1. n \in LogEntries
        BY <1>1, <3>1
      <4> QED
        BY <4>1, EventsAssumption DEF LogEntries
    <3>4. clean => Agree(Step(view', n.ev, n.pane, n.ts), n.folds.entry)
      BY <1>3, <1>4, <3>2, <3>3, StepAgree
    <3> HIDE DEF n
    <3> QED
      BY <1>1, <1>4, <2>2, <3>1, <3>4 DEF DiscoveryInv, ViewInv
  <2> QED
    BY <2>1, <2>2
<1>8. FoundExact'
  <2>1. CASE UNCHANGED found
    BY <2>1 DEF DiscoveryInv, FoundExact
  <2>2. CASE Live(view') /\ Yield(view', e.folds)
    <3>1. ~e.folds.over => e.folds.entry.current = e.folds.primary
      BY <1>2 DEF DiscoveryInv, UnreadInv
    <3>2. clean' => /\ view'.current = e.folds.entry.current
                    /\ view'.pane = e.folds.entry.pane
                    /\ ~e.folds.over => view'.current = e.folds.primary
      BY <1>1, <1>4, <2>2, <3>1 DEF Agree
    <3> HIDE DEF e
    <3> QED
      BY <2>2, <3>2 DEF DiscoveryInv, FoundExact, Yield
  <2> QED
    BY <1>1, <2>1, <2>2 DEF Reads
<1> QED
  BY <1>5, <1>6, <1>7, <1>8 DEF DiscoveryInv

(* The generator's other steps.                                            *)
LEMMA GeneratorDiscovery ==
  ASSUME DiscoveryInv, Resumes \/ Opens \/ \E existing \in BOOLEAN : Starts(existing)
  PROVE  DiscoveryInv'
<1>1. UNCHANGED <<state, primary, known, binding, over, line, unread, view>>
  BY DEF Resumes, Opens, Starts, vars
<1>2. MirrorInv' /\ over' \in BOOLEAN /\ UnreadInv'
  BY <1>1 DEF DiscoveryInv, MirrorInv, MirrorsUntilEnd, HistoryKnown, UnreadInv, Before
<1>3. CASE Resumes
  BY <1>1, <1>2, <1>3 DEF Resumes, DiscoveryInv, ViewInv, Opened, FoundExact
<1>4. CASE Opens
  <2>1. view = NoBinding /\ unread = <<>>
    BY <1>4 DEF Opens, DiscoveryInv, ViewInv, Opened
  <2>2. clean' => Agree(view, binding)
    BY <1>4, <2>1 DEF Opens, Agree, Live, NoBinding
  <2>3. Opened' /\ clean' \in BOOLEAN /\ found' = found
    BY <1>4 DEF Opens, Opened, Live
  <2>4. ViewInv'
    BY <1>1, <2>1, <2>2, <2>3 DEF DiscoveryInv, ViewInv, Agree, Live
  <2> QED
    BY <1>2, <2>3, <2>4 DEF DiscoveryInv, FoundExact
<1>5. ASSUME NEW existing \in BOOLEAN, Starts(existing) PROVE DiscoveryInv'
  <2>1. view = NoBinding /\ unread = <<>> /\ ~Opened' /\ clean' = TRUE
    BY <1>5 DEF Starts, DiscoveryInv, ViewInv, Opened
  <2>2. ViewInv'
    BY <1>1, <2>1 DEF DiscoveryInv, ViewInv
  <2>3. ~over => binding.current = primary
    BY DEF DiscoveryInv, MirrorInv, MirrorsUntilEnd
  <2>4. UNCHANGED found \/ Yield(binding, Folded(binding, primary, over))
    BY <1>5 DEF Starts
  <2>5. FoundExact'
    BY <2>3, <2>4 DEF DiscoveryInv, FoundExact, Yield, Folded
  <2> QED
    BY <1>2, <2>2, <2>5 DEF DiscoveryInv
<1> QED
  BY <1>3, <1>4, <1>5

LEMMA DiscoverySteps == DiscoveryInv /\ [DiscoveryNext]_discoveryVars => DiscoveryInv'
<1> SUFFICES ASSUME DiscoveryInv, [DiscoveryNext]_discoveryVars PROVE DiscoveryInv'
  OBVIOUS
<1>1. CASE UNCHANGED discoveryVars
  BY <1>1 DEF discoveryVars, vars, genVars, DiscoveryInv, MirrorInv, MirrorsUntilEnd,
              HistoryKnown, UnreadInv, Before, ViewInv, Opened, FoundExact
<1>2. CASE DiscoveryNext
  BY <1>2, LogDiscovery, ReadsDiscovery, GeneratorDiscovery DEF DiscoveryNext
<1> QED
  BY <1>1, <1>2

(* discover_tmux_sessions: what is yielded is what the registry and the     *)
(* Backend have at that line, when nobody was attached at the seek, for     *)
(* every log and every client, however late it asks for the next one.      *)
THEOREM FoundIsExact == DiscoverySpec => []FoundExact
<1>1. DiscoveryInv => FoundExact
  BY DEF DiscoveryInv
<1> QED
  BY <1>1, DiscoveryStarts, DiscoverySteps, PTL DEF DiscoverySpec
=============================================================================
