---------------------------- MODULE BindingProofs ----------------------------
(***************************************************************************)
(* What the fold _step of bindings.py preserves, for every entry, event,    *)
(* pane and timestamp.                                                     *)
(***************************************************************************)
EXTENDS Binding, TLAPS

(* A tmux session without an entry.                                        *)
LEMMA NoBindingSound == NoBinding \in Bindings /\ Sound(NoBinding) /\ NoBinding.last = 0
  BY DEF NoBinding, Bindings, Sound, Bound

(* The first session_start makes a sound entry.                            *)
LEMMA FreshSound ==
  ASSUME NEW sid \in Sids, NEW pane \in Panes, NEW ts \in Nat, 0 < ts
  PROVE  LET n == Fresh(sid, pane, ts)
         IN n \in Bindings /\ Sound(n) /\ n.last = ts /\ n.current = sid /\ Hosted(n) = {sid}
<1>1. sid # NoSid
  BY IdAssumption
<1> QED
  BY <1>1 DEF Fresh, Bindings, Sound, Bound, Hosted

(* A later event leaves an entry sound, wherever its pane is.              *)
LEMMA TouchSound ==
  ASSUME NEW b \in Bindings, Sound(b), Bound(b), NEW pane \in Panes \cup {NoPane},
         NEW ts \in Nat, b.last < ts
  PROVE  LET n == Touch(b, pane, ts)
         IN n \in Bindings /\ Sound(n) /\ n.last = ts /\ n.current = b.current
            /\ Hosted(n) = Hosted(b) /\ Bound(n)
  BY DEF Touch, Bindings, Sound, Bound, Hosted

(* The end of the attached session detaches it and keeps its history.      *)
LEMMA DetachSound ==
  ASSUME NEW b \in Bindings, Sound(b), Bound(b), NEW ts \in Nat, b.last < ts
  PROVE  LET n == Detach(b, ts)
         IN n \in Bindings /\ Sound(n) /\ n.last = ts /\ n.current = NoSid
            /\ Hosted(n) = Hosted(b) /\ Bound(n)
  BY DEF Detach, Bindings, Sound, Bound, Hosted

(* A session_start of a detached entry attaches, and keeps ids distinct.   *)
LEMMA ReattachSound ==
  ASSUME NEW b \in Bindings, Sound(b), Bound(b), NEW sid \in Sids, NEW pane \in Panes,
         NEW ts \in Nat, b.last < ts
  PROVE  LET n == Reattach(b, sid, pane, ts)
         IN n \in Bindings /\ Sound(n) /\ n.last = ts /\ n.current = sid
            /\ Hosted(n) = Hosted(b) \cup {sid} /\ Bound(n)
<1> DEFINE h == b.history
           n == Reattach(b, sid, pane, ts)
<1>1. sid # NoSid
  BY IdAssumption
<1>2. h \in Seq(Sids) /\ h # <<>> /\ \A i, j \in DOMAIN h : h[i] = h[j] => i = j
  BY DEF Bindings, Sound, Bound
<1>3. CASE sid \in Hosted(b)
  BY <1>1, <1>2, <1>3 DEF Reattach, Bindings, Sound, Bound, Hosted
<1>4. CASE sid \notin Hosted(b)
  <2> DEFINE g == Append(h, sid)
  <2>1. /\ n.history = g /\ n.current = sid /\ n.last = ts /\ n.ended = 0
        /\ n.first = b.first /\ n.pane = pane
        /\ n = [pane |-> pane, current |-> sid, history |-> g,
                first |-> b.first, last |-> ts, ended |-> 0]
    BY <1>4 DEF Reattach
  <2>2. /\ g \in Seq(Sids) /\ g # <<>>
        /\ DOMAIN g = DOMAIN h \cup {Len(h) + 1} /\ g[Len(h) + 1] = sid
        /\ Len(h) + 1 \notin DOMAIN h
        /\ \A i \in DOMAIN h : g[i] = h[i]
    BY <1>2
  <2>3. \A i \in DOMAIN h : h[i] # sid
    BY <1>4 DEF Hosted
  <2>4. \A i, j \in DOMAIN g : g[i] = g[j] => i = j
    <3> HIDE DEF g, h
    <3> QED
      BY <1>2, <2>2, <2>3
  <2>5. Hosted(n) = Hosted(b) \cup {sid}
    <3>1. Hosted(n) = {g[i] : i \in DOMAIN g} /\ Hosted(b) = {h[i] : i \in DOMAIN h}
      BY <2>1 DEF Hosted
    <3> HIDE DEF g, h, n
    <3> QED
      BY <3>1, <2>2
  <2>6. b.first \in Nat /\ b.last \in Nat /\ 0 < b.first /\ b.first <= b.last
    BY DEF Sound, Bindings
  <2>7. n \in Bindings
    BY <2>1, <2>2, <2>6 DEF Bindings
  <2>8. Bound(n)
    BY <2>1, <2>2 DEF Bound
  <2>9. Sound(n)
    <3> HIDE DEF n, g, h
    <3> QED
      BY <1>1, <2>1, <2>4, <2>5, <2>6, <2>8 DEF Sound
  <2> QED
    BY <2>1, <2>5, <2>7, <2>8, <2>9
<1> QED
  BY <1>3, <1>4

(* One event: an entry stays an entry, sound, and not newer than the event. *)
LEMMA StepSound ==
  ASSUME NEW b \in Bindings, Sound(b), NEW ev \in HookEvents, NEW pane \in Panes,
         NEW ts \in Nat, b.last < ts
  PROVE  LET n == Step(b, ev, pane, ts)
         IN n \in Bindings /\ Sound(n) /\ n.last <= ts
<1> DEFINE n == Step(b, ev, pane, ts)
<1>0. ev.sid \in Sids \cup {EmptySid} /\ b.last \in Nat /\ b.pane \in Panes \cup {NoPane} /\ 0 < ts
  BY DEF HookEvents, Bindings
<1>1. CASE n = b
  BY <1>0, <1>1
<1>2. CASE n = Fresh(ev.sid, pane, ts) /\ ev.sid # EmptySid
  BY <1>0, <1>2, FreshSound
<1>3. CASE n = Reattach(b, ev.sid, pane, ts) /\ ev.sid # EmptySid /\ Bound(b)
  BY <1>0, <1>3, ReattachSound
<1>4. CASE n = Detach(b, ts) /\ Bound(b)
  BY <1>0, <1>4, DetachSound
<1>5. CASE \E p \in {pane, b.pane} : n = Touch(b, p, ts) /\ Bound(b)
  BY <1>0, <1>5, TouchSound
<1> QED
  BY <1>1, <1>2, <1>3, <1>4, <1>5 DEF Step
(* Who is attached after an event, and whom the entry has hosted then.      *)
LEMMA StepAttaches ==
  ASSUME NEW b \in Bindings, Sound(b), NEW ev \in HookEvents,
         ev.type = "session_start" => ev.sid # EmptySid,
         NEW pane \in Panes, NEW ts \in Nat, b.last < ts
  PROVE  LET n == Step(b, ev, pane, ts)
         IN /\ n.current = IF ev.type = "session_start" /\ b.current = NoSid THEN ev.sid
                           ELSE IF Ends(b, ev) THEN NoSid ELSE b.current
            /\ Hosted(n) \subseteq Hosted(b) \cup ({ev.sid} \ {EmptySid})
<1> DEFINE n == Step(b, ev, pane, ts)
<1> SUFFICES ASSUME ev.sid # EmptySid
             PROVE  /\ n.current = IF ev.type = "session_start" /\ b.current = NoSid THEN ev.sid
                                   ELSE IF Ends(b, ev) THEN NoSid ELSE b.current
                    /\ Hosted(n) \subseteq Hosted(b) \cup {ev.sid}
  <2>1. CASE ev.sid = EmptySid
    <3>1. n = b /\ ev.type # "session_start" /\ b.current # ev.sid
      BY <2>1, IdAssumption DEF Step, Bindings
    <3> QED BY <3>1 DEF Ends
  <2>2. CASE ev.sid # EmptySid
    BY <2>2
  <2> QED BY <2>1, <2>2
<1>0. /\ ev.sid \in Sids /\ ev.sid # NoSid
      /\ b.last \in Nat /\ b.pane \in Panes \cup {NoPane} /\ 0 < ts
  BY IdAssumption DEF HookEvents, Bindings
<1>1. CASE ~Bound(b)
  <2>1. b = NoBinding /\ b.current = NoSid /\ ~Ends(b, ev)
    BY <1>0, <1>1 DEF Sound, NoBinding, Ends
  <2>2. CASE ev.type = "session_start"
    BY <1>0, <1>1, <2>1, <2>2, FreshSound DEF Step
  <2>3. CASE ev.type # "session_start"
    BY <1>1, <2>1, <2>3 DEF Step
  <2> QED
    BY <2>2, <2>3
<1>2. CASE Bound(b) /\ ev.type = "session_start" /\ b.current = NoSid
  BY <1>0, <1>2, ReattachSound DEF Step
<1>3. CASE Bound(b) /\ ~(ev.type = "session_start" /\ b.current = NoSid) /\ Ends(b, ev)
  BY <1>0, <1>3, DetachSound DEF Step
<1>4. CASE Bound(b) /\ ~(ev.type = "session_start" /\ b.current = NoSid) /\ ~Ends(b, ev)
  <2>1. PICK p \in Panes \cup {NoPane} : n = Touch(b, p, ts)
    BY <1>0, <1>4 DEF Step
  <2> HIDE DEF n
  <2>2. n.current = b.current /\ Hosted(n) = Hosted(b)
    BY <1>0, <1>4, <2>1, TouchSound
  <2> QED
    BY <1>4, <2>2
<1> QED
  BY <1>1, <1>2, <1>3, <1>4

(* What a step makes of an entry, last_event_at aside, does not depend on   *)
(* last_event_at.                                                          *)
LEMMA StepStructural ==
  ASSUME NEW b, NEW c, Structural(b) = Structural(c), NEW ev, NEW pane, NEW ts
  PROVE  Structural(Step(b, ev, pane, ts)) = Structural(Step(c, ev, pane, ts))
<1>1. /\ b.pane = c.pane /\ b.current = c.current /\ b.history = c.history
      /\ b.first = c.first /\ b.ended = c.ended
  BY DEF Structural
<1>2. /\ Hosted(b) = Hosted(c) /\ (Bound(b) <=> Bound(c)) /\ (Ends(b, ev) <=> Ends(c, ev))
  BY <1>1 DEF Hosted, Bound, Ends
<1>3. /\ Reattach(b, ev.sid, pane, ts) = Reattach(c, ev.sid, pane, ts)
      /\ Detach(b, ts) = Detach(c, ts)
      /\ \A p : Touch(b, p, ts) = Touch(c, p, ts)
  BY <1>1, <1>2 DEF Reattach, Detach, Touch
<1> QED
  BY <1>1, <1>2, <1>3 DEF Step
=============================================================================
