------------------------------ MODULE Binding ------------------------------
(***************************************************************************)
(* The binding record of one tmux session and the fold _step of            *)
(* bindings.py.  No variables: Registry.tla folds the events of every tmux *)
(* session with it, Mirror.tla sets it beside state_machine.apply.         *)
(*                                                                         *)
(* A timestamp is the number of its event's line in events.jsonl; 0 stands *)
(* for None.  pane_id and window_id always change together: one pane.      *)
(***************************************************************************)
EXTENDS Naturals, Sequences, SessionState

CONSTANTS Panes, NoPane

ASSUME PaneAssumption == NoPane \notin Panes

(* A tmux session without an entry.                                        *)
NoBinding ==
  [pane |-> NoPane, current |-> NoSid, history |-> <<>>, first |-> 0,
   last |-> 0, ended |-> 0]

Bindings ==
  [pane : Panes \cup {NoPane}, current : Sids \cup {NoSid}, history : Seq(Sids),
   first : Nat, last : Nat, ended : Nat]

Bound(b) == b.history # <<>>

Fresh(sid, pane, ts) ==
  [pane |-> pane, current |-> sid, history |-> <<sid>>, first |-> ts,
   last |-> ts, ended |-> 0]

Hosted(b) == {b.history[i] : i \in DOMAIN b.history}

(* A session_start while no session is attached.  A resumed session is in  *)
(* the history already.                                                    *)
(* (Mutant: it is appended all the same.)                                  *)
ReattachTwice(b, sid, pane, ts) ==
  [pane |-> pane, current |-> sid, history |-> Append(b.history, sid),
   first |-> b.first, last |-> ts, ended |-> 0]
Reattach(b, sid, pane, ts) ==
  [pane |-> pane, current |-> sid,
   history |-> IF sid \in Hosted(b) THEN b.history ELSE Append(b.history, sid),
   first |-> b.first, last |-> ts, ended |-> 0]

(* (Mutant: with its history.)                                             *)
DetachForgetting(b, ts) ==
  [pane |-> b.pane, current |-> NoSid, history |-> <<>>, first |-> b.first,
   last |-> ts, ended |-> ts]
Detach(b, ts) ==
  [pane |-> b.pane, current |-> NoSid, history |-> b.history, first |-> b.first,
   last |-> ts, ended |-> ts]

(* Any other event is noted, and the attached session may have moved.      *)
Touch(b, pane, ts) ==
  [pane |-> pane, current |-> b.current, history |-> b.history,
   first |-> b.first, last |-> ts, ended |-> b.ended]

(* The end of the attached session, unless it only went to the background. *)
(* (Mutant: that, too.)                                                    *)
EndsEver(b, ev) == ev.type = "session_end" /\ ev.sid = b.current
Ends(b, ev) ==
  ev.type = "session_end" /\ ev.sid = b.current /\ ~EndsNothing(ev)

(* _step: what event ev, seen in pane at ts, makes of entry b.             *)
Step(b, ev, pane, ts) ==
  IF ev.sid = EmptySid THEN b
  ELSE IF ~Bound(b)
  THEN IF ev.type = "session_start" THEN Fresh(ev.sid, pane, ts) ELSE b
  ELSE IF ev.type = "session_start" /\ b.current = NoSid
  THEN Reattach(b, ev.sid, pane, ts)
  ELSE IF Ends(b, ev) THEN Detach(b, ts)
  ELSE IF ev.sid = b.current /\ ev.type \notin {"session_start", "session_end"}
  THEN Touch(b, pane, ts) ELSE Touch(b, b.pane, ts)

(* An entry makes sense to whoever attaches by it: no id twice in its       *)
(* history, the attached session in it, an end mark exactly when detached, *)
(* and times in order.                                                     *)
Sound(b) ==
  IF ~Bound(b) THEN b = NoBinding
  ELSE /\ \A i, j \in DOMAIN b.history : b.history[i] = b.history[j] => i = j
       /\ b.current \in Hosted(b) \cup {NoSid}
       /\ b.current = NoSid <=> b.ended # 0
       /\ 0 < b.first /\ b.first <= b.last /\ b.ended <= b.last

(* What of an entry is worth a write: all but last_event_at.               *)
Structural(b) == <<b.pane, b.current, b.history, b.first, b.ended>>
=============================================================================
