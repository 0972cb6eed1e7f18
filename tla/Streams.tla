------------------------------ MODULE Streams -------------------------------
(***************************************************************************)
(* What a client of a Backend reads: the queues behind states(), events(), *)
(* messages() and spinners() from the live phase on.  It is the data that  *)
(* Backend.tla leaves out; in exchange each consumer's step is atomic,     *)
(* which it is for a client that sends no prompt: with an empty prompt     *)
(* queue no flush suspends.  transcript_items() is left out.               *)
(***************************************************************************)
EXTENDS SessionState, Naturals, Sequences

CONSTANTS
  Events,      \* the hook events of the tmux session
  Activities,  \* what the spinner monitor yields, NoActivity among it
  NoActivity,
  Primary,     \* the session the backlog ended with
  Baselines,   \* the states it may have ended in
  MaxArrivals  \* a bound: events, transcript items and activities

ASSUME StreamAssumption ==
  Events \subseteq HookEvents /\ Primary \in Sids /\ Baselines \subseteq States \ {None}

VARIABLES
  state, primary, known,  \* as in Backend.tla
  stopped,                \* _stopped
  queue,                  \* what each stream has for its reader
  ended,                  \* the streams with an _END behind that
  arrivals                \* how many there have been

streamVars == <<state, primary, known, stopped, queue, ended, arrivals>>

Streams == {"states", "events", "messages", "spinners"}
Sides == {"left", "right"}

(* A message is its number and the side of the screen its kind belongs to.  *)
Message(side) == [side |-> side, n |-> arrivals]

(* The message that comes of a hook event, if any.                          *)
FanOut(ev) ==
  IF ev.type = "user_prompt_submit" THEN <<Message("left")>>
  ELSE IF ev.type \in {"pre_tool_use", "post_tool_use", "permission_request"}
  THEN <<Message("right")>> ELSE <<>>

Nothing == [q \in Streams |-> <<>>]

(* Nobody ever reads what is put behind an _END.                            *)
Put(new) == queue' = [q \in Streams |-> IF ended[q] THEN queue[q] ELSE queue[q] \o new[q]]
Shown(new, emit) == [Nothing EXCEPT !["states"] = IF emit THEN <<new>> ELSE <<>>]

(* _terminate_consumer_iters, and what precedes it.  A states() iterator    *)
(* ends by itself at Dead.                                                 *)
EndIfDead ==
  /\ stopped' = (stopped \/ IsDead(state'))
  /\ ended' = [q \in Streams |-> ended[q] \/ (IsDead(state') /\ q # "states")]

Arrives == arrivals < MaxArrivals /\ arrivals' = arrivals + 1

(* The baseline is Dead when the session ended after it was looked up.      *)
StreamsInit ==
  /\ state \in Baselines
  /\ primary = Primary /\ known = {Primary}
  /\ stopped = FALSE
  /\ queue = Shown(state, TRUE) /\ ended = [q \in Streams |-> FALSE]
  /\ arrivals = 0

LiveEvent(ev) ==
  /\ ~stopped /\ Arrives
  /\ LET step == Apply(state, primary, known, ev)
     IN /\ state' = step.state /\ primary' = step.primary /\ known' = step.known
        /\ Put([Shown(step.state, step.emit) EXCEPT
                  !["events"] = <<ev>>, !["messages"] = FanOut(ev)])
  /\ EndIfDead

(* Text that the assistant has written, in a transcript of a known session. *)
TranscriptItem ==
  /\ ~stopped /\ Arrives
  /\ Put([Nothing EXCEPT !["messages"] = <<Message("left")>>])
  /\ UNCHANGED <<state, primary, known, stopped, ended>>

SpinnerTick(activity) ==
  /\ ~stopped /\ Arrives
  /\ Put([Nothing EXCEPT !["spinners"] = <<activity>>])
  /\ UNCHANGED <<state, primary, known, stopped, ended>>

(* Of the three callers only the spinner consumer asks after _stopped too.  *)
Trigger(trigger) ==
  /\ ~stopped \/ trigger = "pane_lost"
  /\ LET step == ApplySafetyNet(state, trigger)
     IN state' = step.state /\ Put(Shown(step.state, step.emit))
  /\ EndIfDead
  /\ UNCHANGED <<primary, known, arrivals>>

Produces ==
  \/ \E ev \in Events : LiveEvent(ev)
  \/ TranscriptItem
  \/ \E activity \in Activities : SpinnerTick(activity)
  \/ \E trigger \in Triggers : Trigger(trigger)

(* Backend.__aexit__ begins; its tasks are gone when it is done.            *)
Stops == stopped' = TRUE
EndsAll == ended' = [q \in Streams |-> TRUE]
=============================================================================
