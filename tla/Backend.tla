------------------------------ MODULE Backend ------------------------------
(***************************************************************************)
(* The tasks of one Backend (backend.py) on the asyncio event loop: the    *)
(* event consumer, the fallback timer, the task that starts the live-phase *)
(* tasks, the message and spinner consumers, the grace timer, the process  *)
(* probe, the calls send_prompt, interrupt and drop_to_tui, and __aexit__. *)
(*                                                                         *)
(* An action is what a task does between two awaits that really suspend    *)
(* it: everything in between is atomic on the event loop.  Key injection   *)
(* is such an await, asyncio.to_thread per key: job[t] holds the keys task *)
(* t has still to see delivered, and t resumes when it is empty.  A        *)
(* _flush_pending with nothing to send does not suspend.                   *)
(*                                                                         *)
(* Of the decision socket only drop_to_tui is here, for its write of       *)
(* _state; its listener is claude-tap's, and may raise.  The consumer of    *)
(* the socket and respond_... are in Decisions.tla.                         *)
(***************************************************************************)
EXTENDS Naturals, Sequences, SessionState

CONSTANTS
  Events,     \* the hook events claude may write for this tmux session
  Callers,    \* the client's coroutines that call a method
  MaxEvents,  \* bound: hook events read
  MaxCalls,   \* bound: calls of the three methods
  MaxFaults,  \* bound: transient failures of a tmux command
  Endings     \* which of "exit", "claude" (exits), "pane" (killed) may happen

ASSUME EventsAssumption == Events \subseteq HookEvents
ASSUME BoundAssumption ==
  MaxEvents \in Nat /\ MaxCalls \in Nat /\ MaxFaults \in Nat

Tasks == {"event", "fallback", "onlive", "message", "spinner", "grace", "probe"}
LiveTasks == {"message", "spinner", "grace", "probe"}
ASSUME CallersAssumption == Callers \cap Tasks = {}

VARIABLES
  state, primary, known,  \* _state, _primary, _known_session_ids
  live,       \* _live_phase_event
  stopped,    \* _stopped
  statesQ,    \* the states put on _states_q, first to last
  ended,      \* the queues that hold an _END
  pending,    \* _pending: the queued prompts, each a number
  pc,         \* where each task is
  job,        \* the keys a task or caller has under way
  cur,        \* the event the event consumer holds while it enters live
  sawSpinner, \* the grace timer's last_spinner_seen_at is not None
  call,       \* what each caller is in the middle of
  held,       \* the state its drop_to_tui has read
  exit,       \* how far __aexit__ is
  doomed,     \* the tasks __aexit__ still looks at
  replaying,  \* the backlog of events.jsonl is not read to its end
  paneUp,     \* the tmux pane exists
  claudeUp,   \* a claude process runs in the session
  typed,      \* the keys tmux delivered to the pane
  nEvents, nCalls, nFaults

machine == <<state, primary, known>>
control == <<live, stopped, pc, cur, sawSpinner>>
output == <<statesQ, ended>>
clients == <<call, held, nCalls>>
exiting == <<exit, doomed>>
world == <<replaying, paneUp, claudeUp>>

vars == <<machine, control, output, pending, job, clients, exiting, world,
          typed, nEvents, nFaults>>

Queues == {"states", "events", "transcript", "messages", "spinners"}

-----------------------------------------------------------------------------
(* Keys                                                                    *)

Press(key) == [key |-> key, text |-> <<>>]
Text(prompts) == [key |-> "text", text |-> prompts]

(* A prompt, or several joined by blank lines, typed into the pane: clear  *)
(* the input line, the text, Enter.                                        *)
Submission(prompts) == <<Press("C-u"), Text(prompts), Press("Enter")>>
Interruption == <<Press("Escape"), Press("C-u")>>

KeySet == [key : {"C-u", "Escape", "Enter", "text"}, text : Seq(Nat)]

NoEvent == [type |-> "none"]

-----------------------------------------------------------------------------
Init ==
  /\ state = None /\ primary = NoSid /\ known = {}
  /\ live = FALSE /\ stopped = FALSE
  /\ statesQ = <<>> /\ ended = {}
  /\ pending = <<>>
  /\ pc = [t \in Tasks |-> IF t = "event" THEN "read"
                           ELSE IF t = "fallback" THEN "sleep"
                           ELSE IF t = "onlive" THEN "wait" ELSE "off"]
  /\ job = [t \in Tasks \cup Callers |-> <<>>]
  /\ cur = NoEvent /\ sawSpinner = FALSE
  /\ call = [c \in Callers |-> "none"] /\ held = [c \in Callers |-> None]
  /\ exit = "no" /\ doomed = {}
  /\ replaying = TRUE /\ paneUp = TRUE /\ claudeUp = TRUE
  /\ typed = <<>>
  /\ nEvents = 0 /\ nCalls = 0 /\ nFaults = 0

Goto(t, where) == pc' = [pc EXCEPT ![t] = where]

-----------------------------------------------------------------------------
(* The pieces several tasks share                                          *)

(* _flush_pending up to its first await, called by t as s is emitted: on   *)
(* Idle the queue is emptied and its prompts become one submission.        *)
(* (Mutants: only a turn that ended flushes; the queue is kept while it is *)
(* typed; only the last prompt is typed.)                                  *)
FlushesOnStop(s) == s = Idle("stop") /\ pending # <<>>
Flushes(s) == IsIdle(s) /\ pending # <<>>
FlushKeepingQueue(t, s) ==
  /\ job' = IF Flushes(s) THEN [job EXCEPT ![t] = Submission(pending)] ELSE job
  /\ UNCHANGED pending
FlushLast(t, s) ==
  IF Flushes(s)
  THEN /\ job' = [job EXCEPT ![t] = Submission(<<pending[Len(pending)]>>)]
       /\ pending' = <<>>
  ELSE UNCHANGED <<job, pending>>
FlushPending(t, s) ==
  IF Flushes(s)
  THEN /\ job' = [job EXCEPT ![t] = Submission(pending)]
       /\ pending' = <<>>
  ELSE UNCHANGED <<job, pending>>

(* Dead stops the tasks and ends every iterator but states(), which ends   *)
(* itself at the Dead it yields.                                           *)
(* (Mutant: the tasks are stopped and no iterator ends.)                   *)
StopOnly(s) == stopped' = (stopped \/ IsDead(s)) /\ UNCHANGED ended
Terminate(s) ==
  IF IsDead(s)
  THEN /\ stopped' = TRUE
       /\ ended' = ended \cup (Queues \ {"states"})
  ELSE UNCHANGED <<stopped, ended>>

(* The event consumer on a live event, from apply to the next await; q is  *)
(* _states_q as it stands then.  An event that suspends it in a flush leads *)
(* to Idle, so neither the L1 fan-out nor the Dead branch is left to do     *)
(* after it.                                                               *)
Handle(ev, q) ==
  LET step == Apply(state, primary, known, ev)
  IN /\ state' = step.state /\ primary' = step.primary /\ known' = step.known
     /\ IF step.emit
        THEN statesQ' = Append(q, step.state) /\ FlushPending("event", step.state)
        ELSE statesQ' = q /\ UNCHANGED <<job, pending>>
     /\ Terminate(step.state)
     /\ Goto("event", IF IsDead(step.state) THEN "done"
                      ELSE IF step.emit /\ Flushes(step.state) THEN "emitting"
                      ELSE "read")
     /\ cur' = NoEvent

(* The states queue after _enter_live_phase has put the baseline on it.    *)
(* (Mutant: a Dead baseline is not shown.)                                 *)
BaselineUnlessDead ==
  IF state = None \/ IsDead(state) THEN statesQ ELSE Append(statesQ, state)
WithBaseline == IF state = None THEN statesQ ELSE Append(statesQ, state)

(* _trigger_safety, as far as its await.                                   *)
(* (Mutants: the step's empty primary and known ids are stored; only a     *)
(* transition that is shown terminates.)                                   *)
TriggerStoringStep(t, trigger) ==
  LET step == ApplySafetyNet(state, trigger)
  IN /\ state' = step.state /\ primary' = NoSid /\ known' = {}
     /\ IF step.emit
        THEN statesQ' = Append(statesQ, step.state) /\ FlushPending(t, step.state)
        ELSE UNCHANGED <<statesQ, job, pending>>
     /\ Terminate(step.state)
TriggerIfShown(t, trigger) ==
  LET step == ApplySafetyNet(state, trigger)
  IN /\ state' = step.state /\ UNCHANGED <<primary, known>>
     /\ IF step.emit
        THEN /\ statesQ' = Append(statesQ, step.state)
             /\ FlushPending(t, step.state) /\ Terminate(step.state)
        ELSE UNCHANGED <<statesQ, job, pending, stopped, ended>>
TriggerSafety(t, trigger) ==
  LET step == ApplySafetyNet(state, trigger)
  IN /\ state' = step.state /\ UNCHANGED <<primary, known>>
     /\ IF step.emit
        THEN statesQ' = Append(statesQ, step.state) /\ FlushPending(t, step.state)
        ELSE UNCHANGED <<statesQ, job, pending>>
     /\ Terminate(step.state)

-----------------------------------------------------------------------------
(* The event consumer                                                      *)

(* An event of the backlog, older than the subscription: it moves the      *)
(* machine and is not shown to anyone, not even when it leads to Dead.     *)
ReplayEvent(ev) ==
  /\ pc["event"] = "read" /\ ~stopped /\ replaying /\ nEvents < MaxEvents
  /\ LET step == Apply(state, primary, known, ev)
     IN state' = step.state /\ primary' = step.primary /\ known' = step.known
  /\ nEvents' = nEvents + 1
  /\ UNCHANGED <<control, output, pending, job, clients, exiting, world,
                 typed, nFaults>>

(* A live event.  The first one may find that the live phase is not        *)
(* entered yet, and then that the baseline has prompts to flush: the       *)
(* consumer suspends with the event in its hands.                          *)
LiveEvent(ev) ==
  /\ pc["event"] = "read" /\ ~stopped /\ nEvents < MaxEvents
  /\ IF ~live /\ Flushes(state)
     THEN /\ statesQ' = WithBaseline
          /\ FlushPending("event", state)
          /\ Goto("event", "entering") /\ cur' = ev
          /\ UNCHANGED <<machine, live, stopped, ended>>
     ELSE /\ live' = TRUE
          /\ Handle(ev, IF live THEN statesQ ELSE WithBaseline)
  /\ replaying' = FALSE
  /\ nEvents' = nEvents + 1
  /\ UNCHANGED <<sawSpinner, clients, exiting, paneUp, claudeUp, typed, nFaults>>

(* The baseline's flush is done: the live phase begins, and the event the  *)
(* consumer held is handled, whatever happened to the state meanwhile.     *)
EventEntered ==
  /\ pc["event"] = "entering" /\ job["event"] = <<>>
  /\ live' = TRUE
  /\ Handle(cur, statesQ)
  /\ UNCHANGED <<sawSpinner, clients, exiting, world, typed, nEvents, nFaults>>

EventFlushed ==
  /\ pc["event"] = "emitting" /\ job["event"] = <<>>
  /\ Goto("event", "read")
  /\ UNCHANGED <<machine, live, stopped, cur, sawSpinner, output, pending, job,
                 clients, exiting, world, typed, nEvents, nFaults>>

(* The next event finds _stopped set.                                      *)
EventStop ==
  /\ pc["event"] = "read" /\ stopped
  /\ Goto("event", "done")
  /\ UNCHANGED <<machine, live, stopped, cur, sawSpinner, output, pending, job,
                 clients, exiting, world, typed, nEvents, nFaults>>

-----------------------------------------------------------------------------
(* Entering the live phase without an event                                *)

(* One second after __aenter__.  The backlog is read by then: EventStream  *)
(* hands it over without waiting, and the loop is not free before.         *)
(* (Mutant: nothing to show, nothing done.)                                *)
FallbackWithBaseline ==
  /\ pc["fallback"] = "sleep" /\ ~replaying
  /\ Goto("fallback", "done")
  /\ statesQ' = IF live THEN statesQ ELSE WithBaseline
  /\ live' = (live \/ state # None)
  /\ UNCHANGED <<machine, stopped, cur, sawSpinner, ended, clients, exiting,
                 pending, job, world, typed, nEvents, nFaults>>
FallbackFires ==
  /\ pc["fallback"] = "sleep" /\ ~replaying
  /\ \/ /\ live
        /\ Goto("fallback", "done")
        /\ UNCHANGED <<live, statesQ, job, pending>>
     \/ /\ ~live /\ Flushes(state)
        /\ statesQ' = WithBaseline
        /\ FlushPending("fallback", state)
        /\ Goto("fallback", "flushing")
        /\ UNCHANGED live
     \/ /\ ~live /\ ~Flushes(state)
        /\ statesQ' = WithBaseline
        /\ live' = TRUE
        /\ Goto("fallback", "done")
        /\ UNCHANGED <<job, pending>>
  /\ UNCHANGED <<machine, stopped, cur, sawSpinner, ended, clients, exiting,
                 world, typed, nEvents, nFaults>>

FallbackEntered ==
  /\ pc["fallback"] = "flushing" /\ job["fallback"] = <<>>
  /\ live' = TRUE
  /\ Goto("fallback", "done")
  /\ UNCHANGED <<machine, stopped, cur, sawSpinner, output, pending, job,
                 clients, exiting, world, typed, nEvents, nFaults>>

(* Where the grace timer goes when it looks at _stopped, before each of its *)
(* sleeps and not after: one created after _stopped is set never ticks, one *)
(* that sleeps by then ticks once more.  (Mutant: it looks only later.)    *)
GraceSleeps == "start"
GraceLooks == IF stopped THEN "done" ELSE "start"

(* The live phase has begun: the other tasks are created, and come to their *)
(* first await.                                                            *)
OnLive ==
  /\ pc["onlive"] = "wait" /\ live
  /\ pc' = [t \in Tasks |-> IF t = "onlive" THEN "done"
                            ELSE IF t = "grace" THEN GraceLooks
                            ELSE IF t \in LiveTasks THEN "start" ELSE pc[t]]
  /\ UNCHANGED <<machine, live, stopped, cur, sawSpinner, output, pending, job,
                 clients, exiting, world, typed, nEvents, nFaults>>

-----------------------------------------------------------------------------
(* The live-phase tasks                                                    *)

(* The message consumer filters and forwards until the first message after *)
(* _stopped is set.                                                        *)
MessageStop ==
  /\ pc["message"] = "start" /\ stopped
  /\ Goto("message", "done")
  /\ UNCHANGED <<machine, live, stopped, cur, sawSpinner, output, pending, job,
                 clients, exiting, world, typed, nEvents, nFaults>>

(* SpinnerMonitor attaches to the pane; for a pane that does not exist it  *)
(* raises TmuxResolutionError, which the consumer swallows.                *)
SpinnerStart ==
  /\ pc["spinner"] = "start"
  /\ Goto("spinner", IF paneUp THEN "run" ELSE "done")
  /\ UNCHANGED <<machine, live, stopped, cur, sawSpinner, output, pending, job,
                 clients, exiting, world, typed, nEvents, nFaults>>

(* The loop over activities ends: a capture of the pane fails, or the next *)
(* activity finds _stopped set.  Either way the pane counts as lost.       *)
SpinnerEnds ==
  /\ pc["spinner"] = "run" /\ (~paneUp \/ stopped)
  /\ TriggerSafety("spinner", "pane_lost")
  /\ Goto("spinner", "done")
  /\ UNCHANGED <<live, cur, sawSpinner, clients, exiting, world, typed,
                 nEvents, nFaults>>

(* A tick, which sees the monitor's current activity and whether the pane  *)
(* has been static for the grace period.                                   *)
GraceTick(spinner, static) ==
  /\ pc["grace"] = "start" /\ pc["spinner"] = "run"
  /\ IF IsWorking(state) /\ sawSpinner /\ ~spinner /\ static
     THEN /\ TriggerSafety("grace", "spinner_grace")
          /\ IF pending = <<>> THEN Goto("grace", GraceLooks) /\ sawSpinner' = FALSE
                               ELSE Goto("grace", "flushing") /\ UNCHANGED sawSpinner
     ELSE /\ sawSpinner' = (sawSpinner \/ spinner)
          /\ Goto("grace", GraceLooks)
          /\ UNCHANGED <<machine, stopped, output, pending, job>>
  /\ UNCHANGED <<live, cur, clients, exiting, world, typed, nEvents, nFaults>>

GraceFlushed ==
  /\ pc["grace"] = "flushing" /\ job["grace"] = <<>>
  /\ Goto("grace", GraceLooks) /\ sawSpinner' = FALSE
  /\ UNCHANGED <<machine, live, stopped, cur, output, pending, job,
                 clients, exiting, world, typed, nEvents, nFaults>>

(* Its last tick, once there is no monitor left to look at.                *)
GraceStop ==
  /\ pc["grace"] = "start" /\ pc["spinner"] # "run" /\ stopped
  /\ Goto("grace", "done")
  /\ UNCHANGED <<machine, live, stopped, cur, sawSpinner, output, pending, job,
                 clients, exiting, world, typed, nEvents, nFaults>>

(* A probe of the tmux session that finds no claude, which a failing tmux  *)
(* command counts as.  A probe that finds one changes nothing.             *)
ProbeFails(fault) ==
  /\ pc["probe"] = "start" /\ ~stopped
  /\ IF fault THEN nFaults < MaxFaults /\ nFaults' = nFaults + 1
              ELSE ~claudeUp /\ UNCHANGED nFaults
  /\ TriggerSafety("probe", "process_gone")
  /\ Goto("probe", "done")
  /\ UNCHANGED <<live, cur, sawSpinner, clients, exiting, world, typed, nEvents>>

ProbeStop ==
  /\ pc["probe"] = "start" /\ stopped
  /\ Goto("probe", "done")
  /\ UNCHANGED <<machine, live, stopped, cur, sawSpinner, output, pending, job,
                 clients, exiting, world, typed, nEvents, nFaults>>

-----------------------------------------------------------------------------
(* Key injection by the worker threads                                     *)

KeyDelivered(t) ==
  /\ job[t] # <<>> /\ paneUp
  /\ typed' = Append(typed, Head(job[t]))
  /\ job' = [job EXCEPT ![t] = Tail(@)]
  /\ UNCHANGED <<machine, control, output, pending, clients, exiting, world,
                 nEvents, nFaults>>

(* KeyInjectionError ends the task that sends: the event consumer swallows *)
(* it with every other exception, the timers do not catch it.  A caller    *)
(* sees it raised.                                                         *)
KeyFails(t) ==
  /\ job[t] # <<>>
  /\ IF paneUp THEN nFaults < MaxFaults /\ nFaults' = nFaults + 1
               ELSE UNCHANGED nFaults
  /\ job' = [job EXCEPT ![t] = <<>>]
  /\ IF t \in Tasks
     THEN Goto(t, "done") /\ UNCHANGED call
     ELSE call' = [call EXCEPT ![t] = "none"] /\ UNCHANGED pc
  /\ UNCHANGED <<machine, live, stopped, cur, sawSpinner, output, pending,
                 held, nCalls, exiting, world, typed, nEvents>>

-----------------------------------------------------------------------------
(* The client                                                              *)

(* send_prompt.  In Blocked and Dead it raises and changes nothing.        *)
SendPrompt(c) ==
  /\ exit = "no" /\ call[c] = "none" /\ nCalls < MaxCalls
  /\ nCalls' = nCalls + 1
  /\ \/ /\ IsIdle(state)
        /\ job' = [job EXCEPT ![c] = Submission(<<nCalls'>>)]
        /\ call' = [call EXCEPT ![c] = "send_prompt"]
        /\ UNCHANGED pending
     \/ /\ IsWorking(state) \/ state = None
        /\ pending' = Append(pending, nCalls')
        /\ UNCHANGED <<job, call>>
  /\ UNCHANGED <<machine, control, output, held, exiting, world, typed,
                 nEvents, nFaults>>

(* interrupt: a no-op outside Working.                                     *)
Interrupt(c) ==
  /\ exit = "no" /\ call[c] = "none" /\ nCalls < MaxCalls /\ IsWorking(state)
  /\ nCalls' = nCalls + 1
  /\ job' = [job EXCEPT ![c] = Interruption]
  /\ call' = [call EXCEPT ![c] = "interrupt"]
  /\ UNCHANGED <<machine, control, output, pending, held, exiting, world,
                 typed, nEvents, nFaults>>

(* The last key is in.  interrupt drops the queue only now.                *)
Return(c) ==
  /\ call[c] \in {"send_prompt", "interrupt"} /\ job[c] = <<>>
  /\ pending' = IF call[c] = "interrupt" THEN <<>> ELSE pending
  /\ call' = [call EXCEPT ![c] = "none"]
  /\ UNCHANGED <<machine, control, output, job, held, nCalls, exiting, world,
                 typed, nEvents, nFaults>>

(* drop_to_tui: a no-op for a dialog that is expired; outside Blocked it   *)
(* raises.  It puts nothing on _states_q.  With a request id it awaits the *)
(* listener first.                                                         *)
DropToTui(c) ==
  /\ exit = "no" /\ call[c] = "none" /\ nCalls < MaxCalls
  /\ IsBlocked(state) /\ ~Expired(state)
  /\ nCalls' = nCalls + 1
  /\ IF state.request = NoRequest
     THEN state' = Marked(state) /\ UNCHANGED <<call, held>>
     ELSE /\ call' = [call EXCEPT ![c] = "drop_to_tui"]
          /\ held' = [held EXCEPT ![c] = state]
          /\ UNCHANGED state
  /\ UNCHANGED <<primary, known, control, output, pending, job, exiting, world,
                 typed, nEvents, nFaults>>

(* The listener has answered: the state written is the one read before,    *)
(* whatever was folded meanwhile.  Or it has raised.                       *)
DropMarks(c) ==
  /\ call[c] = "drop_to_tui"
  /\ state' = Marked(held[c]) \/ UNCHANGED state
  /\ call' = [call EXCEPT ![c] = "none"]
  /\ held' = [held EXCEPT ![c] = None]
  /\ UNCHANGED <<primary, known, control, output, pending, job, nCalls, exiting,
                 world, typed, nEvents, nFaults>>

-----------------------------------------------------------------------------
(* __aexit__                                                               *)

CancelOrder ==
  <<"event", "message", "spinner", "grace", "probe", "onlive", "fallback">>
Precedes(t, u) ==
  \E i, j \in DOMAIN CancelOrder : i <= j /\ CancelOrder[i] = t /\ CancelOrder[j] = u

(* _stopped is set; the decision consumer and its listener are awaited.    *)
ExitBegins ==
  /\ "exit" \in Endings /\ exit = "no"
  /\ exit' = "closing" /\ stopped' = TRUE
  /\ UNCHANGED <<machine, live, pc, cur, sawSpinner, output, pending, job,
                 clients, doomed, world, typed, nEvents, nFaults>>

(* From here to the next await: of the tasks ts in the tuple, the first    *)
(* that is not done is cancelled (the key its thread is sending still      *)
(* arrives); when none is left every queue gets its _END.                  *)
(* (Mutant: the tasks are awaited and not cancelled.)                      *)
AwaitFrom(ts) ==
  LET alive == {t \in ts : pc[t] # "done"}
  IN /\ UNCHANGED <<pc, job>>
     /\ doomed' = alive
     /\ IF alive = {} THEN exit' = "exited" /\ ended' = Queues
                      ELSE exit' = "cancelling" /\ UNCHANGED ended
CancelFrom(ts) ==
  LET alive == {t \in ts : pc[t] # "done"}
  IN IF alive = {}
     THEN /\ exit' = "exited" /\ doomed' = {} /\ ended' = Queues
          /\ UNCHANGED <<pc, job>>
     ELSE \E t \in alive :
            /\ \A u \in alive : Precedes(t, u)
            /\ Goto(t, "done")
            /\ job' = [job EXCEPT ![t] = IF @ = <<>> THEN <<>> ELSE <<Head(@)>>]
            /\ doomed' = alive \ {t} /\ exit' = "cancelling"
            /\ UNCHANGED ended

(* The tuple of tasks is built now: a task not created yet is not in it.   *)
ExitSnapshot ==
  /\ exit = "closing"
  /\ CancelFrom({t \in Tasks : pc[t] # "off"})
  /\ UNCHANGED <<machine, live, stopped, cur, sawSpinner, statesQ, pending,
                 clients, world, typed, nEvents, nFaults>>

ExitCancels ==
  /\ exit = "cancelling"
  /\ CancelFrom(doomed)
  /\ UNCHANGED <<machine, live, stopped, cur, sawSpinner, statesQ, pending,
                 clients, world, typed, nEvents, nFaults>>

-----------------------------------------------------------------------------
(* The world                                                               *)

BacklogRead ==
  /\ replaying
  /\ replaying' = FALSE
  /\ UNCHANGED <<machine, control, output, pending, job, clients, exiting,
                 paneUp, claudeUp, typed, nEvents, nFaults>>

ClaudeExits ==
  /\ "claude" \in Endings /\ claudeUp
  /\ claudeUp' = FALSE
  /\ UNCHANGED <<machine, control, output, pending, job, clients, exiting,
                 replaying, paneUp, typed, nEvents, nFaults>>

PaneKilled ==
  /\ "pane" \in Endings /\ paneUp
  /\ paneUp' = FALSE /\ claudeUp' = FALSE
  /\ UNCHANGED <<machine, control, output, pending, job, clients, exiting,
                 replaying, typed, nEvents, nFaults>>

-----------------------------------------------------------------------------
EventConsumer ==
  \/ \E ev \in Events : ReplayEvent(ev) \/ LiveEvent(ev)
  \/ EventEntered \/ EventFlushed \/ EventStop
Grace ==
  \/ \E spinner, static \in BOOLEAN : GraceTick(spinner, static)
  \/ GraceFlushed \/ GraceStop
Probe == ProbeStop \/ \E fault \in BOOLEAN : ProbeFails(fault)
Injection == \E t \in Tasks \cup Callers : KeyDelivered(t) \/ KeyFails(t)
Client ==
  \E c \in Callers : \/ SendPrompt(c) \/ Interrupt(c) \/ Return(c)
                     \/ DropToTui(c) \/ DropMarks(c)
AExit == ExitBegins \/ ExitSnapshot \/ ExitCancels
World == BacklogRead \/ ClaudeExits \/ PaneKilled

Next ==
  \/ EventConsumer
  \/ FallbackFires \/ FallbackEntered \/ OnLive
  \/ MessageStop \/ SpinnerStart \/ SpinnerEnds
  \/ Grace \/ Probe
  \/ Injection \/ Client \/ AExit \/ World

Spec == Init /\ [][Next]_vars

(* asyncio runs every task that is ready, the backlog is finite, a tmux     *)
(* command returns, a capture of a lost pane fails and the probe is         *)
(* periodic.  Nothing obliges claude, the user or the client to act.        *)
Fairness ==
  /\ WF_vars(BacklogRead)
  /\ WF_vars(FallbackFires) /\ WF_vars(FallbackEntered) /\ WF_vars(OnLive)
  /\ WF_vars(EventEntered) /\ WF_vars(EventFlushed)
  /\ WF_vars(SpinnerStart) /\ WF_vars(~paneUp /\ SpinnerEnds)
  /\ WF_vars(Grace)
  /\ WF_vars(ProbeFails(FALSE)) /\ WF_vars(ProbeStop)
  /\ \A t \in Tasks \cup Callers : WF_vars(KeyDelivered(t) \/ KeyFails(t))
  /\ \A c \in Callers : WF_vars(Return(c))
  /\ WF_vars(ExitSnapshot) /\ WF_vars(ExitCancels)

FairSpec == Spec /\ Fairness

-----------------------------------------------------------------------------
(* Properties                                                              *)

PCs == {"off", "start", "run", "read", "entering", "emitting", "sleep",
        "flushing", "wait", "done"}

(* Every variable has the values its field in backend.py can have.         *)
MachineOK ==
  /\ state \in States /\ primary \in Sids \cup {EmptySid, NoSid}
  /\ known \subseteq Sids
ControlOK ==
  /\ live \in BOOLEAN /\ stopped \in BOOLEAN /\ sawSpinner \in BOOLEAN
  /\ pc \in [Tasks -> PCs] /\ cur \in Events \cup {NoEvent}
OutputOK == statesQ \in Seq(States) /\ ended \subseteq Queues
KeysOK ==
  /\ pending \in Seq(Nat)
  /\ job \in [Tasks \cup Callers -> Seq(KeySet)]
Calls == {"none", "send_prompt", "interrupt", "drop_to_tui"}
ClientsOK ==
  /\ call \in [Callers -> Calls] /\ held \in [Callers -> States] /\ nCalls \in Nat
  /\ \A c \in Callers : call[c] = "drop_to_tui" => IsBlocked(held[c])
ExitOK ==
  exit \in {"no", "closing", "cancelling", "exited"} /\ doomed \subseteq Tasks
WorldOK ==
  /\ replaying \in BOOLEAN /\ paneUp \in BOOLEAN /\ claudeUp \in BOOLEAN
  /\ typed \in Seq(KeySet) /\ nEvents \in Nat /\ nFaults \in Nat
TypeOK ==
  /\ MachineOK /\ ControlOK /\ OutputOK /\ KeysOK /\ ClientsOK /\ ExitOK
  /\ WorldOK

(* A queued prompt is never left behind: in the live phase an Idle session *)
(* has an empty queue, whichever task moved it to Idle, whatever the       *)
(* client called meanwhile and whichever key injection failed.             *)
NoStrandedPrompt == live /\ IsIdle(state) => pending = <<>>

(* What states() showed last is the state: neither the double entry into   *)
(* the live phase, nor a flush that suspends or fails between a transition *)
(* and the next, nor a cancellation lets the stream fall behind _state.    *)
(* Only drop_to_tui does: a state with expired set that it has written is  *)
(* not shown (although state.py has a transition emitted when any field    *)
(* differs), whether it marks the dialog shown or overwrites a newer state. *)
(* No other state is ever hidden, and the next transition is shown again.  *)
Shown == IF statesQ = <<>> THEN None ELSE statesQ[Len(statesQ)]
StatesFollowState == live => Shown = state \/ Expired(state)

(* A prompt reaches the pane at most once, although three tasks may flush  *)
(* the queue and each of them is suspended while it types.                 *)
Prompts(key) == {key.text[i] : i \in DOMAIN key.text}
TypedOnce ==
  \A i, j \in DOMAIN typed :
    i # j => Prompts(typed[i]) \cap Prompts(typed[j]) = {}

(* A prompt that was accepted stays in the queue, among the keys under way  *)
(* or in the pane, through every suspension and every race of the flushes: *)
(* only an interrupt that returns, a key that fails or an exit drops one.  *)
Typing(keys) == UNION {Prompts(keys[i]) : i \in DOMAIN keys}
Queued == {pending[i] : i \in DOMAIN pending}
Waiting == Queued \cup UNION {Typing(job[t]) : t \in Tasks \cup Callers}
Drops ==
  \/ \E c \in Callers : call[c] = "interrupt" /\ call'[c] = "none"
  \/ nFaults' # nFaults \/ ~paneUp
  \/ exit # "no"
PromptsKept == [][Drops \/ Waiting \subseteq Waiting' \cup Typing(typed')]_vars

(* Once the backlog is read, the step that makes the session Dead also     *)
(* stops the tasks and ends the iterators (issue 13 of the repository).    *)
DeadTransitionEnds ==
  [][~replaying /\ IsDead(state') /\ ~IsDead(state)
       => stopped' /\ Queues \ {"states"} \subseteq ended']_vars

(* The end that stopped the tasks is the last thing on states(), which ends *)
(* there: no event, trigger or second entry into the live phase moves the  *)
(* state on.  The one exception is the event that the consumer holds while *)
(* it flushes the baseline, and which apply may turn into a state again    *)
(* although the probe or the spinner consumer has found the end meanwhile. *)
(* A drop_to_tui that was waiting may write its dialog over the Dead, and  *)
(* shows nothing.                                                          *)
DeadStays ==
  [][live /\ stopped /\ IsDead(state) /\ pc["event"] # "entering"
       => UNCHANGED statesQ /\ (UNCHANGED state \/ Expired(state'))]_vars

(* The iterators end for a reason the consumer can see: states() has a     *)
(* Dead for it, or the Backend was left.                                   *)
EndsAreExplained ==
  ended # {} => exit = "exited" \/ \E i \in DOMAIN statesQ : IsDead(statesQ[i])

(* When __aexit__ has returned, no task begins to send keys any more: not   *)
(* even those of the live phase that were created after __aexit__ had      *)
(* listed the tasks it cancels.                                            *)
ExitQuiet ==
  [][exit = "exited" => \A t \in Tasks : Len(job'[t]) <= Len(job[t])]_vars

(* Every task moves (state, primary, known) only as the transition         *)
(* functions do: suspensions lose no update of another task.  A write of   *)
(* drop_to_tui marks the state, or one that a waiting call has read.       *)
Dialogs == {held[c] : c \in {d \in Callers : call[d] = "drop_to_tui"}}
Machine == INSTANCE StateMachine
  WITH Events <- Events, state <- state, primary <- primary, known <- known,
       dialogs <- Dialogs
RefinesStateMachine == Machine!Spec

(* The Backend enters its live phase unless it is left before.             *)
EventuallyLive == <>(live \/ exit # "no")

(* When the last claude of the session is gone, every consumer of a live   *)
(* Backend is released in the end.                                         *)
ClaudeGoneEnds == (live /\ ~claudeUp) ~> (Queues \ {"states"} \subseteq ended)

(* __aexit__ returns.                                                      *)
ExitCompletes == (exit = "closing") ~> (exit = "exited")
=============================================================================
