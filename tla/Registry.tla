------------------------------ MODULE Registry ------------------------------
(***************************************************************************)
(* bindings.json, the registry of which claude session sits in which tmux  *)
(* session, and its two writers: a BindingsTracker, which tails            *)
(* events.jsonl inside a long-running process, and the one-shot snapshot() *)
(* of another process, which folds the whole file again.  Both write       *)
(* through _atomic_write: one lock file, one .tmp file, os.replace.        *)
(*                                                                         *)
(* A missing bindings.json reads as an empty one.  events.jsonl is missing *)
(* while it has no line.  Its lines are whole: half-written and malformed  *)
(* ones, which every reader skips or waits for, are left out.              *)
(***************************************************************************)
EXTENDS Binding

CONSTANTS
  Tmuxes,        \* tmux session names
  Events,        \* the hook events claude-tap may log
  Torn,          \* a file that is not a whole JSON document
  Free,          \* nobody holds the lock
  MaxEvents,     \* bound: lines of events.jsonl
  MaxStarts,     \* bound: trackers started, one after the other
  MaxSnapshots   \* bound: snapshots taken

ASSUME RegistryAssumption ==
  /\ Events \subseteq HookEvents
  /\ MaxEvents \in Nat /\ MaxStarts \in Nat /\ MaxSnapshots \in Nat
  /\ Torn \notin [Tmuxes -> Bindings]
  /\ Free \notin {"tracker", "snapshot"}

Writers == {"tracker", "snapshot"}

VARIABLES
  lines,      \* lines of events.jsonl
  all,        \* what a fold over the whole of events.jsonl yields
  unread,     \* lines the tracker's file handle has still to read
  file, tmp,  \* bindings.json and bindings.json.tmp
  lock,       \* who holds the flock
  mem,        \* the tracker's _bindings
  at,         \* where each writer is
  payload,    \* what each writer is about to write
  leaving,    \* the tracker's flush is the one of __aexit__
  missed,     \* the registry may lack an event (history, for TrackerExact)
  starts, snapshots

logVars == <<lines, all>>
diskVars == <<file, tmp, lock>>
counters == <<starts, snapshots>>
vars == <<lines, all, unread, file, tmp, lock, mem, at, payload, leaving,
          missed, starts, snapshots>>

Nothing == [t \in Tmuxes |-> NoBinding]
Writing == {"lock", "open", "fill", "replace"}
Goes(w, place) == at' = [at EXCEPT ![w] = place]

Init ==
  /\ lines = 0 /\ all = Nothing /\ unread = <<>>
  /\ file = Nothing /\ tmp = Torn /\ lock = Free
  /\ mem = Nothing /\ payload = [w \in Writers |-> Nothing]
  /\ at = [w \in Writers |-> "off"]
  /\ leaving = FALSE /\ missed = FALSE
  /\ starts = 0 /\ snapshots = 0

-----------------------------------------------------------------------------
(* claude-tap logs an event of a claude that runs in pane of session t.    *)

Folds(bindings, entry) ==
  [bindings EXCEPT ![entry.tmux] = Step(@, entry.ev, entry.pane, entry.ts)]

(* The tracker has events.jsonl open.                                      *)
Tailing ==
  at["tracker"] = "tail" \/ (at["tracker"] \in Writing /\ ~leaving)

LogLine(t, ev, pane) ==
  LET entry == [tmux |-> t, ev |-> ev, pane |-> pane, ts |-> lines + 1]
  IN /\ lines < MaxEvents
     /\ lines' = lines + 1
     /\ all' = Folds(all, entry)
     /\ unread' = IF Tailing THEN Append(unread, entry) ELSE unread
     /\ missed' = (missed \/ ~Tailing)
     /\ UNCHANGED <<diskVars, mem, at, payload, leaving, counters>>

-----------------------------------------------------------------------------
(* _atomic_write, in the steps another process can see.                    *)

(* Both writers build their payload before they ask for the lock.          *)
StartsWriting(w, data) ==
  /\ payload' = [payload EXCEPT ![w] = data]
  /\ Goes(w, "lock")

(* (Mutant: without asking for the flock.)                                 *)
TakeLockAnyway(w) ==
  /\ at[w] = "lock"
  /\ lock' = w
  /\ Goes(w, "open")
  /\ UNCHANGED <<logVars, unread, file, tmp, mem, payload, leaving, missed, counters>>
TakeLock(w) ==
  /\ at[w] = "lock" /\ lock = Free
  /\ lock' = w
  /\ Goes(w, "open")
  /\ UNCHANGED <<logVars, unread, file, tmp, mem, payload, leaving, missed, counters>>

OpenTmp(w) ==
  /\ at[w] = "open"
  /\ tmp' = Torn
  /\ Goes(w, "fill")
  /\ UNCHANGED <<logVars, unread, file, lock, mem, payload, leaving, missed, counters>>

FillTmp(w) ==
  /\ at[w] = "fill"
  /\ tmp' = payload[w]
  /\ Goes(w, "replace")
  /\ UNCHANGED <<logVars, unread, file, lock, mem, payload, leaving, missed, counters>>

(* Where a writer is after _atomic_write has returned, or has raised: a     *)
(* write that fails ends the tracker's task, but not the tracker.          *)
Returned(w) == IF w = "tracker" /\ ~leaving THEN "tail" ELSE "off"
Raised(w) == IF w = "tracker" /\ ~leaving THEN "broken" ELSE "off"

(* A snapshot is exact when it reflects every line and no tracker runs with *)
(* an older copy.                                                          *)
Replace(w) ==
  /\ at[w] = "replace"
  /\ file' = tmp /\ tmp' = Torn
  /\ lock' = Free
  /\ Goes(w, Returned(w))
  /\ missed' = IF w = "tracker" THEN missed
               ELSE at["tracker"] # "off" \/ payload[w] # all
  /\ UNCHANGED <<logVars, unread, mem, payload, leaving, counters>>

(* The disk is full, or another call raises.  The lock, if it is held, is    *)
(* released in a finally; the .tmp stays as it is.                          *)
(* (Mutant: the lock is not released.)                                     *)
WriteFailsLocked(w) ==
  /\ at[w] \in Writing
  /\ Goes(w, Raised(w))
  /\ missed' = (missed \/ w = "tracker")
  /\ UNCHANGED <<logVars, unread, diskVars, mem, payload, leaving, counters>>
WriteFails(w) ==
  /\ at[w] \in Writing
  /\ lock' = IF lock = w THEN Free ELSE lock
  /\ Goes(w, Raised(w))
  /\ missed' = (missed \/ w = "tracker")
  /\ UNCHANGED <<logVars, unread, file, tmp, mem, payload, leaving, counters>>

-----------------------------------------------------------------------------
(* BindingsTracker.                                                        *)

(* __aenter__ copies the file into memory ...                              *)
TrackerLoads ==
  /\ at["tracker"] = "off" /\ starts < MaxStarts
  /\ file # Torn
  /\ starts' = starts + 1
  /\ mem' = file
  /\ leaving' = FALSE
  /\ Goes("tracker", "seek")
  /\ UNCHANGED <<logVars, unread, diskVars, payload, missed, snapshots>>

(* ... and goes to the end of events.jsonl, which may have grown since, or  *)
(* has its task wait for the file to appear.                               *)
TrackerSeeks ==
  /\ at["tracker"] = "seek"
  /\ unread' = <<>>
  /\ Goes("tracker", IF lines = 0 THEN "wait" ELSE "tail")
  /\ UNCHANGED <<logVars, diskVars, mem, payload, leaving, missed, counters>>

(* _run opens a file that has appeared: at its end, too.                   *)
TrackerOpens ==
  /\ at["tracker"] = "wait" /\ lines > 0
  /\ Goes("tracker", "tail")
  /\ UNCHANGED <<logVars, unread, diskVars, mem, payload, leaving, missed, counters>>

(* What is worth a write.  (Mutant: only another session.)                 *)
ChangesSession(before, after) ==
  \E t \in Tmuxes : before[t].current # after[t].current
Changes(before, after) ==
  \E t \in Tmuxes : Structural(before[t]) # Structural(after[t])

TrackerReads ==
  /\ at["tracker"] = "tail" /\ unread # <<>>
  /\ mem' = Folds(mem, Head(unread))
  /\ unread' = Tail(unread)
  /\ IF Changes(mem, mem') THEN StartsWriting("tracker", mem')
                           ELSE UNCHANGED <<at, payload>>
  /\ UNCHANGED <<logVars, diskVars, leaving, missed, counters>>

(* __aexit__ cancels the task where it sleeps, closes events.jsonl with     *)
(* what is still unread, and flushes.                                      *)
TrackerExits ==
  /\ at["tracker"] \in {"wait", "tail", "broken"}
  /\ leaving' = TRUE
  /\ StartsWriting("tracker", mem)
  /\ missed' = (missed \/ unread # <<>>)
  /\ unread' = <<>>
  /\ UNCHANGED <<logVars, diskVars, mem, counters>>

(* snapshot() folds all of events.jsonl.                                   *)
SnapshotReads ==
  /\ at["snapshot"] = "off" /\ snapshots < MaxSnapshots
  /\ snapshots' = snapshots + 1
  /\ StartsWriting("snapshot", all)
  /\ UNCHANGED <<logVars, unread, diskVars, mem, leaving, missed, starts>>

(* The process dies: the system drops its lock, the files stay.            *)
Crash(w) ==
  /\ at[w] # "off"
  /\ Goes(w, "off")
  /\ lock' = IF lock = w THEN Free ELSE lock
  /\ IF w = "tracker" THEN unread' = <<>> /\ missed' = TRUE
                      ELSE UNCHANGED <<unread, missed>>
  /\ UNCHANGED <<logVars, file, tmp, mem, payload, leaving, counters>>

-----------------------------------------------------------------------------
Writes(w) == TakeLock(w) \/ OpenTmp(w) \/ FillTmp(w) \/ Replace(w)
Tracker == TrackerLoads \/ TrackerSeeks \/ TrackerOpens \/ TrackerReads \/ TrackerExits
Next ==
  \/ \E t \in Tmuxes, ev \in Events, pane \in Panes : LogLine(t, ev, pane)
  \/ \E w \in Writers : Writes(w) \/ WriteFails(w) \/ Crash(w)
  \/ Tracker
  \/ SnapshotReads

(* A write goes on once it has the lock; nothing else has to happen.       *)
Spec == Init /\ [][Next]_vars /\ \A w \in Writers : WF_vars(Writes(w))

-----------------------------------------------------------------------------
(* The tracker's entries and those of a full fold are Sound at every moment, *)
(* whatever of the log a tracker missed while it was not there.            *)
RecordsSound == \A t \in Tmuxes : Sound(mem[t]) /\ Sound(all[t])

(* A reader takes no lock: bindings.json is a whole document at every       *)
(* moment, whoever is writing, fails or dies.                              *)
FileWhole == file # Torn

(* A tracker that started from an exact file, with no line logged before    *)
(* its seek, and that was not disturbed by a snapshot, keeps the file equal *)
(* to a fold over the whole log, last_event_at aside.                      *)
TrackerExact ==
  (~missed /\ at["tracker"] \in {"off", "wait", "tail"} /\ unread = <<>>)
    => /\ file # Torn
       /\ \A t \in Tmuxes : Structural(file[t]) = Structural(all[t])

(* Goal 3 of the tracker's design: the ids of ended sessions are kept, to    *)
(* resume them by.  Trackers alone never lose one from the file, whatever   *)
(* each of them misses, loads, fails to write or dies in; a snapshot, which *)
(* folds anew, may (EntriesKept).                                          *)
HistoryKept ==
  [][snapshots = 0 => \A t \in Tmuxes : Hosted(file[t]) \subseteq Hosted(file'[t])]_vars

(* No writer waits for the lock for ever: whoever holds it finishes, fails  *)
(* or dies, and each of the three frees it.                                *)
LockFreed == \A w \in Writers : at[w] \in Writing ~> at[w] \notin Writing

(* bindings.py, _atomic_write: the lock is there "so that concurrent writers *)
(* (the tracker + a manual ``bindings snapshot``) cannot race", and the      *)
(* design has it that "Entries are never deleted".  A writer that waits for  *)
(* the lock writes what it knew before: a snapshot without what the tracker *)
(* has written meanwhile, a tracker without what a snapshot has recovered. *)
EntriesKept == [][\A t \in Tmuxes : Bound(file[t]) => Bound(file'[t])]_vars

(* _atomic_write: to whoever reads it without a lock bindings.json is a     *)
(* register, written whole and one request at a time, whatever the two      *)
(* writers do to their shared .tmp file, and whether they fail or die.     *)
Register == INSTANCE AtomicFile
  WITH Empty <- Nothing,
       offer <- [w \in Writers |-> IF at[w] \in Writing THEN {payload[w]} ELSE {}]
RefinesAtomicFile == Register!Spec
=============================================================================
