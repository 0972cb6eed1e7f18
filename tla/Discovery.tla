----------------------------- MODULE Discovery ------------------------------
(***************************************************************************)
(* discover_tmux_sessions: how a client learns of the tmux session it then *)
(* builds a Backend for.  The generator lists what is live now, goes to    *)
(* the end of events.jsonl and folds, from nothing, what is logged from    *)
(* there on.  Mirror.tla's log and its two folds of the whole log, which   *)
(* the registry and that Backend have, are beside it.  One tmux session;   *)
(* lines are whole.                                                        *)
(***************************************************************************)
EXTENDS Mirror

VARIABLES
  phase,    \* where the generator is
  yielded,  \* this tmux session is in the generator's set of that name
  unread,   \* lines behind its position, each with the folds at that line
  view,     \* its own fold, of the lines it has read
  clean,    \* nobody was attached when it went to the end of the log
  found     \* what it has yielded, with the folds at that line

genVars == <<phase, yielded, unread, view, clean, found>>
discoveryVars == <<vars, genVars>>

(* What the registry and a Backend have of the log so far.                 *)
Folded(entry, session, ended) == [entry |-> entry, primary |-> session, over |-> ended]

DiscoveryInit ==
  /\ Init
  /\ phase = "off" /\ yielded = FALSE /\ unread = <<>>
  /\ view = NoBinding /\ clean = FALSE /\ found = {}

(* The generator has its file open: it reads, or is suspended at a yield.   *)
Opened == phase \in {"tail", "yielded"}

Log(ev, pane) ==
  /\ Fold(ev, pane)
  /\ unread' = IF Opened
               THEN Append(unread, [ev |-> ev, pane |-> pane, ts |-> line + 1,
                                    folds |-> Folded(binding', primary', over')])
               ELSE unread
  /\ UNCHANGED <<phase, yielded, view, clean, found>>

Live(b) == b.current # NoSid

Yield(b, folds) ==
  found' = found \cup {[binding |-> b, folds |-> folds, clean |-> clean']}

(* The first use of the generator: list_live_tmux_bindings, if wanted.      *)
(* (Mutant: ended sessions count as yielded, too.)                         *)
StartsMarkingAll(existing) ==
  /\ phase = "off"
  /\ yielded' = (existing /\ Bound(binding)) /\ clean' = TRUE
  /\ IF existing /\ Live(binding)
     THEN /\ phase' = "listed"
          /\ Yield(binding, Folded(binding, primary, over))
     ELSE phase' = "seek" /\ UNCHANGED found
  /\ UNCHANGED <<vars, unread, view>>
Starts(existing) ==
  /\ phase = "off"
  /\ yielded' = (existing /\ Live(binding)) /\ clean' = TRUE
  /\ IF yielded' THEN /\ phase' = "listed"
                      /\ Yield(binding, Folded(binding, primary, over))
                 ELSE phase' = "seek" /\ UNCHANGED found
  /\ UNCHANGED <<vars, unread, view>>

(* The client asks for the next one.                                       *)
Resumes ==
  /\ \/ phase = "listed" /\ phase' = "seek"
     \/ phase = "yielded" /\ phase' = "tail"
  /\ UNCHANGED <<vars, yielded, unread, view, clean, found>>

(* Once events.jsonl exists it is opened, at its end.                      *)
Opens ==
  /\ phase = "seek" /\ line > 0
  /\ phase' = "tail"
  /\ clean' = ~Live(binding)
  /\ UNCHANGED <<vars, yielded, unread, view, found>>

(* A line is folded, and the session yielded when it is attached by it.     *)
(* (Mutant: the test comes before the fold.)                               *)
ReadsLate ==
  /\ phase = "tail" /\ unread # <<>>
  /\ unread' = Tail(unread) /\ UNCHANGED clean
  /\ LET e == Head(unread)
     IN /\ view' = Step(view, e.ev, e.pane, e.ts)
        /\ IF Live(view) /\ ~yielded
           THEN phase' = "yielded" /\ yielded' = TRUE /\ Yield(view, e.folds)
           ELSE UNCHANGED <<phase, yielded, found>>
  /\ UNCHANGED vars
Reads ==
  /\ phase = "tail" /\ unread # <<>>
  /\ unread' = Tail(unread) /\ UNCHANGED clean
  /\ LET e == Head(unread)
     IN /\ view' = Step(view, e.ev, e.pane, e.ts)
        /\ IF Live(view') /\ ~yielded
           THEN phase' = "yielded" /\ yielded' = TRUE /\ Yield(view', e.folds)
           ELSE UNCHANGED <<phase, yielded, found>>
  /\ UNCHANGED vars

DiscoveryNext ==
  \/ \E ev \in Events, pane \in Panes : Log(ev, pane)
  \/ \E existing \in BOOLEAN : Starts(existing)
  \/ Resumes \/ Opens \/ Reads

(* The generator polls the file; its client, and claude, owe nothing.       *)
DiscoverySpec ==
  DiscoveryInit /\ [][DiscoveryNext]_discoveryVars /\ WF_discoveryVars(Reads)

-----------------------------------------------------------------------------
(* A fold that begins at the seek has only part of the log.  What it yields *)
(* is nonetheless who is attached at that line, in which pane, to the       *)
(* registry and, up to a fatal end, to the Backend that the client will     *)
(* build, if nobody was attached at the seek.  (Otherwise the next          *)
(* session_start, a subagent's, is taken for the session's own.)           *)
FoundExact ==
  \A f \in found :
    f.clean => /\ f.binding.current = f.folds.entry.current
               /\ f.binding.pane = f.folds.entry.pane
               /\ ~f.folds.over => f.binding.current = f.folds.primary

(* A session that attaches behind the seek is yielded, even if it has ended *)
(* again before its line is read.                                          *)
FoundEventually == (phase = "tail" /\ clean /\ Live(binding)) ~> found # {}
=============================================================================
