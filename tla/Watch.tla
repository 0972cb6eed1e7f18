------------------------------- MODULE Watch --------------------------------
(***************************************************************************)
(* `ccmux-core watch`: four pumps that read a Backend's streams and write  *)
(* one terminal, a SIGWINCH handler, and the end of it all.                *)
(*                                                                         *)
(* A mode is what the options and the terminal make of the output:         *)
(*   bar  a header, two panes of messages and a status bar, painted in     *)
(*        place;                                                           *)
(*   tty  blocks one below the other, a spinner over the spinner before it; *)
(*   log  records, of --json or of a stdout that is no terminal: what they  *)
(*        say is left out.                                                 *)
(*                                                                         *)
(* The screen is a grid of cells, three to a row: the two panes and the     *)
(* divider.  A cell says what was written there: words, colours and ages    *)
(* are left out.  The terminal has at least 13 rows and, with a bar, panes   *)
(* wide enough for a block's title; how wide a tty is shows in Wraps.  A    *)
(* pump that finds its queue filled reads on without suspending: one step   *)
(* an item allows that and more.                                           *)
(***************************************************************************)
EXTENDS Streams, SequencesExt

CONSTANTS
  Modes,      \* of "bar", "tty", "log"
  Sizes,      \* the numbers of rows the terminal may have
  Wraps,      \* by how many rows the block of a spinner, or another, may be
              \* taller than its lines: 0 on a tty as wide as its separator
              \* (pretty_width), title and text
  MaxResizes  \* a bound

ASSUME SizeAssumption == Sizes \subseteq 13..200
ASSUME WrapAssumption == Wraps \in [BOOLEAN -> SUBSET Nat]

VARIABLES
  mode,     \* what is set up at the start
  at,       \* where _watch_async is
  pump,     \* the four tasks
  normal,   \* gather has returned, rather than raised
  ctx,      \* what the status bar shows
  screen,   \* the terminal: rows, grid, scroll region; ctx["status_height"]
            \* and ["status_enabled"]
  panes,    \* the two Pane objects
  handler,  \* SIGWINCH: installed, pending (scheduled), and resizes so far
  out,      \* tty: the rows below one another, and the marker of ctx
  seen,     \* history: the messages of a side, with the state at the time
  kept      \* history: the blocks that should be readable

watchVars == <<mode, at, pump, normal, ctx, screen, panes, handler, out, seen, kept>>
vars == <<streamVars, watchVars>>
(* Who runs and what there is to read, and what is shown of it.             *)
tasks == <<streamVars, at, pump, normal>>
shows == <<mode, ctx, screen, panes, handler, out, seen, kept>>

-----------------------------------------------------------------------------
(* The terminal.                                                           *)

Parts == {"left", "div", "right"}
BlockHeight == 4
BarHeight == 11
PaneTop == 3
Blank == <<"blank">>
Junk == <<"junk">>

Full(rows, cell) == [x \in (1..rows) \X Parts |-> cell]
Paint(grid, rows, parts, Cell(_, _)) ==
  [x \in DOMAIN grid |->
     IF x[1] \in rows /\ x[2] \in parts THEN Cell(x[1], x[2]) ELSE grid[x]]

(* _pane_geometry                                                          *)
PaneBottom(scr) == IF scr.rows - scr.height < PaneTop THEN PaneTop - 1
                   ELSE scr.rows - scr.height
Capacity(scr) == (PaneBottom(scr) - PaneTop + 1) \div BlockHeight

(* Header, region and bar.  The region is set when the bar's height changes. *)
EmitStatus(scr, c) ==
  IF ~scr.enabled THEN scr
  ELSE LET above == scr.rows - BarHeight
           line(row, part) == IF row = 1 THEN <<"header", c.sid>>
                              ELSE IF row = 2 THEN Blank ELSE <<"bar", row - above, c>>
       IN [scr EXCEPT !.grid = Paint(@, (1..2) \cup (above + 1..scr.rows), Parts, line),
                      !.region = IF scr.height = BarHeight THEN @ ELSE "scoped",
                      !.height = BarHeight]

(* _teardown_status.  (Mutant: the bar stays enabled.)                      *)
TeardownEnabled(scr) ==
  IF ~scr.enabled THEN scr ELSE [scr EXCEPT !.region = "full", !.height = 0]
Teardown(scr) ==
  IF ~scr.enabled THEN scr
  ELSE [scr EXCEPT !.region = "full", !.height = 0, !.enabled = FALSE]

SlotOf(row) == ((row - PaneTop) \div BlockHeight) + 1
LineOf(row) == ((row - PaneTop) % BlockHeight) + 1
BlockLine(row, entry) ==
  IF LineOf(row) = BlockHeight THEN Blank ELSE <<"block", LineOf(row), entry>>
Slots(from, to) == PaneTop + (from - 1) * BlockHeight..PaneTop + to * BlockHeight - 1

SlotCell(row, buf) ==
  IF SlotOf(row) <= Len(buf) THEN BlockLine(row, buf[SlotOf(row)]) ELSE Blank

PaintSlot(grid, side, idx, entry) ==
  Paint(grid, Slots(idx, idx), {side}, LAMBDA row, part : BlockLine(row, entry))
PaintAll(grid, side, pane) ==
  Paint(grid, Slots(1, pane.cap), {side}, LAMBDA row, part : SlotCell(row, pane.buf))

(* Pane.resize drops what no longer fits.  (Mutant: the newest of it.)      *)
TrimmedFromEnd(buf, cap) == SubSeq(buf, 1, IF Len(buf) < cap THEN Len(buf) ELSE cap)
Trimmed(buf, cap) == SubSeq(buf, IF Len(buf) > cap THEN Len(buf) - cap + 1 ELSE 1, Len(buf))

(* _resize_panes: the panes it leaves; all the rows between header and bar   *)
(* cleared, the divider, and every block.  (Mutant: nothing is cleared.)    *)
Resized(ps, scr) ==
  [s \in Sides |-> [cap |-> Capacity(scr), buf |-> Trimmed(ps[s].buf, Capacity(scr))]]
PaneArea(row, part, ps) ==
  IF part = "div" THEN <<"divider">> ELSE SlotCell(row, ps[part].buf)
DrawBlocks(scr, ps) ==
  LET area(row, part) == PaneArea(row, part, ps)
      blocks == Paint(scr.grid, Slots(1, Capacity(scr)), Sides, area)
  IN [scr EXCEPT !.grid = Paint(blocks, PaneTop..PaneBottom(scr), {"div"}, area)]
DrawPanes(scr, ps) ==
  [scr EXCEPT !.grid = Paint(@, PaneTop..PaneBottom(scr), Parts,
                             LAMBDA row, part : PaneArea(row, part, ps))]

(* Pane.push.                                                              *)
Pushed(pane, entry) ==
  IF pane.cap = 0 THEN pane
  ELSE [pane EXCEPT !.buf = IF Len(@) >= pane.cap THEN Tail(Append(@, entry))
                                                  ELSE Append(@, entry)]
Push(grid, side, pane, entry) ==
  LET new == Pushed(pane, entry)
  IN IF pane.cap = 0 THEN grid
     ELSE IF Len(pane.buf) >= pane.cap THEN PaintAll(grid, side, new)
     ELSE PaintSlot(grid, side, Len(new.buf), entry)

-----------------------------------------------------------------------------
(* The rows of a tty.  A block has a separator, a title, a text and a        *)
(* blank; the text of an activity may have a second line.  These are the    *)
(* lines that _emit_pretty counts, the newlines.  A line that the tty is    *)
(* too narrow for wraps: the block takes `extra` rows more.                 *)

Lines(activity) == IF activity = NoActivity THEN BlockHeight ELSE BlockHeight + 1
RowsOf(n, count) == [i \in 1..count |-> n]

(* _emit_pretty.  A spinner behind a spinner first moves the cursor up by    *)
(* the lines counted for that one, and clears what is below.               *)
(* (Mutant: the marker of a spinner block stays.)                          *)
Emitted(lines, extra, spinner) ==
  LET over == spinner /\ out.marker
      above == IF over THEN SubSeq(out.text, 1, Len(out.text) - out.height) ELSE out.text
  IN [text |-> above \o RowsOf(out.n + 1, lines + extra), n |-> out.n + 1,
      marker |-> spinner, height |-> IF spinner THEN lines ELSE out.height]
EmitKeepingMarker(lines, extra, spinner) ==
  out' = [Emitted(lines, extra, spinner) EXCEPT !.marker = out.marker \/ spinner]
Emit(lines, extra, spinner) == out' = Emitted(lines, extra, spinner)

(* Of consecutive spinners the last is of interest, and what the count does  *)
(* not reach of those before it: the first rows of each that wrapped.       *)
Keep(lines, extra, spinner) ==
  LET over == spinner /\ kept # <<>> /\ Last(kept).spinner
      rest == IF over THEN Last(kept).rest \o RowsOf(Last(kept).n, Last(kept).extra) ELSE <<>>
  IN kept' = Append(IF over THEN Front(kept) ELSE kept,
                    [n |-> out.n + 1, lines |-> lines, extra |-> extra,
                     rest |-> rest, spinner |-> spinner])

Prints(lines, spinner) ==
  IF mode = "tty"
  THEN \E extra \in Wraps[spinner] : Emit(lines, extra, spinner) /\ Keep(lines, extra, spinner)
  ELSE UNCHANGED <<out, kept>>

-----------------------------------------------------------------------------
(* What is set up before the Backend is entered.                           *)

Init ==
  /\ StreamsInit
  /\ mode \in Modes
  /\ at = "pumping" /\ pump = [q \in Streams |-> "run"] /\ normal = FALSE
  /\ ctx = [state |-> None, sid |-> Primary, hook |-> <<>>, spin |-> NoActivity]
  /\ \E rows \in IF mode = "bar" THEN Sizes ELSE {13} :
       LET empty == [rows |-> rows, grid |-> Full(rows, Blank), region |-> "full",
                     height |-> 0, enabled |-> mode = "bar"]
           none == [s \in Sides |-> [cap |-> 0, buf |-> <<>>]]
       IN /\ screen = IF mode = "bar" THEN DrawPanes(EmitStatus(empty, ctx), none) ELSE empty
          /\ panes = [s \in Sides |-> [cap |-> Capacity(screen), buf |-> <<>>]]
  /\ handler = [installed |-> mode = "bar", pending |-> FALSE, resizes |-> 0]
  /\ out = [text |-> <<>>, n |-> 0, marker |-> FALSE, height |-> 0]
  /\ seen = [s \in Sides |-> <<>>] /\ kept = <<>>

(* The Backend's tasks, until __aexit__ has cancelled them.                 *)
Runs == at \in {"pumping", "leaving"}
Produce == Runs /\ Produces /\ UNCHANGED watchVars

-----------------------------------------------------------------------------
(* The pumps.                                                              *)

Ready(q) == pump[q] = "run" /\ queue[q] # <<>>

(* The next item.  states() ends with Dead.                                *)
(* (Mutant: it waits for an _END like the others.)                          *)
TakesToEnd(q) ==
  /\ Ready(q)
  /\ queue' = [queue EXCEPT ![q] = Tail(@)]
  /\ UNCHANGED pump
  /\ UNCHANGED <<state, primary, known, stopped, ended, arrivals, at, normal>>
Takes(q) ==
  /\ Ready(q)
  /\ queue' = [queue EXCEPT ![q] = Tail(@)]
  /\ pump' = IF q = "states" /\ IsDead(Head(queue[q])) THEN [pump EXCEPT ![q] = "done"] ELSE pump
  /\ UNCHANGED <<state, primary, known, stopped, ended, arrivals, at, normal>>

Redraw(new) == ctx' = new /\ screen' = EmitStatus(screen, new)

PumpState ==
  /\ Takes("states")
  /\ Redraw([ctx EXCEPT !.state = Head(queue["states"])])
  /\ Prints(Lines(NoActivity), FALSE)
  /\ UNCHANGED <<mode, panes, handler, seen>>

PumpEvent ==
  /\ Takes("events")
  /\ LET ev == Head(queue["events"])
     IN Redraw([ctx EXCEPT !.hook = <<ev>>,
                           !.sid = IF ev.sid = EmptySid THEN @ ELSE ev.sid])
  /\ Prints(Lines(NoActivity), FALSE)
  /\ UNCHANGED <<mode, panes, handler, seen>>

PumpMessage ==
  /\ Takes("messages")
  /\ LET msg == Head(queue["messages"])
         entry == [msg |-> msg, state |-> ctx.state]
         side == msg.side
     IN IF mode = "bar"
        THEN /\ seen' = [seen EXCEPT ![side] = Append(@, entry)]
             /\ panes' = [panes EXCEPT ![side] = Pushed(@, entry)]
             /\ screen' = EmitStatus(
                  [screen EXCEPT !.grid = Push(@, side, panes[side], entry)], ctx)
        ELSE UNCHANGED <<seen, panes, screen>>
  /\ Prints(Lines(NoActivity), FALSE)
  /\ UNCHANGED <<mode, ctx, handler>>

PumpSpinner ==
  /\ Takes("spinners")
  /\ LET activity == Head(queue["spinners"])
     IN Redraw([ctx EXCEPT !.spin = activity]) /\ Prints(Lines(activity), TRUE)
  /\ UNCHANGED <<mode, panes, handler, seen>>

PumpEnds(q) ==
  /\ pump[q] = "run" /\ queue[q] = <<>> /\ ended[q]
  /\ pump' = [pump EXCEPT ![q] = "done"]
  /\ UNCHANGED <<streamVars, at, normal>>

(* The reader of the pipe is gone, and print raises.  (A terminal that goes  *)
(* away ends the process by SIGHUP.)                                       *)
PumpFails(q) ==
  /\ mode = "log" /\ Ready(q)
  /\ queue' = [queue EXCEPT ![q] = Tail(@)]
  /\ pump' = [pump EXCEPT ![q] = "failed"]
  /\ UNCHANGED <<state, primary, known, stopped, ended, arrivals, at, normal, shows>>

-----------------------------------------------------------------------------
(* The size of the terminal.  What a resize makes of the text on the screen *)
(* is the terminal's affair.  The handler stays scheduled when it is        *)
(* removed.                                                                *)
Resize(rows) ==
  /\ Runs /\ mode = "bar" /\ handler.resizes < MaxResizes
  /\ rows # screen.rows
  /\ screen' = [screen EXCEPT !.rows = rows, !.grid = Full(rows, Junk)]
  /\ handler' = [handler EXCEPT !.pending = @ \/ handler.installed, !.resizes = @ + 1]
  /\ UNCHANGED <<tasks, mode, ctx, panes, out, seen, kept>>

OnResize ==
  /\ handler.pending
  /\ handler' = [handler EXCEPT !.pending = FALSE]
  /\ LET scr == EmitStatus(screen, ctx)
     IN panes' = Resized(panes, scr) /\ screen' = DrawPanes(scr, panes')
  /\ UNCHANGED <<tasks, mode, ctx, out, seen, kept>>

-----------------------------------------------------------------------------
(* The end.                                                                *)

(* Ctrl-C cancels the main task, in gather, and with it the pumps.          *)
Interrupt ==
  /\ at = "pumping" /\ \E q \in Streams : pump[q] = "run"
  /\ pump' = [q \in Streams |-> IF pump[q] = "run" THEN "cancelled" ELSE pump[q]]
  /\ UNCHANGED <<streamVars, at, normal, shows>>

(* gather returns with the last pump, or raises with the first that fails:   *)
(* the others are not cancelled.  Backend.__aexit__ begins.                *)
(* (Mutant: it returns with the first.)                                    *)
Leave ==
  /\ at' = "leaving" /\ Stops
  /\ normal' = \A q \in Streams : pump[q] # "failed" /\ pump[q] # "cancelled"
  /\ UNCHANGED <<state, primary, known, queue, ended, arrivals, pump>>
GatherFirst ==
  /\ at = "pumping" /\ \E q \in Streams : pump[q] # "run"
  /\ Leave
Gather ==
  /\ at = "pumping"
  /\ \/ \A q \in Streams : pump[q] # "run"
     \/ \E q \in Streams : pump[q] = "failed"
  /\ Leave

(* __aexit__ has put an _END on every stream.  `finally` follows in one go;  *)
(* the loop goes on until asyncio.run closes it.                           *)
Returns ==
  /\ at = "leaving" /\ at' = "returned"
  /\ EndsAll
  /\ UNCHANGED <<state, primary, known, stopped, queue, arrivals, pump, normal>>
Restores ==
  /\ handler' = [handler EXCEPT !.installed = FALSE]
  /\ screen' = Teardown(screen)
  /\ UNCHANGED <<mode, ctx, panes, out, seen, kept>>

Next ==
  \/ Produce
  \/ PumpState \/ PumpEvent \/ PumpMessage \/ PumpSpinner
  \/ \E q \in Streams : PumpEnds(q) /\ UNCHANGED shows
  \/ \E q \in Streams : PumpFails(q)
  \/ \E rows \in Sizes : Resize(rows)
  \/ OnResize
  \/ Interrupt
  \/ Gather /\ UNCHANGED shows
  \/ Returns /\ Restores

(* The event loop runs one of the tasks that are ready; a Backend owes its   *)
(* client nothing here.                                                    *)
Loop == (\E q \in Streams : Takes(q) \/ PumpEnds(q)) \/ Gather \/ Returns
Spec == Init /\ [][Next]_vars /\ WF_tasks(Loop)

-----------------------------------------------------------------------------
(* Painting in place, by whichever pump or handler, has at every moment     *)
(* left what drawing everything anew would: no rest of an older geometry,    *)
(* of a dropped block or of an earlier bar.                                *)
Layout(row, part) ==
  IF row > screen.rows - BarHeight THEN <<"bar", row - (screen.rows - BarHeight), ctx>>
  ELSE IF row = 1 THEN <<"header", ctx.sid>>
  ELSE IF row = 2 THEN Blank
  ELSE IF part = "div" THEN <<"divider">>
  ELSE IF SlotOf(row) <= Len(panes[part].buf) /\ LineOf(row) < BlockHeight
  THEN <<"block", LineOf(row), panes[part].buf[SlotOf(row)]>> ELSE Blank
ScreenExact ==
  mode = "bar" /\ Runs /\ ~handler.pending =>
    \A row \in 1..screen.rows, part \in Parts :
      screen.grid[row, part] = Layout(row, part)

(* A pane holds the latest messages of its side, each with the state it was  *)
(* read in; as many as fit, if it was never made smaller.                   *)
PanesShowLatest ==
  mode = "bar" => \A side \in Sides :
    LET pane == panes[side]
    IN /\ IsSuffix(pane.buf, seen[side])
       /\ handler.resizes = 0 =>
            Len(pane.buf) = IF Len(seen[side]) < pane.cap THEN Len(seen[side]) ELSE pane.cap

(* Where a spinner's block is written over the one before it nothing else is *)
(* lost, though their heights differ, and of that block nothing stays but   *)
(* the rows by which it was taller than its lines: none on a tty that is    *)
(* wide enough.                                                            *)
SpinnerBlocks ==
  out.text = FlattenSeq([i \in 1..Len(kept) |->
    kept[i].rest \o RowsOf(kept[i].n, kept[i].lines + kept[i].extra)])

(* Once the user has the terminal back it scrolls as a whole and sends no    *)
(* SIGWINCH here, even after a handler that was scheduled before.           *)
TerminalRestored ==
  at = "returned" => screen.region = "full" /\ ~handler.installed

(* A watch that ends by itself has shown the end of the session, and all that *)
(* the streams had before it.                                              *)
FinalShown ==
  normal => /\ IsDead(ctx.state)
            /\ \A q \in Streams \ {"states"} : queue[q] = <<>>

(* When the session is over, watch returns.                                *)
WatchReturns == stopped ~> at = "returned"
=============================================================================
