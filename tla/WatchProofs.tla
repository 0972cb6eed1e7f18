----------------------------- MODULE WatchProofs -----------------------------
(***************************************************************************)
(* The invariants of Watch.tla, for terminals of every size, any number of  *)
(* resizes and whatever the Backend's streams carry.                       *)
(***************************************************************************)
EXTENDS Watch, SessionStateProofs, SequenceTheorems, WellFoundedInduction

-----------------------------------------------------------------------------
(* The terminal is given back.                                             *)

ScreenShape(scr) ==
  scr = [rows |-> scr.rows, grid |-> scr.grid, region |-> scr.region,
         height |-> scr.height, enabled |-> scr.enabled]

(* What is painted on a screen whose bar is disabled sets no region, and    *)
(* that it is disabled once the handler is removed is why it stays so: the  *)
(* handler may be scheduled still.                                         *)
TerminalInv ==
  /\ ScreenShape(screen)
  /\ handler = [installed |-> handler.installed, pending |-> handler.pending,
                resizes |-> handler.resizes]
  /\ ~screen.enabled => screen.region = "full"
  /\ at = "returned" => ~screen.enabled /\ ~handler.installed

LEMMA EmitStatusShape ==
  ASSUME NEW scr, NEW c, ScreenShape(scr)
  PROVE  /\ ScreenShape(EmitStatus(scr, c))
         /\ EmitStatus(scr, c).enabled = scr.enabled
         /\ ~scr.enabled => EmitStatus(scr, c) = scr
<1> DEFINE new == EmitStatus(scr, c)
           above == scr.rows - BarHeight
           line(row, part) == IF row = 1 THEN <<"header", c.sid>>
                              ELSE IF row = 2 THEN Blank ELSE <<"bar", row - above, c>>
           grid == Paint(scr.grid, (1..2) \cup (above + 1..scr.rows), Parts, line)
           region == IF scr.height = BarHeight THEN scr.region ELSE "scoped"
<1>1. CASE ~scr.enabled
  BY <1>1 DEF EmitStatus
<1>2. CASE scr.enabled
  <2>1. new = [scr EXCEPT !.grid = grid, !.region = region, !.height = BarHeight]
    BY <1>2 DEF EmitStatus
  <2> HIDE DEF new, grid, region
  <2>2. new = [rows |-> scr.rows, grid |-> grid, region |-> region,
               height |-> BarHeight, enabled |-> scr.enabled]
    BY <2>1 DEF ScreenShape
  <2>3. ScreenShape(new) /\ new.enabled = scr.enabled
    BY <2>2 DEF ScreenShape
  <2> QED BY <2>3, <1>2 DEF new
<1> QED BY <1>1, <1>2

LEMMA DrawPanesShape ==
  ASSUME NEW scr, NEW ps, ScreenShape(scr)
  PROVE  /\ ScreenShape(DrawPanes(scr, ps))
         /\ DrawPanes(scr, ps).enabled = scr.enabled
         /\ DrawPanes(scr, ps).region = scr.region
<1> DEFINE grid == Paint(scr.grid, PaneTop..PaneBottom(scr), Parts,
                         LAMBDA row, part : PaneArea(row, part, ps))
           new == DrawPanes(scr, ps)
<1>1. new = [scr EXCEPT !.grid = grid]
  BY DEF DrawPanes
<1> HIDE DEF grid, new
<1>2. new = [rows |-> scr.rows, grid |-> grid, region |-> scr.region,
             height |-> scr.height, enabled |-> scr.enabled]
  BY <1>1 DEF ScreenShape
<1>3. ScreenShape(new) /\ new.enabled = scr.enabled /\ new.region = scr.region
  BY <1>2 DEF ScreenShape
<1> QED BY <1>3 DEF new

LEMMA Redrawn ==
  ASSUME ScreenShape(screen), NEW grid, NEW c,
         screen' = EmitStatus([screen EXCEPT !.grid = grid], c)
  PROVE  /\ ScreenShape(screen') /\ screen'.enabled = screen.enabled
         /\ ~screen.enabled => screen'.region = screen.region
<1> DEFINE scr == [screen EXCEPT !.grid = grid]
<1>1. ScreenShape(scr) /\ scr.enabled = screen.enabled /\ scr.region = screen.region
  BY DEF ScreenShape
<1> HIDE DEF scr
<1>2. screen' = EmitStatus(scr, c)
  BY DEF scr
<1> QED BY <1>1, <1>2, EmitStatusShape

LEMMA TerminalStep == TerminalInv /\ [Next]_vars => TerminalInv'
<1> SUFFICES ASSUME TerminalInv, [Next]_vars PROVE TerminalInv'
  OBVIOUS
<1>0. ScreenShape(screen)
  BY DEF TerminalInv
<1>1. ASSUME UNCHANGED <<at, screen, handler>> PROVE TerminalInv'
  BY <1>1 DEF TerminalInv, ScreenShape
<1>2. ASSUME UNCHANGED <<at, handler>>, ScreenShape(screen'),
             screen'.enabled = screen.enabled,
             ~screen.enabled => screen'.region = screen.region
      PROVE  TerminalInv'
  BY <1>2 DEF TerminalInv
<1>3. CASE Produce
  BY <1>1, <1>3 DEF Produce, watchVars
<1>4. ASSUME NEW q \in Streams, Takes(q), NEW c, Redraw(c), UNCHANGED handler
      PROVE  TerminalInv'
  <2>1. screen' = EmitStatus(screen, c) /\ at' = at
    BY <1>4 DEF Redraw, Takes
  <2> QED BY <1>0, <1>2, <1>4, <2>1, EmitStatusShape
<1>5. CASE PumpState
  <2>1. PICK c : Redraw(c)
    BY <1>5 DEF PumpState
  <2> QED BY <1>4, <1>5, <2>1 DEF PumpState, Streams
<1>6. CASE PumpEvent
  <2>1. PICK c : Redraw(c)
    BY <1>6 DEF PumpEvent
  <2> QED BY <1>4, <1>6, <2>1 DEF PumpEvent, Streams
<1>7. CASE PumpSpinner
  <2>1. PICK c : Redraw(c)
    BY <1>7 DEF PumpSpinner
  <2> QED BY <1>4, <1>7, <2>1 DEF PumpSpinner, Streams
<1>8. CASE PumpMessage
  <2>1. UNCHANGED <<at, handler>>
    BY <1>8 DEF PumpMessage, Takes
  <2>2. CASE mode = "bar"
    <3>1. PICK grid : screen' = EmitStatus([screen EXCEPT !.grid = grid], ctx)
      BY <1>8, <2>2 DEF PumpMessage
    <3> QED BY <1>0, <1>2, <2>1, <3>1, Redrawn
  <2>3. CASE mode # "bar"
    BY <1>1, <1>8, <2>1, <2>3 DEF PumpMessage
  <2> QED BY <2>2, <2>3
<1>9. CASE \E q \in Streams : PumpEnds(q) /\ UNCHANGED shows
  BY <1>1, <1>9 DEF PumpEnds, shows
<1>10. CASE \E q \in Streams : PumpFails(q)
  BY <1>1, <1>10 DEF PumpFails, shows
<1>11. ASSUME NEW rows \in Sizes, Resize(rows) PROVE TerminalInv'
  <2>1. /\ screen' = [screen EXCEPT !.rows = rows, !.grid = Full(rows, Junk)]
        /\ handler' = [handler EXCEPT !.pending = @ \/ handler.installed, !.resizes = @ + 1]
        /\ at' = at
    BY <1>11 DEF Resize, tasks
  <2>2. /\ ScreenShape(screen') /\ screen'.enabled = screen.enabled
        /\ screen'.region = screen.region
    BY <1>0, <2>1 DEF ScreenShape
  <2>3. /\ handler'.installed = handler.installed
        /\ handler' = [installed |-> handler'.installed, pending |-> handler'.pending,
                       resizes |-> handler'.resizes]
    BY <2>1 DEF TerminalInv
  <2> QED BY <2>1, <2>2, <2>3 DEF TerminalInv
<1>12. CASE OnResize
  <2> DEFINE scr == EmitStatus(screen, ctx)
  <2>1. /\ ScreenShape(scr) /\ scr.enabled = screen.enabled
        /\ ~screen.enabled => scr = screen
    BY <1>0, EmitStatusShape
  <2>2. screen' = DrawPanes(scr, panes') /\ at' = at
    BY <1>12 DEF OnResize, tasks
  <2> HIDE DEF scr
  <2>3. /\ ScreenShape(screen') /\ screen'.enabled = screen.enabled
        /\ ~screen.enabled => screen'.region = screen.region
    BY <2>1, <2>2, DrawPanesShape
  <2>4. /\ handler'.installed = handler.installed
        /\ handler' = [installed |-> handler'.installed, pending |-> handler'.pending,
                       resizes |-> handler'.resizes]
    BY <1>12 DEF OnResize, TerminalInv
  <2> QED BY <2>2, <2>3, <2>4 DEF TerminalInv
<1>13. CASE Interrupt
  BY <1>1, <1>13 DEF Interrupt, shows
<1>14. CASE Gather /\ UNCHANGED shows
  <2>1. at' = "leaving" /\ UNCHANGED <<screen, handler>>
    BY <1>14 DEF Gather, Leave, shows
  <2> QED BY <2>1 DEF TerminalInv, ScreenShape
<1>15. CASE Returns /\ Restores
  <2>1. /\ handler' = [handler EXCEPT !.installed = FALSE]
        /\ screen' = Teardown(screen)
    BY <1>15 DEF Restores
  <2>2. ScreenShape(screen') /\ ~screen'.enabled /\ screen'.region = "full"
    BY <2>1 DEF Teardown, TerminalInv, ScreenShape
  <2>3. /\ ~handler'.installed
        /\ handler' = [installed |-> handler'.installed, pending |-> handler'.pending,
                       resizes |-> handler'.resizes]
    BY <2>1 DEF TerminalInv
  <2> QED BY <2>2, <2>3 DEF TerminalInv
<1>16. CASE UNCHANGED vars
  BY <1>1, <1>16 DEF vars, watchVars
<1> QED BY <1>3, <1>5, <1>6, <1>7, <1>8, <1>9, <1>10, <1>11, <1>12, <1>13, <1>14, <1>15,
           <1>16 DEF Next

LEMMA TerminalInit == Init => TerminalInv
<1> SUFFICES ASSUME Init PROVE TerminalInv
  OBVIOUS
<1>1. /\ at = "pumping"
      /\ handler = [installed |-> mode = "bar", pending |-> FALSE, resizes |-> 0]
  BY DEF Init
<1>2. ScreenShape(screen) /\ (~screen.enabled => screen.region = "full")
  <2> DEFINE empty(rows) == [rows |-> rows, grid |-> Full(rows, Blank), region |-> "full",
                             height |-> 0, enabled |-> mode = "bar"]
             none == [s \in Sides |-> [cap |-> 0, buf |-> <<>>]]
  <2>1. PICK rows : screen = IF mode = "bar"
                             THEN DrawPanes(EmitStatus(empty(rows), ctx), none)
                             ELSE empty(rows)
    BY DEF Init
  <2>2. ScreenShape(empty(rows)) /\ empty(rows).enabled = (mode = "bar")
        /\ empty(rows).region = "full"
    BY DEF ScreenShape
  <2> HIDE DEF empty, none
  <2>3. CASE mode = "bar"
    BY <2>1, <2>2, <2>3, EmitStatusShape, DrawPanesShape
  <2>4. CASE mode # "bar"
    BY <2>1, <2>2, <2>4
  <2> QED BY <2>3, <2>4
<1> QED BY <1>1, <1>2 DEF TerminalInv

(* When watch has returned the terminal scrolls as a whole again and no      *)
(* SIGWINCH reaches watch, though one may have been on its way.            *)
THEOREM TerminalGivenBack == Spec => []TerminalRestored
<1>1. TerminalInv => TerminalRestored
  BY DEF TerminalInv, TerminalRestored
<1> QED BY <1>1, TerminalInit, TerminalStep, PTL DEF Spec

-----------------------------------------------------------------------------
(* What a watch that ends by itself has shown.                             *)

PumpStates == {"run", "done", "failed", "cancelled"}

(* A pump is done when it has read all there ever will be, and states() has  *)
(* had no _END before __aexit__: its pump has read Dead.                    *)
EndInv ==
  /\ queue = [q \in Streams |-> queue[q]]
  /\ ended \in [Streams -> BOOLEAN]
  /\ pump \in [Streams -> PumpStates]
  /\ ctx = [state |-> ctx.state, sid |-> ctx.sid, hook |-> ctx.hook, spin |-> ctx.spin]
  /\ \A q \in Streams \ {"states"} : pump[q] = "done" => queue[q] = <<>> /\ ended[q]
  /\ at # "returned" => ~ended["states"]
  /\ pump["states"] = "done" /\ at # "returned" => IsDead(ctx.state)
  /\ normal => /\ at # "pumping" /\ IsDead(ctx.state)
               /\ \A q \in Streams : pump[q] = "done"

(* What the Backend's tasks do to the streams.                             *)
LEMMA Production ==
  ASSUME EndInv, Produces
  PROVE  /\ queue' = [q \in Streams |-> queue'[q]]
         /\ ended' \in [Streams -> BOOLEAN]
         /\ \A q \in Streams : ended[q] => ended'[q] /\ queue'[q] = queue[q]
         /\ ~ended["states"] => ~ended'["states"]
<1> DEFINE Fed == /\ queue' = [q \in Streams |-> queue'[q]]
                  /\ \A q \in Streams : ended[q] => queue'[q] = queue[q]
           Ending == /\ ended' \in [Streams -> BOOLEAN]
                     /\ \A q \in Streams : ended[q] => ended'[q]
                     /\ ~ended["states"] => ~ended'["states"]
<1>1. ASSUME NEW new, Put(new) PROVE Fed
  BY <1>1 DEF Put
<1>2. ASSUME EndIfDead PROVE Ending
  BY <1>2 DEF EndIfDead, EndInv, Streams
<1>3. ASSUME ended' = ended PROVE Ending
  BY <1>3 DEF EndInv
<1> HIDE DEF Fed, Ending
<1>4. ASSUME NEW ev \in Events, LiveEvent(ev) PROVE Fed /\ Ending
  BY <1>1, <1>2, <1>4 DEF LiveEvent
<1>5. ASSUME TranscriptItem PROVE Fed /\ Ending
  BY <1>1, <1>3, <1>5 DEF TranscriptItem
<1>6. ASSUME NEW activity \in Activities, SpinnerTick(activity) PROVE Fed /\ Ending
  BY <1>1, <1>3, <1>6 DEF SpinnerTick
<1>7. ASSUME NEW trigger \in Triggers, Trigger(trigger) PROVE Fed /\ Ending
  BY <1>1, <1>2, <1>7 DEF Trigger
<1>8. Fed /\ Ending
  BY <1>4, <1>5, <1>6, <1>7 DEF Produces
<1> QED BY <1>8 DEF Fed, Ending

CtxShape == ctx' = [state |-> ctx'.state, sid |-> ctx'.sid, hook |-> ctx'.hook, spin |-> ctx'.spin]

LEMMA ReadStep ==
  ASSUME EndInv, NEW q \in Streams, Takes(q), CtxShape,
         ctx'.state = IF q = "states" THEN Head(queue["states"]) ELSE ctx.state
  PROVE  EndInv'
<1>1. /\ pump[q] = "run" /\ queue' = [queue EXCEPT ![q] = Tail(@)]
      /\ pump' = IF q = "states" /\ IsDead(Head(queue[q])) THEN [pump EXCEPT ![q] = "done"]
                                                           ELSE pump
      /\ UNCHANGED <<ended, at, normal>>
  BY DEF Takes, Ready
<1>2. ~normal
  BY <1>1 DEF EndInv
<1>3. pump' \in [Streams -> PumpStates]
  BY <1>1 DEF EndInv, PumpStates
<1>4. queue' = [r \in Streams |-> queue'[r]]
      /\ \A r \in Streams \ {q} : queue'[r] = queue[r]
  BY <1>1 DEF EndInv
<1>5. ASSUME NEW r \in Streams \ {"states"}, pump'[r] = "done"
      PROVE  queue'[r] = <<>> /\ ended'[r]
  BY <1>1, <1>4, <1>5 DEF EndInv
<1>6. ASSUME pump'["states"] = "done", at' # "returned" PROVE IsDead(ctx'.state)
  <2>1. CASE q = "states"
    <3>1. IsDead(Head(queue["states"]))
      BY <1>1, <1>6, <2>1
    <3> QED BY <2>1, <3>1
  <2>2. CASE q # "states"
    <3>1. pump["states"] = "done" /\ ctx'.state = ctx.state
      BY <1>1, <1>6, <2>2
    <3> QED BY <1>1, <1>6, <3>1 DEF EndInv
  <2> QED BY <2>1, <2>2
<1> QED BY <1>1, <1>2, <1>3, <1>4, <1>5, <1>6 DEF EndInv, CtxShape

LEMMA EndStep == EndInv /\ [Next]_vars => EndInv'
<1> SUFFICES ASSUME EndInv, [Next]_vars PROVE EndInv'
  OBVIOUS
<1>1. ASSUME UNCHANGED <<queue, ended, pump, ctx, at, normal>> PROVE EndInv'
  BY <1>1 DEF EndInv
<1>2. CASE Produce
  <2>1. Produces /\ UNCHANGED <<at, pump, normal, ctx>>
    BY <1>2 DEF Produce, watchVars
  <2>2. /\ queue' = [q \in Streams |-> queue'[q]]
        /\ ended' \in [Streams -> BOOLEAN]
        /\ \A q \in Streams : ended[q] => ended'[q] /\ queue'[q] = queue[q]
        /\ ~ended["states"] => ~ended'["states"]
    BY <2>1, Production
  <2> QED BY <2>1, <2>2 DEF EndInv
<1>3. CASE PumpState
  <2> DEFINE new == [ctx EXCEPT !.state = Head(queue["states"])]
  <2>1. ctx' = new /\ Takes("states") /\ "states" \in Streams
    BY <1>3 DEF PumpState, Redraw, Streams
  <2>2. CtxShape /\ ctx'.state = Head(queue["states"])
    BY <2>1 DEF EndInv, CtxShape
  <2> QED BY <2>1, <2>2, ReadStep
<1>4. CASE PumpEvent
  <2>1. PICK hook, sid : ctx' = [ctx EXCEPT !.hook = hook, !.sid = sid]
    BY <1>4 DEF PumpEvent, Redraw
  <2>2. CtxShape /\ ctx'.state = ctx.state
    BY <2>1 DEF EndInv, CtxShape
  <2>3. Takes("events") /\ "events" \in Streams /\ "events" # "states"
    BY <1>4 DEF PumpEvent, Streams
  <2> QED BY <2>2, <2>3, ReadStep
<1>5. CASE PumpMessage
  <2>1. Takes("messages") /\ "messages" \in Streams /\ "messages" # "states" /\ ctx' = ctx
    BY <1>5 DEF PumpMessage, Streams
  <2>2. CtxShape
    BY <2>1 DEF EndInv, CtxShape
  <2> QED BY <2>1, <2>2, ReadStep
<1>6. CASE PumpSpinner
  <2>1. PICK spin : ctx' = [ctx EXCEPT !.spin = spin]
    BY <1>6 DEF PumpSpinner, Redraw
  <2>2. CtxShape /\ ctx'.state = ctx.state
    BY <2>1 DEF EndInv, CtxShape
  <2>3. Takes("spinners") /\ "spinners" \in Streams /\ "spinners" # "states"
    BY <1>6 DEF PumpSpinner, Streams
  <2> QED BY <2>2, <2>3, ReadStep
<1>7. ASSUME NEW q \in Streams, PumpEnds(q), UNCHANGED shows PROVE EndInv'
  <2>1. /\ pump[q] = "run" /\ queue[q] = <<>> /\ ended[q]
        /\ pump' = [pump EXCEPT ![q] = "done"]
        /\ UNCHANGED <<queue, ended, at, normal, ctx>>
    BY <1>7 DEF PumpEnds, shows, streamVars
  <2>2. ~normal /\ pump' \in [Streams -> PumpStates]
    BY <2>1 DEF EndInv, PumpStates
  <2>3. at = "returned" \/ q # "states"
    BY <2>1 DEF EndInv
  <2> QED BY <2>1, <2>2, <2>3 DEF EndInv
<1>8. ASSUME NEW q \in Streams, PumpFails(q) PROVE EndInv'
  <2>1. /\ pump[q] = "run" /\ queue' = [queue EXCEPT ![q] = Tail(@)]
        /\ pump' = [pump EXCEPT ![q] = "failed"]
        /\ UNCHANGED <<ended, at, normal, ctx>>
    BY <1>8 DEF PumpFails, Ready, shows
  <2>2. ~normal /\ pump' \in [Streams -> PumpStates]
    BY <2>1 DEF EndInv, PumpStates
  <2>3. /\ queue' = [r \in Streams |-> queue'[r]]
        /\ \A r \in Streams \ {q} : queue'[r] = queue[r]
    BY <2>1 DEF EndInv
  <2>4. \A r \in Streams : pump'[r] = "done" => r # q /\ pump[r] = "done"
    BY <2>1 DEF EndInv
  <2>5. "states" \in Streams
    BY DEF Streams
  <2> QED BY <2>1, <2>2, <2>3, <2>4, <2>5 DEF EndInv
<1>9. CASE \E rows \in Sizes : Resize(rows)
  BY <1>1, <1>9 DEF Resize, tasks, streamVars
<1>10. CASE OnResize
  BY <1>1, <1>10 DEF OnResize, tasks, streamVars
<1>11. CASE Interrupt
  <2>1. /\ pump' = [q \in Streams |-> IF pump[q] = "run" THEN "cancelled" ELSE pump[q]]
        /\ UNCHANGED <<queue, ended, at, normal, ctx>> /\ at = "pumping"
    BY <1>11 DEF Interrupt, shows, streamVars
  <2>2. ~normal /\ pump' \in [Streams -> PumpStates]
    BY <2>1 DEF EndInv, PumpStates
  <2>3. \A q \in Streams : pump'[q] = "done" => pump[q] = "done"
    BY <2>1
  <2>4. "states" \in Streams
    BY DEF Streams
  <2> QED BY <2>1, <2>2, <2>3, <2>4 DEF EndInv
<1>12. CASE Gather /\ UNCHANGED shows
  <2>1. /\ at = "pumping" /\ at' = "leaving"
        /\ \/ \A q \in Streams : pump[q] # "run"
           \/ \E q \in Streams : pump[q] = "failed"
        /\ normal' = \A q \in Streams : pump[q] # "failed" /\ pump[q] # "cancelled"
        /\ UNCHANGED <<queue, ended, pump, ctx>>
    BY <1>12 DEF Gather, Leave, shows
  <2>2. ASSUME normal' PROVE \A q \in Streams : pump[q] = "done"
    BY <2>1, <2>2 DEF EndInv, PumpStates
  <2>3. "states" \in Streams
    BY DEF Streams
  <2> QED BY <2>1, <2>2, <2>3 DEF EndInv
<1>13. CASE Returns /\ Restores
  <2>1. /\ at = "leaving" /\ at' = "returned"
        /\ ended' = [q \in Streams |-> TRUE]
        /\ UNCHANGED <<queue, pump, normal, ctx>>
    BY <1>13 DEF Returns, EndsAll, Restores
  <2> QED BY <2>1 DEF EndInv
<1>14. CASE UNCHANGED vars
  BY <1>1, <1>14 DEF vars, watchVars, streamVars
<1> QED BY <1>2, <1>3, <1>4, <1>5, <1>6, <1>7, <1>8, <1>9, <1>10, <1>11, <1>12, <1>13,
           <1>14 DEF Next

LEMMA EndInit == Init => EndInv
BY DEF Init, StreamsInit, Shown, Nothing, EndInv, PumpStates, Streams

(* A watch that ends by itself has shown a Dead state and everything its     *)
(* streams had before their end.                                           *)
THEOREM EndShown == Spec => []FinalShown
<1>1. EndInv => FinalShown
  BY DEF EndInv, FinalShown
<1> QED BY <1>1, EndInit, EndStep, PTL DEF Spec

-----------------------------------------------------------------------------
(* Induction over data.  The theorems on induction take a predicate, which  *)
(* the provers cannot instantiate; here it is a set, and what they need is   *)
(* that every set of numbers has a least one.                              *)

(* Every set of numbers that is not empty has a least one.                  *)
LEMMA Least ==
  ASSUME NEW T \in SUBSET Nat, T # {}
  PROVE  \E x \in T : \A y \in T : x <= y
<1> DEFINE R == OpToRel(<, Nat)
<1>1. IsWellFoundedOn(R, Nat)
  BY NatLessThanWellFounded
<1>2. \A x, y \in Nat : x < y => <<x, y>> \in R
  BY DEF OpToRel
<1> HIDE DEF R
<1>3. \E x \in T : \A y \in T : ~(<<y, x>> \in R)
  BY <1>1, WFMin, Zenon
<1>4. PICK x \in T : \A y \in T : ~(<<y, x>> \in R)
  BY <1>3
<1>5. ASSUME NEW y \in T PROVE x <= y
  <2>1. x \in Nat /\ y \in Nat
    OBVIOUS
  <2>2. ~(y < x)
    BY <1>2, <1>4, <2>1, Zenon
  <2> QED BY <2>1, <2>2
<1> QED BY <1>5

(* A set that 0 is in, and n + 1 with every n, has every number.            *)
LEMMA SetInduction ==
  ASSUME NEW T, 0 \in T, \A n \in Nat : n \in T => n + 1 \in T
  PROVE  Nat \subseteq T
<1> SUFFICES ASSUME Nat \ T # {} PROVE FALSE
  OBVIOUS
<1>1. PICK x \in Nat \ T : \A y \in Nat \ T : x <= y
  BY Least
<1>2. x # 0 /\ x - 1 \in Nat /\ x - 1 \in T
  BY <1>1
<1> QED BY <1>1, <1>2

(* What the recursive function of FlattenSeq is asked to be, up to n.       *)
Flattens(g, s, n) ==
  g = [i \in 1..n |-> IF i = 1 THEN s[i] ELSE g[i - 1] \o s[i]]

(* There is such a function, and the CHOOSE of FlattenSeq has something to  *)
(* choose.                                                                  *)
LEMMA FlattenExists ==
  ASSUME NEW s, NEW n \in Nat
  PROVE  \E g : Flattens(g, s, n)
<1> DEFINE T == {m \in Nat : \E g : Flattens(g, s, m)}
<1>1. 0 \in T
  <2>1. Flattens([i \in 1..0 |-> s], s, 0)
    BY DEF Flattens
  <2> QED BY <2>1
<1>2. ASSUME NEW m \in Nat, m \in T PROVE m + 1 \in T
  <2>1. PICK g : Flattens(g, s, m)
    BY <1>2
  <2> DEFINE h == [i \in 1..m + 1 |->
                     IF i = m + 1 THEN (IF i = 1 THEN s[i] ELSE g[m] \o s[i]) ELSE g[i]]
  <2>2. h = [i \in 1..m + 1 |-> IF i = 1 THEN s[i] ELSE h[i - 1] \o s[i]]
    <3>1. ASSUME NEW i \in 1..m + 1 PROVE h[i] = IF i = 1 THEN s[i] ELSE h[i - 1] \o s[i]
      <4>1. CASE i = m + 1
        <5>1. i # 1 => i - 1 \in 1..m + 1 /\ i - 1 # m + 1 /\ i - 1 = m
          BY <4>1
        <5> QED BY <4>1, <5>1
      <4>2. CASE i # m + 1
        <5>1. i \in 1..m
          BY <4>2
        <5>2. g[i] = IF i = 1 THEN s[i] ELSE g[i - 1] \o s[i]
          BY <2>1, <5>1 DEF Flattens
        <5>3. h[i] = g[i]
          BY <4>2
        <5>4. i # 1 => i - 1 \in 1..m + 1 /\ i - 1 # m + 1
          BY <5>1
        <5>5. i # 1 => h[i - 1] = g[i - 1]
          BY <5>4
        <5> HIDE DEF h
        <5> QED BY <5>2, <5>3, <5>5
      <4> QED BY <4>1, <4>2
    <3> QED BY <3>1
  <2> HIDE DEF h
  <2>3. Flattens(h, s, m + 1)
    BY <2>2 DEF Flattens
  <2> QED BY <2>3
<1> HIDE DEF T
<1>3. Nat \subseteq T
  BY <1>1, <1>2, SetInduction
<1> QED BY <1>3 DEF T

(* They agree on what two sequences have in common.                        *)
LEMMA FlattenAgree ==
  ASSUME NEW s, NEW t, NEW g, NEW h, NEW n \in Nat, NEW m \in Nat, n <= m,
         Flattens(g, s, n), Flattens(h, t, m), \A i \in 1..n : s[i] = t[i]
  PROVE  \A i \in 1..n : g[i] = h[i]
<1> DEFINE T == {k \in Nat : k \in 1..n => g[k] = h[k]}
<1>1. 0 \in T
  OBVIOUS
<1>2. ASSUME NEW k \in Nat, k \in T PROVE k + 1 \in T
  <2> SUFFICES ASSUME k + 1 \in 1..n PROVE g[k + 1] = h[k + 1]
    OBVIOUS
  <2>1. k + 1 \in 1..m /\ s[k + 1] = t[k + 1] /\ (k + 1) - 1 = k /\ (k + 1 # 1 => k \in 1..n)
    OBVIOUS
  <2>2. g[k + 1] = IF k + 1 = 1 THEN s[k + 1] ELSE g[(k + 1) - 1] \o s[k + 1]
    BY DEF Flattens
  <2>3. h[k + 1] = IF k + 1 = 1 THEN t[k + 1] ELSE h[(k + 1) - 1] \o t[k + 1]
    BY <2>1 DEF Flattens
  <2>4. k + 1 # 1 => g[k] = h[k]
    BY <1>2, <2>1
  <2> QED BY <2>1, <2>2, <2>3, <2>4
<1> HIDE DEF T
<1>3. Nat \subseteq T
  BY <1>1, <1>2, SetInduction
<1> QED BY <1>3 DEF T

(* Its values are sequences of what the pieces are sequences of.            *)
LEMMA FlattenType ==
  ASSUME NEW S, NEW n \in Nat, NEW s, \A i \in 1..n : s[i] \in Seq(S),
         NEW g, Flattens(g, s, n)
  PROVE  \A i \in 1..n : g[i] \in Seq(S)
<1> DEFINE T == {k \in Nat : k \in 1..n => g[k] \in Seq(S)}
<1>1. 0 \in T
  OBVIOUS
<1>2. ASSUME NEW k \in Nat, k \in T PROVE k + 1 \in T
  <2> SUFFICES ASSUME k + 1 \in 1..n PROVE g[k + 1] \in Seq(S)
    OBVIOUS
  <2>1. s[k + 1] \in Seq(S) /\ (k + 1) - 1 = k /\ (k + 1 # 1 => k \in 1..n)
    OBVIOUS
  <2>2. g[k + 1] = IF k + 1 = 1 THEN s[k + 1] ELSE g[(k + 1) - 1] \o s[k + 1]
    BY DEF Flattens
  <2>3. k + 1 # 1 => g[k] \in Seq(S)
    BY <1>2, <2>1
  <2> QED BY <2>1, <2>2, <2>3
<1> HIDE DEF T
<1>3. Nat \subseteq T
  BY <1>1, <1>2, SetInduction
<1> QED BY <1>3 DEF T

(* FlattenSeq is the last value of such a function.                         *)
LEMMA FlattenIs ==
  ASSUME NEW s, Len(s) \in Nat, Len(s) # 0
  PROVE  \E g : Flattens(g, s, Len(s)) /\ FlattenSeq(s) = g[Len(s)]
<1> DEFINE f == CHOOSE g : Flattens(g, s, Len(s))
<1>1. Flattens(f, s, Len(s))
  BY FlattenExists
<1>2. FlattenSeq(s) = f[Len(s)]
  BY DEF FlattenSeq, Flattens
<1> QED BY <1>1, <1>2

(* FlattenSeq of sequences over a set is a sequence over that set.          *)
LEMMA FlattenInto ==
  ASSUME NEW S, NEW s \in Seq(Seq(S))
  PROVE  FlattenSeq(s) \in Seq(S)
<1>1. CASE s = <<>>
  BY <1>1 DEF FlattenSeq
<1>2. CASE s # <<>>
  <2>1. Len(s) \in Nat /\ Len(s) # 0 /\ Len(s) \in 1..Len(s) /\ \A i \in 1..Len(s) : s[i] \in Seq(S)
    BY <1>2
  <2>2. PICK g : Flattens(g, s, Len(s)) /\ FlattenSeq(s) = g[Len(s)]
    BY <2>1, FlattenIs
  <2> QED BY <2>1, <2>2, FlattenType
<1> QED BY <1>1, <1>2

(* One more piece is one more thing behind what there was.                  *)
LEMMA FlattenLast ==
  ASSUME NEW s, NEW t, NEW n \in Nat, n # 0, Len(s) = n, Len(t) = n + 1,
         \A i \in 1..n : s[i] = t[i]
  PROVE  FlattenSeq(t) = FlattenSeq(s) \o t[n + 1]
<1>1. /\ n + 1 \in Nat /\ n + 1 # 0 /\ n + 1 # 1 /\ n <= n + 1
      /\ n \in 1..n /\ n + 1 \in 1..n + 1 /\ (n + 1) - 1 = n
  OBVIOUS
<1>2. PICK g : Flattens(g, s, n) /\ FlattenSeq(s) = g[n]
  BY FlattenIs
<1>3. PICK h : Flattens(h, t, n + 1) /\ FlattenSeq(t) = h[n + 1]
  BY <1>1, FlattenIs
<1>4. h[n + 1] = h[n] \o t[n + 1]
  BY <1>1, <1>3 DEF Flattens
<1>5. \A i \in 1..n : g[i] = h[i]
  BY <1>1, <1>2, <1>3, FlattenAgree, SMT
<1> QED BY <1>1, <1>2, <1>3, <1>4, <1>5

(* FlattenSeq of a sequence with one more piece, from the empty one on.     *)
LEMMA FlattenAppend ==
  ASSUME NEW S, NEW s \in Seq(Seq(S)), NEW x \in Seq(S)
  PROVE  FlattenSeq(Append(s, x)) = FlattenSeq(s) \o x
<1> DEFINE t == Append(s, x)
<1>1. /\ Len(s) \in Nat /\ Len(t) = Len(s) + 1 /\ t[Len(s) + 1] = x
      /\ \A i \in 1..Len(s) : s[i] = t[i]
  OBVIOUS
<1> HIDE DEF t
<1>2. CASE s = <<>>
  <2>1. Len(t) = 1 /\ Len(t) \in Nat /\ Len(t) # 0 /\ t[1] = x
    BY <1>1, <1>2
  <2>2. PICK g : Flattens(g, t, Len(t)) /\ FlattenSeq(t) = g[Len(t)]
    BY <2>1, FlattenIs
  <2>3. FlattenSeq(t) = x
    BY <2>1, <2>2 DEF Flattens
  <2>4. FlattenSeq(s) = <<>> /\ <<>> \o x = x
    BY <1>2 DEF FlattenSeq
  <2> QED BY <2>3, <2>4 DEF t
<1>3. CASE s # <<>>
  <2>1. Len(s) # 0
    BY <1>3
  <2> QED BY <1>1, <2>1, FlattenLast DEF t
<1> QED BY <1>2, <1>3

-----------------------------------------------------------------------------
(* A block written over the one before it.                                 *)

Cells(block) == block.rest \o RowsOf(block.n, block.lines + block.extra)
Text(blocks) == FlattenSeq([i \in 1..Len(blocks) |-> Cells(blocks[i])])
Blocks == [n : Nat, lines : Nat, extra : Nat, rest : Seq(Nat), spinner : BOOLEAN]

(* The marker of ctx says what the last block that is kept says of itself,   *)
(* and its height is that block's.                                         *)
SpinnerInv ==
  /\ kept \in Seq(Blocks)
  /\ out = [text |-> Text(kept), n |-> out.n, marker |-> out.marker, height |-> out.height]
  /\ out.n \in Nat /\ out.marker \in BOOLEAN
  /\ out.marker <=> kept # <<>> /\ Last(kept).spinner
  /\ out.marker => out.height = Last(kept).lines

(* Rows of one block.                                                       *)
LEMMA RowsType ==
  ASSUME NEW n \in Nat, NEW count \in Nat
  PROVE  RowsOf(n, count) \in Seq(Nat) /\ Len(RowsOf(n, count)) = count
BY DEF RowsOf

(* The rows a block takes, with what it left of others.                     *)
LEMMA CellsType ==
  ASSUME NEW block \in Blocks
  PROVE  /\ Cells(block) \in Seq(Nat)
         /\ Len(Cells(block)) = Len(block.rest) + block.lines + block.extra
<1>1. /\ block.rest \in Seq(Nat) /\ block.n \in Nat
      /\ block.lines \in Nat /\ block.extra \in Nat /\ block.lines + block.extra \in Nat
  BY DEF Blocks
<1>2. PICK rows \in Seq(Nat) : /\ rows = RowsOf(block.n, block.lines + block.extra)
                              /\ Len(rows) = block.lines + block.extra
  BY <1>1, RowsType
<1>3. Cells(block) = block.rest \o rows
  BY <1>2 DEF Cells
<1>4. Cells(block) \in Seq(Nat) /\ Len(Cells(block)) = Len(block.rest) + Len(rows)
  BY <1>1, <1>3
<1> QED BY <1>1, <1>2, <1>4

(* The first rows of one block, and the others.                             *)
LEMMA RowsSplit ==
  ASSUME NEW n \in Nat, NEW extra \in Nat, NEW lines \in Nat
  PROVE  RowsOf(n, lines + extra) = RowsOf(n, extra) \o RowsOf(n, lines)
<1>1. /\ RowsOf(n, lines + extra) \in Seq(Nat) /\ Len(RowsOf(n, lines + extra)) = lines + extra
      /\ RowsOf(n, extra) \in Seq(Nat) /\ Len(RowsOf(n, extra)) = extra
      /\ RowsOf(n, lines) \in Seq(Nat) /\ Len(RowsOf(n, lines)) = lines
  BY RowsType
<1>2. /\ \A i \in 1..lines + extra : RowsOf(n, lines + extra)[i] = n
      /\ \A i \in 1..extra : RowsOf(n, extra)[i] = n
      /\ \A i \in 1..lines : RowsOf(n, lines)[i] = n
  BY DEF RowsOf
<1> QED BY <1>1, <1>2

(* What is in front of the last of four pieces.                             *)
LEMMA CutLast ==
  ASSUME NEW a \in Seq(Nat), NEW b \in Seq(Nat), NEW c \in Seq(Nat), NEW d \in Seq(Nat),
         NEW text, text = a \o (b \o (c \o d))
  PROVE  SubSeq(text, 1, Len(text) - Len(d)) = a \o (b \o c)
<1>1. b \o c \in Seq(Nat) /\ c \o d \in Seq(Nat)
  OBVIOUS
<1>2. a \o (b \o c) \in Seq(Nat)
  BY <1>1
<1>3. b \o (c \o d) = (b \o c) \o d
  OBVIOUS
<1>4. a \o ((b \o c) \o d) = (a \o (b \o c)) \o d
  BY <1>1
<1>5. text = (a \o (b \o c)) \o d
  BY <1>3, <1>4
<1>6. \A s \in Seq(Nat) : SubSeq(s \o d, 1, Len(s \o d) - Len(d)) = s
  OBVIOUS
<1> QED BY <1>2, <1>5, <1>6

(* The cursor goes up by the lines of a block: the first rows of it stay,    *)
(* those by which it is taller, and the rest it has left.                   *)
LEMMA CellsLeft ==
  ASSUME NEW block \in Blocks, NEW front \in Seq(Nat), NEW text,
         text = front \o Cells(block)
  PROVE  /\ block.rest \o RowsOf(block.n, block.extra) \in Seq(Nat)
         /\ SubSeq(text, 1, Len(text) - block.lines)
              = front \o (block.rest \o RowsOf(block.n, block.extra))
<1>1. /\ block.rest \in Seq(Nat) /\ block.n \in Nat
      /\ block.lines \in Nat /\ block.extra \in Nat
  BY DEF Blocks
<1>2. /\ RowsOf(block.n, block.extra) \in Seq(Nat)
      /\ RowsOf(block.n, block.lines) \in Seq(Nat)
      /\ Len(RowsOf(block.n, block.lines)) = block.lines
  BY <1>1, RowsType
<1>3. text = front \o (block.rest \o (RowsOf(block.n, block.extra) \o RowsOf(block.n, block.lines)))
  BY <1>1, RowsSplit DEF Cells
<1>4. block.rest \o RowsOf(block.n, block.extra) \in Seq(Nat)
  BY <1>1, <1>2
<1>5. PICK b \in Seq(Nat), c \in Seq(Nat), d \in Seq(Nat) :
         b = block.rest /\ c = RowsOf(block.n, block.extra) /\ d = RowsOf(block.n, block.lines)
  BY <1>1, <1>2
<1>6. text = front \o (b \o (c \o d))
  BY <1>3, <1>5
<1>7. SubSeq(text, 1, Len(text) - Len(d)) = front \o (b \o c)
  BY <1>6, CutLast
<1> QED BY <1>2, <1>4, <1>5, <1>7

(* The rows that all blocks take.                                           *)
LEMMA TextType ==
  ASSUME NEW blocks \in Seq(Blocks)
  PROVE  /\ [i \in 1..Len(blocks) |-> Cells(blocks[i])] \in Seq(Seq(Nat))
         /\ Text(blocks) \in Seq(Nat)
<1> DEFINE cells == [i \in 1..Len(blocks) |-> Cells(blocks[i])]
<1>1. \A i \in 1..Len(blocks) : Cells(blocks[i]) \in Seq(Nat)
  BY CellsType
<1>2. cells \in Seq(Seq(Nat))
  BY <1>1
<1> HIDE DEF cells
<1>3. FlattenSeq(cells) \in Seq(Nat)
  BY <1>2, FlattenInto
<1> QED BY <1>2, <1>3 DEF cells, Text

(* A block printed is its rows behind the others.                           *)
LEMMA TextAppend ==
  ASSUME NEW blocks \in Seq(Blocks), NEW block \in Blocks
  PROVE  Text(Append(blocks, block)) = Text(blocks) \o Cells(block)
<1> DEFINE cells(s) == [i \in 1..Len(s) |-> Cells(s[i])]
           more == Append(blocks, block)
<1>1. /\ more \in Seq(Blocks) /\ Len(more) = Len(blocks) + 1
      /\ \A i \in 1..Len(blocks) : more[i] = blocks[i]
      /\ more[Len(blocks) + 1] = block
  OBVIOUS
<1> HIDE DEF more
<1>2. cells(blocks) \in Seq(Seq(Nat)) /\ cells(more) \in Seq(Seq(Nat))
  BY <1>1, TextType
<1>3. Cells(block) \in Seq(Nat)
  BY CellsType
<1>4. cells(more) = Append(cells(blocks), Cells(block))
  <2>1. Len(blocks) \in Nat /\ Len(cells(blocks)) = Len(blocks) /\ Len(cells(more)) = Len(blocks) + 1
    BY <1>1
  <2>2. ASSUME NEW i \in 1..Len(blocks) + 1
        PROVE  cells(more)[i] = Append(cells(blocks), Cells(block))[i]
    <3>1. CASE i = Len(blocks) + 1
      BY <1>1, <1>2, <1>3, <2>1, <3>1
    <3>2. CASE i # Len(blocks) + 1
      <4>1. i \in 1..Len(blocks)
        BY <2>1, <3>2
      <4> QED BY <1>1, <1>2, <1>3, <2>1, <4>1
    <3> QED BY <3>1, <3>2
  <2> HIDE DEF cells
  <2>3. /\ Append(cells(blocks), Cells(block)) \in Seq(Seq(Nat))
        /\ Len(Append(cells(blocks), Cells(block))) = Len(blocks) + 1
    BY <1>2, <1>3, <2>1, AppendProperties
  <2> QED BY <1>2, <2>1, <2>2, <2>3, SeqEqual
<1> HIDE DEF cells
<1>5. FlattenSeq(cells(more)) = FlattenSeq(cells(blocks)) \o Cells(block)
  BY <1>2, <1>3, <1>4, FlattenAppend
<1> QED BY <1>5 DEF cells, Text, more

(* A text less the lines of its last block: the other blocks, and what that   *)
(* block leaves.                                                           *)
LEMMA TextFront ==
  ASSUME NEW blocks \in Seq(Blocks), blocks # <<>>
  PROVE  LET last == Last(blocks)
             rest == last.rest \o RowsOf(last.n, last.extra)
         IN /\ Front(blocks) \in Seq(Blocks) /\ last \in Blocks
            /\ rest \in Seq(Nat)
            /\ SubSeq(Text(blocks), 1, Len(Text(blocks)) - last.lines)
                 = Text(Front(blocks)) \o rest
<1>1. Front(blocks) \in Seq(Blocks) /\ Last(blocks) \in Blocks
      /\ blocks = Append(Front(blocks), Last(blocks))
  BY DEF Front, Last
<1>2. /\ Text(Front(blocks)) \in Seq(Nat) /\ Text(blocks) \in Seq(Nat)
      /\ Text(blocks) = Text(Front(blocks)) \o Cells(Last(blocks))
  BY <1>1, TextType, TextAppend
<1> QED BY <1>1, <1>2, CellsLeft

(* What _emit_pretty does: with the marker set and a spinner to come it     *)
(* takes away the lines of the block before, which is a spinner's and the   *)
(* last one kept.                                                           *)
LEMMA EmitStep ==
  ASSUME SpinnerInv, NEW lines \in Nat, NEW extra \in Nat, NEW spinner \in BOOLEAN,
         Emit(lines, extra, spinner), Keep(lines, extra, spinner)
  PROVE  SpinnerInv'
<1> DEFINE over == spinner /\ out.marker
           rest == IF over THEN Last(kept).rest \o RowsOf(Last(kept).n, Last(kept).extra)
                   ELSE <<>>
           rows == RowsOf(out.n + 1, lines + extra)
           block == [n |-> out.n + 1, lines |-> lines, extra |-> extra, rest |-> rest,
                     spinner |-> spinner]
           left == IF over THEN Front(kept) ELSE kept
           above == IF over THEN SubSeq(out.text, 1, Len(out.text) - out.height)
                    ELSE out.text
<1>1. /\ out' = [text |-> above \o rows, n |-> out.n + 1, marker |-> spinner,
                 height |-> IF spinner THEN lines ELSE out.height]
      /\ kept' = Append(left, block)
  BY DEF Emit, Emitted, Keep, SpinnerInv
<1>2. /\ left \in Seq(Blocks) /\ rest \in Seq(Nat)
      /\ above = Text(left) \o rest
  <2>1. CASE over
    <3>1. /\ kept \in Seq(Blocks) /\ kept # <<>> /\ out.text = Text(kept)
          /\ out.height = Last(kept).lines
      BY <2>1 DEF SpinnerInv
    <3>2. /\ left = Front(kept) /\ rest = Last(kept).rest \o RowsOf(Last(kept).n, Last(kept).extra)
          /\ above = SubSeq(Text(kept), 1, Len(Text(kept)) - Last(kept).lines)
      BY <2>1, <3>1
    <3> HIDE DEF left, rest, above
    <3> QED BY <3>1, <3>2, TextFront
  <2>2. CASE ~over
    <3>1. kept \in Seq(Blocks) /\ out.text = Text(kept)
      BY DEF SpinnerInv
    <3>2. left = kept /\ rest = <<>> /\ above = Text(kept)
      BY <2>2, <3>1
    <3> HIDE DEF left, rest, above
    <3>3. Text(kept) \in Seq(Nat)
      BY <3>1, TextType
    <3>4. Text(kept) \o <<>> = Text(kept)
      BY <3>3
    <3> QED BY <3>1, <3>2, <3>4
  <2> QED BY <2>1, <2>2
<1>3. rows \in Seq(Nat)
  <2>1. out.n + 1 \in Nat /\ lines + extra \in Nat
    BY DEF SpinnerInv
  <2> HIDE DEF rows
  <2>2. RowsOf(out.n + 1, lines + extra) \in Seq(Nat)
    BY <2>1, RowsType
  <2> QED BY <2>2 DEF rows
<1>4. Text(left) \in Seq(Nat)
  BY <1>2, TextType
<1> HIDE DEF over, rest, left, above
<1>5. /\ block \in Blocks /\ block.lines = lines /\ block.spinner = spinner
      /\ Cells(block) = rest \o rows
  BY <1>2 DEF Blocks, Cells, SpinnerInv
<1> HIDE DEF block, rows
<1>6. /\ kept' = Append(left, block) /\ kept' \in Seq(Blocks) /\ kept' # <<>>
      /\ kept'[Len(kept')] = block
  BY <1>1, <1>2, <1>5
<1>7. Last(kept') = block
  BY <1>6 DEF Last
<1>8. Text(kept') = Text(left) \o Cells(block)
  BY <1>2, <1>5, <1>6, TextAppend
<1>9. above \o rows = Text(kept')
  BY <1>2, <1>3, <1>4, <1>5, <1>8
<1>10. out' = [text |-> Text(kept'), n |-> out'.n, marker |-> spinner, height |-> out'.height]
       /\ out'.n = out.n + 1 /\ (spinner => out'.height = lines)
  BY <1>1, <1>9
<1> QED BY <1>5, <1>6, <1>7, <1>10 DEF SpinnerInv

(* However the block wraps.                                                 *)
LEMMA PrintsStep ==
  ASSUME SpinnerInv, NEW lines \in Nat, NEW spinner \in BOOLEAN, Prints(lines, spinner)
  PROVE  SpinnerInv'
<1>1. CASE mode # "tty"
  BY <1>1 DEF Prints, SpinnerInv
<1>2. CASE mode = "tty"
  <2>1. PICK extra \in Wraps[spinner] : Emit(lines, extra, spinner) /\ Keep(lines, extra, spinner)
    BY <1>2 DEF Prints
  <2>2. extra \in Nat
    BY WrapAssumption
  <2> QED BY <2>1, <2>2, EmitStep
<1> QED BY <1>1, <1>2

(* Only a pump that shows something prints.                                 *)
LEMMA SpinnerStep == SpinnerInv /\ [Next]_vars => SpinnerInv'
<1> SUFFICES ASSUME SpinnerInv, [Next]_vars PROVE SpinnerInv'
  OBVIOUS
<1>1. ASSUME UNCHANGED <<out, kept>> PROVE SpinnerInv'
  BY <1>1 DEF SpinnerInv
<1>2. \A activity : Lines(activity) \in Nat
  BY DEF Lines, BlockHeight
<1>3. CASE PumpState
  BY <1>2, <1>3, PrintsStep DEF PumpState
<1>4. CASE PumpEvent
  BY <1>2, <1>4, PrintsStep DEF PumpEvent
<1>5. CASE PumpMessage
  BY <1>2, <1>5, PrintsStep DEF PumpMessage
<1>6. CASE PumpSpinner
  BY <1>2, <1>6, PrintsStep DEF PumpSpinner
<1>7. CASE \/ Produce \/ Interrupt \/ OnResize
           \/ \E q \in Streams : PumpEnds(q) /\ UNCHANGED shows
           \/ \E q \in Streams : PumpFails(q)
           \/ \E rows \in Sizes : Resize(rows)
           \/ Gather /\ UNCHANGED shows
           \/ Returns /\ Restores
           \/ UNCHANGED vars
  BY <1>1, <1>7
  DEF Produce, Interrupt, OnResize, PumpFails, Resize, Restores, shows, vars, watchVars
<1> QED BY <1>3, <1>4, <1>5, <1>6, <1>7 DEF Next

(* A log in which nothing is printed yet.                                   *)
LEMMA SpinnerInit == Init => SpinnerInv
<1> SUFFICES ASSUME Init PROVE SpinnerInv
  OBVIOUS
<1>1. /\ out = [text |-> <<>>, n |-> 0, marker |-> FALSE, height |-> 0]
      /\ kept = <<>>
  BY DEF Init
<1>2. Text(kept) = <<>>
  BY <1>1 DEF Text, FlattenSeq
<1>3. kept \in Seq(Blocks) /\ ~(kept # <<>> /\ Last(kept).spinner)
  BY <1>1
<1>4. out = [text |-> Text(kept), n |-> out.n, marker |-> out.marker, height |-> out.height]
      /\ out.n \in Nat /\ out.marker \in BOOLEAN /\ ~out.marker
  BY <1>1, <1>2
<1> QED BY <1>3, <1>4 DEF SpinnerInv

(* The rows of the terminal, where there is no bar, are the blocks that      *)
(* _emit_pretty has printed without the spinner blocks that another         *)
(* spinner's block followed directly: cursor-up by the recorded height      *)
(* takes away rows of that block only, whatever the other pumps print in    *)
(* between, and all of it but the rows that the count of its newlines       *)
(* misses, which are none where no line of it wraps.                        *)
THEOREM SpinnersOverwritten == Spec => []SpinnerBlocks
<1>1. SpinnerInv => SpinnerBlocks
  BY DEF SpinnerInv, SpinnerBlocks, Text, Cells
<1> QED BY <1>1, SpinnerInit, SpinnerStep, PTL DEF Spec

-----------------------------------------------------------------------------
(* What the streams carry.                                                 *)

Messages == [side : Sides, n : Nat]
Carried == [states |-> States, events |-> HookEvents,
            messages |-> Messages, spinners |-> Activities]
Queues == {qs \in [Streams -> UNION {Seq(Carried[q]) : q \in Streams}] :
             \A q \in Streams : qs[q] \in Seq(Carried[q])}

(* What the streams carry, and what a pump takes from them.                 *)
StreamTypes ==
  /\ state \in States /\ primary \in PrimaryValues /\ known \in SUBSET Sids
  /\ arrivals \in Nat
  /\ queue \in Queues

(* Items put behind their queues, by any producer.                          *)
LEMMA PutTyped ==
  ASSUME queue \in Queues, NEW new \in Queues, Put(new)
  PROVE  queue' \in Queues
<1>1. ASSUME NEW q \in Streams PROVE queue'[q] \in Seq(Carried[q])
  <2>1. /\ queue[q] \in Seq(Carried[q]) /\ new[q] \in Seq(Carried[q])
        /\ queue'[q] = IF ended[q] THEN queue[q] ELSE queue[q] \o new[q]
    BY DEF Put, Queues
  <2> QED BY <2>1, ConcatProperties
<1>2. queue' = [q \in Streams |-> queue'[q]]
  BY DEF Put
<1> QED BY <1>1, <1>2 DEF Queues

(* One queue at a time: what it may hold, and what its reader leaves.       *)
LEMMA QueuesStep ==
  ASSUME NEW qs \in Queues, NEW q \in Streams
  PROVE  /\ qs[q] \in Seq(Carried[q])
         /\ \A s \in Seq(Carried[q]) : [qs EXCEPT ![q] = s] \in Queues
         /\ qs[q] # <<>> => [qs EXCEPT ![q] = Tail(@)] \in Queues /\ Head(qs[q]) \in Carried[q]
<1>1. /\ qs[q] \in Seq(Carried[q]) /\ qs = [r \in Streams |-> qs[r]]
      /\ \A r \in Streams : qs[r] \in Seq(Carried[r])
  BY DEF Queues
<1>2. ASSUME NEW s \in Seq(Carried[q]) PROVE [qs EXCEPT ![q] = s] \in Queues
  <2>1. \A r \in Streams : [qs EXCEPT ![q] = s][r] \in Seq(Carried[r])
    BY <1>1
  <2> QED BY <1>1, <2>1 DEF Queues
<1>3. ASSUME qs[q] # <<>> PROVE [qs EXCEPT ![q] = Tail(@)] \in Queues /\ Head(qs[q]) \in Carried[q]
  <2>1. Tail(qs[q]) \in Seq(Carried[q]) /\ Head(qs[q]) \in Carried[q]
    BY <1>1, <1>3
  <2> QED BY <1>2, <2>1
<1> QED BY <1>1, <1>2, <1>3

(* An event that concerns no stream.                                        *)
LEMMA NothingTyped == Nothing \in Queues
<1>1. \A q \in Streams : Nothing[q] \in Seq(Carried[q])
  BY DEF Nothing
<1> QED BY <1>1 DEF Nothing, Queues

(* The four streams by name.                                                *)
LEMMA CarriedIs ==
  /\ Carried["states"] = States /\ Carried["events"] = HookEvents
  /\ Carried["messages"] = Messages /\ Carried["spinners"] = Activities
  /\ {"states", "events", "messages", "spinners"} = Streams
BY DEF Carried, Streams

(* A message of either side.                                                *)
LEMMA MessageTyped ==
  ASSUME arrivals \in Nat, NEW side \in Sides
  PROVE  Message(side) \in Messages
BY DEF Message, Messages

(* A state that states() shows, if it does.                                 *)
LEMMA ShownTyped ==
  ASSUME NEW st \in States, NEW emit
  PROVE  Shown(st, emit) \in Queues
<1>1. (IF emit THEN <<st>> ELSE <<>>) \in Seq(Carried["states"]) /\ "states" \in Streams
  BY CarriedIs
<1> QED BY <1>1, NothingTyped, QueuesStep DEF Shown

(* Every producer of Streams.tla keeps the types.                           *)
LEMMA ProducesTyped ==
  ASSUME StreamTypes, Produces
  PROVE  StreamTypes'
<1> USE DEF StreamTypes
<1>0. arrivals \in Nat => arrivals + 1 \in Nat
  OBVIOUS
<1>1. ASSUME NEW ev \in Events, LiveEvent(ev) PROVE StreamTypes'
  <2> DEFINE step == Apply(state, primary, known, ev)
             shown == Shown(step.state, step.emit)
  <2>1. ev \in HookEvents
    BY StreamAssumption
  <2>2. step.state \in States /\ step.primary \in PrimaryValues /\ step.known \in SUBSET Sids
    BY <2>1, ApplyTyped
  <2>3. /\ state' = step.state /\ primary' = step.primary /\ known' = step.known
        /\ arrivals' = arrivals + 1
        /\ Put([shown EXCEPT !["events"] = <<ev>>, !["messages"] = FanOut(ev)])
    BY <1>1 DEF LiveEvent, Arrives
  <2> HIDE DEF step
  <2>4. shown \in Queues
    BY <2>2, ShownTyped
  <2>5. <<ev>> \in Seq(Carried["events"]) /\ FanOut(ev) \in Seq(Carried["messages"])
    <3>1. Message("left") \in Messages /\ Message("right") \in Messages
      BY MessageTyped DEF Sides
    <3>2. FanOut(ev) \in Seq(Messages)
      BY <3>1 DEF FanOut
    <3> QED BY <2>1, <3>2, CarriedIs
  <2>6. "events" \in Streams /\ "messages" \in Streams
    BY DEF Streams
  <2> HIDE DEF shown
  <2>7. [shown EXCEPT !["events"] = <<ev>>] \in Queues
    BY <2>4, <2>5, <2>6, QueuesStep
  <2>8. [[shown EXCEPT !["events"] = <<ev>>] EXCEPT !["messages"] = FanOut(ev)] \in Queues
    BY <2>5, <2>6, <2>7, QueuesStep
  <2> QED BY <2>2, <2>3, <2>8, PutTyped
<1>2. CASE TranscriptItem
  <2>1. [Nothing EXCEPT !["messages"] = <<Message("left")>>] \in Queues
    <3>1. /\ <<Message("left")>> \in Seq(Carried["messages"]) /\ "messages" \in Streams
          /\ Nothing \in Queues
      BY CarriedIs, MessageTyped, NothingTyped DEF Sides
    <3> QED BY <3>1, QueuesStep
  <2> QED BY <1>0, <1>2, <2>1, PutTyped DEF TranscriptItem, Arrives
<1>3. ASSUME NEW activity \in Activities, SpinnerTick(activity) PROVE StreamTypes'
  <2>1. [Nothing EXCEPT !["spinners"] = <<activity>>] \in Queues
    <3>1. /\ <<activity>> \in Seq(Carried["spinners"]) /\ "spinners" \in Streams
          /\ Nothing \in Queues
      BY CarriedIs, NothingTyped
    <3> QED BY <3>1, QueuesStep
  <2> QED BY <1>0, <1>3, <2>1, PutTyped DEF SpinnerTick, Arrives
<1>4. ASSUME NEW trigger \in Triggers, Trigger(trigger) PROVE StreamTypes'
  <2> DEFINE step == ApplySafetyNet(state, trigger)
  <2>1. step.state \in States
    BY SafetyNetTyped
  <2>2. /\ state' = step.state /\ Put(Shown(step.state, step.emit))
        /\ UNCHANGED <<primary, known, arrivals>>
    BY <1>4 DEF Trigger
  <2> HIDE DEF step
  <2> QED BY <2>1, <2>2, ShownTyped, PutTyped
<1> QED BY <1>1, <1>2, <1>3, <1>4 DEF Produces

(* They hold when the live phase begins.                                    *)
LEMMA StreamsInitTyped == StreamsInit => StreamTypes
<1> SUFFICES ASSUME StreamsInit PROVE StreamTypes
  OBVIOUS
<1>1. state \in States
  BY StreamAssumption DEF StreamsInit
<1>2. Primary \in Sids
  BY StreamAssumption
<1>3. queue \in Queues
  BY <1>1, ShownTyped DEF StreamsInit
<1> QED BY <1>1, <1>2, <1>3 DEF StreamsInit, StreamTypes, PrimaryValues

-----------------------------------------------------------------------------
(* What the panes show.                                                    *)

Entries == [msg : Messages, state : States]

(* A pane shows a window of what was seen of its side.                      *)
Window(buf, all) ==
  /\ buf \in Seq(Entries) /\ all \in Seq(Entries)
  /\ Len(buf) <= Len(all)
  /\ \A i \in 1..Len(buf) : buf[i] = all[Len(all) - Len(buf) + i]

(* A window is a suffix, as PanesShowLatest says it.                        *)
LEMMA WindowIsSuffix ==
  ASSUME NEW buf, NEW all, Window(buf, all)
  PROVE  IsSuffix(buf, all)
<1>1. /\ buf \in Seq(Entries) /\ all \in Seq(Entries) /\ Len(buf) <= Len(all)
      /\ Len(buf) \in Nat /\ Len(all) \in Nat
  BY DEF Window
<1> DEFINE b == Reverse(buf)
           a == Reverse(all)
<1>2. /\ b \in Seq(Entries) /\ Len(b) = Len(buf)
      /\ \A i \in 1..Len(buf) : b[i] = buf[Len(buf) - i + 1]
  BY <1>1 DEF Reverse
<1>3. /\ a \in Seq(Entries) /\ Len(a) = Len(all)
      /\ \A i \in 1..Len(all) : a[i] = all[Len(all) - i + 1]
  BY <1>1 DEF Reverse
<1> HIDE DEF a, b
<1>4. ASSUME NEW i \in 1..Len(buf) PROVE b[i] = a[i]
  <2>1. /\ Len(buf) - i + 1 \in 1..Len(buf) /\ i \in 1..Len(all)
        /\ Len(all) - Len(buf) + (Len(buf) - i + 1) = Len(all) - i + 1
    BY <1>1
  <2>2. buf[Len(buf) - i + 1] = all[Len(all) - Len(buf) + (Len(buf) - i + 1)]
    BY <2>1 DEF Window
  <2> QED BY <1>2, <1>3, <2>1, <2>2
<1>5. SubSeq(b, 1, Len(b)) \in Seq(Entries) /\ SubSeq(a, 1, Len(b)) \in Seq(Entries)
      /\ Len(SubSeq(b, 1, Len(b))) = Len(b) /\ Len(SubSeq(a, 1, Len(b))) = Len(b)
      /\ \A i \in 1..Len(b) : SubSeq(b, 1, Len(b))[i] = b[i] /\ SubSeq(a, 1, Len(b))[i] = a[i]
  BY <1>1, <1>2, <1>3
<1>6. SubSeq(b, 1, Len(b)) = SubSeq(a, 1, Len(b))
  BY <1>2, <1>4, <1>5, SeqEqual
<1> QED BY <1>1, <1>2, <1>3, <1>6 DEF IsSuffix, IsPrefix, a, b

(* A window over all there was, and one more thing in both.                 *)
LEMMA WindowGrows ==
  ASSUME NEW buf, NEW all, Window(buf, all), NEW entry \in Entries
  PROVE  Window(Append(buf, entry), Append(all, entry))
<1> DEFINE n == Len(buf)
           m == Len(all)
<1>1. /\ buf \in Seq(Entries) /\ all \in Seq(Entries) /\ n \in Nat /\ m \in Nat
      /\ n <= m /\ \A i \in 1..n : buf[i] = all[m - n + i]
  BY DEF Window
<1>2. /\ Append(buf, entry) \in Seq(Entries) /\ Len(Append(buf, entry)) = n + 1
      /\ Append(buf, entry)[n + 1] = entry /\ \A i \in 1..n : Append(buf, entry)[i] = buf[i]
  BY <1>1
<1>3. /\ Append(all, entry) \in Seq(Entries) /\ Len(Append(all, entry)) = m + 1
      /\ Append(all, entry)[m + 1] = entry /\ \A i \in 1..m : Append(all, entry)[i] = all[i]
  BY <1>1
<1>4. ASSUME NEW i \in 1..n + 1
      PROVE  Append(buf, entry)[i] = Append(all, entry)[(m + 1) - (n + 1) + i]
  <2>1. CASE i = n + 1
    BY <1>1, <1>2, <1>3, <2>1
  <2>2. CASE i # n + 1
    <3>1. i \in 1..n /\ m - n + i \in 1..m /\ (m + 1) - (n + 1) + i = m - n + i
      BY <1>1, <2>2
    <3> QED BY <1>1, <1>2, <1>3, <3>1
  <2> QED BY <2>1, <2>2
<1> QED BY <1>1, <1>2, <1>3, <1>4 DEF Window

(* What is pushed into a pane: it gains at its end and, when full, loses at  *)
(* its beginning.                                                          *)
LEMMA PushedBelow ==
  ASSUME NEW pane, NEW all, NEW entry \in Entries,
         pane = [cap |-> pane.cap, buf |-> pane.buf], pane.cap \in Nat,
         Window(pane.buf, all), Len(pane.buf) < pane.cap
  PROVE  /\ Pushed(pane, entry) = [cap |-> pane.cap, buf |-> Append(pane.buf, entry)]
         /\ Window(Append(pane.buf, entry), Append(all, entry))
<1>1. pane.cap # 0 /\ ~(Len(pane.buf) >= pane.cap)
  BY DEF Window
<1>2. Pushed(pane, entry) = [pane EXCEPT !.buf = Append(pane.buf, entry)]
  BY <1>1 DEF Pushed
<1> QED BY <1>2, WindowGrows

(* A full pane: the oldest one goes.                                        *)
LEMMA PushedFull ==
  ASSUME NEW pane, NEW all, NEW entry \in Entries,
         pane = [cap |-> pane.cap, buf |-> pane.buf], pane.cap \in Nat, pane.cap # 0,
         Window(pane.buf, all), Len(pane.buf) = pane.cap
  PROVE  /\ Pushed(pane, entry) = [cap |-> pane.cap, buf |-> Tail(Append(pane.buf, entry))]
         /\ Window(Tail(Append(pane.buf, entry)), Append(all, entry))
         /\ Len(Tail(Append(pane.buf, entry))) = pane.cap
<1> DEFINE more == Append(pane.buf, entry)
           later == Append(all, entry)
           m == Len(all)
           n == Len(pane.buf)
<1>1. Pushed(pane, entry) = [pane EXCEPT !.buf = Tail(more)]
  BY DEF Pushed
<1>2. Window(more, later)
  BY WindowGrows
<1>3. /\ more \in Seq(Entries) /\ more # <<>> /\ Len(more) = n + 1 /\ n \in Nat
      /\ later \in Seq(Entries) /\ Len(later) = m + 1 /\ m \in Nat /\ n <= m
  BY DEF Window
<1> HIDE DEF more, later
<1>4. /\ Tail(more) \in Seq(Entries) /\ Len(Tail(more)) = n
      /\ \A i \in 1..n : Tail(more)[i] = more[i + 1]
  BY <1>3, HeadTailProperties
<1>5. ASSUME NEW i \in 1..n PROVE Tail(more)[i] = later[(m + 1) - n + i]
  <2>1. more[i + 1] = later[(m + 1) - (n + 1) + (i + 1)]
    BY <1>2, <1>3 DEF Window
  <2>2. (m + 1) - (n + 1) + (i + 1) = (m + 1) - n + i
    BY <1>3
  <2> QED BY <1>4, <2>1, <2>2
<1>6. Window(Tail(more), later)
  BY <1>3, <1>4, <1>5 DEF Window
<1> QED BY <1>1, <1>4, <1>6 DEF more, later

(* A pane without room for a block holds nothing.                           *)
LEMMA PushedNowhere ==
  ASSUME NEW pane, NEW all, NEW entry \in Entries,
         pane.cap = 0, Window(pane.buf, all), Len(pane.buf) = 0
  PROVE  Pushed(pane, entry) = pane /\ Window(pane.buf, Append(all, entry))
BY DEF Pushed, Window

(* Pane.push in any of the three cases.                                     *)
LEMMA PushedPane ==
  ASSUME NEW pane, NEW all, NEW entry \in Entries,
         pane = [cap |-> pane.cap, buf |-> pane.buf], pane.cap \in Nat,
         Window(pane.buf, all), Len(pane.buf) <= pane.cap
  PROVE  \E buf : /\ Pushed(pane, entry) = [cap |-> pane.cap, buf |-> buf]
                  /\ Window(buf, Append(all, entry))
                  /\ Len(pane.buf) < pane.cap => Len(buf) = Len(pane.buf) + 1
                  /\ Len(pane.buf) = pane.cap => Len(buf) = Len(pane.buf)
<1>1. Len(pane.buf) \in Nat /\ pane.buf \in Seq(Entries)
  BY DEF Window
<1>2. CASE Len(pane.buf) < pane.cap
  <2>1. Len(Append(pane.buf, entry)) = Len(pane.buf) + 1
    BY <1>1
  <2>2. /\ Pushed(pane, entry) = [cap |-> pane.cap, buf |-> Append(pane.buf, entry)]
        /\ Window(Append(pane.buf, entry), Append(all, entry))
    BY <1>2, PushedBelow
  <2>3. Len(pane.buf) # pane.cap
    BY <1>1, <1>2
  <2> QED BY <1>2, <2>1, <2>2, <2>3
<1>3. CASE Len(pane.buf) = pane.cap /\ pane.cap # 0
  <2>1. /\ Pushed(pane, entry) = [cap |-> pane.cap, buf |-> Tail(Append(pane.buf, entry))]
        /\ Window(Tail(Append(pane.buf, entry)), Append(all, entry))
        /\ Len(Tail(Append(pane.buf, entry))) = pane.cap
    BY <1>3, PushedFull
  <2>2. ~(Len(pane.buf) < pane.cap)
    BY <1>1, <1>3
  <2> QED BY <1>3, <2>1, <2>2
<1>4. CASE Len(pane.buf) = pane.cap /\ pane.cap = 0
  <2>1. Pushed(pane, entry) = pane /\ Window(pane.buf, Append(all, entry))
    BY <1>4, PushedNowhere
  <2>2. ~(Len(pane.buf) < pane.cap)
    BY <1>1, <1>4
  <2> QED BY <1>4, <2>1, <2>2
<1> QED BY <1>1, <1>2, <1>3, <1>4

(* A resize leaves the newest that fit.                                    *)
LEMMA TrimmedWindow ==
  ASSUME NEW buf, NEW all, Window(buf, all), NEW cap \in Nat
  PROVE  Window(Trimmed(buf, cap), all) /\ Len(Trimmed(buf, cap)) <= cap
<1> DEFINE len == Len(buf)
           n == Len(all)
           from == IF Len(buf) > cap THEN Len(buf) - cap + 1 ELSE 1
           new == Trimmed(buf, cap)
<1>1. /\ buf \in Seq(Entries) /\ all \in Seq(Entries) /\ len \in Nat /\ n \in Nat
      /\ len <= n /\ \A i \in 1..len : buf[i] = all[n - len + i]
      /\ from \in Int /\ from >= 1
  BY DEF Window
<1>2. /\ new \in Seq(Entries) /\ Len(new) = len - from + 1
      /\ \A i \in 1..Len(new) : new[i] = buf[from + i - 1]
  <2>1. \A i \in from..len : buf[i] \in Entries
    BY <1>1
  <2>2. from <= len + 1
    BY <1>1
  <2>3. new = SubSeq(buf, from, len)
    BY DEF Trimmed
  <2> HIDE DEF new, from
  <2> QED BY <1>1, <2>1, <2>2, <2>3, SubSeqProperties
<1>3. Len(new) <= cap /\ Len(new) <= n
  BY <1>1, <1>2
<1> HIDE DEF new, from
<1>4. ASSUME NEW i \in 1..Len(new) PROVE new[i] = all[n - Len(new) + i]
  <2>1. from + i - 1 \in 1..len /\ n - len + (from + i - 1) = n - Len(new) + i
    BY <1>1, <1>2
  <2> QED BY <1>1, <1>2, <2>1
<1>5. Window(new, all)
  BY <1>1, <1>2, <1>3, <1>4 DEF Window
<1> QED BY <1>3, <1>5 DEF new

CtxTyped ==
  /\ ctx = [state |-> ctx.state, sid |-> ctx.sid, hook |-> ctx.hook, spin |-> ctx.spin]
  /\ ctx.state \in States
ScreenTyped ==
  ScreenShape(screen) /\ screen.rows \in 13..200 /\ screen.height \in {0, BarHeight}
HandlerTyped ==
  /\ handler \in [installed : BOOLEAN, pending : BOOLEAN, resizes : Nat]
  /\ handler.resizes = 0 => ~handler.pending
PaneOf(side) ==
  /\ panes[side] = [cap |-> panes[side].cap, buf |-> panes[side].buf]
  /\ panes[side].cap \in Nat /\ Len(panes[side].buf) <= panes[side].cap
  /\ Window(panes[side].buf, seen[side])
  /\ handler.resizes = 0 =>
       Len(panes[side].buf) = IF Len(seen[side]) < panes[side].cap THEN Len(seen[side])
                              ELSE panes[side].cap
PanesInv ==
  /\ StreamTypes /\ CtxTyped /\ ScreenTyped /\ HandlerTyped
  /\ panes = [side \in Sides |-> panes[side]] /\ seen = [side \in Sides |-> seen[side]]
  /\ \A side \in Sides : PaneOf(side)

(* A terminal has room for some blocks, or none.                            *)
LEMMA CapacityNat ==
  ASSUME NEW scr, scr.rows \in Int, scr.height \in Int
  PROVE  Capacity(scr) \in Nat
BY DEF Capacity, PaneBottom, PaneTop, BlockHeight

(* The status bar keeps the size of the terminal, and has its height once   *)
(* drawn.                                                                   *)
LEMMA EmitStatusTyped ==
  ASSUME NEW scr, NEW c, ScreenShape(scr), scr.height \in {0, BarHeight}
  PROVE  LET new == EmitStatus(scr, c)
         IN  new.rows = scr.rows /\ new.height \in {0, BarHeight}
             /\ (scr.enabled => new.height = BarHeight)
             /\ (~scr.enabled => new = scr)
<1>1. CASE ~scr.enabled
  BY <1>1 DEF EmitStatus
<1>2. CASE scr.enabled
  <2>1. PICK grid, region :
          EmitStatus(scr, c) = [scr EXCEPT !.grid = grid, !.region = region, !.height = BarHeight]
    BY <1>2 DEF EmitStatus
  <2>2. EmitStatus(scr, c) = [rows |-> scr.rows, grid |-> grid, region |-> region,
                              height |-> BarHeight, enabled |-> scr.enabled]
    BY <2>1 DEF ScreenShape
  <2> QED BY <1>2, <2>2
<1> QED BY <1>1, <1>2

(* What a pump leaves that draws the bar behind whatever it painted.        *)
LEMMA RedrawnTyped ==
  ASSUME ScreenTyped, NEW grid, NEW c,
         screen' = EmitStatus([screen EXCEPT !.grid = grid], c)
  PROVE  ScreenTyped' /\ screen'.rows = screen.rows
<1> DEFINE scr == [screen EXCEPT !.grid = grid]
<1>1. ScreenShape(scr) /\ scr.rows = screen.rows /\ scr.height = screen.height
  BY DEF ScreenTyped, ScreenShape
<1> HIDE DEF scr
<1>2. screen' = EmitStatus(scr, c)
  BY DEF scr
<1> QED BY <1>1, <1>2, EmitStatusShape, EmitStatusTyped DEF ScreenTyped

(* A pump that reads q.                                                    *)
LEMMA TakesTyped ==
  ASSUME StreamTypes, NEW q \in Streams, Takes(q)
  PROVE  StreamTypes' /\ Head(queue[q]) \in Carried[q]
BY QueuesStep DEF StreamTypes, Takes, Ready

(* Only PumpMessage pushes and only OnResize trims.  What a pane holds is   *)
(* what was seen last; as many as fit, unless a resize made it smaller      *)
(* before.                                                                  *)
LEMMA PanesStep == PanesInv /\ [Next]_vars => PanesInv'
<1> SUFFICES ASSUME PanesInv, [Next]_vars PROVE PanesInv'
  OBVIOUS
<1>0. /\ StreamTypes /\ CtxTyped /\ ScreenTyped /\ HandlerTyped /\ ScreenShape(screen)
      /\ panes = [side \in Sides |-> panes[side]] /\ seen = [side \in Sides |-> seen[side]]
      /\ \A side \in Sides : PaneOf(side)
  BY DEF PanesInv, ScreenTyped
<1>1. ASSUME StreamTypes', UNCHANGED <<panes, seen, handler>>, CtxTyped', ScreenTyped'
      PROVE  PanesInv'
  BY <1>0, <1>1 DEF PanesInv, HandlerTyped, PaneOf
<1>2. ASSUME StreamTypes', UNCHANGED <<ctx, screen, panes, seen, handler>> PROVE PanesInv'
  BY <1>0, <1>1, <1>2 DEF CtxTyped, ScreenTyped, ScreenShape
<1>3. CASE Produce
  BY <1>0, <1>2, <1>3, ProducesTyped DEF Produce, watchVars
<1>4. ASSUME NEW q \in Streams, Takes(q), NEW c, Redraw(c), UNCHANGED <<panes, seen, handler>>,
             c = [state |-> c.state, sid |-> c.sid, hook |-> c.hook, spin |-> c.spin],
             c.state \in States
      PROVE  PanesInv'
  <2>1. ctx' = c /\ screen' = EmitStatus(screen, c)
    BY <1>4 DEF Redraw
  <2>2. ScreenTyped'
    BY <1>0, <2>1, EmitStatusShape, EmitStatusTyped DEF ScreenTyped
  <2> QED BY <1>0, <1>1, <1>4, <2>1, <2>2, TakesTyped DEF CtxTyped
<1>5. CASE PumpState
  <2> DEFINE c == [ctx EXCEPT !.state = Head(queue["states"])]
  <2>1. /\ Takes("states") /\ Redraw(c) /\ UNCHANGED <<panes, seen, handler>>
        /\ "states" \in Streams
    BY <1>5, CarriedIs DEF PumpState
  <2>2. Head(queue["states"]) \in States
    BY <1>0, <2>1, TakesTyped, CarriedIs
  <2>3. c = [state |-> c.state, sid |-> c.sid, hook |-> c.hook, spin |-> c.spin]
        /\ c.state \in States
    BY <1>0, <2>2 DEF CtxTyped
  <2> HIDE DEF c
  <2> QED BY <1>4, <2>1, <2>3
<1>6. CASE PumpEvent
  <2>1. PICK hook, sid : Redraw([ctx EXCEPT !.hook = hook, !.sid = sid])
    BY <1>6 DEF PumpEvent
  <2>2. /\ Takes("events") /\ UNCHANGED <<panes, seen, handler>> /\ "events" \in Streams
    BY <1>6, CarriedIs DEF PumpEvent
  <2>3. PICK c : c = [ctx EXCEPT !.hook = hook, !.sid = sid]
    OBVIOUS
  <2>4. c = [state |-> c.state, sid |-> c.sid, hook |-> c.hook, spin |-> c.spin]
        /\ c.state \in States
    BY <1>0, <2>3 DEF CtxTyped
  <2> QED BY <1>4, <2>1, <2>2, <2>3, <2>4
<1>7. CASE PumpSpinner
  <2>1. PICK spin : Redraw([ctx EXCEPT !.spin = spin])
    BY <1>7 DEF PumpSpinner
  <2> DEFINE c == [ctx EXCEPT !.spin = spin]
  <2>2. /\ Takes("spinners") /\ UNCHANGED <<panes, seen, handler>> /\ "spinners" \in Streams
    BY <1>7, CarriedIs DEF PumpSpinner
  <2>3. c = [state |-> c.state, sid |-> c.sid, hook |-> c.hook, spin |-> c.spin]
        /\ c.state \in States
    BY <1>0 DEF CtxTyped
  <2>4. Redraw(c)
    BY <2>1
  <2> HIDE DEF c
  <2> QED BY <1>4, <2>2, <2>3, <2>4
<1>8. CASE PumpMessage
  <2> DEFINE msg == Head(queue["messages"])
             entry == [msg |-> msg, state |-> ctx.state]
             side == msg.side
  <2>1. /\ Takes("messages") /\ "messages" \in Streams /\ UNCHANGED <<ctx, handler>>
    BY <1>8, CarriedIs DEF PumpMessage
  <2>2. StreamTypes' /\ msg \in Messages
    BY <1>0, <2>1, TakesTyped, CarriedIs
  <2>3. entry \in Entries /\ side \in Sides
    BY <1>0, <2>2 DEF Entries, Messages, CtxTyped
  <2>4. CASE mode # "bar"
    <3>1. UNCHANGED <<ctx, screen, panes, seen, handler>>
      BY <1>8, <2>4 DEF PumpMessage
    <3> QED BY <1>2, <2>2, <3>1
  <2>5. CASE mode = "bar"
    <3>1. /\ seen' = [seen EXCEPT ![side] = Append(@, entry)]
          /\ panes' = [panes EXCEPT ![side] = Pushed(@, entry)]
          /\ screen' = EmitStatus(
               [screen EXCEPT !.grid = Push(@, side, panes[side], entry)], ctx)
      BY <1>8, <2>5 DEF PumpMessage
    <3>2. ScreenTyped' /\ CtxTyped' /\ HandlerTyped'
      BY <1>0, <2>1, <3>1, RedrawnTyped DEF CtxTyped, HandlerTyped
    <3> HIDE DEF entry, side
    <3>3. ASSUME NEW s \in Sides PROVE PaneOf(s)'
      <4>1. CASE s # side
        <5>1. panes'[s] = panes[s] /\ seen'[s] = seen[s]
          BY <1>0, <3>1, <4>1
        <5> QED BY <1>0, <2>1, <5>1 DEF PaneOf
      <4>2. CASE s = side
        <5>0. PICK pane : pane = panes[s]
          OBVIOUS
        <5>1. panes'[s] = Pushed(pane, entry) /\ seen'[s] = Append(seen[s], entry)
          BY <1>0, <3>1, <4>2, <5>0
        <5>2. /\ pane = [cap |-> pane.cap, buf |-> pane.buf] /\ pane.cap \in Nat
              /\ Window(pane.buf, seen[s]) /\ Len(pane.buf) <= pane.cap
          BY <1>0, <5>0 DEF PaneOf
        <5>3. /\ Len(Append(seen[s], entry)) = Len(seen[s]) + 1 /\ Len(seen[s]) \in Nat
              /\ Len(pane.buf) \in Nat
          BY <5>2 DEF Window
        <5>4. handler.resizes = 0 =>
                Len(pane.buf) = IF Len(seen[s]) < pane.cap THEN Len(seen[s]) ELSE pane.cap
          BY <1>0, <5>0 DEF PaneOf
        <5>5. PICK buf : /\ Pushed(pane, entry) = [cap |-> pane.cap, buf |-> buf] /\ Window(buf, Append(seen[s], entry))
                         /\ Len(pane.buf) < pane.cap => Len(buf) = Len(pane.buf) + 1
                         /\ Len(pane.buf) = pane.cap => Len(buf) = Len(pane.buf)
          BY <2>3, <5>2, PushedPane
        <5>6. Len(buf) <= pane.cap
          BY <5>2, <5>3, <5>5
        <5>7. handler.resizes = 0 =>
                Len(buf) = IF Len(seen[s]) + 1 < pane.cap THEN Len(seen[s]) + 1 ELSE pane.cap
          BY <5>2, <5>3, <5>4, <5>5
        <5> QED BY <2>1, <5>1, <5>2, <5>3, <5>5, <5>6, <5>7 DEF PaneOf
      <4> QED BY <4>1, <4>2
    <3>4. panes' = [s \in Sides |-> panes'[s]] /\ seen' = [s \in Sides |-> seen'[s]]
      BY <1>0, <3>1
    <3> QED BY <2>2, <3>2, <3>3, <3>4 DEF PanesInv
  <2> QED BY <2>4, <2>5
<1>9. CASE \E q \in Streams : PumpEnds(q) /\ UNCHANGED shows
  BY <1>0, <1>2, <1>9 DEF PumpEnds, shows, streamVars, StreamTypes
<1>10. ASSUME NEW q \in Streams, PumpFails(q) PROVE PanesInv'
  BY <1>0, <1>2, <1>10, QueuesStep DEF PumpFails, Ready, shows, StreamTypes
<1>11. ASSUME NEW rows \in Sizes, Resize(rows) PROVE PanesInv'
  <2>1. /\ screen' = [screen EXCEPT !.rows = rows, !.grid = Full(rows, Junk)]
        /\ handler' = [handler EXCEPT !.pending = @ \/ handler.installed, !.resizes = @ + 1]
        /\ UNCHANGED <<streamVars, ctx, panes, seen>>
    BY <1>11 DEF Resize, tasks
  <2>2. ScreenTyped'
    BY <1>0, <2>1, SizeAssumption DEF ScreenTyped, ScreenShape
  <2>3. HandlerTyped' /\ handler'.resizes # 0
    <3>1. handler' = [installed |-> handler.installed,
                      pending |-> handler.pending \/ handler.installed,
                      resizes |-> handler.resizes + 1]
      BY <1>0, <2>1 DEF HandlerTyped
    <3>2. handler.resizes \in Nat /\ handler.installed \in BOOLEAN
          /\ (handler.pending \/ handler.installed) \in BOOLEAN
      BY <1>0 DEF HandlerTyped
    <3>3. handler.resizes + 1 \in Nat /\ handler.resizes + 1 # 0
      BY <3>2
    <3> QED BY <3>1, <3>2, <3>3 DEF HandlerTyped
  <2>4. StreamTypes' /\ CtxTyped' /\ \A side \in Sides : PaneOf(side)'
    BY <1>0, <2>1, <2>3 DEF StreamTypes, CtxTyped, PaneOf, streamVars
  <2> QED BY <1>0, <2>1, <2>2, <2>3, <2>4 DEF PanesInv
<1>12. CASE OnResize
  <2> DEFINE scr == EmitStatus(screen, ctx)
  <2>1. /\ handler.pending /\ handler' = [handler EXCEPT !.pending = FALSE]
        /\ panes' = Resized(panes, scr) /\ screen' = DrawPanes(scr, panes')
        /\ UNCHANGED <<streamVars, ctx, seen>>
    BY <1>12 DEF OnResize, tasks
  <2>2. ScreenShape(scr) /\ scr.rows \in 13..200 /\ scr.height \in {0, BarHeight}
    BY <1>0, EmitStatusShape, EmitStatusTyped DEF ScreenTyped
  <2> HIDE DEF scr
  <2>3. ScreenTyped'
    <3>1. PICK grid : screen' = [scr EXCEPT !.grid = grid]
      BY <2>1 DEF DrawPanes
    <3> QED BY <2>2, <3>1 DEF ScreenTyped, ScreenShape
  <2>4. HandlerTyped' /\ handler'.resizes # 0
    BY <1>0, <2>1 DEF HandlerTyped
  <2>5. Capacity(scr) \in Nat
    BY <2>2, CapacityNat DEF BarHeight
  <2>6. ASSUME NEW s \in Sides PROVE PaneOf(s)'
    <3>1. panes'[s] = [cap |-> Capacity(scr), buf |-> Trimmed(panes[s].buf, Capacity(scr))]
      BY <2>1 DEF Resized
    <3>2. Window(panes[s].buf, seen[s])
      BY <1>0 DEF PaneOf
    <3> QED BY <2>1, <2>4, <2>5, <3>1, <3>2, TrimmedWindow DEF PaneOf
  <2>7. StreamTypes' /\ CtxTyped' /\ panes' = [side \in Sides |-> panes'[side]]
    BY <1>0, <2>1 DEF StreamTypes, CtxTyped, streamVars, Resized
  <2> QED BY <1>0, <2>1, <2>3, <2>4, <2>6, <2>7 DEF PanesInv
<1>13. CASE Interrupt
  BY <1>0, <1>2, <1>13 DEF Interrupt, shows, streamVars, StreamTypes
<1>14. CASE Gather /\ UNCHANGED shows
  BY <1>0, <1>2, <1>14 DEF Gather, Leave, shows, StreamTypes
<1>15. CASE Returns /\ Restores
  <2>1. /\ UNCHANGED <<state, primary, known, queue, arrivals, ctx, panes, seen>>
        /\ handler' = [handler EXCEPT !.installed = FALSE] /\ screen' = Teardown(screen)
    BY <1>15 DEF Returns, Restores
  <2>2. ScreenTyped'
    BY <1>0, <2>1 DEF Teardown, ScreenTyped, ScreenShape
  <2>3. HandlerTyped' /\ handler'.resizes = handler.resizes
    BY <1>0, <2>1 DEF HandlerTyped
  <2>4. StreamTypes' /\ CtxTyped' /\ \A side \in Sides : PaneOf(side)'
    BY <1>0, <2>1, <2>3 DEF StreamTypes, CtxTyped, PaneOf
  <2> QED BY <1>0, <2>1, <2>2, <2>3, <2>4 DEF PanesInv
<1>16. CASE UNCHANGED vars
  BY <1>0, <1>2, <1>16 DEF vars, watchVars, streamVars, StreamTypes
<1> QED BY <1>3, <1>5, <1>6, <1>7, <1>8, <1>9, <1>10, <1>11, <1>12, <1>13, <1>14, <1>15,
           <1>16 DEF Next

(* Two empty panes of the size of the terminal.                             *)
LEMMA PanesInit == Init => PanesInv
<1> SUFFICES ASSUME Init PROVE PanesInv
  OBVIOUS
<1> DEFINE empty(rows) == [rows |-> rows, grid |-> Full(rows, Blank), region |-> "full",
                           height |-> 0, enabled |-> mode = "bar"]
           none == [s \in Sides |-> [cap |-> 0, buf |-> <<>>]]
<1>1. PICK rows \in IF mode = "bar" THEN Sizes ELSE {13} :
        /\ screen = IF mode = "bar" THEN DrawPanes(EmitStatus(empty(rows), ctx), none)
                    ELSE empty(rows)
        /\ panes = [s \in Sides |-> [cap |-> Capacity(screen), buf |-> <<>>]]
  BY DEF Init
<1>2. /\ rows \in 13..200 /\ ScreenShape(empty(rows)) /\ empty(rows).rows = rows
      /\ empty(rows).height \in {0, BarHeight}
  <2>1. rows \in 13..200
    BY <1>1, SizeAssumption
  <2> QED BY <2>1 DEF ScreenShape
<1> HIDE DEF empty, none
<1>3. ScreenTyped
  <2>1. CASE mode = "bar"
    <3> DEFINE scr == EmitStatus(empty(rows), ctx)
    <3>1. ScreenShape(scr) /\ scr.rows = rows /\ scr.height \in {0, BarHeight}
      BY <1>2, EmitStatusShape, EmitStatusTyped
    <3>2. screen = DrawPanes(scr, none)
      BY <1>1, <2>1
    <3> HIDE DEF scr
    <3>3. PICK grid : screen = [scr EXCEPT !.grid = grid]
      BY <3>2 DEF DrawPanes
    <3> QED BY <1>2, <3>1, <3>3 DEF ScreenTyped, ScreenShape
  <2>2. CASE mode # "bar"
    BY <1>1, <1>2, <2>2 DEF ScreenTyped
  <2> QED BY <2>1, <2>2
<1>4. StreamTypes /\ CtxTyped /\ HandlerTyped
  BY StreamsInitTyped, Constructed DEF Init, CtxTyped, HandlerTyped
<1>5. Capacity(screen) \in Nat
  BY <1>3, CapacityNat DEF ScreenTyped, BarHeight
<1>6. seen = [s \in Sides |-> <<>>]
  BY DEF Init
<1>7. ASSUME NEW side \in Sides PROVE PaneOf(side)
  <2>1. panes[side] = [cap |-> Capacity(screen), buf |-> <<>>] /\ seen[side] = <<>>
    BY <1>1, <1>6
  <2>2. Window(<<>>, <<>>)
    BY DEF Window
  <2> QED BY <1>5, <2>1, <2>2 DEF PaneOf
<1> QED BY <1>1, <1>3, <1>4, <1>6, <1>7 DEF PanesInv

(* A pane of watch holds the latest messages of its side, in their order    *)
(* and none twice, and as many as there is room for unless a resize cut     *)
(* them: Pane.push drops the oldest one, Pane.resize keeps the newest, and  *)
(* no message of one side gets into the other.                              *)
THEOREM LatestShown == Spec => []PanesShowLatest
<1>1. PanesInv => PanesShowLatest
  BY WindowIsSuffix DEF PanesInv, PaneOf, PanesShowLatest
<1> QED BY <1>1, PanesInit, PanesStep, PTL DEF Spec

-----------------------------------------------------------------------------
(* What is on the screen.                                                  *)

GridShape(scr) ==
  /\ ScreenShape(scr) /\ scr.rows \in 13..200
  /\ scr.grid = [x \in (1..scr.rows) \X Parts |-> scr.grid[x]]

(* The rows of the header and the bar, and those of the panes.              *)
HeadRows(scr) == (1..2) \cup (scr.rows - BarHeight + 1..scr.rows)
Area(scr) == PaneTop..scr.rows - BarHeight

HeadCell(scr, c, row) ==
  IF row > scr.rows - BarHeight THEN <<"bar", row - (scr.rows - BarHeight), c>>
  ELSE IF row = 1 THEN <<"header", c.sid>> ELSE Blank
HeadExact(scr, c) ==
  \A row \in HeadRows(scr), part \in Parts : scr.grid[row, part] = HeadCell(scr, c, row)
AreaExact(scr, ps) ==
  \A row \in Area(scr), part \in Parts : scr.grid[row, part] = PaneArea(row, part, ps)
SameArea(scr, new) ==
  \A row \in Area(scr), part \in Parts : new.grid[row, part] = scr.grid[row, part]
SameHead(scr, new) ==
  \A row \in HeadRows(scr), part \in Parts : new.grid[row, part] = scr.grid[row, part]

(* A row is in the header, in the bar or in the panes, and in one of them   *)
(* only.                                                                    *)
LEMMA Rows ==
  ASSUME NEW scr, GridShape(scr)
  PROVE  /\ HeadRows(scr) \subseteq 1..scr.rows /\ Area(scr) \subseteq 1..scr.rows
         /\ 1..scr.rows = HeadRows(scr) \cup Area(scr) /\ HeadRows(scr) \cap Area(scr) = {}
BY DEF GridShape, HeadRows, Area, BarHeight, PaneTop

(* _emit_status draws header and bar, and leaves the panes as they were.    *)
LEMMA EmitStatusCells ==
  ASSUME NEW scr, NEW c, GridShape(scr), scr.enabled
  PROVE  LET new == EmitStatus(scr, c)
         IN  /\ GridShape(new) /\ new.rows = scr.rows /\ new.height = BarHeight /\ new.enabled
             /\ HeadExact(new, c) /\ SameArea(scr, new)
<1> DEFINE new == EmitStatus(scr, c)
           above == scr.rows - BarHeight
           line(row, part) == IF row = 1 THEN <<"header", c.sid>>
                              ELSE IF row = 2 THEN Blank ELSE <<"bar", row - above, c>>
           grid == Paint(scr.grid, (1..2) \cup (above + 1..scr.rows), Parts, line)
           region == IF scr.height = BarHeight THEN scr.region ELSE "scoped"
<1>1. grid = [x \in (1..scr.rows) \X Parts |->
                IF x[1] \in HeadRows(scr) /\ x[2] \in Parts THEN line(x[1], x[2]) ELSE scr.grid[x]]
  <2>1. DOMAIN scr.grid = (1..scr.rows) \X Parts
    BY DEF GridShape
  <2> QED BY <2>1 DEF Paint, HeadRows
<1>2. \A row \in 1..scr.rows, part \in Parts :
        grid[row, part] = IF row \in HeadRows(scr) THEN line(row, part) ELSE scr.grid[row, part]
  BY <1>1
<1>3. \A row \in HeadRows(scr), part \in Parts : line(row, part) = HeadCell(scr, c, row)
  BY DEF GridShape, HeadRows, HeadCell, BarHeight
<1>4. new = [scr EXCEPT !.grid = grid, !.region = region, !.height = BarHeight]
  BY DEF EmitStatus
<1> HIDE DEF new, grid, region, line
<1>5. new = [rows |-> scr.rows, grid |-> grid, region |-> region,
             height |-> BarHeight, enabled |-> scr.enabled]
  BY <1>4 DEF GridShape, ScreenShape
<1>6. grid = [x \in (1..scr.rows) \X Parts |-> grid[x]]
  BY <1>1
<1>7. GridShape(new) /\ new.rows = scr.rows /\ new.height = BarHeight /\ new.enabled
  BY <1>5, <1>6 DEF GridShape, ScreenShape
<1>8. \A row : HeadCell(new, c, row) = HeadCell(scr, c, row)
  BY <1>7 DEF HeadCell
<1>9. HeadExact(new, c)
  <2>1. HeadRows(new) = HeadRows(scr)
    BY <1>7 DEF HeadRows
  <2>2. ASSUME NEW row \in HeadRows(scr), NEW part \in Parts
        PROVE  new.grid[row, part] = HeadCell(new, c, row)
    <3>1. row \in 1..scr.rows /\ new.grid = grid
      BY <1>5, Rows
    <3> QED BY <1>2, <1>3, <1>8, <3>1
  <2> QED BY <2>1, <2>2 DEF HeadExact
<1>10. SameArea(scr, new)
  BY <1>2, <1>5, Rows DEF SameArea
<1> QED BY <1>7, <1>9, <1>10 DEF new

(* Drawing both panes anew, as start and resize do, leaves header and bar.  *)
LEMMA DrawPanesCells ==
  ASSUME NEW scr, NEW ps, GridShape(scr), scr.height = BarHeight
  PROVE  LET new == DrawPanes(scr, ps)
         IN  /\ GridShape(new) /\ new.rows = scr.rows /\ new.height = BarHeight
             /\ new.enabled = scr.enabled
             /\ AreaExact(new, ps) /\ SameHead(scr, new)
<1> DEFINE new == DrawPanes(scr, ps)
           area(row, part) == PaneArea(row, part, ps)
           grid == Paint(scr.grid, PaneTop..PaneBottom(scr), Parts, area)
<1>1. PaneTop..PaneBottom(scr) = Area(scr)
  <2>1. PaneBottom(scr) = scr.rows - BarHeight
    BY DEF GridShape, PaneBottom, PaneTop, BarHeight
  <2> QED BY <2>1 DEF Area
<1>2. grid = [x \in (1..scr.rows) \X Parts |->
                IF x[1] \in Area(scr) /\ x[2] \in Parts THEN area(x[1], x[2]) ELSE scr.grid[x]]
  <2>1. DOMAIN scr.grid = (1..scr.rows) \X Parts
    BY DEF GridShape
  <2> QED BY <1>1, <2>1 DEF Paint
<1>3. \A row \in 1..scr.rows, part \in Parts :
        grid[row, part] = IF row \in Area(scr) THEN PaneArea(row, part, ps) ELSE scr.grid[row, part]
  BY <1>2
<1>4. new = [scr EXCEPT !.grid = grid]
  BY DEF DrawPanes
<1> HIDE DEF new, grid, area
<1>5. new = [rows |-> scr.rows, grid |-> grid, region |-> scr.region,
             height |-> scr.height, enabled |-> scr.enabled]
  BY <1>4 DEF GridShape, ScreenShape
<1>6. grid = [x \in (1..scr.rows) \X Parts |-> grid[x]]
  BY <1>2
<1>7. GridShape(new) /\ new.rows = scr.rows /\ new.height = BarHeight /\ new.enabled = scr.enabled
  BY <1>5, <1>6 DEF GridShape, ScreenShape
<1>8. AreaExact(new, ps)
  BY <1>3, <1>5, <1>7, Rows DEF AreaExact, Area
<1>9. SameHead(scr, new)
  BY <1>3, <1>5, Rows DEF SameHead
<1> QED BY <1>7, <1>8, <1>9 DEF new

(* One slot, or all of them, of a side whose rows are above the bar.        *)
LEMMA SlotRows ==
  ASSUME NEW scr, GridShape(scr), scr.height = BarHeight, NEW row \in Area(scr)
  PROVE  /\ \A i \in Nat : row \in Slots(i, i) <=> SlotOf(row) = i
         /\ \A i \in Nat : row \in Slots(1, i) <=> SlotOf(row) <= i
         /\ LineOf(row) \in 1..BlockHeight /\ SlotOf(row) \in Nat \ {0}
<1>1. row \in Int /\ row >= 3
  BY DEF Area, PaneTop, GridShape
<1> QED BY <1>1 DEF Slots, SlotOf, LineOf, PaneTop, BlockHeight

(* The slots a pane has are above the bar.                                  *)
LEMMA SlotsInArea ==
  ASSUME NEW scr, GridShape(scr), scr.height = BarHeight,
         NEW i \in Nat, i <= Capacity(scr)
  PROVE  Slots(1, i) \subseteq Area(scr) /\ (i # 0 => Slots(i, i) \subseteq Area(scr))
<1>1. scr.rows \in 13..200
  BY DEF GridShape
<1> QED BY <1>1 DEF Slots, Area, Capacity, PaneBottom, PaneTop, BlockHeight, BarHeight

(* A cell of the screen.                                                    *)
LEMMA InGrid ==
  ASSUME NEW scr, GridShape(scr), NEW row \in 1..scr.rows, NEW part \in Parts
  PROVE  <<row, part>> \in DOMAIN scr.grid
BY DEF GridShape

(* How many rows there are.                                                 *)
LEMMA GridRows ==
  ASSUME NEW scr, GridShape(scr)
  PROVE  scr.rows \in Int /\ scr.rows >= 13
BY DEF GridShape

(* A push paints the rows of a pane that it has to, and no others.          *)
PushedTo(ps, side, entry) == [ps EXCEPT ![side] = Pushed(@, entry)]
PushedOn(scr, ps, side, entry) ==
  [scr EXCEPT !.grid = Push(@, side, ps[side], entry)]

(* Painting in place: with room left only the new slot is painted, in a     *)
(* full pane every slot of its side; the cells are then those of the pane   *)
(* as it now is.                                                            *)
LEMMA PushCells ==
  ASSUME NEW scr, GridShape(scr), scr.height = BarHeight,
         NEW ps, ps = [s \in Sides |-> ps[s]], NEW side \in Sides,
         NEW all, NEW entry \in Entries,
         NEW old, old = ps[side], old = [cap |-> old.cap, buf |-> old.buf],
         old.cap = Capacity(scr), Window(old.buf, all), Len(old.buf) <= old.cap,
         AreaExact(scr, ps)
  PROVE  AreaExact(PushedOn(scr, ps, side, entry), PushedTo(ps, side, entry))
<1> DEFINE buf == old.buf
           len == Len(old.buf)
           cap == old.cap
           pane == Pushed(old, entry)
           new == PushedOn(scr, ps, side, entry)
           qs == PushedTo(ps, side, entry)
<1>1. /\ qs = [s \in Sides |-> qs[s]] /\ qs[side] = pane
      /\ \A s \in Sides \ {side} : qs[s] = ps[s]
  BY DEF PushedTo
<1>2. cap \in Nat /\ len \in Nat /\ len <= cap
  <2>1. scr.rows \in Int /\ scr.height \in Int
    BY GridRows DEF BarHeight
  <2> QED BY <2>1, CapacityNat DEF Window
<1>3. /\ pane.cap = cap
      /\ len = cap => Len(pane.buf) = len
      /\ len < cap => /\ Len(pane.buf) = len + 1
                      /\ pane.buf[len + 1] = entry
                      /\ \A i \in 1..len : pane.buf[i] = buf[i]
  <2>1. CASE len < cap
    <3>1. pane = [cap |-> cap, buf |-> Append(buf, entry)]
      BY <1>2, <2>1, PushedBelow
    <3>2. /\ Len(Append(buf, entry)) = len + 1 /\ Append(buf, entry)[len + 1] = entry
          /\ \A i \in 1..len : Append(buf, entry)[i] = buf[i]
      BY DEF Window
    <3> QED BY <1>2, <2>1, <3>1, <3>2
  <2>2. CASE len = cap /\ cap # 0
    <3>1. PICK more : pane = [cap |-> old.cap, buf |-> more] /\ Len(more) = old.cap
      BY <1>2, <2>2, PushedFull
    <3>2. ~(len < cap)
      BY <1>2, <2>2
    <3> QED BY <2>2, <3>1, <3>2
  <2>3. CASE len = cap /\ cap = 0
    BY <1>2, <2>3, PushedNowhere
  <2> QED BY <1>2, <2>1, <2>2, <2>3
<1>4. new = [scr EXCEPT !.grid = Push(scr.grid, side, old, entry)]
  BY DEF PushedOn
<1>5. new.grid = Push(scr.grid, side, old, entry) /\ new.rows = scr.rows
  BY <1>4 DEF GridShape, ScreenShape
<1> HIDE DEF new, qs, pane
<1>6. SUFFICES ASSUME NEW row \in Area(scr), NEW part \in Parts
               PROVE  new.grid[row, part] = PaneArea(row, part, qs)
  BY <1>5 DEF AreaExact, Area, new, qs
<1>7. /\ scr.grid[row, part] = PaneArea(row, part, ps)
      /\ row \in 1..scr.rows
      /\ part # "div" => part \in Sides
      /\ side # "div"
      /\ <<row, part>> \in DOMAIN scr.grid
  BY Rows, InGrid DEF AreaExact, Parts, Sides
<1>8. part # side => PaneArea(row, part, qs) = PaneArea(row, part, ps)
  BY <1>1, <1>7 DEF PaneArea
<1>9. /\ PaneArea(row, side, qs) = SlotCell(row, pane.buf)
      /\ PaneArea(row, side, ps) = SlotCell(row, buf)
  BY <1>1, <1>7 DEF PaneArea
<1>10. SlotOf(row) \in Nat \ {0}
  BY SlotRows
<1>11. CASE cap = 0
  <2>1. new.grid = scr.grid
    BY <1>5, <1>11 DEF Push
  <2>2. SlotCell(row, pane.buf) = SlotCell(row, buf)
    BY <1>2, <1>3, <1>10, <1>11 DEF SlotCell
  <2> QED BY <1>7, <1>8, <1>9, <2>1, <2>2
<1>12. CASE cap # 0 /\ len = cap
  <2>0. PICK F : F = [r \in Slots(1, cap) |-> SlotCell(r, pane.buf)]
    OBVIOUS
  <2>1. new.grid = PaintAll(scr.grid, side, pane)
    BY <1>2, <1>5, <1>12 DEF Push, pane
  <2>2. new.grid = [x \in DOMAIN scr.grid |->
                      IF x[1] \in Slots(1, cap) /\ x[2] \in {side} THEN F[x[1]] ELSE scr.grid[x]]
    BY <1>3, <2>0, <2>1 DEF PaintAll, Paint
  <2>3. Slots(1, cap) \in SUBSET (1..scr.rows)
    BY <1>2, SlotsInArea, Rows
  <2>4. new.grid[row, part] = IF row \in Slots(1, cap) /\ part = side THEN F[row]
                              ELSE scr.grid[row, part]
    BY <1>7, <2>2
  <2>5. row \in Slots(1, cap) <=> SlotOf(row) <= cap
    BY <1>2, SlotRows
  <2>6. row \notin Slots(1, cap) => SlotCell(row, pane.buf) = SlotCell(row, buf)
    BY <1>2, <1>3, <1>10, <1>12, <2>5 DEF SlotCell
  <2>7. row \in Slots(1, cap) => F[row] = SlotCell(row, pane.buf)
    BY <2>0
  <2> QED BY <1>7, <1>8, <1>9, <2>4, <2>6, <2>7, Zenon
<1>13. CASE len < cap
  <2>0. PICK idx, F : idx = len + 1 /\ F = [r \in Slots(idx, idx) |-> BlockLine(r, entry)]
    OBVIOUS
  <2>1. new.grid = PaintSlot(scr.grid, side, idx, entry)
    <3>1. ~(len >= cap) /\ cap # 0 /\ Len(pane.buf) = idx
      BY <1>2, <1>3, <1>13, <2>0
    <3> QED BY <1>5, <3>1 DEF Push, pane
  <2>2. new.grid = [x \in DOMAIN scr.grid |->
                      IF x[1] \in Slots(idx, idx) /\ x[2] \in {side} THEN F[x[1]]
                      ELSE scr.grid[x]]
    BY <2>0, <2>1 DEF PaintSlot, Paint
  <2>3. Slots(idx, idx) \in SUBSET (1..scr.rows)
    <3>1. idx \in Nat /\ idx <= cap /\ idx # 0
      BY <1>2, <1>13, <2>0
    <3> QED BY <3>1, SlotsInArea, Rows
  <2>4. new.grid[row, part] = IF row \in Slots(idx, idx) /\ part = side THEN F[row]
                              ELSE scr.grid[row, part]
    BY <1>7, <2>2
  <2>5. row \in Slots(idx, idx) <=> SlotOf(row) = idx
    BY <1>2, <2>0, SlotRows
  <2>6. SlotOf(row) = idx => SlotCell(row, pane.buf) = BlockLine(row, entry)
    BY <1>2, <1>3, <1>13, <2>0 DEF SlotCell
  <2>7. SlotOf(row) # idx => SlotCell(row, pane.buf) = SlotCell(row, buf)
    <3>1. Len(pane.buf) = len + 1 /\ \A i \in 1..len : pane.buf[i] = buf[i]
      BY <1>3, <1>13
    <3>2. SlotOf(row) # idx => (SlotOf(row) <= len + 1 <=> SlotOf(row) <= len)
      BY <1>2, <1>10, <2>0
    <3>3. SlotOf(row) <= len => SlotOf(row) \in 1..len
      BY <1>2, <1>10
    <3> QED BY <3>1, <3>2, <3>3 DEF SlotCell
  <2>8. row \in Slots(idx, idx) => F[row] = BlockLine(row, entry)
    BY <2>0
  <2> QED BY <1>7, <1>8, <1>9, <2>4, <2>5, <2>6, <2>7, <2>8
<1>14. cap = 0 \/ (cap # 0 /\ len = cap) \/ len < cap
  BY <1>2
<1> QED BY <1>11, <1>12, <1>13, <1>14

(* Whatever is painted, the grid keeps its shape.                          *)
LEMMA PushShape ==
  ASSUME NEW scr, GridShape(scr), NEW ps, NEW side, NEW entry
  PROVE  LET new == PushedOn(scr, ps, side, entry)
         IN  /\ GridShape(new) /\ new.rows = scr.rows /\ new.height = scr.height
             /\ new.enabled = scr.enabled
<1> DEFINE grid == Push(scr.grid, side, ps[side], entry)
<1>1. DOMAIN scr.grid = (1..scr.rows) \X Parts
  BY DEF GridShape
<1>2. grid = [x \in (1..scr.rows) \X Parts |-> grid[x]]
  BY <1>1 DEF Push, PaintAll, PaintSlot, Paint, GridShape
<1> HIDE DEF grid
<1>3. PICK new : new = [scr EXCEPT !.grid = grid]
  OBVIOUS
<1>4. new = [rows |-> scr.rows, grid |-> grid, region |-> scr.region,
             height |-> scr.height, enabled |-> scr.enabled]
  BY <1>3 DEF GridShape, ScreenShape
<1>5. GridShape(new)
  BY <1>2, <1>4 DEF GridShape, ScreenShape
<1> QED BY <1>3, <1>4, <1>5 DEF PushedOn, grid

(* While the bar is up, every cell of the screen is what would be drawn     *)
(* anew, unless the terminal was resized and the handler is still to come.  *)
Drawn ==
  /\ HeadExact(screen, ctx) /\ AreaExact(screen, panes)
  /\ \A side \in Sides : panes[side].cap = Capacity(screen)
BarUp ==
  /\ GridShape(screen) /\ screen.enabled /\ screen.height = BarHeight /\ handler.installed
  /\ ~handler.pending => Drawn
ScreenInv == mode = "bar" /\ Runs => BarUp

(* With the bar up, the parts drawn are the whole screen.                   *)
LEMMA ExactFromDrawn == ScreenInv => ScreenExact
<1> SUFFICES ASSUME ScreenInv, mode = "bar", Runs, ~handler.pending,
                    NEW row \in 1..screen.rows, NEW part \in Parts
             PROVE  screen.grid[row, part] = Layout(row, part)
  BY DEF ScreenExact
<1>1. GridShape(screen) /\ screen.height = BarHeight /\ HeadExact(screen, ctx)
      /\ AreaExact(screen, panes)
  BY DEF ScreenInv, BarUp, Drawn
<1>2. screen.rows \in Int /\ screen.rows >= 13 /\ row \in Int
  BY <1>1, GridRows
<1>3. CASE row \in HeadRows(screen)
  <2>1. screen.grid[row, part] = HeadCell(screen, ctx, row)
    BY <1>1, <1>3 DEF HeadExact
  <2>2. row > screen.rows - BarHeight \/ row = 1 \/ row = 2
    BY <1>2, <1>3 DEF HeadRows, BarHeight
  <2> QED BY <2>1, <2>2 DEF HeadCell, Layout
<1>4. CASE row \in Area(screen)
  <2>1. screen.grid[row, part] = PaneArea(row, part, panes)
    BY <1>1, <1>4 DEF AreaExact
  <2>2. ~(row > screen.rows - BarHeight) /\ row # 1 /\ row # 2
    BY <1>2, <1>4 DEF Area, PaneTop, BarHeight
  <2>3. LineOf(row) \in 1..BlockHeight
    BY <1>1, <1>4, SlotRows
  <2>4. LineOf(row) < BlockHeight <=> LineOf(row) # BlockHeight
    BY <2>3 DEF BlockHeight
  <2> QED BY <2>1, <2>2, <2>4 DEF Layout, PaneArea, SlotCell, BlockLine
<1> QED BY <1>1, <1>3, <1>4, Rows

(* What a pump that redraws leaves.                                        *)
LEMMA RedrawnExact ==
  ASSUME NEW scr, GridShape(scr), scr.enabled, scr.height = BarHeight, NEW c
  PROVE  LET new == EmitStatus(scr, c)
         IN  /\ GridShape(new) /\ new.enabled /\ new.height = BarHeight
             /\ HeadExact(new, c) /\ Capacity(new) = Capacity(scr)
             /\ \A ps : AreaExact(scr, ps) => AreaExact(new, ps)
<1> DEFINE new == EmitStatus(scr, c)
<1>1. /\ GridShape(new) /\ new.rows = scr.rows /\ new.height = BarHeight /\ new.enabled
      /\ HeadExact(new, c) /\ SameArea(scr, new)
  BY EmitStatusCells
<1> HIDE DEF new
<1>2. Capacity(new) = Capacity(scr) /\ Area(new) = Area(scr)
  BY <1>1 DEF Capacity, PaneBottom, Area
<1>3. \A ps : AreaExact(scr, ps) => AreaExact(new, ps)
  BY <1>1, <1>2 DEF AreaExact, SameArea
<1> QED BY <1>1, <1>2, <1>3 DEF new

(* What a resize, and the start, leave.                                    *)
LEMMA DrawnExact ==
  ASSUME NEW scr, GridShape(scr), scr.enabled, NEW c, NEW ps
  PROVE  LET bar == EmitStatus(scr, c)
             new == DrawPanes(bar, ps)
         IN  /\ GridShape(new) /\ new.enabled /\ new.height = BarHeight
             /\ HeadExact(new, c) /\ AreaExact(new, ps) /\ Capacity(new) = Capacity(bar)
<1> DEFINE bar == EmitStatus(scr, c)
           new == DrawPanes(bar, ps)
<1>1. /\ GridShape(bar) /\ bar.height = BarHeight /\ bar.enabled /\ HeadExact(bar, c)
  BY EmitStatusCells
<1> HIDE DEF bar
<1>2. /\ GridShape(new) /\ new.rows = bar.rows /\ new.height = BarHeight
      /\ new.enabled = bar.enabled /\ AreaExact(new, ps) /\ SameHead(bar, new)
  BY <1>1, DrawPanesCells
<1> HIDE DEF new
<1>3. Capacity(new) = Capacity(bar) /\ HeadRows(new) = HeadRows(bar)
  BY <1>1, <1>2 DEF Capacity, PaneBottom, HeadRows
<1>4. \A row : HeadCell(new, c, row) = HeadCell(bar, c, row)
  BY <1>2 DEF HeadCell
<1>5. HeadExact(new, c)
  BY <1>1, <1>2, <1>3, <1>4 DEF HeadExact, SameHead
<1> QED BY <1>1, <1>2, <1>3, <1>5 DEF bar, new

(* A pump paints one pane and the bar, the handler everything; a resize     *)
(* that the handler has not seen yet excuses any cell.                      *)
LEMMA ScreenStep == PanesInv /\ ScreenInv /\ [Next]_vars => ScreenInv'
<1> SUFFICES ASSUME PanesInv, ScreenInv, [Next]_vars PROVE ScreenInv'
  OBVIOUS
<1>1. ASSUME UNCHANGED <<mode, at, ctx, screen, panes, handler>> PROVE ScreenInv'
  BY <1>1 DEF ScreenInv, Runs, BarUp, Drawn
<1>2. ASSUME UNCHANGED <<mode, at, panes, handler>>, NEW c, Redraw(c) PROVE ScreenInv'
  <2> SUFFICES ASSUME mode = "bar", Runs PROVE BarUp'
    BY <1>2 DEF ScreenInv, Runs
  <2>1. BarUp
    BY DEF ScreenInv
  <2>2. ctx' = c /\ screen' = EmitStatus(screen, c)
    BY <1>2 DEF Redraw
  <2>3. /\ GridShape(screen') /\ screen'.enabled /\ screen'.height = BarHeight
        /\ HeadExact(screen', ctx') /\ Capacity(screen') = Capacity(screen)
        /\ AreaExact(screen, panes) => AreaExact(screen', panes)
    BY <2>1, <2>2, RedrawnExact DEF BarUp
  <2> QED BY <1>2, <2>1, <2>3 DEF BarUp, Drawn
<1>3. CASE Produce
  BY <1>1, <1>3 DEF Produce, watchVars
<1>4. CASE PumpState
  BY <1>2, <1>4 DEF PumpState, Takes
<1>5. CASE PumpEvent
  BY <1>2, <1>5 DEF PumpEvent, Takes
<1>6. CASE PumpSpinner
  BY <1>2, <1>6 DEF PumpSpinner, Takes
<1>7. CASE PumpMessage
  <2>1. UNCHANGED <<mode, at, ctx, handler>>
    BY <1>7 DEF PumpMessage, Takes
  <2> SUFFICES ASSUME mode = "bar", Runs PROVE BarUp'
    BY <2>1 DEF ScreenInv, Runs
  <2>2. BarUp
    BY DEF ScreenInv
  <2>3. PICK side, entry :
          /\ side \in Sides /\ entry \in Entries
          /\ panes' = PushedTo(panes, side, entry)
          /\ screen' = EmitStatus(PushedOn(screen, panes, side, entry), ctx)
    <3> DEFINE msg == Head(queue["messages"])
               entry == [msg |-> msg, state |-> ctx.state]
    <3>1. msg \in Messages
      BY <1>7, TakesTyped, CarriedIs DEF PumpMessage, PanesInv
    <3>2. entry \in Entries /\ msg.side \in Sides
      BY <3>1 DEF Entries, Messages, PanesInv, CtxTyped
    <3>3. /\ panes' = PushedTo(panes, msg.side, entry)
          /\ screen' = EmitStatus(PushedOn(screen, panes, msg.side, entry), ctx)
      BY <1>7 DEF PumpMessage, PushedTo, PushedOn
    <3> QED BY <3>2, <3>3
  <2> DEFINE scr == PushedOn(screen, panes, side, entry)
  <2>4. GridShape(scr) /\ scr.rows = screen.rows /\ scr.height = BarHeight /\ scr.enabled
    BY <2>2, PushShape DEF BarUp
  <2>5. Capacity(scr) = Capacity(screen)
    BY <2>2, <2>4 DEF Capacity, PaneBottom, BarUp
  <2>6. ASSUME ~handler.pending
        PROVE  AreaExact(scr, panes') /\ \A s \in Sides : panes'[s].cap = Capacity(screen)
    <3>1. PICK old : old = panes[side]
      OBVIOUS
    <3>2. /\ old = [cap |-> old.cap, buf |-> old.buf] /\ Window(old.buf, seen[side])
          /\ Len(old.buf) <= old.cap /\ old.cap \in Nat
          /\ panes = [s \in Sides |-> panes[s]]
      BY <2>3, <3>1 DEF PanesInv, PaneOf
    <3>3. /\ AreaExact(screen, panes) /\ GridShape(screen) /\ screen.height = BarHeight
          /\ \A s \in Sides : panes[s].cap = Capacity(screen)
      BY <2>2, <2>6 DEF BarUp, Drawn
    <3>4. AreaExact(scr, panes')
      BY <2>3, <3>1, <3>2, <3>3, PushCells
    <3>5. PICK buf : Pushed(old, entry) = [cap |-> old.cap, buf |-> buf]
      BY <2>3, <3>2, PushedPane
    <3>6. /\ panes'[side] = Pushed(old, entry)
          /\ \A s \in Sides \ {side} : panes'[s] = panes[s]
      BY <2>3, <3>1, <3>2 DEF PushedTo
    <3>7. \A s \in Sides : panes'[s].cap = Capacity(screen)
      BY <2>3, <3>1, <3>3, <3>5, <3>6
    <3> QED BY <3>4, <3>7
  <2>7. screen' = EmitStatus(scr, ctx)
    BY <2>3
  <2> HIDE DEF scr
  <2>8. /\ GridShape(screen') /\ screen'.enabled /\ screen'.height = BarHeight
        /\ HeadExact(screen', ctx) /\ Capacity(screen') = Capacity(screen)
        /\ AreaExact(scr, panes') => AreaExact(screen', panes')
    BY <2>4, <2>5, <2>7, RedrawnExact
  <2> QED BY <2>1, <2>2, <2>6, <2>8 DEF BarUp, Drawn
<1>8. CASE \E q \in Streams : PumpEnds(q) /\ UNCHANGED shows
  BY <1>1, <1>8 DEF PumpEnds, shows
<1>9. CASE \E q \in Streams : PumpFails(q)
  BY <1>1, <1>9 DEF PumpFails, shows
<1>10. ASSUME NEW rows \in Sizes, Resize(rows) PROVE ScreenInv'
  <2>1. /\ screen' = [screen EXCEPT !.rows = rows, !.grid = Full(rows, Junk)]
        /\ handler' = [handler EXCEPT !.pending = @ \/ handler.installed, !.resizes = @ + 1]
        /\ UNCHANGED <<mode, at>> /\ mode = "bar" /\ Runs
    BY <1>10 DEF Resize, tasks
  <2>2. BarUp
    BY <2>1 DEF ScreenInv
  <2>3. handler'.pending /\ handler'.installed
    BY <2>1, <2>2 DEF BarUp, PanesInv, HandlerTyped
  <2>4. screen' = [rows |-> rows, grid |-> Full(rows, Junk), region |-> screen.region,
                   height |-> screen.height, enabled |-> screen.enabled]
    BY <2>1, <2>2 DEF BarUp, GridShape, ScreenShape
  <2>5. GridShape(screen')
    BY <2>4, SizeAssumption DEF GridShape, ScreenShape, Full
  <2> QED BY <2>2, <2>3, <2>4, <2>5 DEF ScreenInv, BarUp
<1>11. CASE OnResize
  <2>1. /\ panes' = Resized(panes, EmitStatus(screen, ctx))
        /\ screen' = DrawPanes(EmitStatus(screen, ctx), panes')
        /\ handler' = [handler EXCEPT !.pending = FALSE]
        /\ UNCHANGED <<mode, at, ctx>>
    BY <1>11 DEF OnResize, tasks
  <2> SUFFICES ASSUME mode = "bar", Runs PROVE BarUp'
    BY <2>1 DEF ScreenInv, Runs
  <2>2. BarUp
    BY DEF ScreenInv
  <2>3. handler'.installed
    BY <2>1, <2>2 DEF BarUp, PanesInv, HandlerTyped
  <2>4. /\ GridShape(screen') /\ screen'.enabled /\ screen'.height = BarHeight
        /\ HeadExact(screen', ctx) /\ AreaExact(screen', panes')
        /\ Capacity(screen') = Capacity(EmitStatus(screen, ctx))
    BY <2>1, <2>2, DrawnExact DEF BarUp
  <2>5. \A side \in Sides : panes'[side].cap = Capacity(screen')
    BY <2>1, <2>4 DEF Resized
  <2> QED BY <2>1, <2>3, <2>4, <2>5 DEF BarUp, Drawn
<1>12. CASE Interrupt
  BY <1>1, <1>12 DEF Interrupt, shows
<1>13. CASE Gather /\ UNCHANGED shows
  <2>1. UNCHANGED <<mode, ctx, screen, panes, handler>> /\ Runs
    BY <1>13 DEF Gather, shows, Runs
  <2> QED BY <2>1 DEF ScreenInv, BarUp, Drawn
<1>14. CASE Returns /\ Restores
  BY <1>14 DEF Returns, ScreenInv, Runs
<1>15. CASE UNCHANGED vars
  BY <1>1, <1>15 DEF vars, watchVars
<1> QED BY <1>3, <1>4, <1>5, <1>6, <1>7, <1>8, <1>9, <1>10, <1>11, <1>12, <1>13, <1>14,
           <1>15 DEF Next

(* watch draws the bar and two empty panes before a pump runs.              *)
LEMMA ScreenInit == Init => ScreenInv
<1> SUFFICES ASSUME Init, mode = "bar" PROVE BarUp
  BY DEF ScreenInv
<1> DEFINE empty(rows) == [rows |-> rows, grid |-> Full(rows, Blank), region |-> "full",
                           height |-> 0, enabled |-> mode = "bar"]
           none == [s \in Sides |-> [cap |-> 0, buf |-> <<>>]]
<1>1. PICK rows \in Sizes :
        /\ screen = DrawPanes(EmitStatus(empty(rows), ctx), none)
        /\ panes = [s \in Sides |-> [cap |-> Capacity(screen), buf |-> <<>>]]
  BY DEF Init
<1>2. PICK scr : scr = empty(rows)
  OBVIOUS
<1>3. GridShape(scr) /\ scr.enabled
  BY <1>2, SizeAssumption DEF GridShape, ScreenShape, Full
<1>4. handler.installed
  BY DEF Init
<1> HIDE DEF empty
<1>5. /\ GridShape(screen) /\ screen.enabled /\ screen.height = BarHeight
      /\ HeadExact(screen, ctx) /\ AreaExact(screen, none)
  BY <1>1, <1>2, <1>3, DrawnExact
<1>6. AreaExact(screen, panes)
  <2>1. ASSUME NEW row, NEW part \in Parts
        PROVE  PaneArea(row, part, none) = PaneArea(row, part, panes)
    <3>1. part # "div" => part \in Sides
      BY DEF Parts, Sides
    <3>2. part \in Sides => none[part].buf = panes[part].buf
      BY <1>1
    <3> QED BY <3>1, <3>2 DEF PaneArea
  <2> HIDE DEF none
  <2> QED BY <1>5, <2>1 DEF AreaExact
<1> QED BY <1>1, <1>4, <1>5, <1>6 DEF BarUp, Drawn

(* While the bar is up and no resize waits for its handler, every cell of   *)
(* the terminal is what drawing header, panes and bar anew would put there: *)
(* painting in place (Pane.push, _emit_status) never leaves a stale or a    *)
(* missing line, for every size of the terminal from 13 rows and any number *)
(* of messages.                                                             *)
THEOREM ScreenIsExact == Spec => []ScreenExact
<1> QED BY ExactFromDrawn, PanesInit, PanesStep, ScreenInit, ScreenStep, PTL DEF Spec
=============================================================================
