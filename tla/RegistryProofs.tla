--------------------------- MODULE RegistryProofs ---------------------------
(***************************************************************************)
(* The registry's entries are sound and its file is whole, for every set of *)
(* tmux sessions, events and panes, and logs of every length.              *)
(***************************************************************************)
EXTENDS Registry, BindingProofs

Places == {"off", "seek", "wait", "tail", "broken"} \cup Writing

(* Sound entries that know of the first k lines at most.                   *)
Books(k) ==
  {f \in [Tmuxes -> Bindings] : \A t \in Tmuxes : Sound(f[t]) /\ f[t].last <= k}

Entries(k) == [tmux : Tmuxes, ev : HookEvents, pane : Panes, ts : 1..k]

(* Every copy of the registry is a book, the .tmp file aside while it is    *)
(* written.                                                                *)
CopiesInv ==
  /\ lines \in Nat /\ leaving \in BOOLEAN
  /\ all \in Books(lines) /\ mem \in Books(lines) /\ file \in Books(lines)
  /\ payload \in [Writers -> Books(lines)]
  /\ at \in [Writers -> Places]

(* One writer at a time is past the lock, and replaces what it has filled.  *)
LockInv ==
  /\ \A w \in Writers : at[w] \in {"open", "fill", "replace"} => lock = w
  /\ \A w \in Writers : at[w] = "replace" => tmp = payload[w]

(* The tracker reads the lines in order, each newer than all it has folded. *)
OrderInv ==
  /\ unread \in Seq(Entries(lines))
  /\ \A i \in DOMAIN unread, t \in Tmuxes : mem[t].last < unread[i].ts
  /\ \A i, j \in DOMAIN unread : i < j => unread[i].ts < unread[j].ts

(* Between trackers, and before one has sought, no line waits to be read.   *)
HandleInv ==
  /\ at["tracker"] \in {"off", "seek", "wait"} => unread = <<>>
  /\ leaving => unread = <<>>
  /\ at["tracker"] \in {"seek", "wait", "tail", "broken"} => ~leaving

RegInv == CopiesInv /\ LockInv /\ OrderInv /\ HandleInv

-----------------------------------------------------------------------------
(* What a book says of one tmux session.                                   *)
LEMMA BookEntry ==
  ASSUME NEW k \in Nat, NEW f \in Books(k), NEW t \in Tmuxes
  PROVE  f[t] \in Bindings /\ Sound(f[t]) /\ f[t].last \in Nat /\ f[t].last <= k
<1>1. f[t] \in Bindings /\ Sound(f[t]) /\ f[t].last <= k
  BY DEF Books
<1>2. f[t].last \in Nat
  BY <1>1 DEF Bindings
<1> QED
  BY <1>1, <1>2

(* A book stays one when a line is logged.                                 *)
LEMMA BooksGrow ==
  ASSUME NEW k \in Nat, NEW f \in Books(k)
  PROVE  f \in Books(k + 1)
<1>1. f \in [Tmuxes -> Bindings] /\ \A t \in Tmuxes : Sound(f[t]) /\ f[t].last <= k
  BY DEF Books
<1>2. \A t \in Tmuxes : f[t].last \in Nat
  BY BookEntry
<1>3. \A t \in Tmuxes : f[t].last <= k + 1
  BY <1>1, <1>2
<1> QED
  BY <1>1, <1>3 DEF Books

(* A fold of a newer line: only its tmux session changes.                  *)
LEMMA FoldsBook ==
  ASSUME NEW k \in Nat, NEW f \in Books(k), NEW e \in Entries(k), f[e.tmux].last < e.ts
  PROVE  LET g == Folds(f, e)
         IN /\ g \in Books(k)
            /\ \A t \in Tmuxes : g[t].last <= e.ts \/ g[t].last = f[t].last
<1> DEFINE g == Folds(f, e)
           n == Step(f[e.tmux], e.ev, e.pane, e.ts)
<1>1. /\ e.tmux \in Tmuxes /\ e.ev \in HookEvents /\ e.pane \in Panes
      /\ e.ts \in Nat /\ e.ts <= k
  BY DEF Entries
<1>2. f \in [Tmuxes -> Bindings] /\ \A t \in Tmuxes : Sound(f[t]) /\ f[t].last <= k
  BY DEF Books
<1>3. n \in Bindings /\ Sound(n) /\ n.last <= e.ts
  BY <1>1, <1>2, StepSound
<1>4. g = [f EXCEPT ![e.tmux] = n]
  BY DEF Folds
<1>5. n.last \in Nat /\ n.last <= k
  <2>1. n.last \in Nat
    BY <1>3 DEF Bindings
  <2> QED
    BY <1>1, <1>3, <2>1
<1>6. g \in [Tmuxes -> Bindings]
  BY <1>2, <1>3, <1>4
<1>7. \A t \in Tmuxes : g[t] = IF t = e.tmux THEN n ELSE f[t]
  BY <1>2, <1>4
<1>8. \A t \in Tmuxes : Sound(g[t]) /\ g[t].last <= k
  <2> HIDE DEF g, n
  <2> QED
    BY <1>2, <1>3, <1>5, <1>7
<1>9. \A t \in Tmuxes : g[t].last <= e.ts \/ g[t].last = f[t].last
  <2> HIDE DEF g, n
  <2> QED
    BY <1>3, <1>7
<1> QED
  BY <1>6, <1>8, <1>9 DEF Books

LEMMA RegInit == Init => RegInv
<1> SUFFICES ASSUME Init PROVE RegInv
  OBVIOUS
<1>1. Nothing \in Books(0)
  BY NoBindingSound DEF Nothing, Books
<1>2. CopiesInv
  BY <1>1 DEF Init, CopiesInv, Places
<1>3. LockInv
  BY DEF Init, LockInv
<1>4. OrderInv
  BY DEF Init, OrderInv
<1>5. HandleInv
  BY DEF Init, HandleInv
<1> QED
  BY <1>2, <1>3, <1>4, <1>5 DEF RegInv

(* A line is appended behind everything the tracker has still to read.     *)
LEMMA LogLineReg ==
  ASSUME RegInv, NEW t \in Tmuxes, NEW ev \in Events, NEW pane \in Panes,
         LogLine(t, ev, pane)
  PROVE  RegInv'
<1> DEFINE e == [tmux |-> t, ev |-> ev, pane |-> pane, ts |-> lines + 1]
<1>1. lines \in Nat /\ lines' = lines + 1 /\ lines' \in Nat
  BY DEF RegInv, CopiesInv, LogLine
<1>2. e \in Entries(lines + 1)
  BY <1>1, RegistryAssumption DEF Entries
<1>3. CopiesInv'
  <2>1. /\ all \in Books(lines + 1) /\ mem \in Books(lines + 1) /\ file \in Books(lines + 1)
        /\ \A w \in Writers : payload[w] \in Books(lines + 1)
    BY <1>1, BooksGrow DEF RegInv, CopiesInv
  <2>2. all[t].last \in Nat /\ all[t].last <= lines
    BY <1>1, BookEntry DEF RegInv, CopiesInv
  <2>3. all[e.tmux].last < e.ts
    BY <1>1, <2>2
  <2>4. Folds(all, e) \in Books(lines + 1)
    BY <1>1, <1>2, <2>1, <2>3, FoldsBook
  <2>5. all' = Folds(all, e) /\ UNCHANGED <<mem, file, payload, at, leaving>>
    BY DEF LogLine, diskVars
  <2> QED
    BY <1>1, <2>1, <2>4, <2>5 DEF RegInv, CopiesInv
<1>4. LockInv'
  BY DEF RegInv, LockInv, LogLine, diskVars
<1>5. OrderInv'
  <2>1. unread \in Seq(Entries(lines + 1))
    <3>1. Entries(lines) \subseteq Entries(lines + 1)
      BY <1>1 DEF Entries
    <3> QED
      BY <3>1 DEF RegInv, OrderInv
  <2>2. \A s \in Tmuxes : mem[s].last \in Nat /\ mem[s].last < lines + 1
    <3>1. mem \in Books(lines)
      BY DEF RegInv, CopiesInv
    <3>2. \A s \in Tmuxes : mem[s].last \in Nat /\ mem[s].last <= lines
      BY <1>1, <3>1, BookEntry
    <3> QED
      BY <1>1, <3>2
  <2>3. \A i \in DOMAIN unread : unread[i].ts \in Nat /\ unread[i].ts < lines + 1
    <3>1. \A i \in DOMAIN unread : unread[i] \in Entries(lines)
      BY DEF RegInv, OrderInv
    <3>2. \A i \in DOMAIN unread : unread[i].ts \in 1..lines
      BY <3>1 DEF Entries
    <3> QED
      BY <1>1, <3>2
  <2>4. CASE unread' = unread
    BY <1>1, <2>1, <2>4 DEF RegInv, OrderInv, LogLine
  <2>5. CASE unread' = Append(unread, e)
    <3>1. /\ unread' \in Seq(Entries(lines + 1))
          /\ DOMAIN unread' = 1 .. Len(unread) + 1 /\ DOMAIN unread = 1 .. Len(unread)
          /\ unread'[Len(unread) + 1] = e /\ Len(unread) \in Nat
          /\ \A i \in DOMAIN unread : unread'[i] = unread[i]
      BY <1>2, <2>1, <2>5
    <3>2. e.ts = lines + 1 /\ mem' = mem
      BY DEF LogLine
    <3>3. /\ \A i \in DOMAIN unread, s \in Tmuxes : mem[s].last < unread[i].ts
          /\ \A i, j \in DOMAIN unread : i < j => unread[i].ts < unread[j].ts
      BY DEF RegInv, OrderInv
    <3>4. \A i \in DOMAIN unread', s \in Tmuxes : mem'[s].last < unread'[i].ts
      <4> HIDE DEF e
      <4> QED
        BY <2>2, <3>1, <3>2, <3>3
    <3>5. \A i, j \in DOMAIN unread' : i < j => unread'[i].ts < unread'[j].ts
      <4> HIDE DEF e
      <4> QED
        BY <2>3, <3>1, <3>2, <3>3
    <3> QED
      BY <1>1, <3>1, <3>4, <3>5 DEF OrderInv
  <2> QED
    BY <2>4, <2>5 DEF LogLine
<1>6. HandleInv'
  <2>1. Tailing => at["tracker"] \notin {"off", "seek", "wait"} /\ ~leaving
    BY DEF Tailing, Writing, RegInv, HandleInv
  <2> QED
    BY <2>1 DEF RegInv, HandleInv, LogLine
<1> QED
  BY <1>3, <1>4, <1>5, <1>6 DEF RegInv
(* The steps of _atomic_write.                                             *)
LEMMA WriteReg ==
  ASSUME RegInv, NEW w \in Writers, Writes(w) \/ WriteFails(w) \/ Crash(w)
  PROVE  RegInv'
<1>1. /\ CopiesInv /\ LockInv /\ OrderInv /\ HandleInv
      /\ Free \notin Writers /\ {"off", "tail", "broken", "open", "fill", "replace"} \subseteq Places
  BY RegistryAssumption DEF RegInv, Writers, Places, Writing
<1>2. CASE TakeLock(w)
  BY <1>1, <1>2 DEF RegInv, CopiesInv, LockInv, OrderInv, HandleInv, TakeLock, Goes, logVars
<1>3. CASE OpenTmp(w)
  BY <1>1, <1>3 DEF RegInv, CopiesInv, LockInv, OrderInv, HandleInv, OpenTmp, Goes, logVars
<1>4. CASE FillTmp(w)
  BY <1>1, <1>4 DEF RegInv, CopiesInv, LockInv, OrderInv, HandleInv, FillTmp, Goes, logVars
<1>5. CASE Replace(w)
  <2>1. tmp = payload[w] /\ tmp \in Books(lines)
    BY <1>1, <1>5 DEF CopiesInv, LockInv, Replace
  <2>2. Returned(w) \in {"off", "tail"} /\ (Returned(w) = "tail" => ~leaving)
        /\ (w = "tracker" /\ Returned(w) = "off" => leaving)
    BY DEF Returned
  <2>3. /\ file' = tmp /\ lock' = Free /\ at' = [at EXCEPT ![w] = Returned(w)]
        /\ UNCHANGED <<lines, all, unread, mem, payload, leaving>> /\ lock = w
    BY <1>1, <1>5 DEF Replace, Goes, logVars, LockInv
  <2> QED
    BY <1>1, <2>1, <2>2, <2>3 DEF RegInv, CopiesInv, LockInv, OrderInv, HandleInv
<1>6. CASE WriteFails(w)
  <2>1. Raised(w) \in {"off", "broken"} /\ (Raised(w) = "broken" => ~leaving)
        /\ (w = "tracker" /\ Raised(w) = "off" => leaving)
    BY DEF Raised
  <2>2. /\ lock' = (IF lock = w THEN Free ELSE lock) /\ at' = [at EXCEPT ![w] = Raised(w)]
        /\ UNCHANGED <<lines, all, unread, file, tmp, mem, payload, leaving>>
    BY <1>6 DEF WriteFails, Goes, logVars
  <2> QED
    BY <1>1, <2>1, <2>2 DEF RegInv, CopiesInv, LockInv, OrderInv, HandleInv
<1>7. CASE Crash(w)
  <2>1. /\ lock' = (IF lock = w THEN Free ELSE lock) /\ at' = [at EXCEPT ![w] = "off"]
        /\ unread' = (IF w = "tracker" THEN <<>> ELSE unread)
        /\ UNCHANGED <<lines, all, file, tmp, mem, payload, leaving>>
    BY <1>7 DEF Crash, Goes, logVars
  <2> QED
    BY <1>1, <2>1 DEF RegInv, CopiesInv, LockInv, OrderInv, HandleInv
<1> QED
  BY <1>2, <1>3, <1>4, <1>5, <1>6, <1>7 DEF Writes

(* A writer that asks for the lock disturbs no other.                      *)
LEMMA StartsLock ==
  ASSUME CopiesInv, LockInv, NEW w \in Writers, NEW data, StartsWriting(w, data),
         UNCHANGED <<lock, tmp>>
  PROVE  LockInv'
<1>1. /\ at' = [at EXCEPT ![w] = "lock"] /\ payload' = [payload EXCEPT ![w] = data]
      /\ at \in [Writers -> Places] /\ payload \in [Writers -> Books(lines)]
  BY DEF StartsWriting, Goes, CopiesInv
<1>2. \A v \in Writers : v # w => at'[v] = at[v] /\ payload'[v] = payload[v]
  BY <1>1
<1>3. at'[w] = "lock"
  BY <1>1
<1> QED
  BY <1>2, <1>3 DEF LockInv

(* The tracker folds the next line.                                        *)
LEMMA TrackerReadsReg ==
  ASSUME RegInv, TrackerReads
  PROVE  RegInv'
<1> DEFINE e == Head(unread)
<1>1. /\ lines \in Nat /\ mem \in Books(lines) /\ unread \in Seq(Entries(lines)) /\ unread # <<>>
      /\ at["tracker"] = "tail" /\ at \in [Writers -> Places]
      /\ mem' = Folds(mem, e) /\ unread' = Tail(unread)
      /\ UNCHANGED <<lines, all, file, tmp, lock, leaving>>
  BY DEF RegInv, CopiesInv, OrderInv, TrackerReads, logVars, diskVars
<1>2. /\ e \in Entries(lines) /\ e = unread[1] /\ 1 \in DOMAIN unread
      /\ Tail(unread) \in Seq(Entries(lines))
      /\ DOMAIN Tail(unread) = 1 .. Len(unread) - 1 /\ DOMAIN unread = 1 .. Len(unread)
      /\ Len(unread) \in Nat
      /\ \A i \in DOMAIN Tail(unread) : i + 1 \in DOMAIN unread /\ Tail(unread)[i] = unread[i + 1]
  BY <1>1
<1>3. e.tmux \in Tmuxes /\ e.ts \in Nat
  BY <1>1, <1>2 DEF Entries
<1>4. mem[e.tmux].last < e.ts
  BY <1>2, <1>3 DEF RegInv, OrderInv
<1>5. mem' \in Books(lines) /\ \A t \in Tmuxes : mem'[t].last <= e.ts \/ mem'[t].last = mem[t].last
  BY <1>1, <1>2, <1>4, FoldsBook
<1>6. \/ at' = [at EXCEPT !["tracker"] = "lock"] /\ payload' = [payload EXCEPT !["tracker"] = mem']
      \/ UNCHANGED <<at, payload>>
  BY DEF TrackerReads, StartsWriting, Goes
<1>7. CopiesInv'
  BY <1>1, <1>5, <1>6 DEF RegInv, CopiesInv, Places, Writing
<1>8. LockInv'
  <2>1. "tracker" \in Writers
    BY DEF Writers
  <2>2. StartsWriting("tracker", mem') \/ UNCHANGED <<at, payload>>
    BY DEF TrackerReads
  <2> QED
    BY <1>1, <2>1, <2>2, StartsLock DEF RegInv, LockInv
<1>9. OrderInv'
  <2>1. /\ \A i \in DOMAIN unread, t \in Tmuxes : mem[t].last < unread[i].ts
        /\ \A i, j \in DOMAIN unread : i < j => unread[i].ts < unread[j].ts
    BY DEF RegInv, OrderInv
  <2>2. \A i \in DOMAIN unread : unread[i].ts \in Nat
    <3>1. \A i \in DOMAIN unread : unread[i] \in Entries(lines)
      BY <1>1
    <3> QED
      BY <1>1, <3>1 DEF Entries
  <2>3. \A t \in Tmuxes : mem'[t].last \in Nat
    BY <1>1, <1>5, BookEntry
  <2> DEFINE rest == Tail(unread)
  <2>4. \A i \in DOMAIN rest : rest[i].ts \in Nat /\ e.ts < rest[i].ts
    BY <1>2, <2>1, <2>2
  <2>5. \A i \in DOMAIN rest, t \in Tmuxes : mem'[t].last < rest[i].ts
    <3> SUFFICES ASSUME NEW i \in DOMAIN rest, NEW t \in Tmuxes
                 PROVE  mem'[t].last < rest[i].ts
      OBVIOUS
    <3>1. CASE mem'[t].last <= e.ts
      BY <1>3, <2>3, <2>4, <3>1
    <3>2. CASE mem'[t].last = mem[t].last
      BY <1>2, <2>1, <3>2
    <3> QED
      BY <1>5, <3>1, <3>2
  <2>6. \A i, j \in DOMAIN rest : i < j => rest[i].ts < rest[j].ts
    BY <1>2, <2>1
  <2>7. unread' = rest /\ lines' = lines /\ rest \in Seq(Entries(lines))
    BY <1>1, <1>2
  <2> HIDE DEF rest
  <2> QED
    BY <2>5, <2>6, <2>7 DEF OrderInv
<1>10. HandleInv'
  BY <1>1, <1>6 DEF RegInv, HandleInv
<1> QED
  BY <1>7, <1>8, <1>9, <1>10 DEF RegInv

(* The tracker's other steps, and the snapshot's.                          *)
LEMMA StartsReg ==
  ASSUME RegInv,
         TrackerLoads \/ TrackerSeeks \/ TrackerOpens \/ TrackerExits \/ SnapshotReads
  PROVE  RegInv'
<1>1. /\ CopiesInv /\ LockInv /\ OrderInv /\ HandleInv
      /\ {"seek", "wait", "tail", "lock"} \subseteq Places
  BY DEF RegInv, Places, Writing
<1>2. CASE TrackerLoads
  <2>1. unread = <<>>
    BY <1>1, <1>2 DEF HandleInv, TrackerLoads
  <2>2. /\ mem' = file /\ leaving' = FALSE /\ at' = [at EXCEPT !["tracker"] = "seek"]
        /\ UNCHANGED <<lines, all, unread, file, tmp, lock, payload>>
    BY <1>2 DEF TrackerLoads, Goes, logVars, diskVars
  <2>3. CopiesInv' /\ LockInv'
    BY <1>1, <2>2 DEF CopiesInv, LockInv
  <2>4. OrderInv'
    BY <1>1, <2>1, <2>2 DEF OrderInv
  <2>5. HandleInv'
    BY <1>1, <2>1, <2>2 DEF HandleInv, CopiesInv
  <2> QED
    BY <2>3, <2>4, <2>5 DEF RegInv
<1>3. CASE TrackerSeeks
  BY <1>1, <1>3 DEF RegInv, CopiesInv, LockInv, OrderInv, HandleInv, TrackerSeeks,
                    Goes, logVars, diskVars
<1>4. CASE TrackerOpens
  BY <1>1, <1>4 DEF RegInv, CopiesInv, LockInv, OrderInv, HandleInv, TrackerOpens,
                    Goes, logVars, diskVars
<1>5. CASE TrackerExits
  <2>1. /\ leaving' = TRUE /\ unread' = <<>> /\ StartsWriting("tracker", mem)
        /\ at' = [at EXCEPT !["tracker"] = "lock"]
        /\ payload' = [payload EXCEPT !["tracker"] = mem]
        /\ UNCHANGED <<lines, all, file, tmp, lock, mem>> /\ "tracker" \in Writers
    BY <1>5 DEF TrackerExits, StartsWriting, Goes, logVars, diskVars, Writers
  <2>2. CopiesInv'
    BY <1>1, <2>1 DEF CopiesInv
  <2>3. LockInv'
    BY <1>1, <2>1, StartsLock
  <2>4. OrderInv'
    BY <1>1, <2>1 DEF OrderInv
  <2>5. HandleInv'
    BY <1>1, <2>1 DEF HandleInv, CopiesInv
  <2> QED
    BY <2>2, <2>3, <2>4, <2>5 DEF RegInv
<1>6. CASE SnapshotReads
  <2>1. /\ StartsWriting("snapshot", all)
        /\ at' = [at EXCEPT !["snapshot"] = "lock"]
        /\ payload' = [payload EXCEPT !["snapshot"] = all]
        /\ UNCHANGED <<lines, all, unread, file, tmp, lock, mem, leaving>>
        /\ "snapshot" \in Writers
    BY <1>6 DEF SnapshotReads, StartsWriting, Goes, logVars, diskVars, Writers
  <2>2. CopiesInv'
    BY <1>1, <2>1 DEF CopiesInv
  <2>3. LockInv'
    BY <1>1, <2>1, StartsLock
  <2>4. OrderInv' /\ HandleInv'
    BY <1>1, <2>1 DEF OrderInv, HandleInv, CopiesInv
  <2> QED
    BY <2>2, <2>3, <2>4 DEF RegInv
<1> QED
  BY <1>2, <1>3, <1>4, <1>5, <1>6

LEMMA RegStep == RegInv /\ [Next]_vars => RegInv'
<1> SUFFICES ASSUME RegInv, [Next]_vars PROVE RegInv'
  OBVIOUS
<1>1. CASE UNCHANGED vars
  BY <1>1 DEF vars, RegInv, CopiesInv, LockInv, OrderInv, HandleInv
<1>2. CASE Next
  BY <1>2, LogLineReg, WriteReg, TrackerReadsReg, StartsReg DEF Next, Tracker
<1> QED
  BY <1>1, <1>2

(* BindingsTracker._bindings and every full fold hold sound entries: the    *)
(* fold _step keeps them so, and a tracker loads only what a writer wrote.  *)
THEOREM EntriesSound == Spec => []RecordsSound
<1>1. RegInv => RecordsSound
  BY DEF RegInv, CopiesInv, Books, RecordsSound
<1> QED
  BY <1>1, RegInit, RegStep, PTL DEF Spec

(* _atomic_write: a reader without a lock sees a whole bindings.json.       *)
THEOREM ReadersSeeWhole == Spec => []FileWhole
<1>1. RegInv => FileWhole
  BY RegistryAssumption DEF RegInv, CopiesInv, Books, FileWhole
<1> QED
  BY <1>1, RegInit, RegStep, PTL DEF Spec

-----------------------------------------------------------------------------
(* What the two writers have asked for.                                    *)
Offers == [w \in Writers |-> IF at[w] \in Writing THEN {payload[w]} ELSE {}]

(* The file the abstract register is mapped to is bindings.json itself.     *)
LEMMA AtomicInit == Init => Register!Init
  BY DEF Init, Register!Init, Writing

(* A writer that is in _atomic_write and stays there shows nothing.         *)
LEMMA AtomicQuiet ==
  ASSUME UNCHANGED <<file, at, payload>>
  PROVE  UNCHANGED Register!vars
  BY DEF Register!vars

(* A writer outside _atomic_write that builds its payload asks.             *)
LEMMA AtomicAsk ==
  ASSUME CopiesInv, NEW w \in Writers, NEW data, at[w] \notin Writing,
         StartsWriting(w, data), UNCHANGED file
  PROVE  Register!Ask(w)
<1>1. /\ at' = [at EXCEPT ![w] = "lock"] /\ payload' = [payload EXCEPT ![w] = data]
      /\ at \in [Writers -> Places] /\ payload \in [Writers -> Books(lines)]
  BY DEF StartsWriting, Goes, CopiesInv
<1>2. /\ at'[w] = "lock" /\ payload'[w] = data
      /\ \A v \in Writers : v # w => at'[v] = at[v] /\ payload'[v] = payload[v]
  BY <1>1
<1>3. Offers[w] = {} /\ Offers'[w] = {data}
  BY <1>2 DEF Offers, Writing
<1>4. Offers' = [Offers EXCEPT ![w] = Offers'[w]]
  BY <1>2 DEF Offers
<1> QED
  BY <1>3, <1>4 DEF Register!Ask, Offers

(* A writer past the lock moves on, or leaves _atomic_write with its offer. *)
LEMMA AtomicMove ==
  ASSUME CopiesInv, NEW w \in Writers, NEW place, at' = [at EXCEPT ![w] = place],
         UNCHANGED payload, at[w] \in Writing
  PROVE  /\ place \in Writing => Offers' = Offers
         /\ place \notin Writing => Offers' = [Offers EXCEPT ![w] = {}]
         /\ Offers[w] = {payload[w]}
<1>1. at \in [Writers -> Places]
  BY DEF CopiesInv
<1>2. at'[w] = place /\ \A v \in Writers : v # w => at'[v] = at[v]
  BY <1>1
<1> QED
  BY <1>2 DEF Offers

(* The steps of _atomic_write.                                             *)
LEMMA AtomicWrite ==
  ASSUME RegInv, NEW w \in Writers, Writes(w) \/ WriteFails(w) \/ Crash(w)
  PROVE  Register!Ask(w) \/ Register!Commit(w) \/ Register!GiveUp(w) \/ UNCHANGED Register!vars
<1>0. CopiesInv /\ LockInv
  BY DEF RegInv
<1>1. CASE TakeLock(w) \/ OpenTmp(w) \/ FillTmp(w)
  <2>1. PICK place \in {"open", "fill", "replace"} : at' = [at EXCEPT ![w] = place]
    BY <1>1 DEF TakeLock, OpenTmp, FillTmp, Goes
  <2>2. at[w] \in Writing /\ place \in Writing /\ UNCHANGED <<payload, file>>
    BY <1>1, <2>1 DEF TakeLock, OpenTmp, FillTmp, Writing
  <2>3. Offers' = Offers
    BY <1>0, <2>1, <2>2, AtomicMove
  <2> QED
    BY <2>2, <2>3 DEF Register!vars, Offers
<1>2. CASE Replace(w)
  <2>1. /\ at' = [at EXCEPT ![w] = Returned(w)] /\ file' = tmp
        /\ at[w] = "replace" /\ UNCHANGED payload /\ tmp = payload[w]
    BY <1>0, <1>2 DEF Replace, Goes, LockInv
  <2>2. at[w] \in Writing /\ Returned(w) \notin Writing
    BY <2>1 DEF Returned, Writing
  <2>3. Offers' = [Offers EXCEPT ![w] = {}] /\ file' \in Offers[w]
    BY <1>0, <2>1, <2>2, AtomicMove
  <2> QED
    BY <2>3 DEF Register!Commit, Offers
<1>3. CASE WriteFails(w)
  <2>1. /\ at' = [at EXCEPT ![w] = Raised(w)] /\ UNCHANGED <<file, payload>>
        /\ at[w] \in Writing /\ Raised(w) \notin Writing
    BY <1>3 DEF WriteFails, Goes, Raised, Writing
  <2>2. Offers' = [Offers EXCEPT ![w] = {}] /\ Offers[w] # {}
    BY <1>0, <2>1, AtomicMove
  <2> QED
    BY <2>1, <2>2 DEF Register!GiveUp, Offers
<1>4. CASE Crash(w)
  <2>1. at' = [at EXCEPT ![w] = "off"] /\ UNCHANGED <<file, payload>> /\ "off" \notin Writing
    BY <1>4 DEF Crash, Goes, Writing
  <2>2. CASE at[w] \in Writing
    <3>1. Offers' = [Offers EXCEPT ![w] = {}] /\ Offers[w] # {}
      BY <1>0, <2>1, <2>2, AtomicMove
    <3> QED
      BY <2>1, <3>1 DEF Register!GiveUp, Offers
  <2>3. CASE at[w] \notin Writing
    <3>1. at'[w] = "off" /\ \A v \in Writers : v # w => at'[v] = at[v]
      BY <1>0, <2>1 DEF CopiesInv
    <3>2. Offers' = Offers
      BY <2>1, <2>3, <3>1 DEF Offers
    <3> QED
      BY <2>1, <3>2 DEF Register!vars, Offers
  <2> QED
    BY <2>2, <2>3
<1> QED
  BY <1>1, <1>2, <1>3, <1>4 DEF Writes

LEMMA AtomicStep == RegInv /\ [Next]_vars => [Register!Next]_(Register!vars)
<1> SUFFICES ASSUME RegInv, [Next]_vars PROVE [Register!Next]_(Register!vars)
  OBVIOUS
<1>0. CopiesInv /\ {"tracker", "snapshot"} = Writers
  BY DEF RegInv, Writers
<1>1. CASE UNCHANGED vars
  BY <1>1, AtomicQuiet DEF vars
<1>2. CASE \E t \in Tmuxes, ev \in Events, pane \in Panes : LogLine(t, ev, pane)
  BY <1>2, AtomicQuiet DEF LogLine, diskVars
<1>3. CASE \E w \in Writers : Writes(w) \/ WriteFails(w) \/ Crash(w)
  BY <1>3, AtomicWrite DEF Register!Next
<1>4. CASE TrackerLoads \/ TrackerSeeks \/ TrackerOpens
  <2>1. PICK place \in {"seek", "wait", "tail"} : at' = [at EXCEPT !["tracker"] = place]
    BY <1>4 DEF TrackerLoads, TrackerSeeks, TrackerOpens, Goes
  <2>2. at["tracker"] \notin Writing /\ UNCHANGED <<file, payload>> /\ place \notin Writing
    BY <1>4 DEF TrackerLoads, TrackerSeeks, TrackerOpens, Writing, diskVars
  <2>3. \A v \in Writers : (at'[v] \in Writing <=> at[v] \in Writing)
    BY <1>0, <2>1, <2>2 DEF CopiesInv
  <2> QED
    BY <2>2, <2>3 DEF Register!vars
<1>5. CASE TrackerReads
  <2>1. at["tracker"] \notin Writing /\ UNCHANGED file
    BY <1>5 DEF TrackerReads, Writing, diskVars
  <2>2. CASE StartsWriting("tracker", mem')
    BY <1>0, <2>1, <2>2, AtomicAsk DEF Register!Next
  <2>3. CASE UNCHANGED <<at, payload>>
    BY <2>1, <2>3, AtomicQuiet
  <2> QED
    BY <1>5, <2>2, <2>3 DEF TrackerReads
<1>6. CASE TrackerExits
  <2>1. at["tracker"] \notin Writing /\ UNCHANGED file /\ StartsWriting("tracker", mem)
    BY <1>6 DEF TrackerExits, Writing, diskVars
  <2> QED
    BY <1>0, <2>1, AtomicAsk DEF Register!Next
<1>7. CASE SnapshotReads
  <2>1. at["snapshot"] \notin Writing /\ UNCHANGED file /\ StartsWriting("snapshot", all)
    BY <1>7 DEF SnapshotReads, Writing, diskVars
  <2> QED
    BY <1>0, <2>1, AtomicAsk DEF Register!Next
<1> QED
  BY <1>1, <1>2, <1>3, <1>4, <1>5, <1>6, <1>7 DEF Next, Tracker

(* _atomic_write: bindings.json is an atomic register of whole documents,   *)
(* for both writers together and through failures and crashes.             *)
THEOREM FileAtomic == Spec => RefinesAtomicFile
<1>1. Init => Register!Init
  BY AtomicInit
<1>2. RegInv /\ [Next]_vars => [Register!Next]_(Register!vars)
  BY AtomicStep
<1> QED
  BY <1>1, <1>2, RegInit, RegStep, PTL DEF Spec, RefinesAtomicFile, Register!Spec

-----------------------------------------------------------------------------
(* TrackerExact.  Entries that agree, last_event_at aside.                  *)
Same(f, g) == \A t \in Tmuxes : Structural(f[t]) = Structural(g[t])

(* Folding the entries one by one leads from one registry to the other: c   *)
(* has what lies between.  This says of a fold what its two ends need,      *)
(* without defining it.                                                    *)
Leads(c, from, entries, to) ==
  /\ Same(c[1], from) /\ Same(c[Len(entries) + 1], to)
  /\ \A i \in DOMAIN entries : Same(c[i + 1], Folds(c[i], entries[i]))
CatchesUp(from, entries, to) ==
  \E c \in [1 .. Len(entries) + 1 -> [Tmuxes -> Bindings]] : Leads(c, from, entries, to)

(* While nothing is missed: what the tracker knows, what is on disk, and    *)
(* how far the log is ahead of both.                                       *)
ExactInv ==
  ~missed =>
    /\ at["tracker"] \in {"off", "seek", "wait"} => Same(file, all)
    /\ at["tracker"] \in {"seek", "wait"} => Same(mem, all)
    /\ at["tracker"] = "tail" => Same(file, mem)
    /\ at["tracker"] \in Writing => payload["tracker"] = mem
    /\ Tailing => CatchesUp(mem, unread, all)
    /\ at["tracker"] \in Writing /\ leaving => Same(mem, all)
    /\ at["tracker"] # "broken"

(* A fold keeps entries that agree in agreement.                            *)
LEMMA FoldsSame ==
  ASSUME NEW f \in [Tmuxes -> Bindings], NEW g \in [Tmuxes -> Bindings], Same(f, g),
         NEW e, e.tmux \in Tmuxes
  PROVE  Same(Folds(f, e), Folds(g, e))
<1> DEFINE m == Step(f[e.tmux], e.ev, e.pane, e.ts)
           n == Step(g[e.tmux], e.ev, e.pane, e.ts)
<1>1. Structural(m) = Structural(n)
  BY StepStructural DEF Same
<1>2. Folds(f, e) = [f EXCEPT ![e.tmux] = m] /\ Folds(g, e) = [g EXCEPT ![e.tmux] = n]
  BY DEF Folds
<1>3. \A t \in Tmuxes : /\ Folds(f, e)[t] = IF t = e.tmux THEN m ELSE f[t]
                        /\ Folds(g, e)[t] = IF t = e.tmux THEN n ELSE g[t]
  BY <1>2
<1> HIDE DEF m, n
<1>4. SUFFICES ASSUME NEW t \in Tmuxes
               PROVE  Structural(Folds(f, e)[t]) = Structural(Folds(g, e)[t])
  BY DEF Same
<1>5. CASE t = e.tmux
  BY <1>1, <1>3, <1>5
<1>6. CASE t # e.tmux
  BY <1>3, <1>6 DEF Same
<1> QED
  BY <1>5, <1>6

(* Nothing unread: both ends agree.                                        *)
LEMMA CaughtUp ==
  ASSUME NEW f \in [Tmuxes -> Bindings], NEW g
  PROVE  CatchesUp(f, <<>>, g) <=> Same(f, g)
<1>1. ASSUME CatchesUp(f, <<>>, g) PROVE Same(f, g)
  <2> PICK c : Leads(c, f, <<>>, g)
    BY <1>1 DEF CatchesUp
  <2> QED
    BY DEF Leads, Same
<1>2. ASSUME Same(f, g) PROVE CatchesUp(f, <<>>, g)
  <2> DEFINE c == [i \in 1 .. 1 |-> f]
  <2>1. c \in [1 .. Len(<<>>) + 1 -> [Tmuxes -> Bindings]] /\ c[1] = f /\ Len(<<>>) + 1 = 1
    OBVIOUS
  <2>2. Leads(c, f, <<>>, g)
    BY <1>2, <2>1 DEF Leads, Same
  <2> QED
    BY <2>1, <2>2 DEF CatchesUp
<1> QED
  BY <1>1, <1>2

(* The log grows by a line that both its fold and the unread lines get.     *)
LEMMA CatchesUpLog ==
  ASSUME NEW k \in Nat, NEW f, NEW u \in Seq(Entries(k)), NEW g \in Books(k),
         NEW e \in Entries(k), g[e.tmux].last < e.ts, CatchesUp(f, u, g)
  PROVE  CatchesUp(f, Append(u, e), Folds(g, e))
<1> PICK c \in [1 .. Len(u) + 1 -> [Tmuxes -> Bindings]] : Leads(c, f, u, g)
  BY DEF CatchesUp
<1> DEFINE v == Append(u, e)
           h == Folds(g, e)
           d == [i \in 1 .. Len(v) + 1 |-> IF i = Len(v) + 1 THEN h ELSE c[i]]
<1>1. /\ Len(u) \in Nat /\ Len(v) = Len(u) + 1 /\ DOMAIN v = 1 .. Len(u) + 1
      /\ v[Len(u) + 1] = e /\ DOMAIN u = 1 .. Len(u)
      /\ \A i \in 1 .. Len(u) : v[i] = u[i]
  OBVIOUS
<1>2. h \in [Tmuxes -> Bindings] /\ g \in [Tmuxes -> Bindings] /\ e.tmux \in Tmuxes
  BY FoldsBook DEF Books, Entries
<1>3. /\ c[Len(u) + 1] \in [Tmuxes -> Bindings]
      /\ Same(c[1], f) /\ Same(c[Len(u) + 1], g)
      /\ \A i \in 1 .. Len(u) : Same(c[i + 1], Folds(c[i], u[i]))
  BY <1>1 DEF Leads
<1>4. Same(Folds(c[Len(u) + 1], e), h)
  BY <1>2, <1>3, FoldsSame
<1> HIDE DEF h, v
<1>5. /\ d \in [1 .. Len(v) + 1 -> [Tmuxes -> Bindings]] /\ d[Len(v) + 1] = h
      /\ \A i \in 1 .. Len(u) + 1 : d[i] = c[i]
  BY <1>1, <1>2
<1> HIDE DEF d
<1>6. Same(d[1], f) /\ Same(d[Len(v) + 1], h)
  BY <1>1, <1>3, <1>5 DEF Same
<1>7. ASSUME NEW i \in DOMAIN v PROVE Same(d[i + 1], Folds(d[i], v[i]))
  <2>1. CASE i = Len(u) + 1
    BY <1>1, <1>4, <1>5, <2>1 DEF Same
  <2>2. CASE i \in 1 .. Len(u)
    <3>1. i + 1 \in 1 .. Len(u) + 1 /\ i \in 1 .. Len(u) + 1
      BY <1>1, <2>2
    <3>2. d[i + 1] = c[i + 1] /\ d[i] = c[i] /\ v[i] = u[i]
      BY <1>1, <1>5, <2>2, <3>1
    <3> QED
      BY <1>3, <2>2, <3>2
  <2> QED
    BY <1>1, <2>1, <2>2
<1>8. Leads(d, f, v, h)
  BY <1>6, <1>7 DEF Leads
<1>9. CatchesUp(f, v, h)
  BY <1>5, <1>8 DEF CatchesUp
<1> QED
  BY <1>9 DEF v, h

(* The tracker folds the first unread line.                                *)
LEMMA CatchesUpRead ==
  ASSUME NEW k \in Nat, NEW f \in [Tmuxes -> Bindings], NEW u \in Seq(Entries(k)), u # <<>>,
         NEW g, CatchesUp(f, u, g)
  PROVE  CatchesUp(Folds(f, Head(u)), Tail(u), g)
<1> PICK c \in [1 .. Len(u) + 1 -> [Tmuxes -> Bindings]] : Leads(c, f, u, g)
  BY DEF CatchesUp
<1> DEFINE v == Tail(u)
           d == [i \in 1 .. Len(v) + 1 |-> c[i + 1]]
<1>1. /\ Len(u) \in Nat /\ Len(u) >= 1 /\ Len(v) = Len(u) - 1 /\ DOMAIN v = 1 .. Len(u) - 1
      /\ Head(u) = u[1] /\ DOMAIN u = 1 .. Len(u) /\ u[1] \in Entries(k)
      /\ \A i \in 1 .. Len(u) - 1 : v[i] = u[i + 1]
  OBVIOUS
<1>2. /\ \A i \in 1 .. Len(u) + 1 : c[i] \in [Tmuxes -> Bindings]
      /\ Same(c[1], f) /\ Same(c[Len(u) + 1], g)
      /\ \A i \in 1 .. Len(u) : Same(c[i + 1], Folds(c[i], u[i]))
  BY <1>1 DEF Leads
<1>3. u[1].tmux \in Tmuxes
  BY <1>1 DEF Entries
<1>4. Same(Folds(c[1], u[1]), Folds(f, u[1]))
  <2>1. c[1] \in [Tmuxes -> Bindings] /\ Same(c[1], f)
    BY <1>1, <1>2
  <2> QED
    BY <1>3, <2>1, FoldsSame
<1> HIDE DEF v
<1>5. /\ d \in [1 .. Len(v) + 1 -> [Tmuxes -> Bindings]]
      /\ \A i \in 1 .. Len(u) : d[i] = c[i + 1]
  BY <1>1, <1>2
<1> HIDE DEF d
<1>6. Same(d[1], Folds(f, u[1]))
  <2>1. d[1] = c[2] /\ Same(c[2], Folds(c[1], u[1]))
    BY <1>1, <1>2, <1>5
  <2> QED
    BY <1>4, <2>1 DEF Same
<1>7. Same(d[Len(v) + 1], g)
  BY <1>1, <1>2, <1>5
<1>8. ASSUME NEW i \in DOMAIN v PROVE Same(d[i + 1], Folds(d[i], v[i]))
  <2>1. i \in 1 .. Len(u) /\ i + 1 \in 1 .. Len(u)
    BY <1>1
  <2>2. d[i + 1] = c[i + 1 + 1] /\ d[i] = c[i + 1] /\ v[i] = u[i + 1]
    BY <1>1, <1>5, <2>1
  <2> QED
    BY <1>2, <2>1, <2>2
<1>9. Leads(d, Folds(f, Head(u)), v, g)
  BY <1>1, <1>6, <1>7, <1>8 DEF Leads
<1>10. CatchesUp(Folds(f, Head(u)), v, g)
  BY <1>5, <1>9 DEF CatchesUp
<1> QED
  BY <1>10 DEF v

LEMMA ExactInit == Init => ExactInv
<1> SUFFICES ASSUME Init PROVE ExactInv
  OBVIOUS
<1>1. at["tracker"] = "off" /\ Same(file, all)
  BY DEF Init, Writers, Same
<1> QED
  BY <1>1 DEF ExactInv, Tailing, Writing

(* What the other lemmas use of RegInv.                                    *)
LEMMA ExactTypes ==
  ASSUME RegInv
  PROVE  /\ lines \in Nat /\ all \in Books(lines) /\ unread \in Seq(Entries(lines))
         /\ mem \in [Tmuxes -> Bindings] /\ at \in [Writers -> Places]
         /\ Writers = {"tracker", "snapshot"}
         /\ at["tracker"] = "replace" \/ at["snapshot"] = "replace" =>
              tmp = IF at["tracker"] = "replace" THEN payload["tracker"] ELSE payload["snapshot"]
         /\ payload \in [Writers -> Books(lines)]
<1>1. /\ lines \in Nat /\ all \in Books(lines) /\ unread \in Seq(Entries(lines))
      /\ mem \in Books(lines) /\ at \in [Writers -> Places]
      /\ payload \in [Writers -> Books(lines)]
  BY DEF RegInv, CopiesInv, OrderInv
<1>2. mem \in [Tmuxes -> Bindings]
  BY <1>1 DEF Books
<1> QED
  BY <1>1, <1>2 DEF RegInv, LockInv, Writers

LEMMA LogLineExact ==
  ASSUME RegInv, ExactInv, NEW t \in Tmuxes, NEW ev \in Events, NEW pane \in Panes,
         LogLine(t, ev, pane)
  PROVE  ExactInv'
<1> DEFINE e == [tmux |-> t, ev |-> ev, pane |-> pane, ts |-> lines + 1]
<1> SUFFICES ASSUME ~missed' PROVE ExactInv'
  BY DEF ExactInv
<1>1. ~missed /\ Tailing /\ unread' = Append(unread, e) /\ all' = Folds(all, e)
      /\ UNCHANGED <<file, mem, at, payload, leaving>>
  BY DEF LogLine, diskVars
<1>2. /\ lines \in Nat /\ lines + 1 \in Nat /\ all \in Books(lines)
      /\ unread \in Seq(Entries(lines))
  BY ExactTypes
<1>3. all \in Books(lines + 1) /\ all[t].last \in Nat /\ all[t].last <= lines
  BY <1>2, BooksGrow, BookEntry
<1>4. e \in Entries(lines + 1) /\ e.tmux = t /\ e.ts = lines + 1
  BY <1>2, RegistryAssumption DEF Entries
<1>5. unread \in Seq(Entries(lines + 1))
  <2>1. Entries(lines) \subseteq Entries(lines + 1)
    BY <1>2 DEF Entries
  <2> QED
    BY <1>2, <2>1
<1>6. CatchesUp(mem, unread, all)
  BY <1>1 DEF ExactInv
<1> HIDE DEF e
<1>7. CatchesUp(mem, Append(unread, e), Folds(all, e))
  BY <1>2, <1>3, <1>4, <1>5, <1>6, CatchesUpLog
<1>8. CatchesUp(mem', unread', all') /\ Tailing'
  BY <1>1, <1>7 DEF Tailing
<1>9. at["tracker"] \notin {"off", "seek", "wait"} /\ ~(at["tracker"] \in Writing /\ leaving)
  BY <1>1 DEF Tailing, Writing
<1>10. /\ at["tracker"] = "tail" => Same(file, mem)'
       /\ at["tracker"] \in Writing => payload'["tracker"] = mem'
  BY <1>1 DEF ExactInv, Same
<1> QED
  BY <1>1, <1>8, <1>9, <1>10 DEF ExactInv

LEMMA TrackerReadsExact ==
  ASSUME RegInv, ExactInv, TrackerReads
  PROVE  ExactInv'
<1> SUFFICES ASSUME ~missed' PROVE ExactInv'
  BY DEF ExactInv
<1>1. /\ ~missed /\ at["tracker"] = "tail" /\ Tailing /\ unread # <<>>
      /\ mem' = Folds(mem, Head(unread)) /\ unread' = Tail(unread)
      /\ UNCHANGED <<lines, all, file, leaving>> /\ ~leaving
  BY DEF TrackerReads, Tailing, logVars, diskVars, RegInv, HandleInv
<1>2. /\ lines \in Nat /\ unread \in Seq(Entries(lines)) /\ mem \in [Tmuxes -> Bindings]
      /\ at \in [Writers -> Places] /\ payload \in [Writers -> Books(lines)]
      /\ "tracker" \in Writers
  BY ExactTypes
<1>3. Same(file, mem) /\ CatchesUp(mem, unread, all)
  BY <1>1 DEF ExactInv
<1>4. CatchesUp(mem', unread', all')
  BY <1>1, <1>2, <1>3, CatchesUpRead
<1>5. CASE Changes(mem, mem') /\ StartsWriting("tracker", mem')
  <2>1. at'["tracker"] = "lock" /\ payload'["tracker"] = mem'
    BY <1>2, <1>5 DEF StartsWriting, Goes
  <2> QED
    BY <1>1, <1>4, <2>1 DEF ExactInv, Tailing, Writing
<1>6. CASE ~Changes(mem, mem') /\ UNCHANGED <<at, payload>>
  <2>1. Same(file, mem')
    BY <1>3, <1>6 DEF Same, Changes
  <2>2. Same(file, mem)'
    BY <1>1, <2>1 DEF Same
  <2> QED
    BY <1>1, <1>4, <1>6, <2>2 DEF ExactInv, Tailing, Writing
<1> QED
  BY <1>5, <1>6 DEF TrackerReads

LEMMA WriteExact ==
  ASSUME RegInv, ExactInv, NEW w \in Writers, Writes(w) \/ WriteFails(w) \/ Crash(w)
  PROVE  ExactInv'
<1> SUFFICES ASSUME ~missed' PROVE ExactInv'
  BY DEF ExactInv
<1>0. /\ at \in [Writers -> Places] /\ Writers = {"tracker", "snapshot"}
      /\ mem \in [Tmuxes -> Bindings]
  BY ExactTypes
<1>1. CASE TakeLock(w) \/ OpenTmp(w) \/ FillTmp(w)
  <2>1. /\ \E place \in {"open", "fill", "replace"} : at' = [at EXCEPT ![w] = place]
        /\ at[w] \in Writing
        /\ UNCHANGED <<missed, all, unread, file, mem, payload, leaving>>
    BY <1>1 DEF TakeLock, OpenTmp, FillTmp, Goes, logVars, Writing
  <2>2. at'["tracker"] = at["tracker"] \/ (at'["tracker"] \in Writing /\ at["tracker"] \in Writing)
    BY <1>0, <2>1 DEF Writing
  <2>3. /\ at'["tracker"] \in Writing <=> at["tracker"] \in Writing
        /\ \A place \in {"off", "seek", "wait", "tail"} :
             at'["tracker"] = place <=> at["tracker"] = place
    BY <2>2 DEF Writing
  <2> QED
    BY <2>1, <2>3 DEF ExactInv, Tailing, Same
<1>2. CASE Replace("tracker") /\ w = "tracker"
  <2>1. /\ at["tracker"] = "replace" /\ at'["tracker"] = Returned("tracker") /\ file' = tmp
        /\ ~missed /\ UNCHANGED <<all, unread, mem, payload, leaving>>
        /\ tmp = payload["tracker"] /\ at["tracker"] \in Writing
    BY <1>0, <1>2, ExactTypes DEF Replace, Goes, logVars, Writing
  <2>2. file' = mem
    BY <2>1 DEF ExactInv
  <2>3. CASE leaving
    <3>1. Same(file, all)' /\ at'["tracker"] = "off"
      BY <2>1, <2>2, <2>3 DEF ExactInv, Returned, Same
    <3> QED
      BY <3>1 DEF ExactInv, Tailing, Writing
  <2>4. CASE ~leaving
    <3>1. Same(file, mem)' /\ at'["tracker"] = "tail" /\ CatchesUp(mem, unread, all)'
      BY <2>1, <2>2, <2>4 DEF ExactInv, Returned, Same, Tailing
    <3> QED
      BY <3>1 DEF ExactInv, Tailing, Writing
  <2> QED
    BY <2>3, <2>4
<1>3. CASE Replace("snapshot") /\ w = "snapshot"
  <2>1. /\ at["tracker"] = "off" /\ payload["snapshot"] = all /\ file' = tmp /\ all' = all
        /\ at["snapshot"] = "replace" /\ at' = [at EXCEPT !["snapshot"] = Returned("snapshot")]
    BY <1>3 DEF Replace, Goes, logVars
  <2>2. tmp = all /\ at'["tracker"] = "off"
    BY <1>0, <2>1, ExactTypes
  <2> QED
    BY <2>1, <2>2 DEF ExactInv, Same, Tailing, Writing
<1>4. CASE w = "snapshot" /\ (WriteFails(w) \/ Crash(w))
  <2>1. \E place : at' = [at EXCEPT !["snapshot"] = place]
    BY <1>4 DEF WriteFails, Crash, Goes
  <2>3. ~missed /\ UNCHANGED <<all, unread, file, mem, payload, leaving>>
    BY <1>4 DEF WriteFails, Crash, logVars, diskVars
  <2>2. at'["tracker"] = at["tracker"]
    BY <1>0, <2>1
  <2> QED
    BY <2>2, <2>3 DEF ExactInv, Same, Tailing
<1>5. CASE w = "tracker" /\ (WriteFails(w) \/ Crash(w))
  BY <1>5 DEF WriteFails, Crash
<1> QED
  BY <1>0, <1>1, <1>2, <1>3, <1>4, <1>5 DEF Writes

LEMMA StartsExact ==
  ASSUME RegInv, ExactInv,
         TrackerLoads \/ TrackerSeeks \/ TrackerOpens \/ TrackerExits \/ SnapshotReads
  PROVE  ExactInv'
<1> SUFFICES ASSUME ~missed' PROVE ExactInv'
  BY DEF ExactInv
<1>0. /\ at \in [Writers -> Places] /\ payload \in [Writers -> Books(lines)]
      /\ Writers = {"tracker", "snapshot"} /\ mem \in [Tmuxes -> Bindings]
  BY ExactTypes
<1>1. CASE TrackerLoads
  <2>1. /\ at["tracker"] = "off" /\ at'["tracker"] = "seek" /\ mem' = file
        /\ ~missed /\ UNCHANGED <<all, file>>
    BY <1>0, <1>1 DEF TrackerLoads, Goes, logVars, diskVars
  <2> QED
    BY <2>1 DEF ExactInv, Same, Tailing, Writing
<1>2. CASE TrackerSeeks
  <2>1. /\ at["tracker"] = "seek" /\ at'["tracker"] \in {"wait", "tail"} /\ unread' = <<>>
        /\ ~missed /\ UNCHANGED <<all, file, mem>>
    BY <1>0, <1>2 DEF TrackerSeeks, Goes, logVars, diskVars
  <2>2. Same(file, all) /\ Same(mem, all)
    BY <2>1 DEF ExactInv
  <2>3. Same(file, mem)' /\ Same(file, all)' /\ Same(mem, all)' /\ CatchesUp(mem, <<>>, all)
    BY <1>0, <2>1, <2>2, CaughtUp DEF Same
  <2> QED
    BY <2>1, <2>3 DEF ExactInv, Tailing, Writing
<1>3. CASE TrackerOpens
  <2>1. /\ at["tracker"] = "wait" /\ at'["tracker"] = "tail" /\ unread = <<>>
        /\ ~missed /\ UNCHANGED <<all, file, mem, unread>>
    BY <1>0, <1>3 DEF TrackerOpens, Goes, logVars, diskVars, RegInv, HandleInv
  <2>2. Same(file, all) /\ Same(mem, all)
    BY <2>1 DEF ExactInv
  <2>3. Same(file, mem)' /\ CatchesUp(mem, <<>>, all)
    BY <1>0, <2>1, <2>2, CaughtUp DEF Same
  <2> QED
    BY <2>1, <2>3 DEF ExactInv, Tailing, Writing
<1>4. CASE TrackerExits
  <2>1. /\ at["tracker"] \in {"wait", "tail", "broken"} /\ leaving' /\ unread = <<>>
        /\ at'["tracker"] = "lock" /\ payload'["tracker"] = mem
        /\ ~missed /\ UNCHANGED <<all, mem>>
    BY <1>0, <1>4 DEF TrackerExits, StartsWriting, Goes, logVars, diskVars
  <2>2. Same(mem, all)
    <3>1. CASE at["tracker"] = "wait"
      BY <2>1, <3>1 DEF ExactInv
    <3>2. CASE at["tracker"] = "tail"
      BY <1>0, <2>1, <3>2, CaughtUp DEF ExactInv, Tailing
    <3>3. at["tracker"] # "broken"
      BY <2>1 DEF ExactInv
    <3> QED
      BY <2>1, <3>1, <3>2, <3>3
  <2> QED
    BY <2>1, <2>2 DEF ExactInv, Same, Tailing, Writing
<1>5. CASE SnapshotReads
  <2>1. /\ at'["tracker"] = at["tracker"] /\ payload'["tracker"] = payload["tracker"]
        /\ UNCHANGED <<missed, all, unread, file, mem, leaving>>
    BY <1>0, <1>5 DEF SnapshotReads, StartsWriting, Goes, logVars, diskVars
  <2> QED
    BY <2>1 DEF ExactInv, Same, Tailing
<1> QED
  BY <1>1, <1>2, <1>3, <1>4, <1>5

LEMMA ExactStep == RegInv /\ ExactInv /\ [Next]_vars => ExactInv'
<1> SUFFICES ASSUME RegInv, ExactInv, [Next]_vars PROVE ExactInv'
  OBVIOUS
<1>1. CASE UNCHANGED vars
  BY <1>1 DEF vars, ExactInv, Same, Tailing
<1>2. CASE Next
  BY <1>2, LogLineExact, WriteExact, TrackerReadsExact, StartsExact DEF Next, Tracker
<1> QED
  BY <1>1, <1>2

(* BindingsTracker: as long as nothing was missed, the file it leaves is    *)
(* the fold of the whole log, last_event_at aside, whatever it found no     *)
(* reason to write.                                                        *)
THEOREM TrackerKeepsFile == Spec => []TrackerExact
<1>1. RegInv /\ ExactInv => TrackerExact
  <2> SUFFICES ASSUME RegInv, ExactInv, ~missed, at["tracker"] \in {"off", "wait", "tail"},
                      unread = <<>>
               PROVE  file # Torn /\ Same(file, all)
    BY DEF TrackerExact, Same
  <2>1. file # Torn
    BY RegistryAssumption DEF RegInv, CopiesInv, Books
  <2>2. CASE at["tracker"] \in {"off", "wait"}
    BY <2>1, <2>2 DEF ExactInv
  <2>3. CASE at["tracker"] = "tail"
    <3>1. Same(file, mem) /\ CatchesUp(mem, <<>>, all)
      BY <2>3 DEF ExactInv, Tailing
    <3>2. Same(mem, all)
      BY <3>1, ExactTypes, CaughtUp
    <3> QED
      BY <2>1, <3>1, <3>2 DEF Same
  <2> QED
    BY <2>2, <2>3
<1> QED
  BY <1>1, RegInit, RegStep, ExactInit, ExactStep, PTL DEF Spec

-----------------------------------------------------------------------------
(* What trackers alone keep.                                               *)

(* f knows of every session that g knows of.                               *)
Covers(f, g) == \A t \in Tmuxes : Hosted(g[t]) \subseteq Hosted(f[t])

(* A fold adds to a history and takes nothing away, whatever the entry.     *)
LEMMA StepHosts ==
  ASSUME NEW b \in Bindings, NEW ev \in HookEvents, NEW pane, NEW ts
  PROVE  Hosted(b) \subseteq Hosted(Step(b, ev, pane, ts))
<1>1. CASE ~Bound(b)
  BY <1>1 DEF Bound, Hosted
<1>2. ASSUME NEW c, c.history = b.history PROVE Hosted(b) \subseteq Hosted(c)
  BY <1>2 DEF Hosted
<1>3. ASSUME ev.sid # EmptySid PROVE Hosted(b) \subseteq Hosted(Reattach(b, ev.sid, pane, ts))
  <2>1. CASE ev.sid \in Hosted(b)
    BY <1>2, <2>1 DEF Reattach
  <2>2. CASE ev.sid \notin Hosted(b)
    <3> DEFINE g == Append(b.history, ev.sid)
    <3>1. b.history \in Seq(Sids) /\ ev.sid \in Sids
      BY <1>3 DEF Bindings, HookEvents
    <3>2. \A i \in DOMAIN b.history : i \in DOMAIN g /\ g[i] = b.history[i]
      BY <3>1
    <3>3. Reattach(b, ev.sid, pane, ts).history = g
      BY <2>2 DEF Reattach
    <3> HIDE DEF g
    <3> QED BY <3>2, <3>3 DEF Hosted
  <2> QED BY <2>1, <2>2
<1>4. /\ Hosted(b) \subseteq Hosted(Detach(b, ts))
      /\ \A p : Hosted(b) \subseteq Hosted(Touch(b, p, ts))
  BY <1>2 DEF Detach, Touch
<1> QED BY <1>1, <1>3, <1>4 DEF Step

(* The tracker's memory knows of all that the file knows of, from its load  *)
(* on: nobody else writes, and what it writes is its memory.               *)
Alone ==
  /\ at["snapshot"] = "off"
  /\ at["tracker"] # "off" => Covers(mem, file)
  /\ at["tracker"] \in Writing => payload["tracker"] = mem
KeptInv == snapshots \in Nat /\ (snapshots = 0 => Alone)

(* Before the first step no process has begun. *)
LEMMA KeptInit == Init => KeptInv
BY DEF Init, KeptInv, Alone, Writers, Writing

(* Only the tracker's own steps touch its memory, its payload and, through *)
(* .tmp, the file, as long as no snapshot has been taken.                  *)
LEMMA KeptStep == RegInv /\ KeptInv /\ [Next]_vars => KeptInv'
<1> SUFFICES ASSUME RegInv, KeptInv, [Next]_vars PROVE KeptInv'
  OBVIOUS
<1>8. (snapshots' = snapshots /\ ~SnapshotReads) \/ snapshots' = snapshots + 1
  <2>1. CASE SnapshotReads
    BY <2>1 DEF SnapshotReads
  <2>2. CASE UNCHANGED vars
    BY <2>2 DEF vars, SnapshotReads, KeptInv
  <2>3. CASE ~SnapshotReads /\ Next
    <3>1. ASSUME NEW w \in Writers, Writes(w) \/ WriteFails(w) \/ Crash(w)
          PROVE  snapshots' = snapshots
      BY <3>1 DEF Writes, TakeLock, OpenTmp, FillTmp, Replace, WriteFails, Crash, counters
    <3>2. CASE \E t \in Tmuxes, ev \in Events, pane \in Panes : LogLine(t, ev, pane)
      BY <2>3, <3>2 DEF LogLine, counters
    <3>3. CASE Tracker
      BY <2>3, <3>3 DEF Tracker, TrackerLoads, TrackerSeeks, TrackerOpens, TrackerReads,
                  TrackerExits, counters
    <3> QED BY <2>3, <3>1, <3>2, <3>3 DEF Next
  <2> QED BY <2>1, <2>2, <2>3
<1>9. snapshots' \in Nat /\ (snapshots' = 0 => snapshots = 0 /\ ~SnapshotReads)
  BY <1>8 DEF KeptInv
<1> SUFFICES ASSUME snapshots' = 0 PROVE Alone'
  BY <1>9 DEF KeptInv
<1>10. snapshots = 0 /\ Alone /\ ~SnapshotReads
  BY <1>9 DEF KeptInv
<1>0. /\ at \in [Writers -> Places] /\ payload \in [Writers -> Books(lines)]
      /\ Writers = {"tracker", "snapshot"}
      /\ at["tracker"] = "replace" => tmp = payload["tracker"]
  BY DEF RegInv, CopiesInv, LockInv, Writers
<1>1. CASE UNCHANGED vars
  BY <1>1, <1>10 DEF vars, Alone, Covers
<1>2. CASE \E t \in Tmuxes, ev \in Events, pane \in Panes : LogLine(t, ev, pane)
  BY <1>2, <1>10 DEF LogLine, counters, diskVars, Alone, Covers
<1>3. ASSUME NEW w \in Writers, Writes(w) \/ WriteFails(w) \/ Crash(w) PROVE Alone'
  <2>1. /\ snapshots = 0 /\ w = "tracker" /\ at["snapshot"] = "off"
        /\ at["tracker"] # "off" /\ Covers(mem, file) /\ UNCHANGED <<mem, payload>>
        /\ at["tracker"] \in Writing => payload["tracker"] = mem
    BY <1>0, <1>3, <1>10 DEF Alone, Writes, TakeLock, OpenTmp, FillTmp, Replace, WriteFails,
                      Crash, counters, Writing
  <2>2. CASE Replace(w)
    <3>1. file' = mem /\ at'["snapshot"] = "off" /\ at'["tracker"] \notin Writing
      BY <1>0, <2>1, <2>2 DEF Replace, Goes, Returned, Writing
    <3> QED BY <2>1, <3>1 DEF Alone, Covers
  <2>3. CASE ~Replace(w)
    <3>1. file' = file /\ at'["snapshot"] = "off"
          /\ (at'["tracker"] \in Writing => at["tracker"] \in Writing)
      BY <1>0, <1>3, <2>1, <2>3
         DEF Writes, TakeLock, OpenTmp, FillTmp, WriteFails, Crash, Goes, Raised, Writing,
             diskVars
    <3> QED BY <2>1, <3>1 DEF Alone, Covers
  <2> QED BY <2>2, <2>3
<1>4. CASE TrackerReads
  <2> DEFINE e == Head(unread)
  <2>1. /\ snapshots = 0 /\ at["snapshot"] = "off" /\ Covers(mem, file)
        /\ at["tracker"] = "tail" /\ mem' = Folds(mem, e) /\ UNCHANGED file
        /\ e \in Entries(lines) /\ mem \in [Tmuxes -> Bindings]
    BY <1>4, <1>10 DEF TrackerReads, Alone, counters, diskVars, RegInv, OrderInv, CopiesInv, Books
  <2>2. at'["snapshot"] = "off" /\ (at'["tracker"] \in Writing => payload'["tracker"] = mem')
    BY <1>0, <1>4, <2>1 DEF TrackerReads, StartsWriting, Goes, Writing
  <2>3. ASSUME NEW t \in Tmuxes PROVE Hosted(mem[t]) \subseteq Hosted(mem'[t])
    <3>1. mem[t] \in Bindings /\ e.ev \in HookEvents
      BY <2>1 DEF Entries
    <3>2. mem'[t] = IF t = e.tmux THEN Step(mem[t], e.ev, e.pane, e.ts) ELSE mem[t]
      BY <2>1 DEF Folds
    <3> QED BY <3>1, <3>2, StepHosts
  <2> QED BY <2>1, <2>2, <2>3 DEF Alone, Covers
<1>5. CASE TrackerLoads
  <2>1. snapshots = 0 /\ mem' = file /\ file' = file /\ at' = [at EXCEPT !["tracker"] = "seek"]
    BY <1>5, <1>10 DEF TrackerLoads, Goes, diskVars
  <2> QED BY <1>0, <1>10, <2>1 DEF Alone, Covers, Writing
<1>6. CASE TrackerSeeks \/ TrackerOpens
  <2>1. /\ snapshots = 0 /\ UNCHANGED <<mem, file>> /\ at["tracker"] # "off"
        /\ at' = [at EXCEPT !["tracker"] = at'["tracker"]] /\ at'["tracker"] \notin Writing
    BY <1>0, <1>6, <1>10 DEF TrackerSeeks, TrackerOpens, Goes, Writing, diskVars, counters
  <2> QED BY <1>0, <1>10, <2>1 DEF Alone, Covers
<1>7. CASE TrackerExits
  <2>1. /\ snapshots = 0 /\ UNCHANGED <<mem, file>> /\ at["tracker"] # "off"
        /\ at' = [at EXCEPT !["tracker"] = "lock"] /\ payload'["tracker"] = mem
    BY <1>0, <1>7, <1>10 DEF TrackerExits, StartsWriting, Goes, diskVars, counters
  <2> QED BY <1>0, <1>10, <2>1 DEF Alone, Covers
<1> QED
  BY <1>1, <1>2, <1>3, <1>4, <1>5, <1>6, <1>7, <1>10 DEF Next, Tracker

(* BindingsTracker: what one tracker after the other writes, of whatever    *)
(* part of the log each has seen, takes no session id out of the file.      *)
THEOREM HistoryGrows == Spec => HistoryKept
<1>1. ASSUME RegInv, KeptInv, [Next]_vars, snapshots = 0
      PROVE  \A t \in Tmuxes : Hosted(file[t]) \subseteq Hosted(file'[t])
  <2>1. at["tracker"] = "replace" => tmp = payload["tracker"]
    BY <1>1 DEF RegInv, LockInv, Writers
  <2>2. CASE \E w \in Writers : Replace(w)
    <3>1. at["tracker"] = "replace" /\ file' = tmp
      BY <1>1, <2>2 DEF Replace, KeptInv, Alone, Writers
    <3>2. file' = mem /\ Covers(mem, file)
      BY <1>1, <2>1, <3>1 DEF KeptInv, Alone, Writing
    <3> QED BY <3>2 DEF Covers
  <2>3. CASE ~\E w \in Writers : Replace(w)
    <3>1. file' = file
      BY <1>1, <2>3 DEF Next, vars, LogLine, Writes, TakeLock, OpenTmp, FillTmp, WriteFails,
         Crash, Tracker, TrackerLoads, TrackerSeeks, TrackerOpens, TrackerReads,
         TrackerExits, SnapshotReads, diskVars
    <3> QED BY <3>1
  <2> QED BY <2>2, <2>3
<1> QED
  BY <1>1, RegInit, RegStep, KeptInit, KeptStep, PTL DEF Spec, HistoryKept
=============================================================================
