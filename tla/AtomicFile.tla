----------------------------- MODULE AtomicFile -----------------------------
(***************************************************************************)
(* What _atomic_write promises the readers of bindings.json: the file goes *)
(* in one step from one whole document to another that a writer has asked  *)
(* for since, and a request is carried out at most once or given up.       *)
(* Registry.tla, with its lock, its shared .tmp file, failing writes and   *)
(* processes that die, is checked and proved to implement this.            *)
(***************************************************************************)
CONSTANTS
  Writers,  \* the processes that write
  Empty     \* the document a missing file reads as

VARIABLES
  file,     \* what a reader sees
  offer     \* offer[w]: the documents w has asked to have written

vars == <<file, offer>>

Init == file = Empty /\ offer = [w \in Writers |-> {}]

(* A writer with nothing under way asks for a write.                       *)
Ask(w) ==
  /\ offer[w] = {} /\ offer'[w] # {}
  /\ offer' = [offer EXCEPT ![w] = offer'[w]]
  /\ UNCHANGED file

(* The write happens: nothing of another writer's request gets into it.    *)
Commit(w) ==
  /\ file' \in offer[w]
  /\ offer' = [offer EXCEPT ![w] = {}]

(* The write fails, or the writer dies.                                    *)
GiveUp(w) ==
  /\ offer[w] # {}
  /\ offer' = [offer EXCEPT ![w] = {}]
  /\ UNCHANGED file

Next == \E w \in Writers : Ask(w) \/ Commit(w) \/ GiveUp(w)

Spec == Init /\ [][Next]_vars
=============================================================================
