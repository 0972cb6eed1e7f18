---------------------------- MODULE BackendClaims ----------------------------
(***************************************************************************)
(* What the repository's documents say of Backend and the code does not do. *)
(* Each is checked by a run that TLC ends with a counterexample;            *)
(* PROJECT.json quotes the sentence.                                       *)
(***************************************************************************)
EXTENDS Backend

(* Core design: all iterators terminate when Dead is emitted on states().  *)
(* The code ends them on a transition to Dead, not on a Dead baseline.     *)
DeadEndsIterators ==
  (\E i \in DOMAIN statesQ : IsDead(statesQ[i]))
     => Queues \ {"states"} \subseteq ended

(* L2 design: send_prompt while a submission is due should queue, not      *)
(* race.  Every text that reaches the pane follows its own C-u and is      *)
(* followed by its own Enter; in the code nothing keeps a send_prompt on   *)
(* Idle and a flush on the same Idle apart.                                *)
SubmissionsWhole ==
  \A i \in DOMAIN typed :
    typed[i].key = "text" =>
      /\ i > 1 /\ typed[i - 1].key = "C-u"
      /\ i < Len(typed) => typed[i + 1].key = "Enter"
=============================================================================
