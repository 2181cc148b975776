----------------------------- MODULE AtLeastOnce -----------------------------
(***************************************************************************)
(* What handing an item to a queue promises, for a device command and for  *)
(* a report alike: an item that was accepted is delivered, after it took   *)
(* effect at least once, or is dropped, and either way it is never touched *)
(* again.                                                                  *)
(***************************************************************************)
CONSTANTS Items

VARIABLES
  stage,   \* [Items -> {"absent", "owed", "delivered", "dropped"}]
  effect   \* the items that have taken effect

vars == <<stage, effect>>

Init ==
  /\ stage = [i \in Items |-> "absent"]
  /\ effect = {}

Move(i, to) == stage' = [stage EXCEPT ![i] = to]

Accept(i) ==
  /\ stage[i] = "absent"
  /\ Move(i, "owed")
  /\ UNCHANGED effect

\* At least once: it may take effect again before it is delivered.
TakeEffect(i) ==
  /\ stage[i] = "owed"
  /\ effect' = effect \cup {i}
  /\ UNCHANGED stage

Deliver(i) ==
  /\ stage[i] = "owed"
  /\ i \in effect
  /\ Move(i, "delivered")
  /\ UNCHANGED effect

\* A failure, or that nobody is left to receive it, drops what is owed; a
\* restart may drop several items.
Drop ==
  /\ \E D \in SUBSET {i \in Items : stage[i] = "owed"} :
       stage' = [i \in Items |-> IF i \in D THEN "dropped" ELSE stage[i]]
  /\ UNCHANGED effect

Next == Drop \/ \E i \in Items : Accept(i) \/ TakeEffect(i) \/ Deliver(i)

Spec == Init /\ [][Next]_vars

\* Nothing is owed for ever.
Settled == \A i \in Items : stage[i] = "owed" ~> stage[i] # "owed"
=============================================================================
