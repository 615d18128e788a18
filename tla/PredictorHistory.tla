--------------------------- MODULE PredictorHistory --------------------------
(***************************************************************************)
(* The branch predictor on its own, with the outcomes of every branch: any *)
(* branch may be fetched, and any branch that was fetched may retire.      *)
(***************************************************************************)
EXTENDS BranchPredictor

CONSTANTS
  Branches,     \* addresses of the branches
  MaxOutcomes   \* bound on the outcomes of one branch

ASSUME BranchesAssumption == Branches \subseteq Word /\ MaxOutcomes \in Nat

VARIABLES branch_map, outcomes

Init == /\ branch_map = [p \in {} |-> <<FALSE, FALSE>>]
        /\ outcomes = [p \in Branches |-> <<>>]

Fetch(p) == /\ branch_map' = Touched(branch_map, p)
            /\ UNCHANGED outcomes

Retire(p, taken) ==
  /\ p \in DOMAIN branch_map
  /\ Len(outcomes[p]) < MaxOutcomes
  /\ branch_map' = Update(branch_map, p, taken)
  /\ outcomes' = [outcomes EXCEPT ![p] = Append(@, taken = 1)]

Next == \E p \in Branches : Fetch(p) \/ \E taken \in {0, 1} : Retire(p, taken)

Spec == Init /\ [][Next]_<<branch_map, outcomes>>

-----------------------------------------------------------------------------

(* What the two bits are for: the prediction of a branch is the outcome it *)
(* last had twice in a row (not taken, before any), so a single deviation  *)
(* never changes it, two in a row always do, and no other branch matters.  *)
PredictsLastRepeatedOutcome ==
  \A p \in DOMAIN branch_map :
    LET h       == <<FALSE, FALSE>> \o outcomes[p]
        repeats == {k \in 2 .. Len(h) : h[k] = h[k - 1]}
        latest  == CHOOSE k \in repeats : \A j \in repeats : j <= k
    IN  Predict(branch_map, p) = h[latest]
=============================================================================
