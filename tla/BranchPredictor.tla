--------------------------- MODULE BranchPredictor ---------------------------
(***************************************************************************)
(* pipeline/branch_predictor.rs: a two-bit predictor per branch address.   *)
(* The first bit is the prediction, the second remembers the last outcome. *)
(***************************************************************************)
EXTENDS Machine

(* branch_map.entry(pc).or_insert((false, false)): predict touches the map. *)
Touched(map, pc) ==
  [p \in DOMAIN map \cup {pc} |-> IF p \in DOMAIN map THEN map[p] ELSE <<FALSE, FALSE>>]

Predict(map, pc) == Touched(map, pc)[pc][1]

(* The four arms of update's match: an outcome that repeats the last one   *)
(* becomes the prediction, any other is only remembered.                   *)
TrainedAtOnce(bits, taken) == <<taken = 1, taken = 1>>
Trained(bits, taken) ==
  LET outcome == (taken = 1)
  IN  <<IF bits[2] = outcome THEN outcome ELSE bits[1], outcome>>

Update(map, pc, taken) == [map EXCEPT ![pc] = Trained(@, taken)]
=============================================================================
