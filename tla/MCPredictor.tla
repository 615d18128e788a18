----------------------------- MODULE MCPredictor -----------------------------
(* The predictor with the machine of the other models.                     *)
EXTENDS PredictorHistory, ArithmeticLogicUnit
=============================================================================
