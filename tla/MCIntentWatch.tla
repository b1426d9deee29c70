----------------------------- MODULE MCIntentWatch -----------------------------
(* Instances of the watch loop for TLC.                                     *)
EXTENDS IntentWatch

TwoFlows   == {1, 2}
ThreeFlows == {1, 2, 3}

===============================================================================
