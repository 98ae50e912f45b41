---------------------------- MODULE MCPrediction ----------------------------
(* Small instances of Prediction.                                          *)
EXTENDS Prediction

\* A wall next to the spawn point, or none within reach
MCLo  == -1
MCFar == -9
=============================================================================
