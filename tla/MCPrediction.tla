---------------------------- MODULE MCPrediction ----------------------------
(* Bursts of up to three bytes, of which three are a paste, on a screen of  *)
(* three columns and two rows that may shrink to two columns.               *)
EXTENDS Prediction

ScreenSizes == {<< 3, 2 >>, << 2, 2 >>}
=============================================================================
