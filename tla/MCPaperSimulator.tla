-------------------------- MODULE MCPaperSimulator --------------------------
(* PaperSimulator for TLC: prices in hundredths of a dollar, 5 basis points   *)
(* of slippage and of fees; a stop at 0.3% and one at 0.5%, the least that     *)
(* setup.go lets through for a price of 100 dollars and of a few. The prices   *)
(* fill a plan exactly, within 0.5% and beyond it.                             *)
EXTENDS PaperSimulator

MCPlans ==
  {[side |-> "LONG", qty |-> 1, entry |-> 10000, sl |-> 9970, tp |-> 10045],
   [side |-> "SHORT", qty |-> 1, entry |-> 10000, sl |-> 10050, tp |-> 0]}
=============================================================================
