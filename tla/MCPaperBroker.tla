--------------------------- MODULE MCPaperBroker ---------------------------
(* PaperBroker for TLC: symbols are interchangeable model values. *)
EXTENDS PaperBroker, TLC

\* marks is written by UpdatePrice and read by the monitor only: states that
\* differ in nothing else have the same futures here.
WithoutMarks == <<positions, orders, nextOrderID, acct, prices, halted, lock,
                  caller, db>>

Symmetry == Permutations(Symbols)
=============================================================================
