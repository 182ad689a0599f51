---------------------------- MODULE MCMarketData ----------------------------
(* MarketData for TLC: two Starts, three bars, a book that moves twice. *)
EXTENDS MarketData
=============================================================================
