----------------------------- MODULE MCUniverse -----------------------------
(* Universe for TLC: two symbols, a scan with room for one or both. *)
EXTENDS Universe

MCByName == <<"BTC", "ETH">>
MCByTurnover == <<"ETH", "BTC">>

Fine == [unfit |-> {}, pullback |-> 20, breakout |-> 0, score |-> 80,
         book |-> "good", worth |-> TRUE]

\* One series missing at a time, then each way a complete feed can be judged.
MCFeeds ==
  {[Fine EXCEPT !.unfit = {u}] : u \in {"4H", "btc15m", "btc5m"}}
    \cup {[Fine EXCEPT !.book = k, !.score = n] : k \in {"none", "good"}, n \in {50, 60}}
    \cup {[Fine EXCEPT !.pullback = 0, !.breakout = b] : b \in {0, 12, 20}}
    \cup {[Fine EXCEPT !.book = "wide"], [Fine EXCEPT !.worth = FALSE]}
=============================================================================
