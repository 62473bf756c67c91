---------------------------- MODULE MCPairScreener ----------------------------
(***************************************************************************)
(* Five pairs, one of them spelt twice and one misspelt, over four bars.   *)
(* The closes divide Scale, so that the returns are exact.                 *)
(***************************************************************************)
EXTENDS PairScreener

Candle(time, close) == [time |-> time, high |-> close + 1, low |-> close - 1, close |-> close]

Series(start, closes) == [k \in DOMAIN closes |-> Candle(start + k, closes[k])]

Swings == Series(0, <<4, 6, 3, 6>>)
SameSwings == Series(0, <<3, 4, 2, 4>>)      \* moves with Swings
CounterSwings == Series(0, <<6, 3, 6, 4>>)   \* against it
Drifts == Series(0, <<4, 4, 6, 6>>)
Elsewhere == Series(4, <<4, 6, 3, 6>>)       \* no time in common with the others
Still == Series(0, <<3, 3, 3, 3>>)
Short == Series(0, <<4, 6>>)
Motionless == [k \in 1..4 |-> [Candle(k, 3) EXCEPT !.high = 3, !.low = 3]]

MCPairs == <<"EURUSD", "EURO", "GBPUSD", "EUR/USD", "AUDUSD">>

MCCanonical ==
  [name \in {"EURUSD", "EUR/USD", "GBPUSD", "AUDUSD"} |->
     IF name = "EUR/USD" THEN "EURUSD" ELSE name]

MCCandleAnswers ==
  [name \in DOMAIN MCCanonical |->
     CASE name = "EURUSD" -> {Swings, Drifts, RequestFailed, Append(Short, Garbled)}
       [] name = "GBPUSD" -> {SameSwings, CounterSwings, Elsewhere, Append(Swings, Incomplete)}
       [] name = "EUR/USD" -> {Swings, Short}
       [] OTHER -> {Drifts, CounterSwings, Still, Motionless}]

Quote(spread) == [bid |-> 4, ask |-> 4 + spread]
MCQuoteAnswers ==
  [name \in DOMAIN MCCanonical |->
     CASE name = "EURUSD" -> {Quote(0), Quote(1), None}
       [] name = "GBPUSD" -> {Quote(1), Inconsistent}
       [] name = "EUR/USD" -> {Quote(1), RequestFailed, Garbled}
       [] OTHER -> {Quote(1), Quote(2)}]

MCMinCoverage == <<3, 4>>
MCMaxCorrelation == <<4, 5>>
MCMaxSpreadToAtr == <<2, 3>>
===============================================================================
