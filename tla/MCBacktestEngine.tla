-------------------------- MODULE MCBacktestEngine --------------------------
(***************************************************************************)
(* Four bars of one pair: a night passes between each two of the first     *)
(* three, a Wednesday's between the last two.  Prices gap between low, par *)
(* and high at every open and close.                                       *)
(***************************************************************************)
EXTENDS Economics

CONSTANTS eur, gbp

MCPairs  == {eur, gbp}
MCGroups == {{eur, gbp}}

\* A long position pays a night, a short one is paid.
MCSwapLong == -1

MCTimes  == <<10, 26, 60, 80>>
MCOpens  == {2, 6}
MCCloses == {2, 3, 9}

MCHistories ==
  { [i \in 1 .. 4 |-> [time |-> MCTimes[i],
                       open |-> IF i = 1 THEN 6 ELSE opens[i],
                       close |-> IF i = 1 THEN 6 ELSE closes[i]]] :
      opens \in [2 .. 4 -> MCOpens], closes \in [2 .. 4 -> MCCloses] }

Order(pair, direction, size, stop) ==
  [pair |-> pair, direction |-> direction, size |-> size, entry |-> 6,
   stop |-> stop]

MCProposals ==
  { << >>,
    <<Order(eur, "long", 4, 5)>>,
    <<Order(eur, "short", 2, 7), Order(eur, "long", 2, 5)>>,
    <<Order(eur, "long", 9, 4), Order(eur, "long", 1, 5)>>,
    <<Order(gbp, "long", 1, 5), Order(eur, "short", 5, 8)>> }

\* The thresholds of the code, and in-sample windows that won, lost or idled.
MCCostConcern  == <<1, 2>>
MCCostRetire   == <<1, 1>>
MCDecayConcern == <<3, 5>>
MCDecayRetire  == <<1, 4>>

Window(count, pnl, net, cost) ==
  WindowEconomics([trade_count |-> count, pnl |-> pnl, net |-> net, cost_total |-> cost])

MCInSampleReads == {Window(3, 30, 20, 9), Window(2, -4, -9, 5), Window(0, 0, 0, 0)}
=============================================================================
