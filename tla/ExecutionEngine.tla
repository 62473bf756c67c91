--------------------------- MODULE ExecutionEngine ---------------------------
(***************************************************************************)
(* core/execution.py composed with the risk manager and the paper broker:  *)
(* the fast loop's single path from an order request to a fill.            *)
(*                                                                         *)
(* submit() is one call, but it makes two calls to the broker and the      *)
(* broker makes one call to the price feed per quote, so the market and    *)
(* its failures change between the steps.  The engine's steps are its      *)
(* numbered stages; between submissions the operator may trip or reset the *)
(* switch and the caller may close a position.  The loop is                *)
(* single-threaded (RiskManager is documented as not thread-safe), so      *)
(* nothing but the market moves while a submission is in progress.         *)
(***************************************************************************)
EXTENDS RiskManager, PaperBroker

CONSTANTS
  Orders,           \* the requests a strategy may submit
  Quotes,           \* the quotes the price feed may answer with
  MaxSubmissions    \* bound: submissions in one behaviour

ASSUME EngineAssumption ==
  /\ Orders \subseteq OrderRequest
  /\ Quotes \subseteq Quote
  /\ None \notin OrderRequest \union AccountState \union Quote
  /\ MaxSubmissions \in Nat

VARIABLES
  stage,            \* where submit() stands
  order,            \* its argument; after the risk gate, decision.sized_order
  requested,        \* its argument as submitted
  account,          \* the snapshot it evaluates against
  result,           \* the last ExecutionResult, or the one being built
  submissions       \* number of submissions, for the bound

\* Auxiliary variables: they record what happened and decide nothing.
VARIABLES
  unitsOpened,      \* total size of the positions ever opened
  phantoms          \* positions booked without a fill since the last reset

engineVars == <<stage, order, requested, account, result, submissions>>
auxVars    == <<unitsOpened, phantoms>>
vars == <<killSwitch, brokerVars, engineVars, auxVars>>

Stages == {"idle", "account", "gate", "place"}

\* decision.kind; placed: placed_order is set; filled: fill is set.
Kinds   == {"none", "reject", "approve", "resize"}
Results == [kind: Kinds, placed: BOOLEAN, filled: BOOLEAN]
NoResult == [kind |-> "none", placed |-> FALSE, filled |-> FALSE]
Refusal  == [NoResult EXCEPT !.kind = "reject"]

TypeOK ==
  /\ KillSwitchTypeOK
  /\ BrokerTypeOK
  /\ stage \in Stages
  /\ order \in OrderRequest \union {None}
  /\ requested \in OrderRequest \union {None}
  /\ account \in AccountState \union {None}
  /\ stage # "idle" => order \in OrderRequest /\ requested \in OrderRequest
  /\ stage \in {"gate", "place"} => account \in AccountState
  /\ result \in Results
  /\ submissions \in Nat
  /\ unitsOpened \in Nat
  /\ phantoms \in Nat

Init ==
  /\ KillSwitchInit
  /\ BrokerInit
  /\ stage = "idle"
  /\ order = None
  /\ requested = None
  /\ account = None
  /\ result = NoResult
  /\ submissions = 0
  /\ unitsOpened = 0
  /\ phantoms = 0

\* The answers of the feed to one call per open position.
Marks(n) == [1 .. n -> Quotes \union {None}]

-----------------------------------------------------------------------------
(***************************************************************************)
(* submit().                                                               *)
(***************************************************************************)
\* The end of a call: only the result survives it.
Return(r) ==
  /\ stage' = "idle"
  /\ result' = r
  /\ order' = None
  /\ requested' = None
  /\ account' = None

\* Faulty variant: no pre-flight refusal, the gate is left to notice the switch.
SubmitWithoutPreflight(o) ==
  /\ stage = "idle"
  /\ submissions < MaxSubmissions
  /\ submissions' = submissions + 1
  /\ stage' = "account"
  /\ order' = o
  /\ requested' = o
  /\ account' = None
  /\ result' = NoResult
  /\ UNCHANGED <<killSwitch, brokerVars, auxVars>>

\* 1. Refuse before any broker call if the switch is engaged.
Submit(o) ==
  /\ stage = "idle"
  /\ submissions < MaxSubmissions
  /\ submissions' = submissions + 1
  /\ IF Engaged
     THEN Return(Refusal)
     ELSE /\ stage' = "account"
          /\ order' = o
          /\ requested' = o
          /\ account' = None
          /\ result' = NoResult
  /\ UNCHANGED <<killSwitch, brokerVars, auxVars>>

\* 2. Pull a fresh snapshot; a broker failure trips the switch.
ReadAccount(marks) ==
  /\ stage = "account"
  /\ GetAccountState(marks)
  /\ account' = Snapshot(marks)
  /\ stage' = "gate"
  /\ UNCHANGED <<killSwitch, order, requested, result, submissions, auxVars>>

ReadAccountFails(marks) ==
  /\ stage = "account"
  /\ GetAccountStateRaises(marks)
  /\ killSwitch' = Tripped("exception")
  /\ Return(Refusal)
  /\ UNCHANGED <<submissions, auxVars>>

\* Faulty variant: a rejected order is evaluated again and again.
GateRejectsRetrying ==
  /\ stage = "gate"
  /\ ~Accepts(order, account)
  /\ killSwitch' = AfterEvaluate(order, account)
  /\ UNCHANGED <<brokerVars, engineVars, auxVars>>

\* 3. The risk gate.
GateRejects ==
  /\ stage = "gate"
  /\ ~Accepts(order, account)
  /\ killSwitch' = AfterEvaluate(order, account)
  /\ Return(Refusal)
  /\ UNCHANGED <<brokerVars, submissions, auxVars>>

\* Faulty variant: the order as requested is placed, not the resized one.
GateAcceptsUnsized ==
  /\ stage = "gate"
  /\ Accepts(order, account)
  /\ stage' = "place"
  /\ order' = order
  /\ result' = [NoResult EXCEPT !.kind = "approve"]
  /\ UNCHANGED <<killSwitch, brokerVars, requested, account, submissions,
                 auxVars>>

GateAccepts ==
  /\ stage = "gate"
  /\ Accepts(order, account)
  /\ stage' = "place"
  /\ order' = Sized(order, account)
  /\ result' = [NoResult EXCEPT !.kind =
                  IF ExceedsPerTrade(order, account) THEN "resize"
                                                     ELSE "approve"]
  /\ UNCHANGED <<killSwitch, brokerVars, requested, account, submissions,
                 auxVars>>

\* 4. Place decision.sized_order.
PlaceOrder(quote, marks) ==
  /\ stage = "place"
  /\ AllQuoted(marks)
  /\ PlaceBooks(order, quote, marks)
  /\ unitsOpened' = unitsOpened + order.size
  /\ Return([result EXCEPT !.placed = TRUE, !.filled = TRUE])
  /\ UNCHANGED <<killSwitch, submissions, phantoms>>

\* place_order raised: before it booked anything, or after.
PlaceOrderFails(quote, marks) ==
  /\ stage = "place"
  /\ \/ /\ PlaceRaises(order, quote)
        /\ UNCHANGED auxVars
     \/ /\ ~AllQuoted(marks)
        /\ PlaceBooks(order, quote, marks)
        /\ unitsOpened' = unitsOpened + order.size
        /\ phantoms' = phantoms + 1
  /\ killSwitch' = Tripped("exception")
  /\ Return([result EXCEPT !.placed = TRUE])
  /\ UNCHANGED submissions

-----------------------------------------------------------------------------
(***************************************************************************)
(* Between submissions.                                                    *)
(***************************************************************************)
OperatorTrips ==
  /\ stage = "idle"
  /\ ManualTrip
  /\ UNCHANGED <<brokerVars, engineVars, auxVars>>

OperatorResets(confirmation) ==
  /\ stage = "idle"
  /\ Reset(confirmation)
  /\ phantoms' = IF confirmation = ResetToken THEN 0 ELSE phantoms
  /\ UNCHANGED <<brokerVars, engineVars, unitsOpened>>

\* The engine has no close path: a caller closes at the broker itself.
ClosePosition(i, quote, marks) ==
  /\ stage = "idle"
  /\ CloseBooks(i, quote, marks) \/ CloseRaises(i, quote)
  /\ UNCHANGED <<killSwitch, engineVars, auxVars>>

-----------------------------------------------------------------------------
EngineStep ==
  \/ \E marks \in Marks(Len(open)) : ReadAccount(marks) \/ ReadAccountFails(marks)
  \/ GateRejects
  \/ GateAccepts
  \/ \E quote \in Quotes \union {None}, marks \in Marks(Len(open) + 1) :
       PlaceOrder(quote, marks) \/ PlaceOrderFails(quote, marks)

Next ==
  \/ \E o \in Orders : Submit(o)
  \/ EngineStep
  \/ OperatorTrips
  \/ \E c \in {ResetToken, "other"} : OperatorResets(c)
  \/ \E i \in DOMAIN open, quote \in Quotes \union {None},
        marks \in Marks(Len(open) - 1) : ClosePosition(i, quote, marks)

Spec == Init /\ [][Next]_vars

\* A submission that has started runs to its end: every call it makes returns
\* or raises.  Nothing else is promised to happen.
FairSpec == Spec /\ WF_vars(EngineStep)

-----------------------------------------------------------------------------
(***************************************************************************)
(* Safety.                                                                 *)
(***************************************************************************)
\* From the snapshot to the order, the book the gate judged is the book the
\* order will join, the peak it used is the broker's, the order is the one
\* requested and the switch is clear: submit() never decides on one state and
\* acts on another.
SnapshotFresh ==
  /\ stage # "idle" => ~Engaged
  /\ stage \in {"account", "gate"} => order = requested
  /\ stage \in {"gate", "place"} =>
       /\ account.open = open
       /\ account.peak = peak
       /\ account.dayStart = DayStartEquity
       /\ account.equity <= peak

\* The order about to be sent, resized or not, joined to the positions the
\* broker really holds, respects every cap of RiskConfig at the equity of the
\* snapshot; it is never larger than requested, and neither loss limit is hit.
\* Only the per-trade cap may be exceeded, by a resized order, and then by no
\* more than the risk of half a size quantum: the division was rounded.
PlacedWithinCaps ==
  stage = "place" =>
    /\ order = [requested EXCEPT !.size = order.size]
    /\ order.size \in 1 .. requested.size
    /\ StopDistance(order) > 0
    /\ account.equity > 0
    /\ Len(open) < MaxConcurrentPositions
    /\ 200 * RiskAtStop(order) <=
         2 * (MaxRiskPerTradePct * account.equity)
           + (IF result.kind = "resize" THEN 100 * StopDistance(order) ELSE 0)
    /\ 100 * (OpenRisk(open) + RiskAtStop(order))
         <= MaxPortfolioRiskPct * account.equity
    /\ 100 * (NotionalIn(open, {order.pair}) + Notional(order))
         <= MaxExposurePerPairPct * account.equity
    /\ \A g \in CorrelationGroups : order.pair \in g =>
         100 * (NotionalIn(open, g) + Notional(order))
           <= MaxCorrelatedExposurePct * account.equity
    /\ ~LossAtLeast(peak, account.equity, MaxDrawdownPct)
    /\ ~LossAtLeast(DayStartEquity, account.equity, DailyLossLimitPct)

\* However submissions, failures, closes and resets follow one another, the
\* broker never holds more positions than RiskConfig allows, counting those
\* whose place_order raised after booking.
ConcurrencyCap == Len(open) <= MaxConcurrentPositions

\* Over any history, failed calls included, cash is what the realized results
\* and the opening commissions make it: no path books one without the other.
LedgerBalanced ==
  cash = StartingBalance + realizedToday - CommissionPerUnit * unitsOpened

\* A position the engine never reported as filled keeps trading halted until
\* the operator resets the switch.
PhantomHalts == phantoms > 0 => Engaged

-----------------------------------------------------------------------------
(***************************************************************************)
(* Actions and liveness.                                                   *)
(***************************************************************************)
\* While the switch is engaged no step adds exposure, and every submission is
\* refused without touching the broker: only closes and the operator act.
HaltFreezesExposure ==
  [][Engaged => /\ Len(open') <= Len(open)
                /\ submissions' # submissions =>
                     UNCHANGED brokerVars /\ result' = Refusal]_vars

\* The cause on record is the first one until the operator clears it: no later
\* trip, of any kind, replaces it.
FirstCauseKept ==
  [][Engaged => killSwitch' \in {killSwitch, Clear}]_vars

\* Every submission comes to its end.
SubmissionReturns == stage # "idle" ~> stage = "idle"

\* The fast loop implements the guarded book.
Book == INSTANCE GuardedBook WITH
          Limit <- MaxConcurrentPositions, halted <- Engaged, size <- Len(open)
ImplementsGuardedBook == Book!Spec

-----------------------------------------------------------------------------
(***************************************************************************)
(* What the documentation says and the code does not do.                   *)
(***************************************************************************)
\* core/execution.py: fill is set iff the decision was accepted and the broker
\* accepted the order.
FillIffBooked ==
  [][stage = "place" /\ stage' = "idle" => (result'.filled <=> open' # open)]_vars
=============================================================================
