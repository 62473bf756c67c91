------------------------------ MODULE MarketData ------------------------------
(***************************************************************************)
(* core/market_data.py: what the OANDA adapter makes of an answer.  Its    *)
(* request loop is that of HttpRequest, and stands here for an answer or   *)
(* RequestFailed.  A candle or a quote that cannot be read is one of three *)
(* model values, for what is wrong with it.  A result is the data, or the  *)
(* exception raised.                                                       *)
(***************************************************************************)
EXTENDS NoValue, Integers, Sequences

CONSTANTS
  RequestFailed,
  Incomplete,       \* a field is missing, or the time cannot be read
  Garbled,          \* a price is no number
  Inconsistent,     \* prices that contradict each other: the model refuses them
  MarketDataError, ValueError, InvalidOperation \* the exceptions

Unreadable == {Incomplete, Garbled, Inconsistent}

\* get_candles: the first candle that cannot be read ends it.  A price that is no
\* number raises what the handler of the loop does not name.
GetCandles(answer) ==
  IF answer = RequestFailed THEN MarketDataError
  ELSE LET bad == {k \in DOMAIN answer : answer[k] \in Unreadable}
           first == CHOOSE k \in bad : \A j \in bad : k <= j
       IN  IF bad = {} THEN answer
           ELSE IF answer[first] = Garbled THEN InvalidOperation
           ELSE MarketDataError

\* get_quote: a Quote, which refuses an ask below its bid, is built after the
\* handler.  None stands for an answer without the instrument.
GetQuote(answer) ==
  IF answer \in {RequestFailed, None, Incomplete} THEN MarketDataError
  ELSE IF answer = Garbled THEN InvalidOperation
  ELSE IF answer = Inconsistent THEN ValueError
  ELSE answer

Spread(quote) == quote.ask - quote.bid
===============================================================================
