----------------------------- MODULE WalkForward -----------------------------
(***************************************************************************)
(* core/backtest/walkforward.py: the split that holds the last bars out,   *)
(* and the rolling train and test windows.  A bar has a time; times are    *)
(* increasing, and irregular over a weekend.                               *)
(***************************************************************************)
EXTENDS Integers, SequencesExt

CONSTANT OosFraction   \* a pair: numerator and denominator of oos_fraction

ASSUME OosFractionAssumption ==
  /\ OosFraction \in (Nat \ {0}) \X (Nat \ {0})
  /\ OosFraction[1] < OosFraction[2]

-----------------------------------------------------------------------------
\* round(): to the nearest, ties to the even neighbour.
Rounded(num, den) ==
  LET q == num \div den
      r == 2 * (num % den)
  IN  IF r > den \/ (r = den /\ q % 2 = 1) THEN q + 1 ELSE q

OosSize(n) == Min({Max({1, Rounded(n * OosFraction[1], OosFraction[2])}), n - 1})

CanSplit(bars) == Len(bars) >= 2

InSample(bars) == SubSeq(bars, 1, Len(bars) - OosSize(Len(bars)))

\* Faulty variant: the boundary bar falls into both slices.
OutOfSampleFromBoundary(bars) == SubSeq(bars, Len(bars) - OosSize(Len(bars)), Len(bars))

OutOfSample(bars) == SubSeq(bars, Len(bars) - OosSize(Len(bars)) + 1, Len(bars))

-----------------------------------------------------------------------------
WalkForwardConfig == [train: Nat \ {0}, test: Nat \ {0}, step: Nat \ {0}]

\* Faulty variant: only windows that end within the data are taken.
NoFullWindowFits(cfg, cursor, end) == cursor + cfg.train + cfg.test > end

\* The loop of walk_forward_windows stops at this cursor.
NoWindowFits(cfg, cursor, end) == cursor + cfg.train + cfg.test > end + cfg.step

\* The bars between two times, the second excluded.
Between(bars, from, to) == {b \in ToSet(bars) : from <= b.time /\ b.time < to}

WindowAt(bars, cfg, cursor) ==
  [train |-> Between(bars, cursor, cursor + cfg.train),
   test  |-> Between(bars, cursor + cfg.train, cursor + cfg.train + cfg.test)]

\* Where cursor_start is in the passes of the loop that reach a window.  Each of
\* the two exits, once taken, would be taken at any later cursor.
Cursors(bars, cfg) ==
  LET start == bars[1].time
      end   == Last(bars).time
  IN  {cursor \in {start + n * cfg.step : n \in 0..(end - start)} :
         /\ ~NoWindowFits(cfg, cursor, end)
         /\ cursor = start \/ cursor < end}

\* The list of windows, by the cursor of each.
WalkForwardWindows(bars, cfg) ==
  LET Both(cursor) == LET w == WindowAt(bars, cfg, cursor) IN w.train # {} /\ w.test # {}
  IN  IF bars = << >> THEN << >>
      ELSE [cursor \in {c \in Cursors(bars, cfg) : Both(c)} |-> WindowAt(bars, cfg, cursor)]
=============================================================================
