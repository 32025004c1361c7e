------------------------------- MODULE Percentile -------------------------------
(***************************************************************************)
(* _percentile() of app/metrics.py: which of the n sorted latencies stands *)
(* for a percentile.  The code calls its choice nearest-rank; it is the    *)
(* rounded position between the first and the last latency, and the        *)
(* nearest rank of the textbooks is stated here beside it.                 *)
(***************************************************************************)
EXTENDS Integers

(* round() of hundredths: to the nearest whole number, a half to an even.  *)
Rounded(hundredths) ==
  LET whole == hundredths \div 100
      rest == hundredths % 100
  IN  IF rest < 50 \/ (rest = 50 /\ whole % 2 = 0) THEN whole ELSE whole + 1

(* Positions count from 0. *)
Rank(pct, n) ==
  LET rank == Rounded(pct * (n - 1))
  IN  IF rank > n - 1 THEN n - 1 ELSE IF rank < 0 THEN 0 ELSE rank

(* The least position that has pct percent of the latencies up to it. *)
NearestRank(pct, n) == (pct * n + 99) \div 100 - 1
================================================================================
