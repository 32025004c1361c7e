---------------------------- MODULE MCRecencyTracker ----------------------------
(* A tick is a half-life and a score is counted in halves of a search, so  *)
(* that the latest reading a call may bring to the lock still leaves a     *)
(* whole number; a search has faded after two ticks.                       *)
EXTENDS RecencyTracker

MCDecay(s, d) == s \div 2^d
================================================================================
