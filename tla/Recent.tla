-------------------------------- MODULE Recent --------------------------------
(***************************************************************************)
(* The buffers that keep the newest entries of a stream: LogBus::q_ of     *)
(* log_bus.cpp and FrameHistogram::samples_ of metrics.h, which both drop  *)
(* their oldest entry before a push that would exceed their capacity.      *)
(***************************************************************************)
EXTENDS Integers, Sequences

\* Mutant: the full buffer drops its newest entry.
PushRecentDropsNewest(q, x, cap) ==
  Append(IF Len(q) >= cap THEN SubSeq(q, 1, Len(q) - 1) ELSE q, x)

PushRecent(q, x, cap) == Append(IF Len(q) >= cap THEN Tail(q) ELSE q, x)

\* The last n entries of s, or all of them when there are fewer.
Newest(s, n) == IF Len(s) <= n THEN s ELSE SubSeq(s, Len(s) - n + 1, Len(s))
===============================================================================
