--------------------------- MODULE MCMessagePipeline ---------------------------
(* MessagePipeline with concrete envelopes for TLC: a request from as far in *)
(* the future as the skew allows, another one that reuses its message_id     *)
(* once the replay window is over, and an independent one.                   *)
EXTENDS MessagePipeline, TLC

CONSTANTS m1, m2

Envelope(id, text, ts, exp) == [id |-> id, body |-> text, ts |-> ts, exp |-> exp]

\* TicksPerSecond = 2, MaxExpiryWindow = 1, Skew = 1: the first is timely from
\* 0 to 4, the second from 7 to 10, the third from 5 to 9.
MCRequests ==
  { Envelope(m1, "x", 2, 4), Envelope(m1, "y", 9, 10), Envelope(m2, "x", 7, 9) }

\* For the liveness run: two requests under one message_id at the same time.
MCRivalRequests == { Envelope(m1, "x", 1, 3), Envelope(m1, "y", 1, 3) }

ResultSymmetry == Permutations(Results)
================================================================================
