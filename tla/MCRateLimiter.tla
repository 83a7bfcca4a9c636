--------------------------- MODULE MCRateLimiter ---------------------------
(***************************************************************************)
(* RateLimiter for TLC.                                                    *)
(***************************************************************************)
EXTENDS RateLimiter, TLC

CONSTANTS a1, a2, a3, a4, t1, t2, b1, b2, b3, b4

\* Nothing tells one thread or one address from another.
Interchangeable == Permutations(Threads) \cup Permutations(Addresses)

\* What a bucket that nobody holds last contained is of no consequence: it is
\* garbage, and Insert overwrites it.
Live ==
    LET live == {b \in Buckets : ~ Free(b)}
    IN  <<clock, table, [b \in live |-> <<tokens[b], last[b]>>],
          global, pc, call, lost, history>>
=============================================================================
