--------------------------- MODULE MCRateLimiter ---------------------------
EXTENDS RateHistory, TLC

(* Threads and addresses are only ever compared for equality.              *)
ThreadAddrSymmetry == Permutations(Threads) \cup Permutations(Addrs)
=============================================================================
