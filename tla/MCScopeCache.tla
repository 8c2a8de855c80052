---------------------------- MODULE MCScopeCache ----------------------------
(* Small instances of ScopeCache: two users, one or two worker threads.    *)
EXTENDS ScopeCache, FiniteSets, TLC
CONSTANTS t1, t2, u1, u2, k1
OneThread == {t1}
TwoThreads == {t1, t2}
OneUser == {u1}
TwoUsers == {u1, u2}
OneKey == {k1}
Symmetry == Permutations(Threads) \cup Permutations(Users)
=============================================================================
