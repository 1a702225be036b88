--------------------------- MODULE MCCallDispatch ---------------------------
EXTENDS CallDispatch, TLC

\* Calls of a kind are alike.
Interchangeable == Permutations(QuoteCalls) \cup Permutations(CommitCalls)
=============================================================================
