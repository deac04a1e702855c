----------------------------- MODULE MCAdminAccess -----------------------------
\* Small instances of AdminAccess: one Mac, one account.
EXTENDS AdminAccess

CONSTANTS r1, r2, a1

\* Both requests are for the same account.
SameAccount == [r \in Request |-> a1]

\* The handlers, loops and polls are interchangeable.
Interchangeable == Permutations(Handler) \cup Permutations(Worker) \cup Permutations(Poll)
================================================================================
