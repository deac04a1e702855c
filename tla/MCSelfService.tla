----------------------------- MODULE MCSelfService -----------------------------
\* Small instances of SelfService.
EXTENDS SelfService

CONSTANTS r1, r2

\* The first request is for uploaded software only, the second came with an address.
Elsewhere == [r \in Request |-> IF r = r1 THEN "none" ELSE "url"]

Interchangeable == Permutations(Handler) \cup Permutations(Process)
================================================================================
