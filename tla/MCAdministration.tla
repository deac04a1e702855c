--------------------------- MODULE MCAdministration ----------------------------
\* Small instances of Administration; only some parts need the symmetry.
EXTENDS Administration, TLC

CONSTANTS starter, professional, s1, s2

\* Limits in the order of the plans, and a subscription of each.
SmallLimits == [p \in Plan |-> IF p = starter THEN 1 ELSE 2]
OneOfEach   == [s \in Sub |-> IF s = s1 THEN starter ELSE professional]

Interchangeable == Permutations(Handler) \cup Permutations(Worker)
================================================================================
