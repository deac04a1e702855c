--------------------------- MODULE MCCommandDelivery ---------------------------
\* Small instances of CommandDelivery.
EXTENDS CommandDelivery, TLC

CONSTANTS d1, c1, c2, c3

\* Every command goes to one device, so that a scan fits and commands queue up.
OneOwner == [c \in Command |-> d1]

\* The commands of one device and the request slots are interchangeable.
Interchangeable == Permutations(Command) \cup Permutations(Session)
================================================================================
