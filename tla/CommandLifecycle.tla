---------------------------- MODULE CommandLifecycle ----------------------------
(***************************************************************************)
(* What the command queue promises: a command is submitted, handed to its  *)
(* device once, and settled once by what the device reports.  A device     *)
(* that is busy defers the command instead, and the queue may offer it     *)
(* again.  No rows, transactions, requests or faults: one exchange with a  *)
(* device answers for at most one command and hands out at most one other. *)
(***************************************************************************)
CONSTANTS Device, Command, Owner, None

VARIABLE stage  \* stage[c]: how far command c has come

Settled == {"completed", "failed"}
Answer  == {"completed", "failed", "not_now"}
Stage   == {"absent", "queued", "sent"} \cup Answer

Init == stage = [c \in Command |-> "absent"]

\* One API request submits a set of commands.
Submit(B) ==
    /\ \A c \in B : stage[c] = "absent"
    /\ stage' = [c \in Command |-> IF c \in B THEN "queued" ELSE stage[c]]

\* Device d settles or defers command r (None: it had nothing to report), which is v,
\* and takes n (None: there was nothing to take).
Exchange(d, r, v, n) ==
    /\ r # None => Owner[r] = d /\ stage[r] = "sent" /\ v \in Answer
    /\ n # None => Owner[n] = d /\ stage[n] = "queued"
    /\ stage' = [c \in Command |-> IF c = n THEN "sent" ELSE IF c = r THEN v ELSE stage[c]]

\* A deferred command is offered again.
Requeue(c) ==
    /\ stage[c] = "not_now"
    /\ stage' = [stage EXCEPT ![c] = "queued"]

Next ==
    \/ \E B \in SUBSET Command : Submit(B)
    \/ \E d \in Device, r, n \in Command \cup {None}, v \in Answer : Exchange(d, r, v, n)
    \/ \E c \in Command : Requeue(c)

Spec == Init /\ [][Next]_stage
================================================================================
