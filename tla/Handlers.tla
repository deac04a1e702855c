------------------------------- MODULE Handlers --------------------------------
(***************************************************************************)
(* The API requests a server holds: what every route has in common.  A     *)
(* route runs in one READ COMMITTED transaction of its own session: it     *)
(* reads, decides, and what it wrote becomes visible when get_db commits   *)
(* after the route returned.  Begin is the part up to the last read,       *)
(* Finish the commit, Abandon a rollback or a process that dies.  Between  *)
(* the two any other request may commit.                                   *)
(*                                                                         *)
(* Whether the answer leaves before that commit is up to FastAPI, of which *)
(* pyproject.toml asks for 0.115 or later and which no file pins.  Where   *)
(* somebody acts on what an answer holds, Reply is the step at which it    *)
(* leaves; from 0.118 on the commit comes after it and may still fail.     *)
(***************************************************************************)
EXTENDS Naturals

CONSTANTS
    Handler,      \* requests the server can hold at a time
    MaxRequests,  \* bound on the requests of a behaviour
    MaxFaults,    \* bound on failures, losses and crashes
    CommitBeforeReply  \* FastAPI up to 0.117: an answer waits for the commit

ASSUME HandlersAssumption ==
    MaxRequests \in Nat /\ MaxFaults \in Nat /\ CommitBeforeReply \in BOOLEAN

VARIABLES
    request,  \* request[h]: the operation of h and what it has read
    begun,    \* requests begun so far
    faults    \* faults so far

handlers == <<request, begun, faults>>

Free  == [op |-> "none"]
Fault == faults < MaxFaults /\ faults' = faults + 1

HandlersInit ==
    /\ request = [h \in Handler |-> Free]
    /\ begun   = 0
    /\ faults  = 0

\* A request arrives; one that changes nothing (an error, an empty result) is not kept.
Arrives == begun < MaxRequests /\ begun' = begun + 1

Hold(h, q) == request[h].op = "none" /\ request' = [request EXCEPT ![h] = q]

Begin(h, q) == Hold(h, q) /\ Arrives /\ UNCHANGED faults

\* A request whose reads and writes nothing can come between.
AtOnce == Arrives /\ UNCHANGED <<request, faults>>

\* The answer leaves and the commit is still to come: op goes on as q.
Reply(h, op, q) ==
    /\ ~CommitBeforeReply
    /\ request[h].op = op
    /\ request' = [request EXCEPT ![h] = q]
    /\ UNCHANGED <<begun, faults>>

\* What the commit finds: a request to answer, or one that was answered.
Due(asked, answered) == IF CommitBeforeReply THEN asked ELSE answered

Finish(h, op) ==
    /\ request[h].op = op
    /\ request' = [request EXCEPT ![h] = Free]
    /\ UNCHANGED <<begun, faults>>

Abandon(h) ==
    /\ request[h].op # "none" /\ Fault
    /\ request' = [request EXCEPT ![h] = Free]
    /\ UNCHANGED begun

\* Nobody waits for an answer: the server may stay as it is.
Quiet == \A h \in Handler : request[h].op = "none"
================================================================================
