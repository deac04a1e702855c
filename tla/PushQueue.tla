-------------------------------- MODULE PushQueue ------------------------------
(***************************************************************************)
(* The SQS consumer, which wakes one Mac for each message of the command   *)
(* queue, against the check-ins that replace its push token.  A delivery   *)
(* is a request with a session of its own; it reads the row, pushes, and   *)
(* removes the token and the message by what APNs answered.                *)
(*                                                                         *)
(* A received message is hidden for a while and then delivered again,      *)
(* whether or not its first delivery has ended.  Nothing in the repository *)
(* sends the messages.                                                     *)
(***************************************************************************)
EXTENDS Handlers

CONSTANTS
    Message,      \* SQS messages for one Mac
    MaxReceives,  \* maxReceiveCount of the queue
    MaxPushTokens \* bound on tokens APNs gives the Mac

VARIABLES
    message,  \* message[m]: its state, whether its body can be read, times received
    row,      \* the Device row: push_token (0 for NULL) and status
    live,     \* the token APNs knows the Mac by, 0 when it is not managed
    issued,   \* tokens given so far
    told,     \* history: the token of the Mac's last check-in, 0 for a CheckOut
    served,   \* history: messages since which a push was accepted, or found nobody
    missed,   \* history: messages given up for a Mac one could push to, see GiveUp
    crossed   \* history: a check-in came between a delivery's read and its write

queue   == <<message, served, missed>>
device  == <<row, told, crossed>>
apns    == <<live, issued>>
vars    == <<handlers, queue, device, apns>>

--------------------------------------------------------------------------------
\* The Mac is enrolled and reachable; the queue is empty.
Init ==
    /\ HandlersInit
    /\ message = [m \in Message |-> [state |-> "absent", readable |-> TRUE, received |-> 0]]
    /\ row = [token |-> 1, status |-> "enrolled"]
    /\ live = 1 /\ issued = 1 /\ told = 1
    /\ served = {} /\ missed = {} /\ crossed = FALSE

Send(m, readable) ==
    /\ message[m].state = "absent"
    /\ message' = [message EXCEPT ![m] = [state |-> "visible", readable |-> readable, received |-> 0]]
    /\ UNCHANGED <<handlers, served, missed, device, apns>>

--------------------------------------------------------------------------------
(* Deliveries.                                                                  *)

\* receive_message; the count tells the receipts of one message apart.
Receive(h, m) ==
    /\ message[m].state = "visible" /\ message[m].received < MaxReceives
    /\ Begin(h, [op |-> "received", msg |-> m, receipt |-> message[m].received + 1])
    /\ message' = [message EXCEPT ![m].state = "hidden", ![m].received = @ + 1]
    /\ UNCHANGED <<served, missed, device, apns>>

\* One delivery more than the queue allows: SQS moves the message away.
ToDeadLetters(m) ==
    /\ message[m].state = "visible" /\ message[m].received = MaxReceives
    /\ message' = [message EXCEPT ![m].state = "dead"]
    /\ UNCHANGED <<handlers, served, missed, device, apns>>

\* 25 seconds after the delivery began to work on it, or 300 if that call failed.
VisibilityExpires(m) ==
    /\ message[m].state = "hidden"
    /\ message' = [message EXCEPT ![m].state = "visible"]
    /\ UNCHANGED <<handlers, served, missed, device, apns>>

Goes(h, q) == request' = [request EXCEPT ![h] = q] /\ UNCHANGED <<begun, faults>>

\* The token of the Mac's last check-in is the one APNs knows, and its row is there.
Wakeable == told = live /\ live # 0 /\ row.status # "deleted"

\* A message is to go without a push: with nobody to push to it is served, otherwise a
\* check-in that came between a delivery's read and its write is to blame, if one did.
GiveUp(m) ==
    /\ served' = IF Wakeable THEN served ELSE served \cup {m}
    /\ missed' = IF Wakeable /\ crossed' THEN missed \cup {m} ELSE missed

\* A message nobody can read, or for a Mac that is gone or has no token, is deleted.
Look(h) ==
    LET q    == request[h]
        idle == ~message[q.msg].readable \/ row.token = 0
    IN  /\ q.op = "received"
        /\ Goes(h, [op |-> IF idle THEN "delete" ELSE "push", msg |-> q.msg, receipt |-> q.receipt, saw |-> row])
        /\ UNCHANGED <<message, device, apns>>
        /\ IF idle THEN GiveUp(q.msg) ELSE UNCHANGED <<served, missed>>

Accepted(h) ==
    LET q == request[h]
    IN  /\ q.op = "push" /\ q.saw.token = live
        /\ Goes(h, [q EXCEPT !.op = "delete"])
        /\ served' = served \cup {m \in Message : message[m].state # "absent"}
        /\ UNCHANGED <<message, missed, device, apns>>

\* A mutant: every refusal means that the token is gone.
UnregisteredAny(code) == TRUE
\* The answer that says the token is gone.
Unregistered(code) == code = 410

\* APNs answers 410 for a token that is not the Mac's any more; for the rest, a connection
\* that fails included, the message is left to be delivered again.
PushFails(h) ==
    LET q == request[h]
    IN  /\ q.op = "push"
        /\ \E code \in {410, 503} :
              /\ IF code = 410 THEN q.saw.token # live /\ UNCHANGED faults ELSE Fault
              /\ request' = [request EXCEPT ![h] = IF Unregistered(code) THEN [q EXCEPT !.op = "clear"] ELSE Free]
        /\ UNCHANGED <<begun, queue, device, apns>>

\* The row is written by its id, whatever it says by now, and committed.
ClearToken(h) ==
    LET q == request[h]
    IN  /\ q.op = "clear"
        /\ Goes(h, [q EXCEPT !.op = "delete"])
        /\ row' = IF row.status = "deleted" THEN row ELSE [token |-> 0, status |-> "token_expired"]
        /\ crossed' = (crossed \/ row # q.saw)
        /\ GiveUp(q.msg)
        /\ UNCHANGED <<message, told, apns>>

\* delete_message; SQS may ignore a receipt that is not the last.
DeleteMessage(h) ==
    LET q == request[h]
    IN  /\ Finish(h, "delete")
        /\ \/ message' = [message EXCEPT ![q.msg].state = IF @ = "dead" THEN @ ELSE "deleted"]
           \/ message[q.msg].received # q.receipt /\ UNCHANGED message
        /\ UNCHANGED <<served, missed, device, apns>>

RequestFails(h) == Abandon(h) /\ UNCHANGED <<queue, device, apns>>

--------------------------------------------------------------------------------
(* Meanwhile.                                                                   *)

\* APNs gives the Mac another token, with an enrollment or without one.
NewToken ==
    /\ issued < MaxPushTokens
    /\ issued' = issued + 1 /\ live' = issued + 1
    /\ UNCHANGED <<handlers, queue, device>>

Leave ==
    /\ live # 0 /\ live' = 0
    /\ UNCHANGED <<handlers, queue, device, issued>>

\* For a row that was deleted another is made, with an id no message has.
TokenUpdate ==
    /\ live # 0 /\ row.status # "deleted"
    /\ AtOnce
    /\ row' = [token |-> live, status |-> "enrolled"]
    /\ told' = live /\ crossed' = FALSE
    /\ UNCHANGED <<queue, apns>>

CheckOut ==
    /\ live = 0 /\ row.status # "deleted"
    /\ AtOnce
    /\ row' = [token |-> 0, status |-> "gone"]
    /\ told' = 0 /\ crossed' = FALSE
    /\ UNCHANGED <<queue, apns>>

DeleteDevice ==
    /\ row.status # "deleted"
    /\ AtOnce
    /\ row' = [token |-> 0, status |-> "deleted"]
    /\ UNCHANGED <<told, crossed, queue, apns>>

Deliver(h) ==
    \/ Look(h) \/ Accepted(h) \/ PushFails(h) \/ ClearToken(h) \/ DeleteMessage(h)
    \/ RequestFails(h)

Next ==
    \/ \E m \in Message :
          \/ \E readable \in BOOLEAN : Send(m, readable)
          \/ ToDeadLetters(m) \/ VisibilityExpires(m)
          \/ \E h \in Handler : Receive(h, m)
    \/ \E h \in Handler : Deliver(h)
    \/ NewToken \/ Leave \/ TokenUpdate \/ CheckOut \/ DeleteDevice
    \/ Quiet /\ UNCHANGED vars

Spec == Init /\ [][Next]_vars

--------------------------------------------------------------------------------
(* Properties.                                                                  *)

PushToken == 0..MaxPushTokens

\* Every variable has its type.
TypeOK ==
    /\ begun \in 0..MaxRequests /\ faults \in 0..MaxFaults
    /\ \A h \in Handler : request[h].op \in {"none", "received", "push", "clear", "delete"}
    /\ message \in [Message -> [state : {"absent", "visible", "hidden", "deleted", "dead"},
                                readable : BOOLEAN, received : 0..MaxReceives]]
    /\ row \in [token : PushToken, status : {"enrolled", "token_expired", "gone", "deleted"}]
    /\ live \in PushToken /\ issued \in PushToken /\ told \in PushToken
    /\ served \cup missed \subseteq Message /\ crossed \in BOOLEAN

\* A token is expired only for a Mac that has another or none, and a Mac that left is
\* shown so, unless a check-in came between the read and the write of a delivery.
TokenKept ==
    crossed \/ /\ row.status = "token_expired" => told # live
               /\ told = 0 => row.status \in {"gone", "deleted"}

\* A message that can be read goes only when, since it was sent, APNs took a push for the
\* Mac, or there was nobody to push to, however often it was delivered and by whom; but for
\* a token that was cleared when a check-in came between.
DeletedServed ==
    \A m \in Message : message[m].state = "deleted" => m \in served \cup missed \/ ~message[m].readable
================================================================================
