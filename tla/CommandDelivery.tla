---------------------------- MODULE CommandDelivery ----------------------------
(***************************************************************************)
(* The MDM command queue: API routes insert MdmCommand rows and fire a     *)
(* wake-up push, devices poll PUT /mdm/apple/connect, report the result of *)
(* the previous command and are handed the oldest queued one.              *)
(*                                                                         *)
(* Every HTTP request is one READ COMMITTED transaction (get_db commits    *)
(* after the route function returned), so a request is several steps here: *)
(* its writes stay private to the session until Commit.  The first         *)
(* statement of connect is UPDATE devices SET last_checkin, which keeps    *)
(* the device's row lock until the transaction ends.                       *)
(***************************************************************************)
EXTENDS Naturals

CONSTANTS
    Device,            \* enrolled devices
    Command,           \* command_uuid values
    Session,           \* connect requests the server can hold at a time
    Owner,             \* Owner[c]: the device of MdmCommand c
    Unencodable,       \* commands whose payload plistlib refuses to encode
    CommitBeforeReply, \* FastAPI up to 0.117: TRUE; from 0.118 on: FALSE
    MaxFaults,         \* bound on losses, time-outs and crashes
    None

ASSUME OwnerAssumption == Owner \in [Command -> Device]
ASSUME NoneAssumption ==
    /\ None \notin Command
    /\ None \notin Session
    /\ Unencodable \subseteq Command
ASSUME ModeAssumption == CommitBeforeReply \in BOOLEAN /\ MaxFaults \in Nat

VARIABLES
    status,    \* status[c]: the row of c ("open": its INSERT is uncommitted)
    queuedAt,  \* queuedAt[c]: now() of the inserting transaction
    clock,     \* the last transaction start time handed out
    txns,      \* open API transactions, each the set of commands it inserts
    pushes,    \* devices with a wake-up push on its way
    phase,     \* phase[s]: progress of connect request s
    caller,    \* caller[s]: the device that sent it
    msg,       \* msg[s]: what it reports
    next,      \* next[s]: the command its transaction marks "sent", or None
    devPhase,  \* devPhase[d]: the MDM client of device d
    devMsg,    \* devMsg[d]: its last message, or the command it executes
    devConn,   \* devConn[d]: the request it waits for, None if broken
    faults,    \* losses, time-outs and crashes so far
    before,    \* history: commands committed when c's transaction started
    handed,    \* history: times a device received c
    undone,    \* history: times a reply carrying c went out and was rolled back
    verdict    \* history: results the device of c gave for it

api   == <<queuedAt, clock, txns, before>>
dev   == <<devPhase, devMsg, devConn>>
sess  == <<phase, caller, msg, next>>
hist  == <<handed, undone, verdict>>
vars  == <<status, api, pushes, sess, dev, faults, hist>>

--------------------------------------------------------------------------------
(* Types and the data the handlers work on.                                     *)

Result  == {"Acknowledged", "Error", "NotNow"}
Message == [cmd : Command, res : Result] \cup [cmd : {None}, res : {"Idle"}]
Idle    == [cmd |-> None, res |-> "Idle"]

\* What a device can make of a command; not_now is an answer, not an end: the device
\* is busy and will take the command later.
Settled    == {"completed", "failed"}
Outcome    == {"completed", "failed", "not_now"}
Dispatched == Outcome \cup {"sent"}
Committed  == Dispatched \cup {"queued"}
Status     == Committed \cup {"absent", "open", "aborted"}

\* Mutants: the device's word stored as it came; NotNow taken for success.
StatusAsReported(r) == r
StatusForAnswered(r) == IF r = "Error" THEN "failed" ELSE "completed"

\* The status a reported result stands for: everything that is neither
\* Acknowledged nor NotNow (Error, CommandFormatError) fails the command.
StatusFor(r) == CASE r = "Acknowledged" -> "completed"
                  [] r = "NotNow"       -> "not_now"
                  [] OTHER              -> "failed"

\* The table as a transaction that has stored the report m reads it: the UPDATE
\* matches on command_uuid alone and has no condition on the old status.
Reported(m) ==
    [c \in Command |-> IF c = m.cmd /\ status[c] \in Committed
                       THEN StatusFor(m.res) ELSE status[c]]

\* Mutants: rows of open transactions count too; no ORDER BY; ORDER BY ... DESC.
OldestDirty(d, table) ==
    LET seen == {c \in Command : Owner[c] = d /\ table[c] \in {"queued", "open"}}
    IN  {c \in seen : \A e \in seen : queuedAt[c] <= queuedAt[e]}
AnyQueued(d, table) == {c \in Command : Owner[c] = d /\ table[c] = "queued"}
Newest(d, table) ==
    {c \in AnyQueued(d, table) : \A e \in AnyQueued(d, table) : queuedAt[c] >= queuedAt[e]}

\* Rows a session of device d may pick: the oldest queued ones (queued_at may
\* tie, and ORDER BY leaves the choice among ties open).
Oldest(d, table) ==
    LET queued == {c \in Command : Owner[c] = d /\ table[c] = "queued"}
    IN  {c \in queued : \A e \in queued : queuedAt[c] <= queuedAt[e]}

Holding   == {"open", "replied"}
RowLocked(d) == \E s \in Session : phase[s] \in Holding /\ caller[s] = d

Init ==
    /\ status   = [c \in Command |-> "absent"]
    /\ queuedAt = [c \in Command |-> 0]
    /\ clock    = 0
    /\ txns     = {}
    /\ pushes   = {}
    /\ phase    = [s \in Session |-> "free"]
    /\ caller   = [s \in Session |-> None]
    /\ msg      = [s \in Session |-> Idle]
    /\ next     = [s \in Session |-> None]
    /\ devPhase = [d \in Device |-> "idle"]
    /\ devMsg   = [d \in Device |-> Idle]
    /\ devConn  = [d \in Device |-> None]
    /\ faults   = 0
    /\ before   = [c \in Command |-> {}]
    /\ handed   = [c \in Command |-> 0]
    /\ undone   = [c \in Command |-> 0]
    /\ verdict  = [c \in Command |-> {}]

--------------------------------------------------------------------------------
(* The API routes.                                                              *)

\* A route adds the rows B in its transaction; the column default now() gives them
\* all the time the transaction started.  B is any set: lock or restart adds one
\* row, a bulk action one per device, a patch scan three for one device, and a
\* group action one per membership, which may list a device more than once.
InsertRows(B) ==
    /\ B # {} /\ \A c \in B : status[c] = "absent"
    /\ clock'    = clock + 1
    /\ status'   = [c \in Command |-> IF c \in B THEN "open" ELSE status[c]]
    /\ queuedAt' = [c \in Command |-> IF c \in B THEN clock + 1 ELSE queuedAt[c]]
    /\ before'   = [c \in Command |-> IF c \in B
                        THEN {e \in Command : status[e] \in Committed} ELSE before[c]]
    /\ txns'     = txns \cup {B}
    /\ UNCHANGED <<sess, dev, faults, hist>>

\* The routes that create the push tasks, before the commit that ends the request.
QueueCommands(B) ==
    /\ InsertRows(B)
    /\ pushes' = pushes \cup {Owner[c] : c \in B}

\* A stored profile goes to every enrolled device, and nobody is woken.
PushProfile(B) ==
    /\ \A c, e \in B : Owner[c] = Owner[e] => c = e
    /\ InsertRows(B)
    /\ UNCHANGED pushes

CommitCommands(B) ==
    /\ B \in txns
    /\ txns'   = txns \ {B}
    /\ status' = [c \in Command |-> IF c \in B THEN "queued" ELSE status[c]]
    /\ UNCHANGED <<queuedAt, clock, before, pushes, sess, dev, faults, hist>>

\* The commit fails; the pushes are on their way all the same.
RollbackCommands(B) ==
    /\ B \in txns /\ faults < MaxFaults
    /\ faults' = faults + 1
    /\ txns'   = txns \ {B}
    /\ status' = [c \in Command |-> IF c \in B THEN "aborted" ELSE status[c]]
    /\ UNCHANGED <<queuedAt, clock, before, pushes, sess, dev, hist>>

\* No push token, an APNs error (logged and swallowed), or APNs drops the push.
LosePush(d) ==
    /\ d \in pushes /\ faults < MaxFaults
    /\ faults' = faults + 1
    /\ pushes' = pushes \ {d}
    /\ UNCHANGED <<status, api, sess, dev, hist>>

--------------------------------------------------------------------------------
(* The MDM client of the operating system (outside the repository).             *)

Send(d, s, m) ==
    /\ phase[s] = "free"
    /\ phase'    = [phase EXCEPT ![s] = "received"]
    /\ caller'   = [caller EXCEPT ![s] = d]
    /\ msg'      = [msg EXCEPT ![s] = m]
    /\ next'     = [next EXCEPT ![s] = None]
    /\ devPhase' = [devPhase EXCEPT ![d] = "waiting"]
    /\ devMsg'   = [devMsg EXCEPT ![d] = m]
    /\ devConn'  = [devConn EXCEPT ![d] = s]

\* A push wakes the idle device, which asks for work.
Wake(d, s) ==
    /\ devPhase[d] = "idle" /\ d \in pushes
    /\ Send(d, s, Idle)
    /\ pushes' = pushes \ {d}
    /\ UNCHANGED <<status, api, faults, hist>>

\* It asks by itself.
Poll(d, s) ==
    /\ devPhase[d] = "idle" /\ d \notin pushes
    /\ Send(d, s, Idle)
    /\ UNCHANGED <<status, api, pushes, faults, hist>>

\* The device has executed its command and reports how that went.
Report(d, s, r) ==
    /\ devPhase[d] = "executing"
    /\ Send(d, s, [cmd |-> devMsg[d].cmd, res |-> r])
    /\ verdict' = [verdict EXCEPT ![devMsg[d].cmd] = @ \cup {r}]
    /\ UNCHANGED <<status, api, pushes, faults, handed, undone>>

\* It stops waiting for the answer.
Timeout(d) ==
    /\ devPhase[d] = "waiting" /\ devConn[d] # None /\ faults < MaxFaults
    /\ faults'  = faults + 1
    /\ devConn' = [devConn EXCEPT ![d] = None]
    /\ UNCHANGED <<status, api, pushes, sess, devPhase, devMsg, hist>>

\* With its connection gone, it sends the message again or drops it.
Resend(d, s) ==
    /\ devPhase[d] = "waiting" /\ devConn[d] = None
    /\ Send(d, s, devMsg[d])
    /\ UNCHANGED <<status, api, pushes, faults, hist>>

GiveUp(d) ==
    /\ devPhase[d] = "waiting" /\ devConn[d] = None
    /\ devPhase' = [devPhase EXCEPT ![d] = "idle"]
    /\ devMsg'   = [devMsg EXCEPT ![d] = Idle]
    /\ UNCHANGED <<status, api, pushes, sess, devConn, faults, hist>>

\* The device that still waits for s gets the answer n.
Receive(s, n) ==
    LET d == caller[s]
    IN  IF devConn[d] = s
        THEN /\ devConn' = [devConn EXCEPT ![d] = None]
             /\ devPhase' = [devPhase EXCEPT ![d] =
                                 IF n = None THEN "idle" ELSE "executing"]
             /\ devMsg' = [devMsg EXCEPT ![d] = [cmd |-> n, res |-> "Idle"]]
             /\ handed' = [c \in Command |->
                               IF c = n THEN handed[c] + 1 ELSE handed[c]]
        ELSE UNCHANGED <<dev, handed>>

\* Request s is over: its slot holds nothing any more.
Close(s) ==
    /\ phase'  = [phase EXCEPT ![s] = "free"]
    /\ caller' = [caller EXCEPT ![s] = None]
    /\ msg'    = [msg EXCEPT ![s] = Idle]
    /\ next'   = [next EXCEPT ![s] = None]

\* Request s moves on to p.
Advance(s, p) ==
    /\ phase' = [phase EXCEPT ![s] = p]
    /\ UNCHANGED <<caller, msg, next>>

\* Nobody answers the device that waits for s.
Disconnect(s) ==
    devConn' = [d \in Device |-> IF devConn[d] = s THEN None ELSE devConn[d]]

--------------------------------------------------------------------------------
(* PUT /mdm/apple/connect.                                                      *)

\* The body does not parse: an empty plist goes back and nothing is stored.
HandleUnreadable(s) ==
    /\ phase[s] = "received" /\ faults < MaxFaults
    /\ faults' = faults + 1
    /\ Close(s)
    /\ Receive(s, None)
    /\ UNCHANGED <<status, api, pushes, undone, verdict>>

\* A mutant: connect without the UPDATE of the device row that comes first.
HandleUnlocked(s) ==
    /\ phase[s] = "received"
    /\ LET due == Oldest(caller[s], Reported(msg[s]))
       IN  \/ due = {} /\ next' = [next EXCEPT ![s] = None]
           \/ \E c \in due \ Unencodable : next' = [next EXCEPT ![s] = c]
    /\ phase' = [phase EXCEPT ![s] = "open"]
    /\ UNCHANGED <<status, api, pushes, caller, msg, dev, faults, hist>>

\* The session gets the row lock of its device, stores the report and picks the
\* next command, all in its own transaction.
Handle(s) ==
    /\ phase[s] = "received"
    /\ ~RowLocked(caller[s])
    /\ LET due == Oldest(caller[s], Reported(msg[s]))
       IN  \/ due = {} /\ next' = [next EXCEPT ![s] = None]
           \/ \E c \in due \ Unencodable : next' = [next EXCEPT ![s] = c]
    /\ phase' = [phase EXCEPT ![s] = "open"]
    /\ UNCHANGED <<status, api, pushes, caller, msg, dev, faults, hist>>

\* The picked command does not encode: the exception leaves the route, get_db
\* rolls back (the stored report included) and the device gets an error.
HandleFails(s) ==
    /\ phase[s] = "received"
    /\ ~RowLocked(caller[s])
    /\ Oldest(caller[s], Reported(msg[s])) \cap Unencodable # {}
    /\ Close(s)
    /\ Disconnect(s)
    /\ UNCHANGED <<status, api, pushes, devPhase, devMsg, faults, hist>>

\* A mutant: the picked row is not marked.
CommitUnmarked(s) ==
    /\ phase[s] = IF CommitBeforeReply THEN "open" ELSE "replied"
    /\ status' = Reported(msg[s])
    /\ IF CommitBeforeReply THEN Advance(s, "committed") ELSE Close(s)
    /\ UNCHANGED <<api, pushes, dev, faults, hist>>

\* The transaction's writes reach the table and the row lock is released.
Commit(s) ==
    /\ phase[s] = IF CommitBeforeReply THEN "open" ELSE "replied"
    /\ status' = [c \in Command |-> IF c = next[s] THEN "sent"
                                    ELSE Reported(msg[s])[c]]
    /\ IF CommitBeforeReply THEN Advance(s, "committed") ELSE Close(s)
    /\ UNCHANGED <<api, pushes, dev, faults, hist>>

Reply(s) ==
    /\ phase[s] = IF CommitBeforeReply THEN "committed" ELSE "open"
    /\ IF CommitBeforeReply THEN Close(s) ELSE Advance(s, "replied")
    /\ Receive(s, next[s])
    /\ UNCHANGED <<status, api, pushes, faults, undone, verdict>>

\* The request dies at any point (worker killed, database error, an exception in
\* storing the report): what is not committed is rolled back.
Crash(s) ==
    /\ phase[s] # "free" /\ faults < MaxFaults
    /\ faults' = faults + 1
    /\ Close(s)
    /\ undone' = [c \in Command |-> IF phase[s] = "replied" /\ c = next[s]
                                    THEN undone[c] + 1 ELSE undone[c]]
    /\ Disconnect(s)
    /\ UNCHANGED <<status, api, pushes, devPhase, devMsg, handed, verdict>>

--------------------------------------------------------------------------------
WakingApi == \E B \in SUBSET Command :
    QueueCommands(B) \/ CommitCommands(B) \/ RollbackCommands(B)
Api == WakingApi \/ \E B \in SUBSET Command : PushProfile(B)
Client == \E d \in Device :
    \/ LosePush(d) \/ Timeout(d) \/ GiveUp(d)
    \/ \E s \in Session : Wake(d, s) \/ Poll(d, s) \/ Resend(d, s)
    \/ \E s \in Session, r \in Result : Report(d, s, r)
Server == \E s \in Session :
    \/ HandleUnreadable(s) \/ Handle(s) \/ HandleFails(s)
    \/ Commit(s) \/ Reply(s) \/ Crash(s)

Next == Api \/ Client \/ Server

Spec == Init /\ [][Next]_vars

\* The event loop runs every request on to its end; a device that was woken, is
\* done executing or was cut off goes on with its protocol.
Progress ==
    /\ \A B \in SUBSET Command : WF_vars(CommitCommands(B))
    /\ \A s \in Session : /\ WF_vars(Handle(s) \/ HandleFails(s))
                          /\ WF_vars(Commit(s))
                          /\ WF_vars(Reply(s))
    /\ \A d \in Device :
           /\ WF_vars(\E s \in Session : Wake(d, s))
           /\ WF_vars(\E s \in Session, r \in Result : Report(d, s, r))
           /\ WF_vars(GiveUp(d) \/ \E s \in Session : Resend(d, s))

\* Devices also contact the server by themselves every now and then.
Polling == \A d \in Device : WF_vars(\E s \in Session : Poll(d, s))

\* Only routes that wake the device, which does not contact the server fairly by itself.
PushSpec == Init /\ [][WakingApi \/ Client \/ Server]_vars /\ Progress
FairSpec == Spec /\ Progress /\ Polling

--------------------------------------------------------------------------------
(* Properties.                                                                  *)

\* Every variable has its type.
TypeOK ==
    /\ status \in [Command -> Status]
    /\ queuedAt \in [Command -> Nat] /\ clock \in Nat
    /\ txns \subseteq SUBSET Command
    /\ before \in [Command -> SUBSET Command]
    /\ pushes \subseteq Device
    /\ phase \in [Session -> {"free", "received", "open", "committed", "replied"}]
    /\ caller \in [Session -> Device \cup {None}]
    /\ \A s \in Session : phase[s] # "free" => caller[s] \in Device
    /\ msg \in [Session -> Message]
    /\ next \in [Session -> Command \cup {None}]
    /\ devPhase \in [Device -> {"idle", "waiting", "executing"}]
    /\ devMsg \in [Device -> [cmd : Command \cup {None}, res : Result \cup {"Idle"}]]
    /\ \A d \in Device :
           /\ devPhase[d] = "waiting"   => devMsg[d] \in Message
           /\ devPhase[d] = "executing" => devMsg[d].cmd \in Command
    /\ devConn \in [Device -> Session \cup {None}]
    /\ faults \in 0..MaxFaults
    /\ handed \in [Command -> Nat] /\ undone \in [Command -> Nat]
    /\ verdict \in [Command -> SUBSET Result]

\* A device receives a command once, and once more for every transaction that was
\* rolled back after its answer left, whatever connect requests it cuts off, repeats
\* or overlaps: a row is marked "sent" by a statement after the one that picks it.
HandedOnce == \A c \in Command : handed[c] <= 1 + undone[c]

\* No device ever sees a command whose API transaction has not committed or was
\* rolled back, though its push goes out before the commit.
OnlyCommittedHanded ==
    \A c \in Command : handed[c] > 0 => status[c] \in Committed

\* A settled row says what the device did: results of requests that were cut
\* off, resent or processed late never leave a status the device did not report.
StatusIsVerdict ==
    \A c \in Command :
        /\ status[c] = "completed" => "Acknowledged" \in verdict[c]
        /\ status[c] = "not_now"   => "NotNow" \in verdict[c]
        /\ status[c] = "failed"    => "Error" \in verdict[c]

\* A row settled as done or failed stays as it is, although _process_command_result
\* overwrites unconditionally and a late commit marks "sent": only the lock on the
\* device row, taken by the last_checkin UPDATE, keeps a request from marking what
\* another settled.  (A row at not_now may move on; that it does not is NotNowRequeued.)
SettledOnce ==
    [][\A c \in Command : undone[c] = 0 /\ status[c] \in Settled =>
          status'[c] = status[c]]_vars

\* A command is never overtaken by one of its device that was requested after it
\* had been committed (ORDER BY queued_at is by transaction start, so requests
\* that overlap may be overtaken), as long as no sent answer was rolled back.
NoOvertaking ==
    (\A c \in Command : undone[c] = 0) =>
        \A c \in Command : \A e \in before[c] :
            Owner[e] = Owner[c] /\ status[c] \in Dispatched => status[e] \in Dispatched

\* The table as every other transaction sees it.
CommittedTable ==
    [c \in Command |-> IF status[c] \in Committed THEN status[c] ELSE "absent"]

\* With the commit before the reply, the committed table is an instance of the
\* lifecycle the queue promises: handed out once before each answer, settled once.
Lifecycle == INSTANCE CommandLifecycle WITH stage <- CommittedTable

ImplementsLifecycle == Lifecycle!Spec

\* A command leaves the queue unless one that does not encode is ahead of it:
\* that one is picked first, fails and is rolled back on every connect.
LeavesQueue ==
    \A c \in Command :
        status[c] = "queued" ~>
            \/ status[c] # "queued"
            \/ \E p \in Unencodable : /\ Owner[p] = Owner[c] /\ status[p] = "queued"
                                      /\ queuedAt[p] <= queuedAt[c]

\* TROUBLESHOOTING.md:136, "Commands are queued in the DB - they won't be lost.
\* The device will execute them when it next connects."
NeverLost == \A c \in Command : status[c] = "queued" ~> handed[c] > 0

\* TROUBLESHOOTING.md:179, `NotNow`: "Device busy ... Retry - will re-queue
\* automatically".
NotNowRequeued == \A c \in Command : status[c] = "not_now" ~> status[c] # "not_now"

\* README.md:292-293, after the wake-up push the device connects and the server
\* returns the command plist.
PushDelivers == \A c \in Command : status[c] = "queued" ~> status[c] # "queued"
================================================================================
