---------------------------- MODULE DeviceLifecycle ----------------------------
(***************************************************************************)
(* The enrollment record of one Mac: the devices rows with its UDID, as    *)
(* Authenticate, TokenUpdate, CheckOut and the acknowledgement of an       *)
(* EraseDevice command change them, and as an administrator erases or      *)
(* deletes the device.                                                     *)
(*                                                                         *)
(* A check-in reads the row, takes its lock with an UPDATE and commits in  *)
(* separate steps; requests of the device overlap when it stops waiting,   *)
(* and also when the answer leaves before the commit.                      *)
(***************************************************************************)
EXTENDS Naturals, FiniteSets

CONSTANTS
    Row,               \* devices rows that can have the UDID
    Session,           \* requests of the Mac the server can hold at a time
    CommitBeforeReply, \* FastAPI up to 0.117: TRUE; from 0.118 on: FALSE
    MaxTokens,         \* bound on push tokens the Mac obtains
    MaxFaults,         \* bound on time-outs, crashes and failures
    None

ASSUME ModeAssumption ==
    CommitBeforeReply \in BOOLEAN /\ MaxTokens \in Nat /\ MaxFaults \in Nat
ASSUME NoneAssumption == None \notin Session
ASSUME RowAssumption == IsFiniteSet(Row)

VARIABLES
    rows,        \* rows[i]: status, push token (0: NULL), and whether commands refer to it
    phase,       \* phase[s]: progress of request s
    msg,         \* msg[s]: the message it brought
    seen,        \* seen[s]: the status its SELECT returned ("absent": no row)
    writes,      \* writes[s]: rows it updates or inserts when it commits
    eraseQueued, \* an EraseDevice command is queued
    mode,        \* what the MDM client of the Mac is doing
    token,       \* its current push token
    left,        \* how it last left management
    conn,        \* the request it waits for, or None
    faults,      \* time-outs, crashes and failures so far
    disturbed    \* history: since the last TokenUpdate requests overlapped or failed,
                 \* or the row was deleted

server == <<phase, msg, seen, writes>>
mac    == <<mode, token, left, conn>>
vars   == <<rows, server, eraseQueued, mac, faults, disturbed>>

--------------------------------------------------------------------------------
Gone   == {"unenrolled", "wiped", "spare"}
Status == {"absent", "authenticating", "enrolled"} \cup Gone

Message(k, t) == [kind |-> k, token |-> t]
Messages == {Message(k, 0) : k \in {"none", "Authenticate", "CheckOut", "Erased"}}
                \cup {Message("TokenUpdate", t) : t \in 1..MaxTokens}

Stored    == {i \in Row : rows[i].status # "absent"}
Quiet     == \A s \in Session : phase[s] = "free"
Locked(i) == \E s \in Session : phase[s] \in {"open", "replied"} /\ i \in writes[s]
Fault     == faults < MaxFaults /\ faults' = faults + 1

\* Mutants: the status the docstring of _handle_checkout speaks of; a check-out that
\* keeps the push token; a TokenUpdate that only fills an empty token.
CheckedOutInactive(was, row) ==
    [row EXCEPT !.status = IF was = "wiped" THEN "spare" ELSE "inactive", !.token = 0]
CheckedOutPushable(was, row) ==
    [row EXCEPT !.status = IF was = "wiped" THEN "spare" ELSE "unenrolled"]
TokenUpdatedOnce(t, row) ==
    [row EXCEPT !.status = "enrolled", !.token = IF row.token = 0 THEN t ELSE @]

\* A check-out decides by the status it has read.
CheckedOut(was, row) ==
    [row EXCEPT !.status = IF was = "wiped" THEN "spare" ELSE "unenrolled", !.token = 0]

TokenUpdated(t, row) == [row EXCEPT !.status = "enrolled", !.token = t]

\* What message m, whose SELECT returned the status was, leaves in a row.
StoredBy(m, was, row) ==
    CASE m.kind = "Authenticate" -> [row EXCEPT !.status = "authenticating"]
      [] m.kind = "TokenUpdate"  -> TokenUpdated(m.token, row)
      [] m.kind = "Erased"       -> [row EXCEPT !.status = "wiped", !.token = 0]
      [] m.kind = "CheckOut"     -> CheckedOut(was, row)

NoRow == [status |-> "absent", token |-> 0, referenced |-> FALSE]

Init ==
    /\ rows   = [i \in Row |-> NoRow]
    /\ phase  = [s \in Session |-> "free"]
    /\ msg    = [s \in Session |-> Message("none", 0)]
    /\ seen   = [s \in Session |-> "absent"]
    /\ writes = [s \in Session |-> {}]
    /\ eraseQueued = FALSE
    /\ mode = "out" /\ token = 0 /\ left = "never" /\ conn = None
    /\ faults = 0
    /\ disturbed = FALSE

--------------------------------------------------------------------------------
(* The MDM client of the operating system (outside the repository).             *)

Send(s, m) ==
    /\ conn = None /\ phase[s] = "free"
    /\ phase' = [phase EXCEPT ![s] = "received"]
    /\ msg'   = [msg EXCEPT ![s] = m]
    /\ conn'  = s
    /\ disturbed' = (~Quiet \/ (disturbed /\ m.kind # "TokenUpdate"))
    /\ UNCHANGED <<rows, seen, writes, faults>>

\* A user installs the enrollment profile.
Enroll(s) ==
    /\ mode = "out" /\ token < MaxTokens
    /\ Send(s, Message("Authenticate", 0))
    /\ mode' = "authenticating"
    /\ UNCHANGED <<token, left, eraseQueued>>

\* The push token: right after Authenticate, and again whenever it changes.
SendToken(s) ==
    /\ mode \in {"identified", "in"} /\ token < MaxTokens
    /\ token' = token + 1
    /\ Send(s, Message("TokenUpdate", token'))
    /\ mode' = IF mode = "in" THEN "in" ELSE "enrolling"
    /\ UNCHANGED <<left, eraseQueued>>

\* The profile is removed.
Remove(s) ==
    /\ mode = "in"
    /\ Send(s, Message("CheckOut", 0))
    /\ mode' = "out" /\ left' = "removed"
    /\ UNCHANGED <<token, eraseQueued>>

\* It acknowledges an EraseDevice command, and checks out before it is wiped.
AcknowledgeErase(s) ==
    /\ mode = "in" /\ eraseQueued
    /\ eraseQueued' = FALSE
    /\ Send(s, Message("Erased", 0))
    /\ mode' = "erasing"
    /\ UNCHANGED <<token, left>>

Leave(s) ==
    /\ mode = "erasing"
    /\ Send(s, Message("CheckOut", 0))
    /\ mode' = "out" /\ left' = "erased"
    /\ UNCHANGED <<token, eraseQueued>>

\* Without an answer the enrollment fails; otherwise the client goes on.
Unanswered == IF mode \in {"authenticating", "enrolling"} THEN "out" ELSE mode
Answered   == CASE mode = "authenticating" -> "identified"
                [] mode = "enrolling"      -> "in"
                [] OTHER                   -> mode

Timeout ==
    /\ conn # None /\ Fault
    /\ conn' = None /\ mode' = Unanswered
    /\ disturbed' = TRUE
    /\ UNCHANGED <<rows, server, eraseQueued, token, left>>

--------------------------------------------------------------------------------
(* PUT /mdm/apple/checkin, and PUT /mdm/apple/connect with an erase result.     *)

Close(s) ==
    /\ phase'  = [phase EXCEPT ![s] = "free"]
    /\ msg'    = [msg EXCEPT ![s] = Message("none", 0)]
    /\ seen'   = [seen EXCEPT ![s] = "absent"]
    /\ writes' = [writes EXCEPT ![s] = {}]

Advance(s, p) == phase' = [phase EXCEPT ![s] = p] /\ UNCHANGED <<msg, seen, writes>>

\* The request ends with an error: nothing is stored, and the Mac is told if it
\* still waits.
Fail(s) ==
    /\ Close(s)
    /\ IF conn = s THEN conn' = None /\ mode' = Unanswered ELSE UNCHANGED <<conn, mode>>
    /\ disturbed' = TRUE
    /\ UNCHANGED <<rows, eraseQueued, token, left>>

\* SELECT ... WHERE udid, scalar_one_or_none.
Load(s) ==
    /\ phase[s] = "received" /\ msg[s].kind # "Erased" /\ Cardinality(Stored) <= 1
    /\ seen'  = [seen EXCEPT ![s] = IF Stored = {} THEN "absent"
                                    ELSE (CHOOSE r \in {rows[i] : i \in Stored} : TRUE).status]
    /\ phase' = [phase EXCEPT ![s] = "loaded"]
    /\ UNCHANGED <<rows, msg, writes, eraseQueued, mac, faults, disturbed>>

\* Two rows with the UDID: MultipleResultsFound.
LoadFails(s) ==
    /\ phase[s] = "received" /\ msg[s].kind # "Erased" /\ Cardinality(Stored) > 1
    /\ Fail(s)
    /\ UNCHANGED faults

\* The UPDATE waits for the rows it matches.  Authenticate of an unknown device
\* returns before it; the erase acknowledgement has no SELECT before it.
UpdateRows(s) ==
    /\ phase[s] = IF msg[s].kind = "Erased" THEN "received" ELSE "loaded"
    /\ msg[s].kind = "TokenUpdate" => seen[s] # "absent"
    /\ IF msg[s].kind = "Authenticate" /\ seen[s] = "absent"
       THEN UNCHANGED writes
       ELSE /\ \A i \in Stored : ~Locked(i)
            /\ writes' = [writes EXCEPT ![s] = Stored]
    /\ phase' = [phase EXCEPT ![s] = "open"]
    /\ UNCHANGED <<rows, msg, seen, eraseQueued, mac, faults, disturbed>>

\* A mutant: a second first TokenUpdate would find the row of the first.
InsertRowLate(s) ==
    /\ phase[s] = "loaded" /\ msg[s].kind = "TokenUpdate" /\ seen[s] # "wiped"
    /\ \E i \in Row \ Stored :
          /\ \A q \in Session : i \notin writes[q]
          /\ writes' = [writes EXCEPT ![s] = {i}]
    /\ phase' = [phase EXCEPT ![s] = "open"]
    /\ UNCHANGED <<rows, msg, seen, eraseQueued, mac, faults, disturbed>>

\* The first TokenUpdate of an unknown device inserts its row.
InsertRow(s) ==
    /\ phase[s] = "loaded" /\ msg[s].kind = "TokenUpdate" /\ seen[s] = "absent"
    /\ \E i \in Row \ Stored :
          /\ \A q \in Session : i \notin writes[q]
          /\ writes' = [writes EXCEPT ![s] = {i}]
    /\ phase' = [phase EXCEPT ![s] = "open"]
    /\ UNCHANGED <<rows, msg, seen, eraseQueued, mac, faults, disturbed>>

\* No tenant has its push topic: the answer is the same and nothing is stored.
SkipUnknownTopic(s) ==
    /\ phase[s] = "loaded" /\ msg[s].kind = "TokenUpdate" /\ seen[s] = "absent" /\ Fault
    /\ phase' = [phase EXCEPT ![s] = "open"]
    /\ disturbed' = TRUE
    /\ UNCHANGED <<rows, msg, seen, writes, eraseQueued, mac>>

\* A new row comes with the PSSO profile command, unless building it fails.
Commit(s) ==
    /\ phase[s] = IF CommitBeforeReply THEN "open" ELSE "replied"
    /\ \E queued \in BOOLEAN :
          /\ IF queued THEN UNCHANGED faults ELSE Fault
          /\ rows' = [i \in Row |->
                IF i \notin writes[s] THEN rows[i]
                ELSE [StoredBy(msg[s], seen[s], rows[i]) EXCEPT
                         !.referenced = @ \/ (queued /\ i \notin Stored)]]
    /\ IF CommitBeforeReply THEN Advance(s, "committed") ELSE Close(s)
    /\ UNCHANGED <<eraseQueued, mac, disturbed>>

Reply(s) ==
    /\ phase[s] = IF CommitBeforeReply THEN "committed" ELSE "open"
    /\ IF CommitBeforeReply THEN Close(s) ELSE Advance(s, "replied")
    /\ IF conn = s THEN conn' = None /\ mode' = Answered ELSE UNCHANGED <<conn, mode>>
    /\ UNCHANGED <<rows, eraseQueued, token, left, faults, disturbed>>

\* The worker dies, the database fails, or the body does not parse.
Crash(s) ==
    /\ phase[s] # "free" /\ Fault
    /\ Fail(s)

--------------------------------------------------------------------------------
(* The administrator.                                                           *)

RequestErase(i) ==
    /\ i \in Stored /\ ~eraseQueued
    /\ eraseQueued' = TRUE
    /\ rows' = [rows EXCEPT ![i].referenced = TRUE]
    /\ UNCHANGED <<server, mac, faults, disturbed>>

\* DELETE fails on the foreign key as long as a command refers to the row.
DeleteDevice(i) ==
    /\ i \in Stored /\ ~rows[i].referenced /\ ~Locked(i)
    /\ rows' = [rows EXCEPT ![i] = NoRow]
    /\ disturbed' = TRUE
    /\ UNCHANGED <<server, eraseQueued, mac, faults>>

--------------------------------------------------------------------------------
Client == \/ \E s \in Session : \/ Enroll(s) \/ SendToken(s) \/ Remove(s)
                                \/ AcknowledgeErase(s) \/ Leave(s)
          \/ Timeout
Server == \E s \in Session :
    \/ Load(s) \/ LoadFails(s) \/ UpdateRows(s) \/ InsertRow(s) \/ SkipUnknownTopic(s)
    \/ Commit(s) \/ Reply(s) \/ Crash(s)
Admin == \E i \in Row : RequestErase(i) \/ DeleteDevice(i)

Next == Client \/ Server \/ Admin

Spec == Init /\ [][Next]_vars

--------------------------------------------------------------------------------
(* Properties.                                                                  *)

\* Every variable has its type.
TypeOK ==
    /\ rows \in [Row -> [status : Status, token : 0..MaxTokens, referenced : BOOLEAN]]
    /\ phase \in [Session -> {"free", "received", "loaded", "open", "committed", "replied"}]
    /\ msg \in [Session -> Messages]
    /\ seen \in [Session -> Status]
    /\ writes \in [Session -> SUBSET Row]
    /\ eraseQueued \in BOOLEAN
    /\ mode \in {"out", "authenticating", "identified", "enrolling", "in", "erasing"}
    /\ token \in 0..MaxTokens
    /\ left \in {"never", "removed", "erased"}
    /\ conn \in Session \cup {None}
    /\ faults \in 0..MaxFaults
    /\ disturbed \in BOOLEAN

\* With no request under way and none overlapped or failed since the last
\* TokenUpdate, a managed Mac has exactly one row, and that is "enrolled" with the
\* token a push needs.
EnrolledIsShown ==
    Quiet /\ ~disturbed /\ mode = "in" =>
        \E i \in Row : /\ Stored = {i}
                       /\ rows[i].status = "enrolled" /\ rows[i].token = token

\* Under the same condition, a Mac that has left shows so: "spare" exactly if it was
\* erased, and nobody pushes to it any more.
GoneIsShown ==
    Quiet /\ ~disturbed /\ mode = "out" /\ left # "never" =>
        \A i \in Stored : /\ rows[i].status = IF left = "erased" THEN "spare" ELSE "unenrolled"
                          /\ rows[i].token = 0

\* devices.udid has no unique constraint: a Mac that has a row gets a second one only
\* after its requests overlapped or failed, and its check-ins fail from then on.
SecondRow ==
    [][\A i \in Row : Stored # {} /\ i \notin Stored /\ i \in Stored' => disturbed]_vars

\* README.md:315, "Device completes wipe -> sends CheckOut -> status transitions to
\* spare".
SpareAfterWipe ==
    Quiet /\ mode = "out" /\ left = "erased" => \A i \in Stored : rows[i].status = "spare"
================================================================================
