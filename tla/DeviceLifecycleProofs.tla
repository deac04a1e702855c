------------------------- MODULE DeviceLifecycleProofs -------------------------
(***************************************************************************)
(* Proofs about DeviceLifecycle, for every set of rows and request slots,  *)
(* any number of tokens and faults, and both orders of commit and reply.   *)
(***************************************************************************)
EXTENDS DeviceLifecycle, FiniteSetTheorems, TLAPS

--------------------------------------------------------------------------------
(* The inductive invariant, in parts.                                           *)

\* A request under way has a message, it writes only in its transaction, and the one
\* the Mac waits for is unanswered.
SlotInv ==
    /\ \A s \in Session : phase[s] # "free" => msg[s].kind # "none"
    /\ \A s \in Session : phase[s] \in {"free", "received", "loaded"} => writes[s] = {}
    /\ conn # None => phase[conn] \notin {"free", "replied"}
    /\ \A s \in Session : phase[s] # IF CommitBeforeReply THEN "replied" ELSE "committed"

\* What the rows say about a Mac that is managed, has left, or was just wiped.
ShownEnrolled == \E i \in Row : /\ Stored = {i}
                                /\ rows[i].status = "enrolled" /\ rows[i].token = token
ShownGone  == \A i \in Stored : /\ rows[i].status = IF left = "erased" THEN "spare" ELSE "unenrolled"
                                /\ rows[i].token = 0
ShownWiped == \E i \in Row : Stored = {i} /\ rows[i].status = "wiped"

OneRow  == \E i \in Row : Stored = {i}
Writing == {"open", "replied"}

\* How far an undisturbed request has come, for each kind of message.
TokenStage(s) == msg[s].kind = "TokenUpdate" =>
    /\ msg[s].token = token
    /\ mode = "in" \/ (mode = "enrolling" /\ phase[s] # "replied")
    /\ phase[s] = "loaded" => IF seen[s] = "absent" THEN Stored = {} ELSE OneRow
    /\ phase[s] \in Writing => \E i \in Row : writes[s] = {i} /\ Stored \subseteq {i}
    /\ phase[s] = "committed" => ShownEnrolled
CheckOutStage(s) == msg[s].kind = "CheckOut" =>
    /\ mode = "out"
    /\ phase[s] # "committed" => OneRow
    /\ phase[s] = "received" =>
           \A i \in Stored : rows[i].status = "wiped" <=> left = "erased"
    /\ phase[s] \in {"loaded"} \cup Writing => (seen[s] = "wiped" <=> left = "erased")
    /\ phase[s] \in Writing => writes[s] = Stored
    /\ phase[s] = "committed" => ShownGone
EraseStage(s) == msg[s].kind = "Erased" =>
    /\ mode = "erasing"
    /\ phase[s] # "committed" => OneRow
    /\ phase[s] \in Writing => writes[s] = Stored
    /\ phase[s] = "committed" => ShownWiped
AuthenticateStage(s) == msg[s].kind = "Authenticate" =>
    /\ mode \in {"authenticating", "identified"}
    /\ phase[s] \in Writing => writes[s] \subseteq Stored

Stage(s) ==
    /\ phase[s] # "replied" => conn = s
    /\ TokenStage(s) /\ CheckOutStage(s) /\ EraseStage(s) /\ AuthenticateStage(s)

\* Undisturbed, there is at most one request, it is in order, and between requests the
\* record is right.
Resting ==
    /\ mode = "in" => ShownEnrolled
    /\ mode = "out" /\ left # "never" => ShownGone
    /\ mode = "erasing" => ShownWiped
CalmInv == ~disturbed =>
    /\ \A s, t \in Session : phase[s] # "free" /\ phase[t] # "free" => s = t
    /\ \A s \in Session : phase[s] # "free" => Stage(s)
    /\ Quiet => Resting

IInv == TypeOK /\ SlotInv /\ CalmInv

--------------------------------------------------------------------------------
(* Type correctness: one step per action.                                       *)

\* A message is one of the four kinds or none, and only a TokenUpdate has a token.
LEMMA MessageFacts ==
  ASSUME NEW m \in Messages
  PROVE  /\ m.kind \in {"none", "Authenticate", "CheckOut", "Erased", "TokenUpdate"}
         /\ m.token \in 0..MaxTokens
BY ModeAssumption DEF Messages, Message

LEMMA MessageTypes ==
  /\ Message("none", 0) \in Messages /\ Message("Authenticate", 0) \in Messages
  /\ Message("CheckOut", 0) \in Messages /\ Message("Erased", 0) \in Messages
  /\ \A t \in 1..MaxTokens : Message("TokenUpdate", t) \in Messages
BY DEF Messages

Rows == [status : Status, token : 0..MaxTokens, referenced : BOOLEAN]

\* What a request leaves in a row, by the kind of its message.
LEMMA StoredFacts ==
  ASSUME NEW m \in Messages, m.kind # "none", NEW was \in Status, NEW row \in Rows
  PROVE  /\ StoredBy(m, was, row) \in Rows
         /\ StoredBy(m, was, row).status # "absent"
         /\ m.kind = "TokenUpdate" => /\ StoredBy(m, was, row).status = "enrolled"
                                      /\ StoredBy(m, was, row).token = m.token
         /\ m.kind = "Erased" => StoredBy(m, was, row).status = "wiped"
         /\ m.kind = "CheckOut" =>
                /\ StoredBy(m, was, row).status = IF was = "wiped" THEN "spare" ELSE "unenrolled"
                /\ StoredBy(m, was, row).token = 0
<1> USE ModeAssumption DEF Rows, Status, Gone
<1>1. CASE m.kind = "Authenticate"
  <2>1. StoredBy(m, was, row) = [row EXCEPT !.status = "authenticating"]
    BY <1>1 DEF StoredBy
  <2> QED BY <1>1, <2>1
<1>2. CASE m.kind = "TokenUpdate"
  <2>1. StoredBy(m, was, row) = [row EXCEPT !.status = "enrolled", !.token = m.token]
    BY <1>2 DEF StoredBy, TokenUpdated
  <2> QED BY <1>2, <2>1, MessageFacts
<1>3. CASE m.kind = "Erased"
  <2>1. StoredBy(m, was, row) = [row EXCEPT !.status = "wiped", !.token = 0]
    <3>1. m.kind # "Authenticate" /\ m.kind # "TokenUpdate" /\ m.kind # "CheckOut"
      BY <1>3
    <3> QED BY <1>3, <3>1, Zenon DEF StoredBy
  <2>2. 0 \in 0..MaxTokens
    OBVIOUS
  <2>3. StoredBy(m, was, row) \in Rows /\ StoredBy(m, was, row).status = "wiped"
    BY <2>1, <2>2
  <2> QED BY <1>3, <2>3
<1>4. CASE m.kind = "CheckOut"
  <2>1. StoredBy(m, was, row) =
            [row EXCEPT !.status = IF was = "wiped" THEN "spare" ELSE "unenrolled", !.token = 0]
    <3>1. m.kind # "Authenticate" /\ m.kind # "TokenUpdate" /\ m.kind # "Erased"
      BY <1>4
    <3> QED BY <1>4, <3>1, Zenon DEF StoredBy, CheckedOut
  <2> DEFINE st == IF was = "wiped" THEN "spare" ELSE "unenrolled"
  <2>2. 0 \in 0..MaxTokens /\ st \in {"unenrolled", "spare"}
    OBVIOUS
  <2>3. StoredBy(m, was, row) = [row EXCEPT !.status = st, !.token = 0]
    BY <2>1
  <2> HIDE DEF st
  <2>4. /\ StoredBy(m, was, row) \in Rows /\ StoredBy(m, was, row).status = st
        /\ StoredBy(m, was, row).token = 0
    BY <2>2, <2>3
  <2> QED BY <1>4, <2>2, <2>4 DEF st
<1> QED BY <1>1, <1>2, <1>3, <1>4, MessageFacts

\* What a commit leaves in the rows.
LEMMA CommitFacts ==
  ASSUME TypeOK, SlotInv, NEW s \in Session, Commit(s)
  PROVE  /\ rows' \in [Row -> Rows]
         /\ msg[s] \in Messages /\ msg[s].kind # "none" /\ seen[s] \in Status
         /\ \A i \in Row :
                IF i \notin writes[s] THEN rows'[i] = rows[i]
                ELSE /\ rows'[i].status = StoredBy(msg[s], seen[s], rows[i]).status
                     /\ rows'[i].token = StoredBy(msg[s], seen[s], rows[i]).token
<1>1. msg[s] \in Messages /\ msg[s].kind # "none" /\ seen[s] \in Status
  BY DEF Commit, SlotInv, TypeOK
<1> DEFINE after(i) == StoredBy(msg[s], seen[s], rows[i])
<1>2. \A i \in Row : after(i) \in Rows
  BY <1>1, StoredFacts DEF TypeOK, Rows
<1>3. PICK queued \in BOOLEAN :
          rows' = [i \in Row |-> IF i \notin writes[s] THEN rows[i]
                                 ELSE [after(i) EXCEPT
                                          !.referenced = @ \/ (queued /\ i \notin Stored)]]
  BY DEF Commit
<1> HIDE DEF after
<1>4. ASSUME NEW i \in Row, i \in writes[s]
      PROVE  /\ rows'[i] \in Rows
             /\ rows'[i].status = after(i).status
             /\ rows'[i].token = after(i).token
  <2>1. rows'[i] = [after(i) EXCEPT !.referenced = after(i).referenced
                                                     \/ (queued /\ i \notin Stored)]
    BY <1>3, <1>4
  <2>2. (after(i).referenced \/ (queued /\ i \notin Stored)) \in BOOLEAN
    OBVIOUS
  <2> DEFINE ref == after(i).referenced \/ (queued /\ i \notin Stored)
  <2> HIDE DEF ref
  <2>3. rows'[i] = [after(i) EXCEPT !.referenced = ref] /\ ref \in BOOLEAN
    BY <2>1, <2>2 DEF ref
  <2>4. after(i) \in Rows
    BY <1>2
  <2> QED BY <2>3, <2>4 DEF Rows
<1>5. ASSUME NEW i \in Row, i \notin writes[s]
      PROVE  rows'[i] = rows[i] /\ rows'[i] \in Rows
  BY <1>3, <1>5 DEF TypeOK, Rows
<1>6. rows' = [i \in Row |-> rows'[i]]
  BY <1>3
<1>7. \A i \in Row : rows'[i] \in Rows
  BY <1>4, <1>5
<1>8. rows' \in [Row -> Rows]
  BY <1>6, <1>7
<1> QED BY <1>1, <1>4, <1>5, <1>8 DEF after

LEMMA SendType ==
  ASSUME TypeOK, NEW s \in Session, NEW m \in Messages, Send(s, m)
  PROVE  /\ phase' \in [Session -> {"free", "received", "loaded", "open", "committed", "replied"}]
         /\ msg' \in [Session -> Messages]
         /\ conn' \in Session \cup {None}
         /\ disturbed' \in BOOLEAN
         /\ UNCHANGED <<rows, seen, writes, faults>>
<1>1. disturbed' \in BOOLEAN
  BY DEF TypeOK, Send
<1> QED BY <1>1 DEF TypeOK, Send

LEMMA TypeStep ==
  ASSUME TypeOK, SlotInv, [Next]_vars
  PROVE  TypeOK'
<1> USE ModeAssumption DEF server, mac
<1>1. ASSUME NEW s \in Session, Enroll(s)
      PROVE  TypeOK'
  BY <1>1, SendType, MessageTypes DEF TypeOK, Enroll
<1>2. ASSUME NEW s \in Session, SendToken(s)
      PROVE  TypeOK'
  <2>1. token' \in 1..MaxTokens
    BY <1>2 DEF SendToken, TypeOK
  <2>2. Message("TokenUpdate", token') \in Messages
    BY <2>1, MessageTypes
  <2> QED BY <1>2, <2>1, <2>2, SendType DEF TypeOK, SendToken
<1>3. ASSUME NEW s \in Session, Remove(s)
      PROVE  TypeOK'
  BY <1>3, SendType, MessageTypes DEF TypeOK, Remove
<1>4. ASSUME NEW s \in Session, AcknowledgeErase(s)
      PROVE  TypeOK'
  BY <1>4, SendType, MessageTypes DEF TypeOK, AcknowledgeErase
<1>5. ASSUME NEW s \in Session, Leave(s)
      PROVE  TypeOK'
  BY <1>5, SendType, MessageTypes DEF TypeOK, Leave
<1>6. CASE Timeout
  BY <1>6 DEF Timeout, Fault, Unanswered, TypeOK
<1>7. ASSUME NEW s \in Session, Load(s)
      PROVE  TypeOK'
  <2>1. seen'[s] \in Status
    <3>1. CASE Stored = {}
      BY <1>7, <3>1 DEF Load, TypeOK, Status
    <3>2. CASE Stored # {}
      <4> DEFINE found == CHOOSE r \in {rows[i] : i \in Stored} : TRUE
      <4>1. found \in {rows[i] : i \in Stored}
        BY <3>2
      <4>2. found.status \in Status
        BY <4>1 DEF TypeOK, Stored
      <4> QED BY <1>7, <3>2, <4>2 DEF Load, TypeOK
    <3> QED BY <3>1, <3>2
  <2> QED BY <1>7, <2>1 DEF Load, TypeOK
<1>8. ASSUME NEW s \in Session, LoadFails(s)
      PROVE  TypeOK'
  BY <1>8, MessageTypes DEF LoadFails, Fail, Close, Unanswered, TypeOK, Status
<1>9. ASSUME NEW s \in Session, UpdateRows(s)
      PROVE  TypeOK'
  BY <1>9 DEF UpdateRows, Stored, TypeOK
<1>10. ASSUME NEW s \in Session, InsertRow(s)
       PROVE  TypeOK'
  BY <1>10 DEF InsertRow, TypeOK
<1>11. ASSUME NEW s \in Session, SkipUnknownTopic(s)
       PROVE  TypeOK'
  BY <1>11 DEF SkipUnknownTopic, Fault, TypeOK
<1>12. ASSUME NEW s \in Session, Commit(s)
       PROVE  TypeOK'
  <2>1. rows' \in [Row -> Rows]
    BY <1>12, CommitFacts
  <2>2. faults' \in 0..MaxFaults
    BY <1>12 DEF Commit, Fault, TypeOK
  <2>3. /\ phase' \in [Session -> {"free", "received", "loaded", "open", "committed", "replied"}]
        /\ msg' \in [Session -> Messages] /\ seen' \in [Session -> Status]
        /\ writes' \in [Session -> SUBSET Row]
    <3>1. CASE Advance(s, "committed")
      BY <1>12, <3>1 DEF Advance, TypeOK
    <3>2. CASE Close(s)
      BY <1>12, <3>2, MessageTypes DEF Close, TypeOK, Status
    <3> QED BY <1>12, <3>1, <3>2 DEF Commit
  <2>4. UNCHANGED <<eraseQueued, mac, disturbed>>
    BY <1>12 DEF Commit
  <2> QED BY <2>1, <2>2, <2>3, <2>4 DEF TypeOK, Rows
<1>13. ASSUME NEW s \in Session, Reply(s)
       PROVE  TypeOK'
  <2>1. Answered \in {"out", "authenticating", "identified", "enrolling", "in", "erasing"}
    <3>1. CASE mode = "authenticating"
      BY <3>1 DEF Answered
    <3>2. CASE mode = "enrolling"
      BY <3>2 DEF Answered
    <3>3. CASE mode \notin {"authenticating", "enrolling"}
      BY <3>3 DEF Answered, TypeOK
    <3> QED BY <3>1, <3>2, <3>3
  <2>2. conn' \in Session \cup {None}
        /\ mode' \in {"out", "authenticating", "identified", "enrolling", "in", "erasing"}
    BY <1>13, <2>1 DEF Reply, TypeOK
  <2>3. /\ phase' \in [Session -> {"free", "received", "loaded", "open", "committed", "replied"}]
        /\ msg' \in [Session -> Messages] /\ seen' \in [Session -> Status]
        /\ writes' \in [Session -> SUBSET Row]
    <3>1. CASE Advance(s, "replied")
      BY <1>13, <3>1 DEF Advance, TypeOK
    <3>2. CASE Close(s)
      BY <1>13, <3>2, MessageTypes DEF Close, TypeOK, Status
    <3> QED BY <1>13, <3>1, <3>2 DEF Reply
  <2> QED BY <1>13, <2>2, <2>3 DEF Reply, TypeOK
<1>14. ASSUME NEW s \in Session, Crash(s)
       PROVE  TypeOK'
  BY <1>14, MessageTypes DEF Crash, Fail, Fault, Close, Unanswered, TypeOK, Status
<1>15. ASSUME NEW i \in Row, RequestErase(i)
       PROVE  TypeOK'
  <2>1. rows[i] \in Rows
    BY DEF TypeOK, Rows
  <2>2. [rows[i] EXCEPT !.referenced = TRUE] \in Rows
    BY <2>1 DEF Rows
  <2>3. rows' \in [Row -> Rows]
    BY <1>15, <2>2 DEF RequestErase, TypeOK, Rows
  <2> QED BY <1>15, <2>3 DEF RequestErase, TypeOK, Rows
<1>16. ASSUME NEW i \in Row, DeleteDevice(i)
       PROVE  TypeOK'
  BY <1>16 DEF DeleteDevice, NoRow, TypeOK, Status
<1>17. CASE UNCHANGED vars
  BY <1>17 DEF vars, TypeOK
<1> QED
  BY <1>1, <1>2, <1>3, <1>4, <1>5, <1>6, <1>7, <1>8, <1>9, <1>10, <1>11, <1>12, <1>13, <1>14,
     <1>15, <1>16, <1>17 DEF Next, Client, Server, Admin

--------------------------------------------------------------------------------
(* The part about slots: one step per action.                                   *)

LEMMA SlotStep ==
  ASSUME TypeOK, SlotInv, [Next]_vars
  PROVE  SlotInv'
<1> USE ModeAssumption, NoneAssumption DEF server, mac, TypeOK, SlotInv
<1>1. ASSUME NEW s \in Session, NEW m \in Messages, m.kind # "none", Send(s, m)
      PROVE  SlotInv'
  BY <1>1 DEF Send
<1>2. ASSUME NEW s \in Session, Close(s), conn' \in {conn, None}, conn = s => conn' = None
      PROVE  SlotInv'
  BY <1>2 DEF Close, Message
<1>3. ASSUME NEW s \in Session, Enroll(s) \/ SendToken(s) \/ Remove(s) \/ AcknowledgeErase(s)
                                     \/ Leave(s)
      PROVE  SlotInv'
  <2>1. CASE Enroll(s)
    <3>1. Send(s, Message("Authenticate", 0))
      BY <2>1 DEF Enroll
    <3> QED BY <3>1, <1>1, MessageTypes DEF Message
  <2>2. CASE SendToken(s)
    <3>1. Send(s, Message("TokenUpdate", token')) /\ token' \in 1..MaxTokens
      BY <2>2 DEF SendToken
    <3> QED BY <3>1, <1>1, MessageTypes DEF Message
  <2>3. CASE Remove(s)
    <3>1. Send(s, Message("CheckOut", 0))
      BY <2>3 DEF Remove
    <3> QED BY <3>1, <1>1, MessageTypes DEF Message
  <2>4. CASE AcknowledgeErase(s)
    <3>1. Send(s, Message("Erased", 0))
      BY <2>4 DEF AcknowledgeErase
    <3> QED BY <3>1, <1>1, MessageTypes DEF Message
  <2>5. CASE Leave(s)
    <3>1. Send(s, Message("CheckOut", 0))
      BY <2>5 DEF Leave
    <3> QED BY <3>1, <1>1, MessageTypes DEF Message
  <2> QED BY <1>3, <2>1, <2>2, <2>3, <2>4, <2>5
<1>4. CASE Timeout
  BY <1>4 DEF Timeout
<1>5. ASSUME NEW s \in Session, Load(s)
      PROVE  SlotInv'
  BY <1>5 DEF Load
<1>6. ASSUME NEW s \in Session, LoadFails(s) \/ Crash(s)
      PROVE  SlotInv'
  <2>1. Close(s) /\ conn' \in {conn, None} /\ (conn = s => conn' = None)
    BY <1>6 DEF LoadFails, Crash, Fail
  <2> QED BY <2>1, <1>2
<1>7. ASSUME NEW s \in Session, UpdateRows(s)
      PROVE  SlotInv'
  BY <1>7 DEF UpdateRows
<1>8. ASSUME NEW s \in Session, InsertRow(s)
      PROVE  SlotInv'
  BY <1>8 DEF InsertRow
<1>9. ASSUME NEW s \in Session, SkipUnknownTopic(s)
      PROVE  SlotInv'
  BY <1>9 DEF SkipUnknownTopic
<1>10. ASSUME NEW s \in Session, Commit(s)
       PROVE  SlotInv'
  <2>1. CASE CommitBeforeReply
    <3>1. Advance(s, "committed") /\ conn' = conn
      BY <1>10, <2>1 DEF Commit
    <3>2. phase[s] = "open"
      BY <1>10, <2>1 DEF Commit
    <3> QED BY <2>1, <3>1, <3>2 DEF Advance
  <2>2. CASE ~CommitBeforeReply
    <3>1. Close(s) /\ conn' = conn /\ phase[s] = "replied"
      BY <1>10, <2>2 DEF Commit
    <3> QED BY <3>1, <1>2
  <2> QED BY <2>1, <2>2
<1>11. ASSUME NEW s \in Session, Reply(s)
       PROVE  SlotInv'
  <2>1. conn' \in {conn, None} /\ (conn = s => conn' = None)
    BY <1>11 DEF Reply
  <2>2. CASE CommitBeforeReply
    BY <1>11, <1>2, <2>1, <2>2 DEF Reply
  <2>3. CASE ~CommitBeforeReply
    <3>1. Advance(s, "replied") /\ phase[s] = "open"
      BY <1>11, <2>3 DEF Reply
    <3> QED BY <2>1, <2>3, <3>1 DEF Advance
  <2> QED BY <2>2, <2>3
<1>12. ASSUME NEW i \in Row, RequestErase(i) \/ DeleteDevice(i)
       PROVE  SlotInv'
  BY <1>12 DEF RequestErase, DeleteDevice
<1>13. CASE UNCHANGED vars
  BY <1>13 DEF vars
<1> HIDE DEF TypeOK, SlotInv
<1> QED
  BY <1>3, <1>4, <1>5, <1>6, <1>7, <1>8, <1>9, <1>10, <1>11, <1>12, <1>13
  DEF Next, Client, Server, Admin

--------------------------------------------------------------------------------
(* The part about undisturbed runs.                                             *)

\* Undisturbed, a busy request is the only one.
LEMMA Alone ==
  ASSUME CalmInv, ~disturbed, NEW s \in Session, phase[s] # "free"
  PROVE  Stage(s) /\ \A t \in Session : t # s => phase[t] = "free"
BY DEF CalmInv

\* It is enough to look at the request that moves.
LEMMA OnlyOne ==
  ASSUME NEW s \in Session, \A t \in Session : t # s => phase'[t] = "free",
         phase'[s] # "free" => Stage(s)', phase'[s] = "free" => Resting'
  PROVE  CalmInv'
BY DEF CalmInv, Quiet

\* A message sent undisturbed finds the server quiet and the record right.
LEMMA SendAlone ==
  ASSUME IInv, NEW s \in Session, NEW m \in Messages, Send(s, m), ~disturbed'
  PROVE  /\ m.kind = "TokenUpdate" \/ Resting
         /\ \A t \in Session : t # s => phase'[t] = "free"
         /\ phase'[s] = "received" /\ msg'[s] = m /\ conn' = s
         /\ UNCHANGED rows
BY DEF IInv, TypeOK, CalmInv, Send, Quiet

\* One row, if the record shows a managed or a wiped Mac.
LEMMA ShownIsOneRow ==
  /\ ShownEnrolled => OneRow /\ \A i \in Stored : rows[i].status # "wiped"
  /\ ShownWiped => OneRow /\ \A i \in Stored : rows[i].status = "wiped"
BY DEF ShownEnrolled, ShownWiped, OneRow

\* At most one row is stored, when a SELECT succeeds.
LEMMA AtMostOne ==
  ASSUME Cardinality(Stored) <= 1, Stored # {}
  PROVE  OneRow
<1>1. IsFiniteSet(Stored)
  BY RowAssumption, FS_Subset DEF Stored
<1>2. Cardinality(Stored) \in Nat /\ Cardinality(Stored) # 0
  BY <1>1, FS_CardinalityType, FS_EmptySet
<1>3. Cardinality(Stored) = 1
  BY <1>2
<1>4. PICK i : Stored = {i}
  BY <1>1, <1>3, FS_Singleton
<1>5. i \in Row
  BY <1>4 DEF Stored
<1> QED BY <1>4, <1>5 DEF OneRow

\* The Mac sends a message.
LEMMA SendCalm ==
  ASSUME IInv, NEW s \in Session, ~disturbed',
         Enroll(s) \/ SendToken(s) \/ Remove(s) \/ AcknowledgeErase(s) \/ Leave(s)
  PROVE  CalmInv'
<1>1. CASE Enroll(s)
  <2>1. Send(s, Message("Authenticate", 0)) /\ mode' = "authenticating"
    BY <1>1 DEF Enroll
  <2>2. msg'[s].kind = "Authenticate" /\ phase'[s] = "received" /\ conn' = s
        /\ \A t \in Session : t # s => phase'[t] = "free"
    BY <2>1, SendAlone, MessageTypes DEF Message
  <2>3. Stage(s)'
    BY <2>1, <2>2 DEF Stage, TokenStage, CheckOutStage, EraseStage, AuthenticateStage, Writing
  <2> QED BY <2>2, <2>3, OnlyOne
<1>2. CASE SendToken(s)
  <2>1. Send(s, Message("TokenUpdate", token')) /\ mode' \in {"in", "enrolling"}
        /\ token' \in 1..MaxTokens
    BY <1>2, ModeAssumption DEF SendToken, IInv, TypeOK
  <2>2. msg'[s].kind = "TokenUpdate" /\ msg'[s].token = token'
        /\ phase'[s] = "received" /\ conn' = s
        /\ \A t \in Session : t # s => phase'[t] = "free"
    BY <2>1, SendAlone, MessageTypes DEF Message
  <2>3. Stage(s)'
    BY <2>1, <2>2 DEF Stage, TokenStage, CheckOutStage, EraseStage, AuthenticateStage, Writing
  <2> QED BY <2>2, <2>3, OnlyOne
<1>3. CASE Remove(s)
  <2>1. Send(s, Message("CheckOut", 0)) /\ mode = "in" /\ mode' = "out" /\ left' = "removed"
    BY <1>3 DEF Remove
  <2>2. msg'[s].kind = "CheckOut" /\ phase'[s] = "received" /\ conn' = s /\ UNCHANGED rows
        /\ Resting
        /\ \A t \in Session : t # s => phase'[t] = "free"
    BY <2>1, SendAlone, MessageTypes DEF Message
  <2>3. OneRow /\ \A i \in Stored : rows[i].status # "wiped"
    BY <2>1, <2>2, ShownIsOneRow DEF Resting
  <2>4. OneRow' /\ \A i \in Stored' : rows'[i].status # "wiped"
    BY <2>2, <2>3 DEF OneRow, Stored
  <2>5. Stage(s)'
    BY <2>1, <2>2, <2>4 DEF Stage, TokenStage, CheckOutStage, EraseStage, AuthenticateStage, Writing
  <2> QED BY <2>2, <2>5, OnlyOne
<1>4. CASE AcknowledgeErase(s)
  <2>1. Send(s, Message("Erased", 0)) /\ mode = "in" /\ mode' = "erasing"
    BY <1>4 DEF AcknowledgeErase
  <2>2. msg'[s].kind = "Erased" /\ phase'[s] = "received" /\ conn' = s /\ UNCHANGED rows
        /\ Resting
        /\ \A t \in Session : t # s => phase'[t] = "free"
    BY <2>1, SendAlone, MessageTypes DEF Message
  <2>3. OneRow
    BY <2>1, <2>2, ShownIsOneRow DEF Resting
  <2>4. OneRow'
    BY <2>2, <2>3 DEF OneRow, Stored
  <2>5. Stage(s)'
    BY <2>1, <2>2, <2>4 DEF Stage, TokenStage, CheckOutStage, EraseStage, AuthenticateStage, Writing
  <2> QED BY <2>2, <2>5, OnlyOne
<1>5. CASE Leave(s)
  <2>1. Send(s, Message("CheckOut", 0)) /\ mode = "erasing" /\ mode' = "out" /\ left' = "erased"
    BY <1>5 DEF Leave
  <2>2. msg'[s].kind = "CheckOut" /\ phase'[s] = "received" /\ conn' = s /\ UNCHANGED rows
        /\ Resting
        /\ \A t \in Session : t # s => phase'[t] = "free"
    BY <2>1, SendAlone, MessageTypes DEF Message
  <2>3. OneRow /\ \A i \in Stored : rows[i].status = "wiped"
    BY <2>1, <2>2, ShownIsOneRow DEF Resting
  <2>4. OneRow' /\ \A i \in Stored' : rows'[i].status = "wiped"
    BY <2>2, <2>3 DEF OneRow, Stored
  <2>5. Stage(s)'
    BY <2>1, <2>2, <2>4 DEF Stage, TokenStage, CheckOutStage, EraseStage, AuthenticateStage, Writing
  <2> QED BY <2>2, <2>5, OnlyOne
<1> QED BY <1>1, <1>2, <1>3, <1>4, <1>5

\* A request reads the row.
LEMMA LoadCalm ==
  ASSUME IInv, NEW s \in Session, ~disturbed', Load(s)
  PROVE  CalmInv'
<1>1. ~disturbed /\ UNCHANGED <<rows, msg, conn, mode, token, left>> /\ phase[s] = "received"
      /\ Cardinality(Stored) <= 1
  BY DEF Load, mac
<1>2. Stage(s) /\ \A t \in Session : t # s => phase[t] = "free"
  BY <1>1, Alone DEF IInv
<1>3. phase'[s] = "loaded" /\ \A t \in Session : t # s => phase'[t] = "free"
  BY <1>2 DEF Load, IInv, TypeOK
<1>4. Stored = {} => seen'[s] = "absent"
  BY DEF Load, IInv, TypeOK
<1>5. \A i \in Row : Stored = {i} => seen'[s] = rows[i].status /\ seen'[s] # "absent"
  <2> SUFFICES ASSUME NEW i \in Row, Stored = {i}
               PROVE  seen'[s] = rows[i].status /\ seen'[s] # "absent"
    OBVIOUS
  <2> DEFINE found == CHOOSE r \in {rows[j] : j \in Stored} : TRUE
  <2>1. found \in {rows[j] : j \in Stored}
    OBVIOUS
  <2>2. found = rows[i]
    BY <2>1
  <2>3. seen'[s] = found.status
    <3> HIDE DEF found
    <3>1. seen' = [seen EXCEPT ![s] = found.status]
      BY DEF Load, found
    <3> QED BY <3>1 DEF IInv, TypeOK
  <2>4. i \in Stored
    OBVIOUS
  <2> HIDE DEF found
  <2> QED BY <2>2, <2>3, <2>4 DEF Stored
<1>6. Stored = {} \/ OneRow
  BY <1>1, AtMostOne
<1>7. Stored' = Stored
  BY <1>1 DEF Stored
<1>8. TokenStage(s)'
  BY <1>1, <1>2, <1>3, <1>4, <1>5, <1>6, <1>7 DEF Stage, TokenStage, OneRow, Writing
<1>9. CheckOutStage(s)'
  BY <1>1, <1>2, <1>3, <1>5, <1>7 DEF Stage, CheckOutStage, OneRow, Writing
<1>10. EraseStage(s)' /\ AuthenticateStage(s)'
  BY <1>1, <1>2, <1>3, <1>7 DEF Stage, EraseStage, AuthenticateStage, OneRow, Writing, Load
<1>11. Stage(s)'
  BY <1>1, <1>2, <1>3, <1>8, <1>9, <1>10 DEF Stage
<1> QED BY <1>3, <1>11, OnlyOne

\* A request takes its locks, or prepares the first row.
LEMMA WriteCalm ==
  ASSUME IInv, NEW s \in Session, ~disturbed', UpdateRows(s) \/ InsertRow(s)
  PROVE  CalmInv'
<1>1. ~disturbed /\ UNCHANGED <<rows, msg, seen, conn, mode, token, left>> /\ phase'[s] = "open"
      /\ phase[s] \in {"received", "loaded"} /\ phase' = [phase EXCEPT ![s] = "open"]
  BY DEF UpdateRows, InsertRow, mac, IInv, TypeOK
<1>2. Stage(s) /\ \A t \in Session : t # s => phase[t] = "free"
  BY <1>1, Alone DEF IInv
<1>3. \A t \in Session : t # s => phase'[t] = "free"
  BY <1>1, <1>2 DEF IInv, TypeOK
<1>4. Stored' = Stored
  BY <1>1 DEF Stored
<1>5. CASE UpdateRows(s)
  <2>1. IF msg[s].kind = "Authenticate" /\ seen[s] = "absent"
        THEN writes'[s] = {} ELSE writes'[s] = Stored
    BY <1>1, <1>5 DEF UpdateRows, IInv, TypeOK, SlotInv
  <2>2. /\ phase[s] = IF msg[s].kind = "Erased" THEN "received" ELSE "loaded"
        /\ msg[s].kind = "TokenUpdate" => seen[s] # "absent"
    BY <1>5 DEF UpdateRows
  <2>3. TokenStage(s)'
    BY <1>1, <1>2, <1>4, <2>1, <2>2 DEF Stage, TokenStage, OneRow, Writing
  <2>4. CheckOutStage(s)'
    BY <1>1, <1>2, <1>4, <2>1, <2>2 DEF Stage, CheckOutStage, OneRow, Writing
  <2>5. EraseStage(s)'
    BY <1>1, <1>2, <1>4, <2>1, <2>2 DEF Stage, EraseStage, OneRow, Writing
  <2>6. AuthenticateStage(s)'
    BY <1>1, <1>2, <1>4, <2>1, <2>2 DEF Stage, AuthenticateStage, Writing
  <2>7. Stage(s)'
    BY <1>1, <1>2, <2>3, <2>4, <2>5, <2>6 DEF Stage
  <2> QED BY <1>1, <1>3, <2>7, OnlyOne
<1>6. CASE InsertRow(s)
  <2>1. \E i \in Row : writes'[s] = {i}
    BY <1>6 DEF InsertRow, IInv, TypeOK
  <2>2. phase[s] = "loaded" /\ msg[s].kind = "TokenUpdate" /\ seen[s] = "absent"
    BY <1>6 DEF InsertRow
  <2>3. Stored = {}
    BY <1>2, <2>2 DEF Stage, TokenStage
  <2>4. TokenStage(s)'
    BY <1>1, <1>2, <1>4, <2>1, <2>2, <2>3 DEF Stage, TokenStage, Writing
  <2>5. Stage(s)'
    BY <1>1, <1>2, <2>2, <2>4 DEF Stage, CheckOutStage, EraseStage, AuthenticateStage
  <2> QED BY <1>1, <1>3, <2>5, OnlyOne
<1> QED BY <1>5, <1>6

\* A commit leaves a row wherever it writes, and removes none.
LEMMA CommitStored ==
  ASSUME TypeOK, SlotInv, NEW s \in Session, Commit(s)
  PROVE  Stored' = Stored \cup writes[s]
<1> DEFINE after(i) == StoredBy(msg[s], seen[s], rows[i])
<1>1. /\ msg[s] \in Messages /\ msg[s].kind # "none" /\ seen[s] \in Status
      /\ \A i \in Row : IF i \notin writes[s] THEN rows'[i] = rows[i]
                        ELSE rows'[i].status = after(i).status
  BY CommitFacts
<1>2. \A i \in Row : after(i).status # "absent"
  BY <1>1, StoredFacts DEF TypeOK, Rows
<1> HIDE DEF after
<1>3. \A i \in Row : i \in writes[s] => rows'[i].status # "absent"
  BY <1>1, <1>2
<1>4. \A i \in Row : i \notin writes[s] => rows'[i] = rows[i]
  BY <1>1
<1>5. writes[s] \subseteq Row
  BY DEF TypeOK
<1> QED BY <1>3, <1>4, <1>5 DEF Stored

\* What an undisturbed commit stores.
LEMMA CommitResult ==
  ASSUME IInv, NEW s \in Session, ~disturbed, Commit(s), Stage(s)
  PROVE  /\ phase[s] \in Writing
         /\ UNCHANGED <<eraseQueued, mode, token, left, conn, disturbed>>
         /\ msg[s].kind = "TokenUpdate" => ShownEnrolled'
         /\ msg[s].kind = "CheckOut" => ShownGone'
         /\ msg[s].kind = "Erased" => ShownWiped'
<1>1. phase[s] \in Writing /\ UNCHANGED <<eraseQueued, mode, token, left, conn, disturbed>>
  BY DEF Commit, Writing, mac
<1> DEFINE after(i) == StoredBy(msg[s], seen[s], rows[i])
<1>2. /\ msg[s] \in Messages /\ msg[s].kind # "none" /\ seen[s] \in Status
      /\ \A i \in Row : IF i \notin writes[s] THEN rows'[i] = rows[i]
                        ELSE rows'[i].status = after(i).status /\ rows'[i].token = after(i).token
  BY CommitFacts DEF IInv
<1>3. \A i \in Row :
          /\ after(i).status # "absent"
          /\ msg[s].kind = "TokenUpdate" => after(i).status = "enrolled" /\ after(i).token = msg[s].token
          /\ msg[s].kind = "Erased" => after(i).status = "wiped"
          /\ msg[s].kind = "CheckOut" =>
                 /\ after(i).status = IF seen[s] = "wiped" THEN "spare" ELSE "unenrolled"
                 /\ after(i).token = 0
  <2>1. \A i \in Row : rows[i] \in Rows
    BY DEF IInv, TypeOK, Rows
  <2> QED BY <1>2, <2>1, StoredFacts
<1> HIDE DEF after
<1>4. Stored' = Stored \cup writes[s]
  BY CommitStored DEF IInv
<1>5. ASSUME msg[s].kind = "TokenUpdate"
      PROVE  ShownEnrolled'
  <2>1. PICK i \in Row : writes[s] = {i} /\ Stored \subseteq {i}
    BY <1>1, <1>5 DEF Stage, TokenStage
  <2>2. Stored' = {i}
    BY <1>4, <2>1
  <2>3. rows'[i].status = "enrolled" /\ rows'[i].token = token'
    BY <1>1, <1>2, <1>3, <1>5, <2>1 DEF Stage, TokenStage
  <2> QED BY <2>2, <2>3 DEF ShownEnrolled
<1>6. ASSUME msg[s].kind = "CheckOut"
      PROVE  ShownGone'
  <2>1. writes[s] = Stored /\ (seen[s] = "wiped" <=> left = "erased")
    BY <1>1, <1>6 DEF Stage, CheckOutStage
  <2>2. \A i \in Stored' : i \in Row /\ i \in writes[s]
    BY <1>4, <2>1 DEF Stored
  <2>3. \A i \in Stored' : /\ rows'[i].status = IF seen[s] = "wiped" THEN "spare" ELSE "unenrolled"
                           /\ rows'[i].token = 0
    BY <1>2, <1>3, <1>6, <2>2
  <2> QED BY <1>1, <2>1, <2>3 DEF ShownGone
<1>7. ASSUME msg[s].kind = "Erased"
      PROVE  ShownWiped'
  <2>1. writes[s] = Stored /\ OneRow
    BY <1>1, <1>7 DEF Stage, EraseStage, Writing
  <2>2. PICK i \in Row : Stored = {i}
    BY <2>1 DEF OneRow
  <2>3. Stored' = {i} /\ rows'[i].status = "wiped"
    BY <1>2, <1>3, <1>4, <1>7, <2>1, <2>2
  <2> QED BY <2>3 DEF ShownWiped
<1> QED BY <1>1, <1>5, <1>6, <1>7

\* A request commits: with the answer still to be sent, or as its last step.
LEMMA CommitCalm ==
  ASSUME IInv, NEW s \in Session, ~disturbed', Commit(s)
  PROVE  CalmInv'
<1>1. ~disturbed /\ phase[s] # "free"
  BY DEF Commit
<1>2. Stage(s) /\ \A t \in Session : t # s => phase[t] = "free"
  BY <1>1, Alone DEF IInv
<1>3. /\ phase[s] \in Writing
      /\ UNCHANGED <<eraseQueued, mode, token, left, conn, disturbed>>
      /\ msg[s].kind = "TokenUpdate" => ShownEnrolled'
      /\ msg[s].kind = "CheckOut" => ShownGone'
      /\ msg[s].kind = "Erased" => ShownWiped'
  BY <1>1, <1>2, CommitResult
<1>4. CASE CommitBeforeReply
  <2>1. Advance(s, "committed") /\ phase[s] = "open"
    BY <1>4 DEF Commit
  <2>2. phase'[s] = "committed" /\ UNCHANGED <<msg, seen, writes>>
        /\ \A t \in Session : t # s => phase'[t] = "free"
    BY <1>2, <2>1 DEF Advance, IInv, TypeOK
  <2>3. Stage(s)'
    BY <1>2, <1>3, <2>1, <2>2
    DEF Stage, TokenStage, CheckOutStage, EraseStage, AuthenticateStage, Writing
  <2> QED BY <2>2, <2>3, OnlyOne
<1>5. CASE ~CommitBeforeReply
  <2>1. Close(s)
    BY <1>5 DEF Commit
  <2>2. phase'[s] = "free" /\ \A t \in Session : t # s => phase'[t] = "free"
    BY <1>2, <2>1 DEF Close, IInv, TypeOK
  <2>3. phase[s] = "replied"
    BY <1>5 DEF Commit
  <2>4. msg[s].kind \in {"Authenticate", "CheckOut", "Erased", "TokenUpdate"}
    BY <1>1, MessageFacts DEF IInv, TypeOK, SlotInv
  <2>5. Resting'
    BY <1>2, <1>3, <2>3, <2>4
    DEF Resting, Stage, TokenStage, CheckOutStage, EraseStage, AuthenticateStage
  <2> QED BY <2>2, <2>5, OnlyOne
<1> QED BY <1>4, <1>5

\* A request answers: as its last step, or with the commit still to come.
LEMMA ReplyCalm ==
  ASSUME IInv, NEW s \in Session, ~disturbed', Reply(s)
  PROVE  CalmInv'
<1>1. ~disturbed /\ phase[s] \in {"open", "committed"} /\ UNCHANGED <<rows, token, left>>
  BY DEF Reply
<1>2. Stage(s) /\ \A t \in Session : t # s => phase[t] = "free"
  BY <1>1, Alone DEF IInv
<1>3. conn = s /\ conn' = None /\ mode' = Answered
  BY <1>1, <1>2 DEF Stage, Reply
<1>4. /\ mode = "authenticating" => Answered = "identified"
      /\ mode = "enrolling" => Answered = "in"
      /\ mode \notin {"authenticating", "enrolling"} => Answered = mode
  <2>1. ASSUME mode = "authenticating"
        PROVE  Answered = "identified"
    BY <2>1 DEF Answered
  <2>2. ASSUME mode = "enrolling"
        PROVE  Answered = "in"
    BY <2>2 DEF Answered
  <2>3. ASSUME mode \notin {"authenticating", "enrolling"}
        PROVE  Answered = mode
    BY <2>3 DEF Answered
  <2> QED BY <2>1, <2>2, <2>3
<1>5. msg[s].kind \in {"Authenticate", "CheckOut", "Erased", "TokenUpdate"}
  BY <1>1, MessageFacts DEF IInv, TypeOK, SlotInv
<1>6. /\ msg[s].kind = "TokenUpdate" => mode' = "in"
      /\ msg[s].kind = "CheckOut" => mode' = "out"
      /\ msg[s].kind = "Erased" => mode' = "erasing"
      /\ msg[s].kind = "Authenticate" => mode' = "identified"
  BY <1>2, <1>3, <1>4
  DEF Stage, TokenStage, CheckOutStage, EraseStage, AuthenticateStage
<1>7. Stored' = Stored
  BY <1>1 DEF Stored
<1>8. CASE CommitBeforeReply
  <2>1. Close(s) /\ phase[s] = "committed"
    BY <1>8 DEF Reply
  <2>2. phase'[s] = "free" /\ \A t \in Session : t # s => phase'[t] = "free"
    BY <1>2, <2>1 DEF Close, IInv, TypeOK
  <2>3. /\ msg[s].kind = "TokenUpdate" => ShownEnrolled'
        /\ msg[s].kind = "CheckOut" => ShownGone'
        /\ msg[s].kind = "Erased" => ShownWiped'
    BY <1>1, <1>2, <1>7, <2>1
    DEF Stage, TokenStage, CheckOutStage, EraseStage, ShownEnrolled, ShownGone, ShownWiped
  <2>4. Resting'
    BY <1>5, <1>6, <2>3 DEF Resting
  <2> QED BY <2>2, <2>4, OnlyOne
<1>9. CASE ~CommitBeforeReply
  <2>1. Advance(s, "replied") /\ phase[s] = "open"
    BY <1>9 DEF Reply
  <2>2. phase'[s] = "replied" /\ UNCHANGED <<msg, seen, writes>>
        /\ \A t \in Session : t # s => phase'[t] = "free"
    BY <1>2, <2>1 DEF Advance, IInv, TypeOK
  <2>3. TokenStage(s)'
    BY <1>1, <1>2, <1>6, <1>7, <2>1, <2>2 DEF Stage, TokenStage, Writing
  <2>4. CheckOutStage(s)'
    BY <1>1, <1>2, <1>6, <1>7, <2>1, <2>2 DEF Stage, CheckOutStage, OneRow, Writing
  <2>5. EraseStage(s)' /\ AuthenticateStage(s)'
    BY <1>1, <1>2, <1>6, <1>7, <2>1, <2>2 DEF Stage, EraseStage, AuthenticateStage, OneRow, Writing
  <2>6. Stage(s)'
    BY <2>2, <2>3, <2>4, <2>5 DEF Stage
  <2> QED BY <2>2, <2>6, OnlyOne
<1> QED BY <1>8, <1>9

\* A step that leaves alone all but the references to rows.
LEMMA SameCalm ==
  ASSUME IInv, (\E i \in Row : RequestErase(i)) \/ UNCHANGED vars
  PROVE  CalmInv'
<1>1. UNCHANGED <<phase, msg, seen, writes, mode, token, left, conn, disturbed>>
  BY DEF RequestErase, server, mac, vars
<1>2. \A j \in Row : rows'[j].status = rows[j].status /\ rows'[j].token = rows[j].token
  <2>1. ASSUME NEW i \in Row, RequestErase(i)
        PROVE  \A j \in Row : rows'[j].status = rows[j].status /\ rows'[j].token = rows[j].token
    BY <2>1 DEF RequestErase, IInv, TypeOK
  <2>2. CASE UNCHANGED vars
    BY <2>2 DEF vars
  <2> QED BY <2>1, <2>2
<1>3. Stored' = Stored /\ \A j \in Stored : j \in Row
  BY <1>2 DEF Stored
<1>4. OneRow' = OneRow
  BY <1>3 DEF OneRow
<1>5. ShownEnrolled => ShownEnrolled'
  BY <1>1, <1>2, <1>3 DEF ShownEnrolled
<1>6. ShownGone => ShownGone'
  BY <1>1, <1>2, <1>3 DEF ShownGone
<1>7. ShownWiped => ShownWiped'
  BY <1>1, <1>2, <1>3 DEF ShownWiped
<1>8. ASSUME NEW s \in Session, Stage(s)
      PROVE  Stage(s)'
  <2>1. TokenStage(s)'
    BY <1>1, <1>3, <1>4, <1>5, <1>8 DEF Stage, TokenStage
  <2>2. CheckOutStage(s)'
    BY <1>1, <1>2, <1>3, <1>4, <1>6, <1>8 DEF Stage, CheckOutStage
  <2>3. EraseStage(s)' /\ AuthenticateStage(s)'
    BY <1>1, <1>3, <1>4, <1>7, <1>8 DEF Stage, EraseStage, AuthenticateStage
  <2> QED BY <1>1, <1>8, <2>1, <2>2, <2>3 DEF Stage
<1>9. Resting => Resting'
  BY <1>1, <1>5, <1>6, <1>7 DEF Resting
<1>10. Quiet' = Quiet
  BY <1>1 DEF Quiet
<1> QED BY <1>1, <1>8, <1>9, <1>10 DEF IInv, CalmInv

LEMMA CalmStep ==
  ASSUME IInv, [Next]_vars
  PROVE  CalmInv'
<1> SUFFICES ASSUME ~disturbed'
             PROVE  CalmInv'
  BY DEF CalmInv
<1>1. ASSUME NEW s \in Session, Enroll(s) \/ SendToken(s) \/ Remove(s) \/ AcknowledgeErase(s)
                                     \/ Leave(s)
      PROVE  CalmInv'
  BY <1>1, SendCalm
<1>2. ASSUME NEW s \in Session, Load(s)
      PROVE  CalmInv'
  BY <1>2, LoadCalm
<1>3. ASSUME NEW s \in Session, UpdateRows(s) \/ InsertRow(s)
      PROVE  CalmInv'
  BY <1>3, WriteCalm
<1>4. ASSUME NEW s \in Session, Commit(s)
      PROVE  CalmInv'
  BY <1>4, CommitCalm
<1>5. ASSUME NEW s \in Session, Reply(s)
      PROVE  CalmInv'
  BY <1>5, ReplyCalm
<1>6. ASSUME NEW s \in Session, LoadFails(s) \/ SkipUnknownTopic(s) \/ Crash(s)
      PROVE  FALSE
  BY <1>6 DEF LoadFails, SkipUnknownTopic, Crash, Fail
<1>7. CASE Timeout
  BY <1>7 DEF Timeout
<1>8. ASSUME NEW i \in Row, RequestErase(i)
      PROVE  CalmInv'
  BY <1>8, SameCalm
<1>9. ASSUME NEW i \in Row, DeleteDevice(i)
      PROVE  FALSE
  BY <1>9 DEF DeleteDevice
<1>10. CASE UNCHANGED vars
  BY <1>10, SameCalm DEF vars
<1> QED
  BY <1>1, <1>2, <1>3, <1>4, <1>5, <1>6, <1>7, <1>8, <1>9, <1>10
  DEF Next, Client, Server, Admin

--------------------------------------------------------------------------------
(* The theorems.                                                                *)

\* The invariant holds at the start.
LEMMA InitHolds ==
  ASSUME Init
  PROVE  IInv
<1> USE ModeAssumption, NoneAssumption DEF Init
<1>1. TypeOK
  <2>1. NoRow \in [status : Status, token : 0..MaxTokens, referenced : BOOLEAN]
    BY DEF NoRow, Status
  <2>2. "absent" \in Status /\ 0 \in 0..MaxTokens /\ 0 \in 0..MaxFaults
    BY DEF Status
  <2>3. msg \in [Session -> Messages]
    BY MessageTypes
  <2> QED BY <2>1, <2>2, <2>3 DEF TypeOK
<1>2. SlotInv
  BY DEF SlotInv
<1>3. Stored = {}
  BY DEF Stored, NoRow
<1>4. CalmInv
  BY <1>3 DEF CalmInv, Resting, Quiet
<1> QED BY <1>1, <1>2, <1>4 DEF IInv

\* Every run keeps the invariant: requests that neither overlap nor fail find the record
\* in order at each of their steps.
THEOREM Invariance == Spec => []IInv
<1>1. IInv /\ [Next]_vars => IInv'
  BY TypeStep, SlotStep, CalmStep DEF IInv
<1> QED BY InitHolds, <1>1, PTL DEF Spec

\* Whatever the check-in handlers, the Mac and the administrator do, every variable keeps
\* its type: no handler stores a status or a token outside its range.
THEOREM TypeCorrect == Spec => []TypeOK
<1>1. IInv => TypeOK
  BY DEF IInv
<1> QED BY Invariance, <1>1, PTL

\* _handle_token_update and the handlers around it: a managed Mac whose requests neither
\* overlapped nor failed since its last TokenUpdate has one row, enrolled, with its token.
THEOREM ShownWhileEnrolled == Spec => []EnrolledIsShown
<1>1. IInv => EnrolledIsShown
  BY DEF IInv, CalmInv, Resting, ShownEnrolled, EnrolledIsShown
<1> QED BY Invariance, <1>1, PTL

\* _handle_checkout after a removal or an erase: the rows of a Mac that has left say how,
\* and have no push token, under the same condition.
THEOREM ShownWhenGone == Spec => []GoneIsShown
<1>1. IInv => GoneIsShown
  BY DEF IInv, CalmInv, Resting, ShownGone, GoneIsShown
<1> QED BY Invariance, <1>1, PTL

\* A commit adds a row to one that is there only in a disturbed run.
LEMMA NoSecondRow ==
  ASSUME IInv, [Next]_vars, NEW i \in Row, Stored # {}, i \notin Stored, i \in Stored'
  PROVE  disturbed
<1>1. rows'[i].status # rows[i].status
  BY DEF Stored
<1>2. rows' # rows
  BY <1>1
<1>3. ASSUME NEW s \in Session, Commit(s), ~disturbed
      PROVE  FALSE
  <2>1. phase[s] \in Writing
    BY <1>3 DEF Commit, Writing
  <2>2. Stage(s)
    BY <1>3, <2>1, Alone DEF IInv, Writing
  <2>3. i \in writes[s]
    BY <1>3, CommitStored DEF IInv
  <2>4. msg[s].kind \in {"Authenticate", "CheckOut", "Erased", "TokenUpdate"}
    BY <2>1, MessageFacts DEF IInv, TypeOK, SlotInv, Writing
  <2>5. CASE msg[s].kind = "TokenUpdate"
    <3>1. PICK j \in Row : writes[s] = {j} /\ Stored \subseteq {j}
      BY <2>1, <2>2, <2>5 DEF Stage, TokenStage
    <3> QED BY <2>3, <3>1
  <2>6. CASE msg[s].kind # "TokenUpdate"
    BY <2>1, <2>2, <2>3, <2>4, <2>6 DEF Stage, CheckOutStage, EraseStage, AuthenticateStage
  <2> QED BY <2>5, <2>6
<1>4. ASSUME NEW j \in Row, RequestErase(j)
      PROVE  FALSE
  BY <1>1, <1>4 DEF RequestErase, IInv, TypeOK
<1>5. ASSUME NEW j \in Row, DeleteDevice(j)
      PROVE  FALSE
  <2>1. rows' = [rows EXCEPT ![j] = NoRow] /\ NoRow.status = "absent"
    BY <1>5 DEF DeleteDevice, NoRow
  <2>2. rows'[j] = NoRow /\ (i # j => rows'[i] = rows[i])
    BY <2>1 DEF IInv, TypeOK
  <2>3. rows'[i].status # "absent"
    BY DEF Stored
  <2> QED BY <1>1, <2>1, <2>2, <2>3
<1>6. ASSUME NEW s \in Session,
             Enroll(s) \/ SendToken(s) \/ Remove(s) \/ AcknowledgeErase(s) \/ Leave(s)
      PROVE  FALSE
  BY <1>2, <1>6 DEF Enroll, SendToken, Remove, AcknowledgeErase, Leave, Send
<1>7. ASSUME NEW s \in Session, Load(s) \/ LoadFails(s) \/ UpdateRows(s) \/ InsertRow(s)
                                     \/ SkipUnknownTopic(s) \/ Reply(s) \/ Crash(s)
      PROVE  FALSE
  BY <1>2, <1>7
  DEF Load, LoadFails, UpdateRows, InsertRow, SkipUnknownTopic, Reply, Crash, Fail
<1>8. CASE Timeout
  BY <1>2, <1>8 DEF Timeout
<1>9. CASE UNCHANGED vars
  BY <1>2, <1>9 DEF vars
<1> QED
  BY <1>3, <1>4, <1>5, <1>6, <1>7, <1>8, <1>9 DEF Next, Client, Server, Admin

\* devices.udid is not unique: _handle_token_update still gives a Mac that has a row no
\* second one, unless its requests overlapped or failed.
THEOREM OneRowUndisturbed == Spec => SecondRow
<1>1. IInv /\ [Next]_vars =>
          [\A i \in Row : Stored # {} /\ i \notin Stored /\ i \in Stored' => disturbed]_vars
  BY NoSecondRow
<1> QED BY Invariance, <1>1, PTL DEF Spec, SecondRow

================================================================================
