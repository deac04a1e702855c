------------------------- MODULE CommandDeliveryProofs -------------------------
(***************************************************************************)
(* Proofs about CommandDelivery, for every set of devices, commands and    *)
(* request slots, every assignment of commands to devices and both orders  *)
(* of commit and reply.                                                    *)
(***************************************************************************)
EXTENDS CommandDelivery, TLAPS

--------------------------------------------------------------------------------
(* The inductive invariant, in parts.                                           *)

\* Open API transactions are disjoint and their rows are visible to nobody else.
TxnsInv ==
    /\ \A B \in txns : \A c \in B : status[c] = "open"
    /\ \A B, C \in txns : B # C => B \cap C = {}

\* At most one transaction holds the row lock of a device.
LockInv ==
    \A s, t \in Session :
        s # t /\ phase[s] \in Holding /\ phase[t] \in Holding => caller[s] # caller[t]

\* What a message and a device talk about belongs to the device.
OwnInv ==
    /\ \A s \in Session : phase[s] # "free" /\ msg[s].cmd # None => Owner[msg[s].cmd] = caller[s]
    /\ \A d \in Device : devMsg[d].cmd # None => Owner[devMsg[d].cmd] = d

\* A picked command belongs to the session's device, is still queued while the
\* transaction is open, has left the queue afterwards, and no other session has it.
CarriedInv ==
    /\ \A s \in Session : phase[s] \in {"free", "received"} => next[s] = None
    /\ \A s \in Session : phase[s] \in {"open", "committed", "replied"} /\ next[s] # None =>
           /\ Owner[next[s]] = caller[s]
           /\ next[s] # msg[s].cmd
           /\ phase[s] \in Holding  => status[next[s]] = "queued"
           /\ phase[s] = "committed" => status[next[s]] \in Dispatched
    /\ \A s, t \in Session : s # t /\ next[s] # None => next[s] # next[t]

\* Some session's answer with c is out and its transaction is still open.
Pending(c) == \E s \in Session : phase[s] = "replied" /\ next[s] = c

\* Some session will answer with c, whose row it has already marked.
Due(c) == \E s \in Session : phase[s] = "committed" /\ next[s] = c

\* How often a command was handed out, by the state of its row.
CountInv ==
    \A c \in Command :
        /\ status[c] \notin Committed => handed[c] = 0
        /\ status[c] = "queued" /\ ~Pending(c) => handed[c] <= undone[c]
        /\ Due(c) => handed[c] <= undone[c]
        /\ handed[c] <= 1 + undone[c]

\* A device talks about a command only after it was handed one.
KnownInv ==
    /\ \A s \in Session : msg[s].cmd # None => handed[msg[s].cmd] > 0
    /\ \A d \in Device : devMsg[d].cmd # None => handed[devMsg[d].cmd] > 0

\* Results on their way are the device's verdicts; there is one per command unless
\* a rollback had it handed out again.
VerdictInv ==
    /\ \A s \in Session : msg[s].cmd # None => msg[s].res \in verdict[msg[s].cmd]
    /\ \A d \in Device :
           devPhase[d] = "waiting" /\ devMsg[d].cmd # None => devMsg[d].res \in verdict[devMsg[d].cmd]
    /\ \A c \in Command : handed[c] = 0 => verdict[c] = {}
    /\ \A c \in Command : undone[c] = 0 => \A r, q \in verdict[c] : r = q
    /\ \A d \in Device :
           devPhase[d] = "executing" /\ undone[devMsg[d].cmd] = 0 => verdict[devMsg[d].cmd] = {}

NoneUndone == \A c \in Command : undone[c] = 0

\* Older commands are settled in time order, and a picked command has none queued
\* before it.
OrderInv ==
    /\ \A c \in Command : queuedAt[c] <= clock
    /\ \A c \in Command : \A e \in before[c] :
           status[e] \in Committed /\ queuedAt[e] < queuedAt[c]
    /\ NoneUndone =>
           \A s \in Session : phase[s] \in Holding /\ next[s] # None =>
               \A e \in before[next[s]] : Owner[e] = caller[s] => status[e] \in Dispatched

\* The order of commit and reply; with the commit first no sent answer is undone.
ModeInv ==
    /\ \A s \in Session : phase[s] # IF CommitBeforeReply THEN "replied" ELSE "committed"
    /\ CommitBeforeReply => NoneUndone

IInv ==
    /\ TypeOK /\ TxnsInv /\ LockInv /\ OwnInv /\ CarriedInv /\ CountInv
    /\ KnownInv /\ VerdictInv /\ OrderInv /\ ModeInv /\ StatusIsVerdict /\ NoOvertaking
--------------------------------------------------------------------------------
(* Every step preserves the invariant.  One lemma per action, one step per part. *)

\* A route inserts rows.
LEMMA QueueStep ==
  ASSUME IInv, NEW B \in SUBSET Command, QueueCommands(B) \/ PushProfile(B)
  PROVE  IInv'
<1> USE NoneAssumption, ModeAssumption DEF IInv, TypeOK, Status, Committed, Dispatched, Outcome, Holding, Message, Idle, Result,
           api, sess, dev, hist, QueueCommands, PushProfile, InsertRows
<1>1. TypeOK'
  <2>1. status' \in [Command -> Status]  OBVIOUS
  <2>2. queuedAt' \in [Command -> Nat] /\ clock' \in Nat  OBVIOUS
  <2>3. before' \in [Command -> SUBSET Command]  OBVIOUS
  <2>4. pushes' \subseteq Device  BY OwnerAssumption
  <2>5. txns' \subseteq SUBSET Command  OBVIOUS
  <2> QED BY <2>1, <2>2, <2>3, <2>4, <2>5
<1>2. TxnsInv'  BY DEF TxnsInv
<1>3. LockInv'  BY DEF LockInv
<1>4. OwnInv'  BY DEF OwnInv
<1>5. CarriedInv'  BY DEF CarriedInv
<1>6. CountInv'  BY DEF CountInv, Pending, Due
<1>7. KnownInv'  BY DEF KnownInv
<1>8. VerdictInv'  BY DEF VerdictInv
<1>9. OrderInv'
  <2>1. \A c \in Command : queuedAt[c] <= clock /\ queuedAt[c] \in Nat /\ clock \in Nat
    BY DEF OrderInv
  <2>2. \A c \in Command : queuedAt'[c] <= clock'
    BY <2>1
  <2>3. ASSUME NEW c \in Command, NEW e \in before'[c]
        PROVE  status'[e] \in Committed /\ queuedAt'[e] < queuedAt'[c]
    <3>1. CASE c \in B
      BY <2>1, <2>3, <3>1
    <3>2. CASE c \notin B
      BY <2>3, <3>2 DEF OrderInv
    <3> QED BY <3>1, <3>2
  <2>4. ASSUME NoneUndone', NEW t \in Session, phase'[t] \in Holding, next'[t] # None,
               NEW e \in before'[next'[t]], Owner[e] = caller'[t]
        PROVE  status'[e] \in Dispatched
    <3>1. NoneUndone
      BY <2>4 DEF NoneUndone
    <3>2. phase'[t] = phase[t] /\ next'[t] = next[t] /\ caller'[t] = caller[t]
      OBVIOUS
    <3>3. status[next[t]] = "queued" /\ next[t] \in Command
      BY <2>4, <3>2 DEF CarriedInv
    <3>4. before'[next[t]] = before[next[t]]
      BY <3>3
    <3>5. e \in before[next[t]] /\ Owner[e] = caller[t] /\ e \in Command
      BY <2>4, <3>2, <3>3, <3>4
    <3>6. status[e] \in Dispatched
      BY <2>4, <3>1, <3>2, <3>5 DEF OrderInv
    <3> QED BY <3>5, <3>6
  <2>5. (\A c \in Command : \A e \in before[c] : status[e] \in Committed /\ queuedAt[e] < queuedAt[c])'
    BY <2>3
  <2>6. (NoneUndone => \A t \in Session : phase[t] \in Holding /\ next[t] # None =>
            \A e \in before[next[t]] : Owner[e] = caller[t] => status[e] \in Dispatched)'
    <3> HIDE DEF IInv, TypeOK, QueueCommands, PushProfile, InsertRows, Dispatched, Holding
    <3> QED BY <2>4
  <2> QED BY <2>2, <2>5, <2>6 DEF OrderInv
<1>10. ModeInv'  BY DEF ModeInv, NoneUndone
<1>11. StatusIsVerdict'  BY DEF StatusIsVerdict
<1>12. NoOvertaking'  BY DEF NoOvertaking, NoneUndone
<1> QED BY <1>1, <1>2, <1>3, <1>4, <1>5, <1>6, <1>7, <1>8, <1>9, <1>10, <1>11, <1>12

\* The rows of a route become visible.
LEMMA CommitBatchStep ==
  ASSUME IInv, NEW B \in SUBSET Command, CommitCommands(B)
  PROVE  IInv'
<1> USE NoneAssumption, ModeAssumption DEF IInv, TypeOK, Status, Committed, Dispatched, Outcome, Holding, Message, Idle, Result,
           api, sess, dev, hist, CommitCommands
<1>1. TypeOK'  OBVIOUS
<1>2. TxnsInv'  BY DEF TxnsInv
<1>3. LockInv'  BY DEF LockInv
<1>4. OwnInv'  BY DEF OwnInv
<1>5. CarriedInv'  BY DEF CarriedInv, TxnsInv
<1>6. CountInv'  BY DEF CountInv, Pending, Due, TxnsInv
<1>7. KnownInv'  BY DEF KnownInv
<1>8. VerdictInv'  BY DEF VerdictInv
<1>9. OrderInv'  BY DEF OrderInv, NoneUndone, TxnsInv
<1>10. ModeInv'  BY DEF ModeInv, NoneUndone
<1>11. StatusIsVerdict'  BY DEF StatusIsVerdict
<1>12. NoOvertaking'  BY DEF NoOvertaking, NoneUndone, TxnsInv, OrderInv
<1> QED BY <1>1, <1>2, <1>3, <1>4, <1>5, <1>6, <1>7, <1>8, <1>9, <1>10, <1>11, <1>12

\* The rows of a route are rolled back.
LEMMA RollbackBatchStep ==
  ASSUME IInv, NEW B \in SUBSET Command, RollbackCommands(B)
  PROVE  IInv'
<1> USE NoneAssumption, ModeAssumption DEF IInv, TypeOK, Status, Committed, Dispatched, Outcome, Holding, Message, Idle, Result,
           api, sess, dev, hist, RollbackCommands
<1>1. TypeOK'  OBVIOUS
<1>2. TxnsInv'  BY DEF TxnsInv
<1>3. LockInv'  BY DEF LockInv
<1>4. OwnInv'  BY DEF OwnInv
<1>5. CarriedInv'  BY DEF CarriedInv, TxnsInv
<1>6. CountInv'  BY DEF CountInv, Pending, Due, TxnsInv
<1>7. KnownInv'  BY DEF KnownInv
<1>8. VerdictInv'  BY DEF VerdictInv
<1>9. OrderInv'  BY DEF OrderInv, NoneUndone, TxnsInv
<1>10. ModeInv'  BY DEF ModeInv, NoneUndone
<1>11. StatusIsVerdict'  BY DEF StatusIsVerdict
<1>12. NoOvertaking'  BY DEF NoOvertaking, NoneUndone, TxnsInv, OrderInv
<1> QED BY <1>1, <1>2, <1>3, <1>4, <1>5, <1>6, <1>7, <1>8, <1>9, <1>10, <1>11, <1>12

\* A push is lost.
LEMMA LoseStep ==
  ASSUME IInv, NEW d \in Device, LosePush(d)
  PROVE  IInv'
<1> USE NoneAssumption, ModeAssumption DEF IInv, TypeOK, Status, Committed, Dispatched, Outcome, Holding, Message, Idle, Result,
           api, sess, dev, hist, LosePush
<1>1. TypeOK'  OBVIOUS
<1>2. TxnsInv'  BY DEF TxnsInv
<1>3. LockInv'  BY DEF LockInv
<1>4. OwnInv'  BY DEF OwnInv
<1>5. CarriedInv'  BY DEF CarriedInv
<1>6. CountInv'  BY DEF CountInv, Pending, Due
<1>7. KnownInv'  BY DEF KnownInv
<1>8. VerdictInv'  BY DEF VerdictInv
<1>9. OrderInv'  BY DEF OrderInv, NoneUndone
<1>10. ModeInv'  BY DEF ModeInv, NoneUndone
<1>11. StatusIsVerdict'  BY DEF StatusIsVerdict
<1>12. NoOvertaking'  BY DEF NoOvertaking, NoneUndone
<1> QED BY <1>1, <1>2, <1>3, <1>4, <1>5, <1>6, <1>7, <1>8, <1>9, <1>10, <1>11, <1>12

\* A pushed device connects.
LEMMA WakeStep ==
  ASSUME IInv, NEW d \in Device, NEW s \in Session, Wake(d, s)
  PROVE  IInv'
<1> USE NoneAssumption, ModeAssumption DEF IInv, TypeOK, Status, Committed, Dispatched, Outcome, Holding, Message, Idle, Result,
           api, sess, dev, hist, Wake, Send
<1>1. TypeOK'  OBVIOUS
<1>2. TxnsInv'  BY DEF TxnsInv
<1>3. LockInv'  BY DEF LockInv
<1>4. OwnInv'  BY DEF OwnInv
<1>5. CarriedInv'  BY DEF CarriedInv
<1>6. CountInv'  BY DEF CountInv, Pending, Due
<1>7. KnownInv'  BY DEF KnownInv
<1>8. VerdictInv'  BY DEF VerdictInv
<1>9. OrderInv'  BY DEF OrderInv, NoneUndone
<1>10. ModeInv'  BY DEF ModeInv, NoneUndone
<1>11. StatusIsVerdict'  BY DEF StatusIsVerdict
<1>12. NoOvertaking'  BY DEF NoOvertaking, NoneUndone
<1> QED BY <1>1, <1>2, <1>3, <1>4, <1>5, <1>6, <1>7, <1>8, <1>9, <1>10, <1>11, <1>12

\* A device connects by itself.
LEMMA PollStep ==
  ASSUME IInv, NEW d \in Device, NEW s \in Session, Poll(d, s)
  PROVE  IInv'
<1> USE NoneAssumption, ModeAssumption DEF IInv, TypeOK, Status, Committed, Dispatched, Outcome, Holding, Message, Idle, Result,
           api, sess, dev, hist, Poll, Send
<1>1. TypeOK'  OBVIOUS
<1>2. TxnsInv'  BY DEF TxnsInv
<1>3. LockInv'  BY DEF LockInv
<1>4. OwnInv'  BY DEF OwnInv
<1>5. CarriedInv'  BY DEF CarriedInv
<1>6. CountInv'  BY DEF CountInv, Pending, Due
<1>7. KnownInv'  BY DEF KnownInv
<1>8. VerdictInv'  BY DEF VerdictInv
<1>9. OrderInv'  BY DEF OrderInv, NoneUndone
<1>10. ModeInv'  BY DEF ModeInv, NoneUndone
<1>11. StatusIsVerdict'  BY DEF StatusIsVerdict
<1>12. NoOvertaking'  BY DEF NoOvertaking, NoneUndone
<1> QED BY <1>1, <1>2, <1>3, <1>4, <1>5, <1>6, <1>7, <1>8, <1>9, <1>10, <1>11, <1>12

\* A device reports.
LEMMA ReportStep ==
  ASSUME IInv, NEW d \in Device, NEW s \in Session, NEW r \in Result, Report(d, s, r)
  PROVE  IInv'
<1> USE NoneAssumption, ModeAssumption DEF IInv, TypeOK, Status, Committed, Dispatched, Outcome, Holding, Message, Idle, Result,
           api, sess, dev, hist, Report, Send
<1>1. TypeOK'  OBVIOUS
<1>2. TxnsInv'  BY DEF TxnsInv
<1>3. LockInv'  BY DEF LockInv
<1>4. OwnInv'  BY DEF OwnInv
<1>5. CarriedInv'  BY DEF CarriedInv
<1>6. CountInv'  BY DEF CountInv, Pending, Due
<1>7. KnownInv'  BY DEF KnownInv
<1>8. VerdictInv'
  <2>1. Owner[devMsg[d].cmd] = d /\ handed[devMsg[d].cmd] > 0 /\ devMsg[d].cmd \in Command
    BY DEF OwnInv, KnownInv
  <2>2. \A e \in Device : e # d => devMsg[e].cmd # devMsg[d].cmd
    BY <2>1 DEF OwnInv
  <2>3. msg'[s].cmd # None => msg'[s].res \in verdict'[msg'[s].cmd]
    BY <2>1
  <2>4. QED BY <2>1, <2>2, <2>3 DEF VerdictInv
<1>9. OrderInv'  BY DEF OrderInv, NoneUndone
<1>10. ModeInv'  BY DEF ModeInv, NoneUndone
<1>11. StatusIsVerdict'  BY DEF StatusIsVerdict
<1>12. NoOvertaking'  BY DEF NoOvertaking, NoneUndone
<1> QED BY <1>1, <1>2, <1>3, <1>4, <1>5, <1>6, <1>7, <1>8, <1>9, <1>10, <1>11, <1>12

\* A device stops waiting.
LEMMA TimeoutStep ==
  ASSUME IInv, NEW d \in Device, Timeout(d)
  PROVE  IInv'
<1> USE NoneAssumption, ModeAssumption DEF IInv, TypeOK, Status, Committed, Dispatched, Outcome, Holding, Message, Idle, Result,
           api, sess, dev, hist, Timeout
<1>1. TypeOK'  OBVIOUS
<1>2. TxnsInv'  BY DEF TxnsInv
<1>3. LockInv'  BY DEF LockInv
<1>4. OwnInv'  BY DEF OwnInv
<1>5. CarriedInv'  BY DEF CarriedInv
<1>6. CountInv'  BY DEF CountInv, Pending, Due
<1>7. KnownInv'  BY DEF KnownInv
<1>8. VerdictInv'  BY DEF VerdictInv
<1>9. OrderInv'  BY DEF OrderInv, NoneUndone
<1>10. ModeInv'  BY DEF ModeInv, NoneUndone
<1>11. StatusIsVerdict'  BY DEF StatusIsVerdict
<1>12. NoOvertaking'  BY DEF NoOvertaking, NoneUndone
<1> QED BY <1>1, <1>2, <1>3, <1>4, <1>5, <1>6, <1>7, <1>8, <1>9, <1>10, <1>11, <1>12

\* A device sends its message again.
LEMMA ResendStep ==
  ASSUME IInv, NEW d \in Device, NEW s \in Session, Resend(d, s)
  PROVE  IInv'
<1> USE NoneAssumption, ModeAssumption DEF IInv, TypeOK, Status, Committed, Dispatched, Outcome, Holding, Message, Idle, Result,
           api, sess, dev, hist, Resend, Send
<1>1. TypeOK'  OBVIOUS
<1>2. TxnsInv'  BY DEF TxnsInv
<1>3. LockInv'  BY DEF LockInv
<1>4. OwnInv'  BY DEF OwnInv
<1>5. CarriedInv'  BY DEF CarriedInv
<1>6. CountInv'  BY DEF CountInv, Pending, Due
<1>7. KnownInv'  BY DEF KnownInv
<1>8. VerdictInv'  BY DEF VerdictInv
<1>9. OrderInv'  BY DEF OrderInv, NoneUndone
<1>10. ModeInv'  BY DEF ModeInv, NoneUndone
<1>11. StatusIsVerdict'  BY DEF StatusIsVerdict
<1>12. NoOvertaking'  BY DEF NoOvertaking, NoneUndone
<1> QED BY <1>1, <1>2, <1>3, <1>4, <1>5, <1>6, <1>7, <1>8, <1>9, <1>10, <1>11, <1>12

\* A device drops its message.
LEMMA GiveUpStep ==
  ASSUME IInv, NEW d \in Device, GiveUp(d)
  PROVE  IInv'
<1> USE NoneAssumption, ModeAssumption DEF IInv, TypeOK, Status, Committed, Dispatched, Outcome, Holding, Message, Idle, Result,
           api, sess, dev, hist, GiveUp
<1>1. TypeOK'  OBVIOUS
<1>2. TxnsInv'  BY DEF TxnsInv
<1>3. LockInv'  BY DEF LockInv
<1>4. OwnInv'  BY DEF OwnInv
<1>5. CarriedInv'  BY DEF CarriedInv
<1>6. CountInv'  BY DEF CountInv, Pending, Due
<1>7. KnownInv'  BY DEF KnownInv
<1>8. VerdictInv'  BY DEF VerdictInv
<1>9. OrderInv'  BY DEF OrderInv, NoneUndone
<1>10. ModeInv'  BY DEF ModeInv, NoneUndone
<1>11. StatusIsVerdict'  BY DEF StatusIsVerdict
<1>12. NoOvertaking'  BY DEF NoOvertaking, NoneUndone
<1> QED BY <1>1, <1>2, <1>3, <1>4, <1>5, <1>6, <1>7, <1>8, <1>9, <1>10, <1>11, <1>12

\* A command does not encode.
LEMMA FailsStep ==
  ASSUME IInv, NEW s \in Session, HandleFails(s)
  PROVE  IInv'
<1> USE NoneAssumption, ModeAssumption DEF IInv, TypeOK, Status, Committed, Dispatched, Outcome, Holding, Message, Idle, Result,
           api, sess, dev, hist, HandleFails, Close, Disconnect
<1>1. TypeOK'  OBVIOUS
<1>2. TxnsInv'  BY DEF TxnsInv
<1>3. LockInv'  BY DEF LockInv
<1>4. OwnInv'  BY DEF OwnInv
<1>5. CarriedInv'  BY DEF CarriedInv
<1>6. CountInv'  BY DEF CountInv, Pending, Due
<1>7. KnownInv'  BY DEF KnownInv
<1>8. VerdictInv'  BY DEF VerdictInv
<1>9. OrderInv'  BY DEF OrderInv, NoneUndone
<1>10. ModeInv'  BY DEF ModeInv, NoneUndone
<1>11. StatusIsVerdict'  BY DEF StatusIsVerdict
<1>12. NoOvertaking'  BY DEF NoOvertaking, NoneUndone
<1> QED BY <1>1, <1>2, <1>3, <1>4, <1>5, <1>6, <1>7, <1>8, <1>9, <1>10, <1>11, <1>12

\* A request dies.
LEMMA CrashStep ==
  ASSUME IInv, NEW s \in Session, Crash(s)
  PROVE  IInv'
<1> USE NoneAssumption, ModeAssumption DEF IInv, TypeOK, Status, Committed, Dispatched, Outcome, Holding, Message, Idle, Result,
           api, sess, dev, hist, Crash, Close, Disconnect
<1>1. TypeOK'  OBVIOUS
<1>2. TxnsInv'  BY DEF TxnsInv
<1>3. LockInv'  BY DEF LockInv
<1>4. OwnInv'  BY DEF OwnInv
<1>5. CarriedInv'  BY DEF CarriedInv
<1>6. CountInv'  BY DEF CountInv, Pending, Due
<1>7. KnownInv'  BY DEF KnownInv
<1>8. VerdictInv'  BY DEF VerdictInv
<1>9. OrderInv'  BY DEF OrderInv, NoneUndone
<1>10. ModeInv'  BY DEF ModeInv, NoneUndone
<1>11. StatusIsVerdict'  BY DEF StatusIsVerdict
<1>12. NoOvertaking'  BY DEF NoOvertaking, NoneUndone
<1> QED BY <1>1, <1>2, <1>3, <1>4, <1>5, <1>6, <1>7, <1>8, <1>9, <1>10, <1>11, <1>12

\* What Oldest returns: queued rows of the device, none of them younger than another.
LEMMA OldestFacts ==
  ASSUME NEW d, NEW table, NEW c \in Oldest(d, table)
  PROVE  /\ c \in Command /\ Owner[c] = d /\ table[c] = "queued"
         /\ \A e \in Command : Owner[e] = d /\ table[e] = "queued" => queuedAt[c] <= queuedAt[e]
BY DEF Oldest

\* Any result settles a command.
LEMMA StatusForFacts ==
  ASSUME NEW r
  PROVE  /\ StatusFor(r) \in Outcome
         /\ r \in Result /\ StatusFor(r) = "completed" => r = "Acknowledged"
         /\ r \in Result /\ StatusFor(r) = "not_now"   => r = "NotNow"
         /\ r \in Result /\ StatusFor(r) = "failed"    => r = "Error"
BY DEF StatusFor, Outcome, Result

\* The body does not parse.
LEMMA UnreadableStep ==
  ASSUME IInv, NEW s \in Session, HandleUnreadable(s)
  PROVE  IInv'
<1> USE NoneAssumption DEF IInv, Status, Committed, Dispatched, Outcome, Holding, Message, Idle,
           Result, api, sess, dev, hist, HandleUnreadable, Close
<1>1. /\ caller[s] \in Device
      /\ devMsg' \in [Device -> [cmd : Command \cup {None}, res : Result \cup {"Idle"}]]
      /\ devPhase' \in [Device -> {"idle", "waiting", "executing"}]
      /\ devConn' \in [Device -> Session \cup {None}]
      /\ handed' = handed
      /\ \A d \in Device : \/ devMsg'[d] = devMsg[d] /\ devPhase'[d] = devPhase[d]
                           \/ devMsg'[d] = Idle /\ devPhase'[d] = "idle"
  <2>1. caller[s] \in Device  BY DEF TypeOK
  <2>2. CASE devConn[caller[s]] = s
    <3>1. handed' = handed  BY <2>2 DEF Receive, TypeOK
    <3>2. /\ devConn' = [devConn EXCEPT ![caller[s]] = None]
          /\ devPhase' = [devPhase EXCEPT ![caller[s]] = "idle"]
          /\ devMsg' = [devMsg EXCEPT ![caller[s]] = Idle]
      BY <2>2 DEF Receive
    <3> QED BY <2>1, <3>1, <3>2 DEF TypeOK
  <2>3. CASE devConn[caller[s]] # s
    BY <2>1, <2>3 DEF Receive, TypeOK
  <2> QED BY <2>2, <2>3
<1>2. TypeOK'
  <2>1. \A d \in Device : /\ devPhase'[d] = "waiting"   => devMsg'[d] \in Message
                          /\ devPhase'[d] = "executing" => devMsg'[d].cmd \in Command
    BY <1>1 DEF TypeOK
  <2>2. faults' \in 0..MaxFaults
    BY ModeAssumption DEF TypeOK
  <2> QED BY <1>1, <2>1, <2>2 DEF TypeOK
<1>3. TxnsInv'  BY DEF TxnsInv
<1>4. LockInv'  BY DEF LockInv, TypeOK
<1>5. OwnInv'  BY <1>1 DEF OwnInv, TypeOK
<1>6. CarriedInv'  BY DEF CarriedInv, TypeOK
<1>7. CountInv'  BY <1>1 DEF CountInv, Pending, Due, TypeOK
<1>8. KnownInv'  BY <1>1 DEF KnownInv, TypeOK
<1>9. VerdictInv'  BY <1>1 DEF VerdictInv, TypeOK
<1>10. OrderInv'  BY DEF OrderInv, NoneUndone, TypeOK
<1>11. ModeInv'  BY DEF ModeInv, NoneUndone, TypeOK
<1>12. StatusIsVerdict'  BY DEF StatusIsVerdict
<1>13. NoOvertaking'  BY DEF NoOvertaking
<1> QED BY <1>2, <1>3, <1>4, <1>5, <1>6, <1>7, <1>8, <1>9, <1>10, <1>11, <1>12, <1>13

\* A session gets the row lock and picks a command.
LEMMA HandleStep ==
  ASSUME IInv, NEW s \in Session, Handle(s)
  PROVE  IInv'
<1> USE NoneAssumption DEF IInv, TypeOK, Status, Committed, Dispatched, Outcome, Holding, Idle,
           api, sess, dev, hist
<1>1. PICK n \in Command \cup {None} :
        /\ next' = [next EXCEPT ![s] = n]
        /\ n # None =>
             /\ Owner[n] = caller[s] /\ status[n] = "queued" /\ n # msg[s].cmd
             /\ \A e \in Command :
                  Owner[e] = caller[s] /\ status[e] = "queued" /\ queuedAt[e] < queuedAt[n]
                    => e = msg[s].cmd
  <2> DEFINE table == Reported(msg[s])
  <2>1. \A c \in Command : table[c] = "queued" <=> status[c] = "queued" /\ c # msg[s].cmd
    BY StatusForFacts DEF Reported
  <2>2. CASE next' = [next EXCEPT ![s] = None]
    BY <2>2
  <2>3. CASE \E c \in Oldest(caller[s], table) : next' = [next EXCEPT ![s] = c]
    <3> HIDE DEF table
    <3>1. PICK c \in Oldest(caller[s], table) : next' = [next EXCEPT ![s] = c]
      BY <2>3
    <3>2. /\ c \in Command /\ Owner[c] = caller[s] /\ table[c] = "queued"
          /\ \A e \in Command : Owner[e] = caller[s] /\ table[e] = "queued" => queuedAt[c] <= queuedAt[e]
      BY OldestFacts
    <3>3. \A e \in Command : Owner[e] = caller[s] /\ status[e] = "queued" /\ queuedAt[e] < queuedAt[c]
                                => e = msg[s].cmd
      BY <2>1, <3>2
    <3>4. status[c] = "queued" /\ c # msg[s].cmd
      BY <2>1, <3>2
    <3> QED BY <3>1, <3>2, <3>3, <3>4
  <2> QED BY <2>2, <2>3 DEF Handle
<1>2. /\ phase[s] = "received" /\ phase' = [phase EXCEPT ![s] = "open"]
      /\ \A t \in Session : phase[t] \in Holding => caller[t] # caller[s]
      /\ UNCHANGED <<status, api, pushes, caller, msg, dev, faults, hist>>
  BY DEF Handle, RowLocked
<1>3. TypeOK'  BY <1>1, <1>2
<1>4. TxnsInv'  BY <1>2 DEF TxnsInv
<1>5. LockInv'  BY <1>2 DEF LockInv
<1>6. OwnInv'  BY <1>2 DEF OwnInv
<1>7. CarriedInv'
  <2>1. \A t \in Session : n # None /\ t # s => next[t] # n
    BY <1>1, <1>2 DEF CarriedInv
  <2> QED BY <1>1, <1>2, <2>1 DEF CarriedInv
<1>8. CountInv'
  <2>1. \A c \in Command : (Pending(c)' <=> Pending(c)) /\ (Due(c)' <=> Due(c))
    BY <1>1, <1>2 DEF Pending, Due, CarriedInv
  <2> QED BY <1>2, <2>1 DEF CountInv
<1>9. KnownInv'  BY <1>2 DEF KnownInv
<1>10. VerdictInv'  BY <1>2 DEF VerdictInv
<1>11. OrderInv'
  <2>1. ASSUME NoneUndone, n # None, NEW e \in before[n], Owner[e] = caller[s]
        PROVE  status[e] \in Dispatched
    <3>1. status[e] \in Committed /\ queuedAt[e] < queuedAt[n] /\ e \in Command
      BY <1>1, <2>1 DEF OrderInv
    <3>2. e = msg[s].cmd => handed[e] > 0 /\ ~Pending(e) /\ undone[e] = 0
      BY <1>2, <2>1, <3>1 DEF KnownInv, Pending, CarriedInv, NoneUndone
    <3>3. e = msg[s].cmd => status[e] # "queued"
      BY <3>1, <3>2 DEF CountInv
    <3> QED BY <1>1, <2>1, <3>1, <3>3
  <2>2. (\A c \in Command : queuedAt[c] <= clock)' /\ (NoneUndone' <=> NoneUndone)
    BY <1>2 DEF OrderInv, NoneUndone
  <2>3. (\A c \in Command : \A e \in before[c] : status[e] \in Committed /\ queuedAt[e] < queuedAt[c])'
    BY <1>2 DEF OrderInv
  <2>4. ASSUME NoneUndone, NEW t \in Session, phase'[t] \in Holding, next'[t] # None
        PROVE  \A e \in before'[next'[t]] : Owner[e] = caller'[t] => status'[e] \in Dispatched
    BY <1>1, <1>2, <2>1, <2>4 DEF OrderInv
  <2> QED BY <2>2, <2>3, <2>4 DEF OrderInv
<1>12. ModeInv'  BY <1>2 DEF ModeInv, NoneUndone
<1>13. StatusIsVerdict'  BY <1>2 DEF StatusIsVerdict
<1>14. NoOvertaking'  BY <1>2 DEF NoOvertaking
<1> QED
  BY <1>3, <1>4, <1>5, <1>6, <1>7, <1>8, <1>9, <1>10, <1>11, <1>12, <1>13, <1>14

\* A session's transaction commits.
LEMMA CommitStep ==
  ASSUME IInv, NEW s \in Session, Commit(s)
  PROVE  IInv'
<1> USE NoneAssumption, ModeAssumption DEF IInv, Status, Committed, Dispatched, Outcome, Holding, Idle,
           api, dev, hist
<1>1. /\ phase[s] \in Holding /\ caller[s] \in Device /\ msg[s] \in Message
      /\ next[s] \in Command \cup {None}
      /\ UNCHANGED <<api, pushes, dev, faults, hist>>
  BY DEF Commit, TypeOK
<1>2. /\ msg[s].cmd # None => /\ msg[s].cmd \in Command /\ msg[s].res \in Result
                              /\ status[msg[s].cmd] \in Committed
                              /\ msg[s].res \in verdict[msg[s].cmd]
                              /\ Owner[msg[s].cmd] = caller[s]
      /\ next[s] # None => status[next[s]] = "queued" /\ next[s] # msg[s].cmd
  BY <1>1 DEF KnownInv, CountInv, VerdictInv, OwnInv, CarriedInv, Message, TypeOK
<1>3. /\ status' \in [Command -> Status]
      /\ \A c \in Command :
           status'[c] = IF c = next[s] THEN "sent"
                        ELSE IF c = msg[s].cmd THEN StatusFor(msg[s].res) ELSE status[c]
      /\ StatusFor(msg[s].res) \in Outcome
  BY <1>1, <1>2, StatusForFacts DEF Commit, Reported, TypeOK
<1>4. /\ CommitBeforeReply  => phase[s] = "open" /\ Advance(s, "committed")
      /\ ~CommitBeforeReply => phase[s] = "replied" /\ Close(s)
  BY DEF Commit
<1>5. /\ \A t \in Session \ {s} : /\ phase'[t] = phase[t] /\ caller'[t] = caller[t]
                                  /\ msg'[t] = msg[t] /\ next'[t] = next[t]
      /\ \/ /\ phase[s] = "open" /\ phase'[s] = "committed"
            /\ caller' = caller /\ msg' = msg /\ next' = next
         \/ phase[s] = "replied" /\ phase'[s] = "free" /\ msg'[s] = Idle /\ next'[s] = None
      /\ phase' \in [Session -> {"free", "received", "open", "committed", "replied"}]
      /\ caller' \in [Session -> Device \cup {None}]
      /\ msg' \in [Session -> Message]
      /\ next' \in [Session -> Command \cup {None}]
  <2>1. CASE CommitBeforeReply
    BY <1>4, <2>1 DEF Advance, TypeOK
  <2>2. CASE ~CommitBeforeReply
    <3>1. msg' = [msg EXCEPT ![s] = Idle] /\ Idle \in Message
      BY <1>4, <2>2 DEF Close, Message
    <3>2. msg' \in [Session -> Message] /\ msg'[s] = Idle /\ \A t \in Session \ {s} : msg'[t] = msg[t]
      BY <3>1 DEF TypeOK
    <3>3. /\ phase' = [phase EXCEPT ![s] = "free"] /\ phase[s] = "replied"
          /\ caller' = [caller EXCEPT ![s] = None]
          /\ next' = [next EXCEPT ![s] = None]
      BY <1>4, <2>2 DEF Close
    <3>4. /\ \A t \in Session \ {s} : /\ phase'[t] = phase[t] /\ caller'[t] = caller[t]
                                     /\ next'[t] = next[t]
          /\ phase' \in [Session -> {"free", "received", "open", "committed", "replied"}]
          /\ caller' \in [Session -> Device \cup {None}]
          /\ next' \in [Session -> Command \cup {None}]
          /\ phase'[s] = "free" /\ next'[s] = None
      BY <3>3 DEF TypeOK
    <3> QED BY <3>2, <3>3, <3>4, Zenon
  <2> QED BY <2>1, <2>2
<1>6. TypeOK'
  BY <1>1, <1>3, <1>5 DEF TypeOK
<1>7. TxnsInv'
  <2>1. \A c \in Command : status[c] = "open" => status'[c] = "open"
    BY <1>2, <1>3
  <2> QED BY <1>1, <2>1 DEF TxnsInv, TypeOK
<1>8. LockInv'  BY <1>5 DEF LockInv
<1>9. OwnInv'  BY <1>1, <1>5 DEF OwnInv
<1>10. CarriedInv'
  <2>1. ASSUME NEW t \in Session, t # s, next[t] # None
        PROVE  /\ phase[t] \in Holding  => status'[next[t]] = "queued"
               /\ phase[t] = "committed" => status'[next[t]] \in Dispatched
    <3>1. next[t] \in Command /\ next[t] # next[s]
      BY <2>1 DEF CarriedInv, TypeOK
    <3>2. CASE phase[t] \in Holding
      <4>1. Owner[next[t]] = caller[t] /\ caller[t] # caller[s] /\ status[next[t]] = "queued"
        BY <1>1, <2>1, <3>2 DEF CarriedInv, LockInv
      <4>2. next[t] # msg[s].cmd
        BY <1>2, <2>1, <4>1
      <4> QED BY <1>3, <3>1, <3>2, <4>1, <4>2
    <3>3. CASE phase[t] = "committed"
      <4>1. status[next[t]] \in Dispatched
        BY <2>1, <3>3 DEF CarriedInv
      <4> QED BY <1>3, <3>1, <3>3, <4>1
    <3> QED BY <3>2, <3>3
  <2>2. next[s] # None => status'[next[s]] = "sent"
    BY <1>1, <1>3
  <2> QED BY <1>5, <2>1, <2>2 DEF CarriedInv
<1>11. CountInv'
  <2> SUFFICES ASSUME NEW c \in Command
               PROVE  /\ status'[c] \notin Committed => handed[c] = 0
                      /\ status'[c] = "queued" /\ ~Pending(c)' => handed[c] <= undone[c]
                      /\ Due(c)' => handed[c] <= undone[c]
                      /\ handed[c] <= 1 + undone[c]
    BY <1>1 DEF CountInv
  <2>1. status'[c] \notin Committed => status[c] \notin Committed
    BY <1>2, <1>3
  <2>2. status'[c] = "queued" => status[c] = "queued" /\ c # next[s]
    BY <1>3
  <2>3. c # next[s] => (Pending(c)' <=> Pending(c)) /\ (Due(c)' <=> Due(c))
    BY <1>5 DEF Pending, Due
  <2>4. c = next[s] => (Due(c)' => handed[c] <= undone[c])
    <3> SUFFICES ASSUME c = next[s], Due(c)'
                 PROVE  handed[c] <= undone[c]
      OBVIOUS
    <3>1. phase[s] = "open" /\ status[c] = "queued"
      <4>1. status[c] = "queued"  BY <1>2
      <4>2. PICK t \in Session : phase'[t] = "committed" /\ next'[t] = c
        BY DEF Due
      <4>3. t = s
        BY <1>5, <4>2 DEF CarriedInv
      <4> QED BY <1>5, <4>1, <4>2, <4>3
    <3>2. ~Pending(c)
      BY <3>1 DEF Pending, CarriedInv
    <3> QED BY <3>1, <3>2 DEF CountInv
  <2> QED BY <2>1, <2>2, <2>3, <2>4 DEF CountInv
<1>12. KnownInv'  BY <1>1, <1>5 DEF KnownInv
<1>13. VerdictInv'  BY <1>1, <1>5 DEF VerdictInv
<1>14. OrderInv'
  <2>1. \A c \in Command : /\ status[c] \in Committed  => status'[c] \in Committed
                           /\ status[c] \in Dispatched => status'[c] \in Dispatched
    BY <1>2, <1>3
  <2>2. \A t \in Session : phase'[t] \in Holding =>
            phase[t] \in Holding /\ next'[t] = next[t] /\ caller'[t] = caller[t]
    BY <1>5
  <2> QED BY <1>1, <2>1, <2>2 DEF OrderInv, NoneUndone, TypeOK
<1>15. ModeInv'  BY <1>1, <1>4, <1>5 DEF ModeInv, NoneUndone
<1>16. StatusIsVerdict'
  BY <1>1, <1>2, <1>3, StatusForFacts DEF StatusIsVerdict
<1>17. NoOvertaking'
  <2> SUFFICES ASSUME NoneUndone, NEW c \in Command, NEW e \in before[c],
                      Owner[e] = Owner[c], status'[c] \in Dispatched
               PROVE  status'[e] \in Dispatched
    BY <1>1 DEF NoOvertaking, NoneUndone
  <2>1. e \in Command  BY DEF TypeOK
  <2>2. status[e] \in Dispatched => status'[e] \in Dispatched
    BY <1>2, <1>3, <2>1
  <2>3. CASE c = next[s]
    BY <1>1, <1>2, <2>1, <2>2, <2>3 DEF OrderInv, CarriedInv
  <2>4. CASE c # next[s] /\ c = msg[s].cmd
    <3>1. handed[c] > 0 /\ undone[c] = 0
      BY <2>4 DEF KnownInv, NoneUndone
    <3>2. ~Pending(c)
      <4>1. ASSUME NEW t \in Session, phase[t] = "replied", next[t] = c  PROVE FALSE
        BY <1>1, <1>2, <2>4, <4>1 DEF CarriedInv, LockInv
      <4> QED BY <4>1 DEF Pending
    <3>3. status[c] \in Dispatched
      BY <1>2, <2>4, <3>1, <3>2 DEF CountInv, TypeOK
    <3> QED BY <2>2, <3>3 DEF NoOvertaking, NoneUndone
  <2>5. CASE c # next[s] /\ c # msg[s].cmd
    BY <1>3, <2>2, <2>5 DEF NoOvertaking, NoneUndone
  <2> QED BY <2>3, <2>4, <2>5
<1> QED
  BY <1>6, <1>7, <1>8, <1>9, <1>10, <1>11, <1>12, <1>13, <1>14, <1>15, <1>16, <1>17

\* A reply leaves the server.
LEMMA ReplyStep ==
  ASSUME IInv, NEW s \in Session, Reply(s)
  PROVE  IInv'
<1> USE NoneAssumption, ModeAssumption DEF IInv, Status, Committed, Dispatched, Outcome, Holding, Idle
<1>1. /\ phase[s] \in {"open", "committed"} /\ caller[s] \in Device
      /\ next[s] \in Command \cup {None}
      /\ UNCHANGED <<status, api, pushes, faults, undone, verdict>>
      /\ Receive(s, next[s])
  BY DEF Reply, TypeOK
<1>2. /\ CommitBeforeReply  => phase[s] = "committed" /\ Close(s)
      /\ ~CommitBeforeReply => phase[s] = "open" /\ Advance(s, "replied")
  BY DEF Reply
<1>3. /\ \A t \in Session \ {s} : /\ phase'[t] = phase[t] /\ caller'[t] = caller[t]
                                  /\ msg'[t] = msg[t] /\ next'[t] = next[t]
      /\ \/ /\ phase[s] = "open" /\ phase'[s] = "replied"
            /\ caller' = caller /\ msg' = msg /\ next' = next
         \/ phase[s] = "committed" /\ phase'[s] = "free" /\ msg'[s] = Idle /\ next'[s] = None
      /\ phase' \in [Session -> {"free", "received", "open", "committed", "replied"}]
      /\ caller' \in [Session -> Device \cup {None}]
      /\ msg' \in [Session -> Message]
      /\ next' \in [Session -> Command \cup {None}]
  <2>1. CASE CommitBeforeReply
    <3>1. msg' = [msg EXCEPT ![s] = Idle] /\ Idle \in Message
      BY <1>2, <2>1 DEF Close, Message
    <3>2. msg' \in [Session -> Message] /\ msg'[s] = Idle /\ \A t \in Session \ {s} : msg'[t] = msg[t]
      BY <3>1 DEF TypeOK
    <3>3. /\ phase' = [phase EXCEPT ![s] = "free"] /\ phase[s] = "committed"
          /\ caller' = [caller EXCEPT ![s] = None]
          /\ next' = [next EXCEPT ![s] = None]
      BY <1>2, <2>1 DEF Close
    <3>4. /\ \A t \in Session \ {s} : /\ phase'[t] = phase[t] /\ caller'[t] = caller[t]
                                     /\ next'[t] = next[t]
          /\ phase' \in [Session -> {"free", "received", "open", "committed", "replied"}]
          /\ caller' \in [Session -> Device \cup {None}]
          /\ next' \in [Session -> Command \cup {None}]
          /\ phase'[s] = "free" /\ next'[s] = None
      BY <3>3 DEF TypeOK
    <3> QED BY <3>2, <3>3, <3>4, Zenon
  <2>2. CASE ~CommitBeforeReply
    BY <1>2, <2>2 DEF Advance, TypeOK
  <2> QED BY <2>1, <2>2
<1>4. /\ handed' \in [Command -> Nat]
      /\ \A c \in Command : handed'[c] = handed[c] \/ (c = next[s] /\ handed'[c] = handed[c] + 1)
      /\ devMsg' \in [Device -> [cmd : Command \cup {None}, res : Result \cup {"Idle"}]]
      /\ devPhase' \in [Device -> {"idle", "waiting", "executing"}]
      /\ devConn' \in [Device -> Session \cup {None}]
      /\ \A d \in Device :
           \/ devMsg'[d] = devMsg[d] /\ devPhase'[d] = devPhase[d]
           \/ /\ d = caller[s] /\ devMsg'[d].cmd = next[s] /\ devMsg'[d].res = "Idle"
              /\ devPhase'[d] = IF next[s] = None THEN "idle" ELSE "executing"
              /\ next[s] # None => handed'[next[s]] = handed[next[s]] + 1
  <2>1. CASE devConn[caller[s]] = s
    <3>1. /\ devConn' = [devConn EXCEPT ![caller[s]] = None]
          /\ devPhase' = [devPhase EXCEPT ![caller[s]] = IF next[s] = None THEN "idle" ELSE "executing"]
          /\ devMsg' = [devMsg EXCEPT ![caller[s]] = [cmd |-> next[s], res |-> "Idle"]]
          /\ handed' = [c \in Command |-> IF c = next[s] THEN handed[c] + 1 ELSE handed[c]]
      BY <1>1, <2>1 DEF Receive
    <3> QED BY <1>1, <3>1 DEF TypeOK
  <2>2. CASE devConn[caller[s]] # s
    BY <1>1, <2>2 DEF Receive, TypeOK, dev
  <2> QED BY <2>1, <2>2
<1>5. next[s] # None => /\ Owner[next[s]] = caller[s]
                        /\ status[next[s]] \in Committed
                        /\ handed[next[s]] <= undone[next[s]]
  <2> SUFFICES ASSUME next[s] # None
               PROVE  /\ Owner[next[s]] = caller[s]
                      /\ status[next[s]] \in Committed
                      /\ handed[next[s]] <= undone[next[s]]
    OBVIOUS
  <2>1. Owner[next[s]] = caller[s]
    BY <1>1 DEF CarriedInv
  <2>2. CASE phase[s] = "open"
    <3>1. status[next[s]] = "queued" /\ ~Pending(next[s])
      BY <2>2 DEF CarriedInv, Pending
    <3> QED BY <1>1, <2>1, <3>1 DEF CountInv
  <2>3. CASE phase[s] = "committed"
    <3>1. status[next[s]] \in Dispatched /\ Due(next[s])
      BY <2>3 DEF CarriedInv, Due
    <3> QED BY <1>1, <2>1, <3>1 DEF CountInv
  <2> QED BY <1>1, <2>2, <2>3
<1>6. TypeOK'
  <2>1. \A d \in Device : /\ devPhase'[d] = "waiting"   => devMsg'[d] \in Message
                          /\ devPhase'[d] = "executing" => devMsg'[d].cmd \in Command
    BY <1>1, <1>4 DEF TypeOK
  <2>2. \A t \in Session : phase'[t] # "free" => caller'[t] \in Device
    BY <1>3 DEF TypeOK
  <2> QED BY <1>1, <1>3, <1>4, <2>1, <2>2 DEF TypeOK, api
<1>7. TxnsInv'  BY <1>1 DEF TxnsInv, api
<1>8. LockInv'  BY <1>3 DEF LockInv
<1>9. OwnInv'  BY <1>3, <1>4, <1>5 DEF OwnInv
<1>10. CarriedInv'  BY <1>1, <1>3 DEF CarriedInv
<1>11. CountInv'
  <2> SUFFICES ASSUME NEW c \in Command
               PROVE  /\ status[c] \notin Committed => handed'[c] = 0
                      /\ status[c] = "queued" /\ ~Pending(c)' => handed'[c] <= undone[c]
                      /\ Due(c)' => handed'[c] <= undone[c]
                      /\ handed'[c] <= 1 + undone[c]
    BY <1>1 DEF CountInv
  <2> USE DEF TypeOK
  <2>1. CASE c # next[s]
    <3>1. handed'[c] = handed[c] /\ (Pending(c)' <=> Pending(c)) /\ (Due(c)' <=> Due(c))
      BY <1>3, <1>4, <2>1 DEF Pending, Due
    <3> QED BY <3>1 DEF CountInv
  <2>2. CASE c = next[s]
    <3>1. handed'[c] <= 1 + undone[c] /\ status[c] \in Committed
      BY <1>4, <1>5, <2>2
    <3>2. ~Due(c)'
      <4>1. ASSUME NEW t \in Session, phase'[t] = "committed", next'[t] = c  PROVE FALSE
        BY <1>3, <2>2, <4>1 DEF CarriedInv
      <4> QED BY <4>1 DEF Due
    <3>3. status[c] = "queued" => Pending(c)'
      BY <1>1, <1>3, <2>2 DEF Pending, CarriedInv
    <3> QED BY <3>1, <3>2, <3>3
  <2> QED BY <2>1, <2>2
<1>12. KnownInv'
  <2>1. \A c \in Command : handed[c] > 0 => handed'[c] > 0
    BY <1>4 DEF TypeOK
  <2>2. \A t \in Session : msg'[t].cmd # None => msg'[t] = msg[t]
    BY <1>3
  <2>3. \A d \in Device : devMsg'[d].cmd # None =>
            \/ devMsg'[d] = devMsg[d]
            \/ devMsg'[d].cmd = next[s] /\ handed'[next[s]] > 0
    BY <1>1, <1>4 DEF TypeOK
  <2>4. /\ \A t \in Session : msg[t].cmd \in Command \cup {None}
        /\ \A d \in Device : devMsg[d].cmd \in Command \cup {None}
    BY DEF TypeOK, Message
  <2> QED BY <2>1, <2>2, <2>3, <2>4 DEF KnownInv
<1>13. VerdictInv'
  <2>1. \A t \in Session : msg'[t].cmd # None => msg'[t] = msg[t]
    BY <1>3
  <2>2. \A c \in Command : handed'[c] = 0 => handed[c] = 0
    BY <1>4 DEF TypeOK
  <2>3. \A d \in Device : devPhase'[d] = "waiting" => devMsg'[d] = devMsg[d] /\ devPhase[d] = "waiting"
    BY <1>4
  <2>4. ASSUME NEW d \in Device, devPhase'[d] = "executing", undone[devMsg'[d].cmd] = 0
        PROVE  verdict[devMsg'[d].cmd] = {}
    <3>1. CASE devMsg'[d] = devMsg[d] /\ devPhase'[d] = devPhase[d]
      BY <2>4, <3>1 DEF VerdictInv
    <3>2. CASE devMsg'[d].cmd = next[s] /\ next[s] # None
      <4>1. handed[next[s]] = 0
        BY <1>1, <1>5, <2>4, <3>2 DEF TypeOK
      <4> QED BY <1>1, <3>2, <4>1 DEF VerdictInv
    <3> QED BY <1>4, <2>4, <3>1, <3>2
  <2> QED BY <1>1, <2>1, <2>2, <2>3, <2>4 DEF VerdictInv
<1>14. OrderInv'  BY <1>1, <1>3 DEF OrderInv, NoneUndone, api
<1>15. ModeInv'  BY <1>1, <1>2, <1>3 DEF ModeInv, NoneUndone
<1>16. StatusIsVerdict'  BY <1>1 DEF StatusIsVerdict
<1>17. NoOvertaking'  BY <1>1 DEF NoOvertaking, api
<1> QED
  BY <1>6, <1>7, <1>8, <1>9, <1>10, <1>11, <1>12, <1>13, <1>14, <1>15, <1>16, <1>17

\* The invariant holds initially.
LEMMA InitInv == Init => IInv
<1> SUFFICES ASSUME Init PROVE IInv
  OBVIOUS
<1> USE NoneAssumption, ModeAssumption DEF Init, Idle
<1>1. TypeOK
  BY DEF TypeOK, Status, Committed, Dispatched, Outcome, Message
<1>2. TxnsInv /\ LockInv /\ OwnInv /\ CarriedInv
  BY DEF TxnsInv, LockInv, OwnInv, CarriedInv, Holding
<1>3. CountInv /\ KnownInv /\ VerdictInv /\ ModeInv
  BY DEF CountInv, Pending, Due, KnownInv, VerdictInv, ModeInv, NoneUndone
<1>4. OrderInv /\ StatusIsVerdict /\ NoOvertaking
  BY DEF OrderInv, StatusIsVerdict, NoOvertaking, Holding
<1> QED BY <1>1, <1>2, <1>3, <1>4 DEF IInv

\* A step that changes no variable preserves it.
LEMMA StutterStep == IInv /\ UNCHANGED vars => IInv'
<1> USE DEF vars, api, dev, sess, hist
<1> SUFFICES ASSUME IInv, UNCHANGED vars PROVE IInv'
  OBVIOUS
<1>1. TypeOK'
  BY DEF IInv, TypeOK
<1>2. TxnsInv' /\ LockInv' /\ OwnInv' /\ CarriedInv'
  BY DEF IInv, TxnsInv, LockInv, OwnInv, CarriedInv, Holding
<1>3. CountInv' /\ KnownInv' /\ VerdictInv' /\ ModeInv'
  BY DEF IInv, CountInv, Pending, Due, KnownInv, VerdictInv, ModeInv, NoneUndone
<1>4. OrderInv' /\ StatusIsVerdict' /\ NoOvertaking'
  BY DEF IInv, OrderInv, StatusIsVerdict, NoOvertaking, NoneUndone, Holding
<1> QED BY <1>1, <1>2, <1>3, <1>4 DEF IInv

\* Every step preserves it.
LEMMA NextInv == IInv /\ [Next]_vars => IInv'
<1> SUFFICES ASSUME IInv, [Next]_vars PROVE IInv'
  OBVIOUS
<1>1. CASE Api
  BY <1>1, QueueStep, CommitBatchStep, RollbackBatchStep DEF Api, WakingApi
<1>2. CASE Client
  BY <1>2, LoseStep, TimeoutStep, GiveUpStep, WakeStep, PollStep, ResendStep, ReportStep DEF Client
<1>3. CASE Server
  BY <1>3, UnreadableStep, HandleStep, FailsStep, CommitStep, ReplyStep, CrashStep DEF Server
<1>4. CASE UNCHANGED vars
  BY <1>4, StutterStep
<1> QED BY <1>1, <1>2, <1>3, <1>4 DEF Next

\* The invariant holds in every reachable state.
THEOREM Invariance == Spec => []IInv
BY InitInv, NextInv, PTL DEF Spec

--------------------------------------------------------------------------------
(* The safety properties.                                                       *)

\* The type invariant: whatever the interleaving, every row, request and device
\* has one of its states, and a request in progress knows its device.
THEOREM TypeCorrect == Spec => []TypeOK
<1>1. IInv => TypeOK  BY DEF IInv
<1> QED BY <1>1, Invariance, PTL

\* connect hands a command out once, and once more only for every rolled back
\* transaction whose answer had left.
THEOREM HandsOutOnce == Spec => []HandedOnce
<1>1. IInv => HandedOnce  BY DEF IInv, CountInv, HandedOnce
<1> QED BY <1>1, Invariance, PTL

\* Pushes leave before the commit, but no device sees an uncommitted command.
THEOREM HandsOutCommitted == Spec => []OnlyCommittedHanded
<1>1. IInv => OnlyCommittedHanded
  BY DEF IInv, TypeOK, CountInv, OnlyCommittedHanded
<1> QED BY <1>1, Invariance, PTL

\* _process_command_result stores nothing but what the device said of the command.
THEOREM StatusReported == Spec => []StatusIsVerdict
<1>1. IInv => StatusIsVerdict  BY DEF IInv
<1> QED BY <1>1, Invariance, PTL

\* _get_next_command serves the commands of a device in the order of their
\* requests, where the requests do not overlap.
THEOREM ServedInOrder == Spec => []NoOvertaking
<1>1. IInv => NoOvertaking  BY DEF IInv
<1> QED BY <1>1, Invariance, PTL

\* What a commit does to the row of a command that its session reports on.
LEMMA CommitFacts ==
  ASSUME IInv, NEW s \in Session, Commit(s)
  PROVE  /\ next[s] # None => next[s] \in Command /\ status[next[s]] = "queued"
         /\ msg[s].cmd # None =>
              /\ msg[s].cmd \in Command /\ msg[s].cmd # next[s]
              /\ msg[s].res \in verdict[msg[s].cmd] /\ msg[s].res \in Result
              /\ status[msg[s].cmd] \in Committed
         /\ \A c \in Command :
              status'[c] = IF c = next[s] THEN "sent"
                           ELSE IF c = msg[s].cmd THEN StatusFor(msg[s].res) ELSE status[c]
<1> USE NoneAssumption DEF IInv
<1>1. phase[s] \in Holding /\ msg[s] \in Message /\ next[s] \in Command \cup {None}
  BY DEF Commit, Holding, TypeOK
<1>2. next[s] # None => status[next[s]] = "queued" /\ next[s] # msg[s].cmd
  BY <1>1 DEF CarriedInv, Holding
<1>3. msg[s].cmd # None => /\ msg[s].cmd \in Command /\ msg[s].res \in Result
                           /\ msg[s].res \in verdict[msg[s].cmd]
                           /\ status[msg[s].cmd] \in Committed
  BY <1>1 DEF KnownInv, VerdictInv, CountInv, Message, TypeOK
<1>4. \A c \in Command :
         status'[c] = IF c = next[s] THEN "sent"
                      ELSE IF c = msg[s].cmd THEN StatusFor(msg[s].res) ELSE status[c]
  BY <1>1, <1>3 DEF Commit, Reported
<1> QED BY <1>1, <1>2, <1>3, <1>4

\* A second report of a settled command says what the first one said.
LEMMA SameReport ==
  ASSUME IInv, NEW c \in Command, NEW r \in verdict[c], undone[c] = 0, status[c] \in Outcome
  PROVE  StatusFor(r) = status[c]
<1>1. \A q \in verdict[c] : q = r
  BY DEF IInv, VerdictInv
<1>2. r \in Result
  BY DEF IInv, TypeOK
<1>3. CASE status[c] = "completed"
  BY <1>1, <1>3 DEF IInv, StatusIsVerdict, StatusFor
<1>4. CASE status[c] = "not_now"
  BY <1>1, <1>4 DEF IInv, StatusIsVerdict, StatusFor
<1>5. CASE status[c] = "failed"
  BY <1>1, <1>5 DEF IInv, StatusIsVerdict, StatusFor
<1> QED BY <1>3, <1>4, <1>5 DEF Outcome

\* No step changes a row that is done or failed: the unconditional UPDATE only repeats itself.
THEOREM SettlesOnce == Spec => SettledOnce
<1>1. IInv /\ [Next]_vars =>
        [\A c \in Command : undone[c] = 0 /\ status[c] \in Settled => status'[c] = status[c]]_vars
  <2> SUFFICES ASSUME IInv, Next, NEW c \in Command, undone[c] = 0, status[c] \in Outcome
               PROVE  status'[c] = status[c]
    BY DEF Settled, Outcome
  <2>1. ASSUME NEW B \in SUBSET Command,
               QueueCommands(B) \/ PushProfile(B) \/ CommitCommands(B) \/ RollbackCommands(B)
        PROVE  status'[c] = status[c]
    BY <2>1 DEF QueueCommands, PushProfile, InsertRows, CommitCommands, RollbackCommands, IInv, TxnsInv, Outcome
  <2>2. ASSUME NEW s \in Session, Commit(s)
        PROVE  status'[c] = status[c]
    <3>1. c # next[s]
      BY <2>2, CommitFacts, NoneAssumption DEF Outcome
    <3>2. CASE c = msg[s].cmd
      BY <2>2, <3>1, <3>2, CommitFacts, SameReport, NoneAssumption
    <3>3. CASE c # msg[s].cmd
      BY <2>2, <3>1, <3>3, CommitFacts
    <3> QED BY <3>2, <3>3
  <2>3. CASE Client
    BY <2>3 DEF Client, LosePush, Timeout, GiveUp, Wake, Poll, Resend, Report
  <2>4. ASSUME NEW s \in Session, HandleUnreadable(s) \/ Handle(s) \/ HandleFails(s)
                                    \/ Reply(s) \/ Crash(s)
        PROVE  status'[c] = status[c]
    BY <2>4 DEF HandleUnreadable, Handle, HandleFails, Reply, Crash
  <2> QED BY <2>1, <2>2, <2>3, <2>4 DEF Next, Api, WakingApi, Server
<1> QED BY <1>1, Invariance, PTL DEF Spec, SettledOnce

--------------------------------------------------------------------------------
(* The refinement, when the commit precedes the reply.                          *)

\* A commit is one exchange with the device, or, when the device only repeats a
\* report that is already stored, an exchange without a result.
LEMMA CommitRefines ==
  ASSUME IInv, CommitBeforeReply, NEW s \in Session, Commit(s)
  PROVE  Lifecycle!Next
<1> DEFINE m == msg[s].cmd
           n == next[s]
           d == caller[s]
           v == StatusFor(msg[s].res)
<1>1. NoneUndone /\ phase[s] = "open" /\ d \in Device /\ n \in Command \cup {None}
  BY DEF IInv, ModeInv, Commit, TypeOK
<1>2. /\ n # None => n \in Command /\ status[n] = "queued" /\ Owner[n] = d
      /\ m # None => /\ m \in Command /\ m # n /\ Owner[m] = d
                     /\ status[m] \in Dispatched
  <2>1. n # None => n \in Command /\ status[n] = "queued" /\ Owner[n] = d
    BY <1>1, CommitFacts DEF IInv, CarriedInv
  <2>2. m # None => m \in Command /\ m # n /\ Owner[m] = d /\ status[m] \in Committed
    BY <1>1, CommitFacts DEF IInv, OwnInv
  <2>3. m # None => handed[m] > 0 /\ ~Pending(m) /\ undone[m] = 0
    BY <1>1, <2>2 DEF IInv, KnownInv, Pending, ModeInv, NoneUndone
  <2>4. m # None => status[m] # "queued"
    BY <2>2, <2>3 DEF IInv, CountInv, TypeOK
  <2> QED BY <2>1, <2>2, <2>4 DEF Committed
<1>3. /\ v \in Lifecycle!Answer
      /\ \A c \in Command : status'[c] = IF c = n THEN "sent" ELSE IF c = m THEN v ELSE status[c]
  BY CommitFacts, StatusForFacts DEF Outcome, Lifecycle!Answer
<1>4. \A c \in Command : status[c] \in Dispatched \/ status[c] = "queued" => CommittedTable[c] = status[c]
  BY DEF CommittedTable, Committed
<1> HIDE DEF m, n, d, v
<1>5. CommittedTable' = [c \in Command |-> IF c = n THEN "sent" ELSE IF c = m THEN v
                                            ELSE CommittedTable[c]]
  BY <1>3, NoneAssumption DEF CommittedTable, Committed, Dispatched, Outcome, Lifecycle!Answer
<1>6. CASE m = None \/ status[m] = "sent"
  <2>1. Lifecycle!Exchange(d, m, v, n)
    BY <1>2, <1>3, <1>4, <1>5, <1>6 DEF Lifecycle!Exchange, Dispatched
  <2>2. m \in Command \cup {None}
    BY <1>2
  <2> QED BY <1>1, <1>3, <2>1, <2>2 DEF Lifecycle!Next
<1>7. CASE m # None /\ status[m] # "sent"
  <2>1. status[m] \in Outcome /\ undone[m] = 0 /\ m \in Command
    BY <1>1, <1>2, <1>7 DEF Dispatched, NoneUndone
  <2>2. v = status[m]
    BY <1>7, <2>1, CommitFacts, SameReport DEF m, v
  <2>3. CommittedTable' = [c \in Command |-> IF c = n THEN "sent" ELSE IF c = None THEN v
                                              ELSE CommittedTable[c]]
    BY <1>4, <1>5, <2>1, <2>2, NoneAssumption DEF CommittedTable, Committed, Dispatched
  <2>4. Lifecycle!Exchange(d, None, v, n)
    BY <1>2, <1>4, <2>3 DEF Lifecycle!Exchange
  <2> QED BY <1>1, <1>3, <2>4 DEF Lifecycle!Next
<1> QED BY <1>6, <1>7

\* The committed rows follow the lifecycle: a command is submitted, handed to its
\* own device once before each answer and settled once, whatever is cut off, resent or rolled back.
THEOREM RefinesLifecycle == CommitBeforeReply /\ Spec => ImplementsLifecycle
<1> SUFFICES ASSUME CommitBeforeReply PROVE Spec => ImplementsLifecycle
  OBVIOUS
<1> USE DEF Committed, Dispatched, Outcome
<1>1. Init => Lifecycle!Init
  BY DEF Init, Lifecycle!Init, CommittedTable
<1>2. IInv /\ [Next]_vars => [Lifecycle!Next]_CommittedTable
  <2> SUFFICES ASSUME IInv, [Next]_vars
               PROVE  Lifecycle!Next \/ CommittedTable' = CommittedTable
    OBVIOUS
  <2>1. ASSUME NEW B \in SUBSET Command, CommitCommands(B)
        PROVE  Lifecycle!Next
    <3>1. \A c \in B : status[c] = "open"
      BY <2>1 DEF CommitCommands, IInv, TxnsInv
    <3>2. Lifecycle!Submit(B)
      BY <2>1, <3>1 DEF CommitCommands, CommittedTable, Lifecycle!Submit
    <3> QED BY <3>2 DEF Lifecycle!Next
  <2>2. ASSUME NEW B \in SUBSET Command, QueueCommands(B) \/ PushProfile(B) \/ RollbackCommands(B)
        PROVE  CommittedTable' = CommittedTable
    BY <2>2 DEF QueueCommands, PushProfile, InsertRows, RollbackCommands, CommittedTable, IInv, TxnsInv
  <2>3. CASE Client
    BY <2>3 DEF Client, LosePush, Timeout, GiveUp, Wake, Poll, Resend, Report, CommittedTable
  <2>4. ASSUME NEW s \in Session, HandleUnreadable(s) \/ Handle(s) \/ HandleFails(s)
                                    \/ Reply(s) \/ Crash(s)
        PROVE  CommittedTable' = CommittedTable
    BY <2>4 DEF HandleUnreadable, Handle, HandleFails, Reply, Crash, CommittedTable
  <2>5. ASSUME NEW s \in Session, Commit(s)
        PROVE  Lifecycle!Next
    BY <2>5, CommitRefines
  <2>6. CASE UNCHANGED vars
    BY <2>6 DEF vars, CommittedTable
  <2> QED BY <2>1, <2>2, <2>3, <2>4, <2>5, <2>6 DEF Next, Api, WakingApi, Server
<1> QED BY <1>1, <1>2, Invariance, PTL DEF Spec, ImplementsLifecycle, Lifecycle!Spec
================================================================================
