---------------------------- MODULE InventoryProofs ----------------------------
(***************************************************************************)
(* Proofs about Inventory, for any items, accounts and handlers and any    *)
(* bounds on requests and failures.                                        *)
(***************************************************************************)
EXTENDS Inventory, FiniteSetTheorems, TLAPS

--------------------------------------------------------------------------------
(* The inductive invariant, in parts.                                           *)

\* What the Mac can tell of an inventory, and the rows it has.
Telling(k) == IF k = "users" THEN Told ELSE [names : SUBSET Item, on : {{}}]
RowsOf(k)  == IF k = "users" THEN Users ELSE [item : Item, by : By]

\* What a handler may have in its hands depends on the operation.
Held(q) ==
    /\ q.op \in {"answer", "replace"} =>
           q.kind \in Kind \cup {"users"} /\ q.told \in Telling(q.kind) /\ q.by \in By
    /\ q.op = "replace" => q.seen \subseteq RowsOf(q.kind)
    /\ q.op = "report" => q.told \in Told /\ q.by \in By /\ q.known \subseteq Users
    /\ q.op = "ask" => q.row \in Users
    /\ q.op = "install" => q.items \subseteq Item /\ q.by \subseteq By /\ Cardinality(q.by) <= 1

HoldInv ==
    /\ request = [h \in Handler |-> request[h]] /\ \A h \in Handler : Held(request[h])
    /\ DOMAIN shown = Kind

\* Replacements come one after the other; what one is to delete is still all there is of an
\* inventory, and no request refers to it when it is accounts.
ReplaceInv ==
    /\ \A h, i \in Handler : request[h].op = "replace" /\ request[i].op = "replace" => h = i
    /\ \A h \in Handler : request[h].op = "replace" =>
           IF request[h].kind = "users" THEN request[h].seen \cap referred = {}
                                        ELSE shown[request[h].kind] \subseteq request[h].seen

IInv == TypeOK /\ HoldInv /\ ReplaceInv /\ SnapshotWhole /\ AccountOnce /\ AccountStays

--------------------------------------------------------------------------------
(* What the operations hold and write.                                          *)

\* A Mac that tells who is logged in has told of an account of that name.
LEMMA ToldFacts ==
  ASSUME NEW k \in Kind \cup {"users"}, NEW told \in Telling(k)
  PROVE  /\ k = "users" => told.names \subseteq Account /\ told.on \subseteq told.names
         /\ k # "users" => told.names \subseteq Item
<1>1. CASE k = "users"
  BY <1>1 DEF Telling, Told
<1>2. CASE k # "users"
  BY <1>2 DEF Telling
<1> QED BY <1>1, <1>2

LEMMA RowsFacts ==
  ASSUME NEW names, NEW by
  PROVE  /\ \A r \in Rows(names, by) : r.name \in names /\ r.by = by
         /\ \A a \in names : [name |-> a, by |-> by] \in Rows(names, by)
         /\ \A r, s \in Rows(names, by) : r.name = s.name => r = s
         /\ names \subseteq Account /\ by \in By => Rows(names, by) \subseteq Users
         /\ \A some \in SUBSET names : Rows(some, by) \subseteq Rows(names, by)
BY DEF Rows, Users

--------------------------------------------------------------------------------
(* The requests.                                                                *)

\* A handler that only reads leaves what the invariant says of the rows alone.
LEMMA BeginStep ==
  ASSUME IInv, NEW h \in Handler, NEW q, Held(q), Begin(h, q), q.op # "replace",
         UNCHANGED <<inventory, accounts>>
  PROVE  IInv'
<1>1. UNCHANGED <<asked, shown, installs, users, on, referred, doubled, faults>>
  BY DEF Begin, inventory, accounts
<1>2. request' = [request EXCEPT ![h] = q] /\ begun' \in 0..MaxRequests
  BY HandlersAssumption DEF Begin, Hold, Arrives, IInv, TypeOK
<1>3. request' = [i \in Handler |-> request'[i]] /\ \A i \in Handler : request'[i] = IF i = h THEN q ELSE request[i]
  BY <1>2 DEF IInv, HoldInv
<1>4. HoldInv'
  BY <1>1, <1>3 DEF IInv, HoldInv
<1>5. ReplaceInv'
  BY <1>1, <1>3 DEF IInv, ReplaceInv
<1>6. TypeOK'
  BY <1>1, <1>2 DEF IInv, TypeOK
<1>7. SnapshotWhole' /\ AccountOnce' /\ AccountStays'
  BY <1>1 DEF IInv, SnapshotWhole, AccountOnce, AccountStays
<1> QED BY <1>4, <1>5, <1>6, <1>7 DEF IInv

\* A handler that is done holds nothing.
LEMMA DoneFacts ==
  ASSUME IInv, NEW h \in Handler, request' = [request EXCEPT ![h] = Free]
  PROVE  /\ request' = [i \in Handler |-> request'[i]] /\ \A i \in Handler : Held(request'[i])
         /\ \A i \in Handler : request'[i].op = "replace" => i # h /\ request'[i] = request[i]
<1>1. request' = [i \in Handler |-> request'[i]] /\ \A i \in Handler : request'[i] = IF i = h THEN Free ELSE request[i]
  BY DEF IInv, HoldInv
<1>2. Held(Free) /\ Free.op = "none"
  BY DEF Held, Free
<1> QED BY <1>1, <1>2 DEF IInv, HoldInv

\* The parts about requests when a handler is done and nothing more is referred to or shown.
LEMMA QuietStep ==
  ASSUME IInv, NEW h \in Handler, request' = [request EXCEPT ![h] = Free], UNCHANGED <<shown, referred>>
  PROVE  HoldInv' /\ ReplaceInv'
BY DoneFacts DEF IInv, HoldInv, ReplaceInv

\* The DELETE of an answer locks what there is.
LEMMA ReplaceStep ==
  ASSUME IInv, NEW h \in Handler, Replace(h)
  PROVE  IInv'
<1> DEFINE q == request[h]
           seen == IF q.kind = "users" THEN users ELSE shown[q.kind]
           n == [op |-> "replace", kind |-> q.kind, told |-> q.told, by |-> q.by, seen |-> seen]
<1>1. /\ q.op = "answer" /\ RowFree
      /\ UNCHANGED <<begun, faults, asked, shown, installs, users, on, referred, doubled>>
  BY DEF Replace, inventory, accounts
<1>2. q.kind \in Kind \cup {"users"} /\ q.told \in Telling(q.kind) /\ q.by \in By
  BY <1>1 DEF IInv, HoldInv, Held
<1>3. seen \subseteq RowsOf(q.kind)
  <2>1. CASE q.kind = "users"
    BY <2>1 DEF IInv, TypeOK, RowsOf
  <2>2. CASE q.kind \in Kind
    BY <2>2 DEF IInv, TypeOK, RowsOf, Kind
  <2> QED BY <1>2, <2>1, <2>2
<1>4. Held(n) /\ n.op = "replace" /\ n.kind = q.kind /\ n.seen = seen
  BY <1>2, <1>3 DEF Held
<1>5. TypeOK' /\ SnapshotWhole' /\ AccountOnce' /\ AccountStays'
  BY <1>1 DEF IInv, TypeOK, SnapshotWhole, AccountOnce, AccountStays
<1>6. CASE q.kind = "users" /\ referred # {}
  <2>1. request' = [request EXCEPT ![h] = Free]
    BY <1>6 DEF Replace
  <2> QED BY <1>1, <1>5, <2>1, QuietStep DEF IInv
<1>7. CASE ~(q.kind = "users" /\ referred # {})
  <2>1. request' = [request EXCEPT ![h] = n]
    BY <1>7 DEF Replace
  <2> HIDE DEF n
  <2>2. request' = [i \in Handler |-> request'[i]] /\ \A i \in Handler : request'[i] = IF i = h THEN n ELSE request[i]
    BY <2>1 DEF IInv, HoldInv
  <2>3. HoldInv'
    BY <1>1, <1>4, <2>2 DEF IInv, HoldInv
  <2>4. ReplaceInv'
    BY <1>1, <1>4, <1>7, <2>2 DEF ReplaceInv, RowFree
  <2> QED BY <1>5, <2>3, <2>4 DEF IInv
<1> QED BY <1>6, <1>7

\* The requests that arrive.
LEMMA ArrivalStep ==
  ASSUME IInv, NEW h \in Handler, Arrivals(h)
  PROVE  IInv'
<1>1. ASSUME begun < MaxRequests
      PROVE  begun + 1 \in By
  BY <1>1, HandlersAssumption DEF By, IInv, TypeOK
<1>2. ASSUME NEW k \in Kind \cup {"users"}, NEW told \in Telling(k), Answer(h, k, told)
      PROVE  IInv'
  <2> DEFINE q == [op |-> "answer", kind |-> k, told |-> told, by |-> begun + 1]
  <2>1. Begin(h, q) /\ begun < MaxRequests /\ UNCHANGED <<inventory, accounts>>
    BY <1>2 DEF Answer, Begin, Arrives
  <2>2. Held(q) /\ q.op # "replace"
    BY <1>1, <2>1 DEF Held
  <2> HIDE DEF q
  <2> QED BY <2>1, <2>2, BeginStep
<1>3. ASSUME NEW k \in Kind, NEW items \in SUBSET Item, Answer(h, k, [names |-> items, on |-> {}])
      PROVE  IInv'
  <2>1. [names |-> items, on |-> {}] \in Telling(k)
    BY DEF Telling, Kind
  <2> QED BY <1>2, <1>3, <2>1
<1>4. ASSUME NEW told \in Told, Answer(h, "users", told)
      PROVE  IInv'
  BY <1>2, <1>4 DEF Telling
<1>5. ASSUME NEW told \in Told, Report(h, told)
      PROVE  IInv'
  <2>1. PICK known \in SUBSET users :
            /\ Begin(h, [op |-> "report", told |-> told, known |-> known, saw |-> known \cap on, by |-> begun + 1])
            /\ UNCHANGED <<inventory, accounts>>
    BY <1>5 DEF Report
  <2> DEFINE q == [op |-> "report", told |-> told, known |-> known, saw |-> known \cap on, by |-> begun + 1]
  <2>2. begun < MaxRequests /\ known \subseteq Users
    BY <2>1 DEF Begin, Arrives, IInv, TypeOK
  <2>3. Held(q) /\ q.op # "replace"
    BY <1>1, <2>2 DEF Held
  <2>4. Begin(h, q)
    BY <2>1
  <2> HIDE DEF q
  <2> QED BY <2>1, <2>3, <2>4, BeginStep
<1>6. ASSUME NEW r \in users, Ask(h, r)
      PROVE  IInv'
  <2> DEFINE q == [op |-> "ask", row |-> r]
  <2>1. Held(q) /\ q.op # "replace"
    BY DEF Held, IInv, TypeOK
  <2>2. Begin(h, q) /\ UNCHANGED <<inventory, accounts>>
    BY <1>6 DEF Ask
  <2> HIDE DEF q
  <2> QED BY <2>1, <2>2, BeginStep
<1>7. ASSUME NEW a \in Account, AskPortal(h, a)
      PROVE  IInv'
  <2>1. PICK r \in IF RowsFor(a) = {} THEN on ELSE RowsFor(a) : Ask(h, r)
    BY <1>7 DEF AskPortal
  <2>2. r \in users
    BY <2>1 DEF RowsFor, IInv, TypeOK
  <2> QED BY <1>6, <2>1, <2>2
<1>8. ASSUME NEW items \in SUBSET Item, LoadInstall(h, items)
      PROVE  IInv'
  <2> DEFINE rows == {r \in shown["updates"] : r.item \in items}
             q == [op |-> "install", items |-> items, by |-> {r.by : r \in rows}]
  <2>1. Begin(h, q) /\ UNCHANGED <<inventory, accounts>>
    BY <1>8 DEF LoadInstall
  <2>2. rows \subseteq [item : Item, by : By] /\ \A r, s \in rows : r.by = s.by
    BY DEF IInv, TypeOK, SnapshotWhole, Kind
  <2>3. {r.by : r \in rows} \subseteq By
    BY <2>2
  <2>4. Cardinality({r.by : r \in rows}) <= 1
    <3>1. CASE rows = {}
      <4>1. {r.by : r \in rows} = {}
        BY <3>1
      <4> QED BY <4>1, FS_EmptySet
    <3>2. CASE rows # {}
      <4>1. PICK s \in rows : TRUE
        BY <3>2
      <4>2. {r.by : r \in rows} = {s.by}
        BY <2>2, <4>1
      <4>3. Cardinality({s.by}) = 1
        BY FS_Singleton
      <4> QED BY <4>2, <4>3
    <3> QED BY <3>1, <3>2
  <2>5. Held(q) /\ q.op # "replace"
    BY <2>3, <2>4 DEF Held
  <2> HIDE DEF q
  <2> QED BY <2>1, <2>5, BeginStep
<1> QED BY <1>3, <1>4, <1>5, <1>6, <1>7, <1>8 DEF Arrivals, AskAdmin

--------------------------------------------------------------------------------
(* The commits.                                                                 *)

\* Apps and updates: what the DELETE found was all there was.
LEMMA AnswerOther ==
  ASSUME IInv, NEW h \in Handler, CommitAnswer(h), request[h].kind \in Kind
  PROVE  IInv'
<1> DEFINE q == request[h]
           New == {[item |-> x, by |-> q.by] : x \in q.told.names}
<1>1. /\ q.op = "replace" /\ request' = [request EXCEPT ![h] = Free]
      /\ asked' = asked \ {q.kind} /\ shown' = [shown EXCEPT ![q.kind] = (shown[q.kind] \ q.seen) \cup New]
      /\ UNCHANGED <<begun, faults, installs, users, on, referred, doubled>>
  BY DEF CommitAnswer, Finish, accounts
<1>2. q.told \in Telling(q.kind) /\ q.by \in By /\ q.kind # "users"
  BY <1>1 DEF IInv, HoldInv, Held, Kind
<1>3. New \subseteq [item : Item, by : By] /\ \A r \in New : r.by = q.by
  BY <1>2, ToldFacts
<1>4. shown[q.kind] \subseteq q.seen
  BY <1>1, <1>2 DEF IInv, ReplaceInv
<1> HIDE DEF New
<1>5. DOMAIN shown' = Kind /\ \A k \in Kind : shown'[k] = IF k = q.kind THEN New ELSE shown[k]
  <2>1. (shown[q.kind] \ q.seen) \cup New = New
    BY <1>4
  <2> QED BY <1>1, <2>1 DEF IInv, HoldInv
<1>6. /\ request' = [i \in Handler |-> request'[i]] /\ \A i \in Handler : Held(request'[i])
      /\ \A i \in Handler : request'[i].op = "replace" => i # h /\ request'[i] = request[i]
  BY <1>1, DoneFacts
<1>7. HoldInv'
  BY <1>5, <1>6 DEF IInv, HoldInv
<1>8. ReplaceInv'
  BY <1>1, <1>6 DEF IInv, ReplaceInv
<1>9. TypeOK'
  BY <1>1, <1>3, <1>5 DEF IInv, TypeOK
<1>10. SnapshotWhole'
  BY <1>1, <1>3, <1>5 DEF IInv, SnapshotWhole
<1>11. AccountOnce' /\ AccountStays'
  BY <1>1 DEF IInv, AccountOnce, AccountStays
<1> QED BY <1>7, <1>8, <1>9, <1>10, <1>11 DEF IInv

\* Accounts: rows the agent inserted after the DELETE stay beside the new ones.
LEMMA AnswerUsers ==
  ASSUME IInv, NEW h \in Handler, CommitAnswer(h), request[h].kind = "users"
  PROVE  IInv'
<1> DEFINE q == request[h]
           New == Rows(q.told.names, q.by)
           On  == Rows(q.told.on, q.by)
<1>1. /\ q.op = "replace" /\ request' = [request EXCEPT ![h] = Free]
      /\ asked' = asked \ {"users"}
      /\ users' = (users \ q.seen) \cup New /\ on' = (on \ q.seen) \cup On
      /\ doubled' = {r.name : r \in users \ q.seen} \cap (doubled \cup q.told.names)
      /\ UNCHANGED <<begun, faults, shown, installs, referred>>
  BY DEF CommitAnswer, Finish, Kind
<1>2. q.told \in Telling("users") /\ q.by \in By
  BY <1>1 DEF IInv, HoldInv, Held
<1>3. q.told.names \subseteq Account /\ q.told.on \subseteq q.told.names
  BY <1>2, ToldFacts
<1>4. /\ New \subseteq Users /\ On \subseteq New
      /\ \A r \in New : r.name \in q.told.names
      /\ \A r, s \in New : r.name = s.name => r = s
  BY <1>2, <1>3, RowsFacts
<1>5. q.seen \cap referred = {}
  BY <1>1 DEF IInv, ReplaceInv
<1>6. HoldInv' /\ ReplaceInv'
  BY <1>1, QuietStep
<1> HIDE DEF q, New, On
<1>7. TypeOK'
  <2>1. users' \subseteq Users /\ on' \subseteq users'
    BY <1>1, <1>4 DEF IInv, TypeOK
  <2>2. doubled' \subseteq Account
    BY <1>1, <1>3 DEF IInv, TypeOK
  <2> QED BY <1>1, <2>1, <2>2 DEF IInv, TypeOK
<1>8. AccountOnce'
  <2> SUFFICES ASSUME NEW r \in users', NEW s \in users', r.name = s.name, r # s
               PROVE  r.name \in doubled'
    BY DEF AccountOnce
  <2>1. CASE r \in users \ q.seen
    <3>1. s.name \in doubled \cup q.told.names
      <4>1. CASE s \in users
        BY <1>1, <2>1, <4>1 DEF IInv, AccountOnce
      <4>2. CASE s \in New
        BY <1>4, <4>2
      <4> QED BY <1>1, <4>1, <4>2
    <3> QED BY <1>1, <2>1, <3>1
  <2>2. CASE s \in users \ q.seen
    <3>1. r.name \in doubled \cup q.told.names
      <4>1. CASE r \in users
        BY <1>1, <2>2, <4>1 DEF IInv, AccountOnce
      <4>2. CASE r \in New
        BY <1>4, <4>2
      <4> QED BY <1>1, <4>1, <4>2
    <3> QED BY <1>1, <2>2, <3>1
  <2>3. CASE r \in New /\ s \in New
    BY <1>4, <2>3
  <2> QED BY <1>1, <2>1, <2>2, <2>3
<1>9. AccountStays'
  BY <1>1, <1>5 DEF IInv, AccountStays
<1>10. SnapshotWhole'
  BY <1>1 DEF IInv, SnapshotWhole
<1> QED BY <1>6, <1>7, <1>8, <1>9, <1>10 DEF IInv

\* A report adds the accounts it did not know.
LEMMA ReportStep ==
  ASSUME IInv, NEW h \in Handler, CommitReport(h)
  PROVE  IInv'
<1> DEFINE q       == request[h]
           told    == {r \in q.known : r.name \in q.told.names}
           changed == {r \in told : (r \in q.saw) # (r.name \in q.told.on)}
           new     == q.told.names \ {r.name : r \in q.known}
           New     == Rows(new, q.by)
           Back    == {r \in changed : r.name \in q.told.on}
           On      == Rows(new \cap q.told.on, q.by)
<1>1. /\ q.op = "report" /\ request' = [request EXCEPT ![h] = Free]
      /\ UNCHANGED <<begun, faults, asked, shown, installs>>
      /\ \/ /\ changed \subseteq users
            /\ users' = users \cup New
            /\ on' = (on \ changed) \cup Back \cup On
            /\ doubled' = doubled \cup {a \in new : RowsFor(a) # {}}
            /\ UNCHANGED referred
         \/ UNCHANGED <<users, on, referred, doubled>>
  BY DEF CommitReport, Finish, inventory, accounts
<1>2. q.told \in Told /\ q.by \in By
  BY <1>1 DEF IInv, HoldInv, Held
<1>3. new \subseteq Account
  BY <1>2 DEF Told
<1>4. /\ New \subseteq Users /\ On \subseteq New
      /\ \A r \in New : r.name \in new
      /\ \A r, s \in New : r.name = s.name => r = s
  BY <1>2, <1>3, RowsFacts
<1>5. Back \subseteq changed
  OBVIOUS
<1>6. referred' = referred
  BY <1>1
<1>7. HoldInv' /\ ReplaceInv'
  BY <1>1, <1>6, QuietStep
<1>8. SnapshotWhole'
  BY <1>1 DEF IInv, SnapshotWhole
<1> HIDE DEF q, told, changed, new, New, Back, On
<1>9. CASE UNCHANGED <<users, on, referred, doubled>>
  BY <1>1, <1>7, <1>8, <1>9 DEF IInv, TypeOK, AccountOnce, AccountStays
<1>10. CASE /\ changed \subseteq users
            /\ users' = users \cup New
            /\ on' = (on \ changed) \cup Back \cup On
            /\ doubled' = doubled \cup {a \in new : RowsFor(a) # {}}
  <2>1. users' \subseteq Users /\ on' \subseteq users' /\ doubled' \subseteq Account
    BY <1>3, <1>4, <1>5, <1>10 DEF IInv, TypeOK
  <2>2. TypeOK'
    BY <1>1, <1>6, <2>1 DEF IInv, TypeOK
  <2>3. AccountOnce'
    <3> SUFFICES ASSUME NEW r \in users', NEW s \in users', r.name = s.name, r # s
                 PROVE  r.name \in doubled'
      BY DEF AccountOnce
    <3>1. CASE r \in users /\ s \in users
      BY <1>10, <3>1 DEF IInv, AccountOnce
    <3>2. ASSUME NEW a \in users, NEW b \in New, a.name = b.name
          PROVE  a.name \in doubled'
      <4>1. RowsFor(a.name) # {}
        BY DEF RowsFor
      <4> QED BY <1>4, <1>10, <3>2, <4>1
    <3> QED BY <1>4, <1>10, <3>1, <3>2
  <2> QED BY <1>6, <1>7, <1>8, <1>10, <2>2, <2>3 DEF IInv, AccountStays
<1> QED BY <1>1, <1>9, <1>10

\* The foreign key sees to it that the row exists and no DELETE has it.
LEMMA AskStep ==
  ASSUME IInv, NEW h \in Handler, CommitAsk(h)
  PROVE  IInv'
<1> DEFINE r == request[h].row
<1>1. /\ request[h].op = "ask" /\ request' = [request EXCEPT ![h] = Free] /\ Unlocked({r})
      /\ referred' = IF r \in users THEN referred \cup {r} ELSE referred
      /\ UNCHANGED <<begun, faults, asked, shown, installs, users, on, doubled>>
  BY DEF CommitAsk, Finish, inventory
<1>2. /\ request' = [i \in Handler |-> request'[i]] /\ \A i \in Handler : Held(request'[i])
      /\ \A i \in Handler : request'[i].op = "replace" => i # h /\ request'[i] = request[i]
  BY <1>1, DoneFacts
<1>3. HoldInv'
  BY <1>1, <1>2 DEF IInv, HoldInv
<1>4. ReplaceInv'
  BY <1>1, <1>2 DEF IInv, ReplaceInv, Unlocked
<1>5. TypeOK'
  BY <1>1 DEF IInv, TypeOK
<1>6. SnapshotWhole' /\ AccountOnce' /\ AccountStays'
  BY <1>1 DEF IInv, SnapshotWhole, AccountOnce, AccountStays
<1> QED BY <1>3, <1>4, <1>5, <1>6 DEF IInv

LEMMA InstallStep ==
  ASSUME IInv, NEW h \in Handler, CommitInstall(h)
  PROVE  IInv'
<1>1. /\ request[h].op = "install" /\ request' = [request EXCEPT ![h] = Free]
      /\ installs' = installs \cup {[items |-> request[h].items, by |-> request[h].by]}
      /\ UNCHANGED <<begun, faults, asked, shown, users, on, referred, doubled>>
  BY DEF CommitInstall, Finish, accounts
<1>2. request[h].items \subseteq Item /\ request[h].by \subseteq By /\ Cardinality(request[h].by) <= 1
  BY <1>1 DEF IInv, HoldInv, Held
<1>3. HoldInv' /\ ReplaceInv'
  BY <1>1, QuietStep
<1>4. TypeOK'
  BY <1>1, <1>2 DEF IInv, TypeOK
<1>5. SnapshotWhole' /\ AccountOnce' /\ AccountStays'
  BY <1>1, <1>2 DEF IInv, SnapshotWhole, AccountOnce, AccountStays
<1> QED BY <1>3, <1>4, <1>5 DEF IInv

LEMMA FailStep ==
  ASSUME IInv, NEW h \in Handler, RequestFails(h)
  PROVE  IInv'
<1>1. /\ request' = [request EXCEPT ![h] = Free] /\ faults < MaxFaults /\ faults' = faults + 1
      /\ UNCHANGED <<begun, asked, shown, installs, users, on, referred, doubled>>
  BY DEF RequestFails, Abandon, Fault, inventory, accounts
<1>2. HoldInv' /\ ReplaceInv'
  BY <1>1, QuietStep
<1>3. TypeOK'
  BY <1>1, HandlersAssumption DEF IInv, TypeOK
<1>4. SnapshotWhole' /\ AccountOnce' /\ AccountStays'
  BY <1>1 DEF IInv, SnapshotWhole, AccountOnce, AccountStays
<1> QED BY <1>2, <1>3, <1>4 DEF IInv

--------------------------------------------------------------------------------
(* The theorems.                                                                *)

LEMMA InitIInv == Init => IInv
<1> SUFFICES ASSUME Init
             PROVE  IInv
  OBVIOUS
<1>1. /\ request = [h \in Handler |-> Free] /\ begun = 0 /\ faults = 0
      /\ asked = {} /\ shown = [k \in Kind |-> {}] /\ installs = {}
      /\ users = {} /\ on = {} /\ referred = {} /\ doubled = {}
  BY DEF Init, HandlersInit
<1>2. TypeOK
  BY <1>1, HandlersAssumption DEF TypeOK
<1>3. HoldInv
  BY <1>1 DEF HoldInv, Held, Free
<1>4. ReplaceInv
  BY <1>1 DEF ReplaceInv, Free
<1>5. SnapshotWhole /\ AccountOnce /\ AccountStays
  BY <1>1 DEF SnapshotWhole, AccountOnce, AccountStays
<1> QED BY <1>2, <1>3, <1>4, <1>5 DEF IInv

LEMMA Inductive == IInv /\ [Next]_vars => IInv'
<1> SUFFICES ASSUME IInv, [Next]_vars
             PROVE  IInv'
  OBVIOUS
<1>1. CASE Scan \/ Refresh
  <2>1. /\ begun' \in 0..MaxRequests /\ asked' \subseteq Kind \cup {"users"}
        /\ UNCHANGED <<request, faults, shown, installs, users, on, referred, doubled>>
    BY <1>1, HandlersAssumption DEF Scan, Refresh, AtOnce, Arrives, accounts, IInv, TypeOK
  <2>2. TypeOK' /\ HoldInv' /\ ReplaceInv'
    BY <2>1 DEF IInv, TypeOK, HoldInv, ReplaceInv
  <2>3. SnapshotWhole' /\ AccountOnce' /\ AccountStays'
    BY <2>1 DEF IInv, SnapshotWhole, AccountOnce, AccountStays
  <2> QED BY <2>2, <2>3 DEF IInv
<1>2. ASSUME NEW h \in Handler, CommitAnswer(h)
      PROVE  IInv'
  <2>1. request[h].kind \in Kind \cup {"users"}
    BY <1>2 DEF CommitAnswer, Finish, IInv, HoldInv, Held
  <2> QED BY <1>2, <2>1, AnswerOther, AnswerUsers
<1>3. CASE UNCHANGED vars
  <2>1. UNCHANGED <<request, begun, faults, asked, shown, installs, users, on, referred, doubled>>
    BY <1>3 DEF vars, handlers, inventory, accounts
  <2> QED BY <2>1 DEF IInv, TypeOK, HoldInv, ReplaceInv, SnapshotWhole, AccountOnce, AccountStays
<1> QED BY <1>1, <1>2, <1>3, ArrivalStep, ReplaceStep, ReportStep, AskStep, InstallStep, FailStep DEF Next

\* The invariant holds in every reachable state.
THEOREM Invariance == Spec => []IInv
BY InitIInv, Inductive, PTL DEF Spec

\* Every variable has its type; the rows of an inventory are of the Mac's answers and reports.
THEOREM TypeCorrect == Spec => []TypeOK
<1>1. IInv => TypeOK
  BY DEF IInv
<1> QED BY <1>1, Invariance, PTL

\* Answers replace an inventory as a whole (connect.py), and a command asks for one of them.
THEOREM AnswersWhole == Spec => []SnapshotWhole
<1>1. IInv => SnapshotWhole
  BY DEF IInv
<1> QED BY <1>1, Invariance, PTL

\* An account is doubled only by two writers that had both found none.
THEOREM AccountsOnce == Spec => []AccountOnce
<1>1. IInv => AccountOnce
  BY DEF IInv
<1> QED BY <1>1, Invariance, PTL

\* The account of a request for administrator rights does not go away.
THEOREM AccountsStay == Spec => []AccountStays
<1>1. IInv => AccountStays
  BY DEF IInv
<1> QED BY <1>1, Invariance, PTL
================================================================================
