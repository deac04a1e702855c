-------------------------------- MODULE Inventory ------------------------------
(***************************************************************************)
(* What the server knows of the inside of one Mac: its installed apps, the *)
(* updates it is offered and its local accounts.  Answers of the Mac       *)
(* replace each of these as a whole; the agent adds accounts and changes   *)
(* them; requests for administrator rights and installations refer to what *)
(* they find.  A row is told apart by the request that inserted it.        *)
(***************************************************************************)
EXTENDS Handlers, FiniteSets

CONSTANTS
    Item,    \* apps, or updates by their product keys
    Account  \* short names of local accounts

VARIABLES
    asked,    \* the inventories the Mac has been asked for and has not given
    shown,    \* shown[k]: the rows of inventory k
    installs, \* the update commands queued: the items, and the answers those came by
    users,    \* the DeviceUser rows
    on,       \* those of them that are logged in
    referred, \* those that an AdminAccessRequest refers to
    doubled   \* history: names inserted twice by writers that had both found no row

inventory == <<asked, shown, installs>>
accounts  == <<users, on, referred, doubled>>
vars      == <<handlers, inventory, accounts>>

--------------------------------------------------------------------------------
Kind == {"apps", "updates"}

RowsFor(a) == {r \in users : r.name = a}

\* Who has an account, and who of them is logged in.
Told == {t \in [names : SUBSET Account, on : SUBSET Account] : t.on \subseteq t.names}

Init ==
    /\ HandlersInit
    /\ asked = {} /\ shown = [k \in Kind |-> {}] /\ installs = {}
    /\ users = {} /\ on = {} /\ referred = {} /\ doubled = {}

\* The patch scan asks for both inventories, the refresh for the accounts.
Scan    == AtOnce /\ asked' = asked \cup Kind /\ UNCHANGED <<shown, installs, accounts>>
Refresh == AtOnce /\ asked' = asked \cup {"users"} /\ UNCHANGED <<shown, installs, accounts>>

--------------------------------------------------------------------------------
(* Answers of the Mac.                                                          *)

\* The Mac answers again, with the same or with news, when the server took too long.
Answer(h, k, told) ==
    /\ k \in asked
    /\ Begin(h, [op |-> "answer", kind |-> k, told |-> told, by |-> begun + 1])
    /\ UNCHANGED <<inventory, accounts>>

\* A mutant: the check-in time is not written first.
NobodyWaits == TRUE
\* Every answer writes the check-in time first, and so waits for the one before.
RowFree == \A i \in Handler : request[i].op # "replace"

\* The DELETE of the rows it finds; accounts that requests refer to fail the answer.
Replace(h) ==
    LET q    == request[h]
        seen == IF q.kind = "users" THEN users ELSE shown[q.kind]
    IN  /\ q.op = "answer" /\ RowFree
        /\ request' = [request EXCEPT ![h] =
                          IF q.kind = "users" /\ referred # {} THEN Free
                          ELSE [op |-> "replace", kind |-> q.kind, told |-> q.told, by |-> q.by, seen |-> seen]]
        /\ UNCHANGED <<begun, faults, inventory, accounts>>

\* Rows no DELETE under way has locked.
Unlocked(rows) == \A i \in Handler :
    request[i].op = "replace" /\ request[i].kind = "users" => rows \cap request[i].seen = {}

Rows(names, by) == {[name |-> a, by |-> by] : a \in names}

CommitAnswer(h) ==
    LET q == request[h]
    IN  /\ Finish(h, "replace")
        /\ asked' = asked \ {q.kind}
        /\ IF q.kind \in Kind
           THEN /\ shown' = [shown EXCEPT ![q.kind] =
                                (@ \ q.seen) \cup {[item |-> x, by |-> q.by] : x \in q.told.names}]
                /\ UNCHANGED accounts
           ELSE /\ users' = (users \ q.seen) \cup Rows(q.told.names, q.by)
                /\ on' = (on \ q.seen) \cup Rows(q.told.on, q.by)
                /\ doubled' = {r.name : r \in users \ q.seen} \cap (doubled \cup q.told.names)
                /\ UNCHANGED <<shown, referred>>
        /\ UNCHANGED installs

--------------------------------------------------------------------------------
(* The agent's report.                                                          *)

\* One row of each name it knows already, whichever the SELECT gave last.
Report(h, told) ==
    \E known \in SUBSET users :
        /\ \A a \in Account : Cardinality(known \cap RowsFor(a)) = IF RowsFor(a) = {} THEN 0 ELSE 1
        /\ Begin(h, [op |-> "report", told |-> told, known |-> known, saw |-> known \cap on, by |-> begun + 1])
        /\ UNCHANGED <<inventory, accounts>>

\* Rows are written where they differ, and all fails if one of those is gone; accounts
\* that are not told any more keep their rows.
CommitReport(h) ==
    LET q       == request[h]
        told    == {r \in q.known : r.name \in q.told.names}
        changed == {r \in told : (r \in q.saw) # (r.name \in q.told.on)}
        new     == q.told.names \ {r.name : r \in q.known}
    IN  /\ Finish(h, "report") /\ Unlocked(changed)
        /\ IF changed \subseteq users
           THEN /\ users' = users \cup Rows(new, q.by)
                /\ on' = (on \ changed) \cup {r \in changed : r.name \in q.told.on}
                            \cup Rows(new \cap q.told.on, q.by)
                /\ doubled' = doubled \cup {a \in new : RowsFor(a) # {}}
                /\ UNCHANGED referred
           ELSE UNCHANGED accounts
        /\ UNCHANGED inventory

--------------------------------------------------------------------------------
(* What refers to it.                                                           *)

Ask(h, r) == Begin(h, [op |-> "ask", row |-> r]) /\ UNCHANGED <<inventory, accounts>>

\* A person called a: the account of that name, or else whoever is logged in.  Two rows of
\* that name fail the request.
AskPortal(h, a) ==
    \E r \in IF RowsFor(a) = {} THEN on ELSE RowsFor(a) : Cardinality(RowsFor(a)) <= 1 /\ Ask(h, r)

AskAdmin(h, r) == r \in users /\ Ask(h, r)

\* The foreign key waits for a DELETE of the row and fails after it.
CommitAsk(h) ==
    LET r == request[h].row
    IN  /\ Finish(h, "ask") /\ Unlocked({r})
        /\ referred' = IF r \in users THEN referred \cup {r} ELSE referred
        /\ UNCHANGED <<inventory, users, on, doubled>>

\* Only updates the Mac was offered can be asked for.
LoadInstall(h, items) ==
    LET rows == {r \in shown["updates"] : r.item \in items}
    IN  /\ items \subseteq {r.item : r \in rows}
        /\ Begin(h, [op |-> "install", items |-> items, by |-> {r.by : r \in rows}])
        /\ UNCHANGED <<inventory, accounts>>

CommitInstall(h) ==
    LET q == request[h]
    IN  /\ Finish(h, "install")
        /\ installs' = installs \cup {[items |-> q.items, by |-> q.by]}
        /\ UNCHANGED <<asked, shown, accounts>>

--------------------------------------------------------------------------------
RequestFails(h) == Abandon(h) /\ UNCHANGED <<inventory, accounts>>

Arrivals(h) ==
    \/ \E k \in Kind, items \in SUBSET Item : Answer(h, k, [names |-> items, on |-> {}])
    \/ \E told \in Told : Answer(h, "users", told) \/ Report(h, told)
    \/ \E a \in Account : AskPortal(h, a)
    \/ \E r \in users : AskAdmin(h, r)
    \/ \E items \in SUBSET Item : LoadInstall(h, items)

Next ==
    \/ Scan \/ Refresh
    \/ \E h \in Handler :
          \/ Arrivals(h)
          \/ Replace(h) \/ CommitAnswer(h) \/ CommitReport(h) \/ CommitAsk(h) \/ CommitInstall(h)
          \/ RequestFails(h)
    \/ Quiet /\ UNCHANGED vars

Spec == Init /\ [][Next]_vars

--------------------------------------------------------------------------------
(* Properties.                                                                  *)

By    == 1..MaxRequests
Users == [name : Account, by : By]

\* Every variable has its type.
TypeOK ==
    /\ begun \in 0..MaxRequests /\ faults \in 0..MaxFaults
    /\ asked \subseteq Kind \cup {"users"}
    /\ \A k \in Kind : shown[k] \subseteq [item : Item, by : By]
    /\ installs \subseteq [items : SUBSET Item, by : SUBSET By]
    /\ users \subseteq Users /\ on \subseteq users /\ referred \subseteq Users /\ doubled \subseteq Account

\* The rows of an inventory come from one answer, however answers overlap, and so do the
\* updates that one command asks for.
SnapshotWhole ==
    /\ \A k \in Kind : \A r, s \in shown[k] : r.by = s.by
    /\ \A i \in installs : Cardinality(i.by) <= 1

\* An account has two rows, with which its owner cannot ask for anything, only when two
\* writers had both found none.
AccountOnce == \A r, s \in users : r.name = s.name /\ r # s => r.name \in doubled

\* No answer takes away the account a request for administrator rights is about.
AccountStays == referred \subseteq users
================================================================================
