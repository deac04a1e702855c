--------------------------------- MODULE Users ---------------------------------
(***************************************************************************)
(* The users of one tenant: invitations, changes of role and status, and   *)
(* deletions, requested by any of its active users.                        *)
(***************************************************************************)
EXTENDS Handlers, FiniteSets

CONSTANTS
    User,  \* user ids
    Mail   \* e-mail addresses

VARIABLES
    user,       \* user[u]: role, status ("absent": no row) and e-mail of u
    referenced, \* users other rows refer to: a revoked token, a reset link, a decision
    invited     \* history: addresses two invitations had found free

vars == <<handlers, user, referenced, invited>>

--------------------------------------------------------------------------------
Present == {u \in User : user[u].status # "absent"}
Active  == {u \in User : user[u].status = "active"}
Owners  == {u \in Active : user[u].role = "owner"}

\* Signup makes the tenant with its owner, one of the users.
Init ==
    /\ HandlersInit
    /\ LET first == CHOOSE u \in User : TRUE
       IN  user = [u \in User |-> [role |-> "owner", mail |-> CHOOSE m \in Mail : TRUE,
                                   status |-> IF u = first THEN "active" ELSE "absent"]]
    /\ referenced = {}
    /\ invited = {}

--------------------------------------------------------------------------------
\* A second user with the address is refused; no constraint backs that.
LoadCreate(h, u, m, role) ==
    /\ Active # {} /\ u \notin Present /\ \A i \in Handler : request[i].op = "create" => request[i].user # u
    /\ \A v \in Present : user[v].mail # m
    /\ Begin(h, [op |-> "create", user |-> u, mail |-> m, role |-> role, free |-> TRUE])
    /\ UNCHANGED <<user, referenced, invited>>

CommitCreate(h) ==
    LET q == request[h]
    IN  /\ Finish(h, "create")
        /\ user' = [user EXCEPT ![q.user] = [role |-> q.role, status |-> "active", mail |-> q.mail]]
        /\ invited' = IF q.free /\ \E v \in Present : user[v].mail = q.mail
                      THEN invited \cup {q.mail} ELSE invited
        /\ UNCHANGED referenced

\* The last active owner keeps the role; the status is not thought of.
LoadUpdate(h, u, change) ==
    /\ Active # {} /\ u \in Present
    /\ change = "admin" /\ user[u].role = "owner" => Cardinality(Owners) > 1
    /\ Begin(h, [op |-> "update", user |-> u, saw |-> user[u], change |-> change])
    /\ UNCHANGED <<user, referenced, invited>>

\* A column is written when it differs from what was read; an UPDATE of a row that is
\* gone fails.
Written(row, saw, change) ==
    CASE change \in {"owner", "admin"} /\ saw.role # change        -> [row EXCEPT !.role = change]
      [] change \in {"active", "inactive"} /\ saw.status # change -> [row EXCEPT !.status = change]
      [] OTHER -> row

CommitUpdate(h) ==
    LET q == request[h]
    IN  /\ Finish(h, "update")
        /\ user' = IF q.user \in Present
                   THEN [user EXCEPT ![q.user] = Written(@, q.saw, q.change)] ELSE user
        /\ UNCHANGED <<referenced, invited>>

\* Nobody deletes themselves; an account inactive or deleted since is not noticed.
LoadDelete(h, actor, u) ==
    /\ actor \in Active /\ u \in Present \ {actor}
    /\ Begin(h, [op |-> "delete", user |-> u])
    /\ UNCHANGED <<user, referenced, invited>>

\* A mutant: what refers to the user goes with the row.
CommitAnyDelete(h) ==
    /\ Finish(h, "delete")
    /\ user' = [user EXCEPT ![request[h].user].status = "absent"]
    /\ UNCHANGED <<referenced, invited>>
\* The foreign keys do not cascade: a user who ever signed out, for one, stays.
CommitDelete(h) ==
    /\ Finish(h, "delete")
    /\ user' = IF request[h].user \in referenced THEN user
               ELSE [user EXCEPT ![request[h].user].status = "absent"]
    /\ UNCHANGED <<referenced, invited>>

\* The user signs out, asks for a reset link, decides or uploads something.
LeavesTrace(u) ==
    /\ AtOnce
    /\ u \in Active \ referenced
    /\ referenced' = referenced \cup {u}
    /\ UNCHANGED <<user, invited>>

--------------------------------------------------------------------------------
RequestFails(h) == Abandon(h) /\ UNCHANGED <<user, referenced, invited>>

Change == {"owner", "admin", "active", "inactive"}

Next ==
    \/ \E h \in Handler, u \in User :
          \/ \E m \in Mail : LoadCreate(h, u, m, "admin") \/ LoadCreate(h, u, m, "owner")
          \/ \E change \in Change : LoadUpdate(h, u, change)
          \/ \E actor \in User : LoadDelete(h, actor, u)
    \/ \E h \in Handler : CommitCreate(h) \/ CommitUpdate(h) \/ CommitDelete(h) \/ RequestFails(h)
    \/ \E u \in User : LeavesTrace(u)
    \/ Quiet /\ UNCHANGED vars

Spec == Init /\ [][Next]_vars

--------------------------------------------------------------------------------
(* Properties.                                                                  *)

Row == [role : {"owner", "admin"}, status : {"absent", "active", "inactive"}, mail : Mail]

\* What a handler may have in its hands.
Operation ==
    {Free} \cup [op : {"create"}, user : User, mail : Mail, role : {"owner", "admin"}, free : BOOLEAN]
           \cup [op : {"update"}, user : User, saw : Row, change : Change]
           \cup [op : {"delete"}, user : User]

\* Every variable has its type.
TypeOK ==
    /\ request \in [Handler -> Operation] /\ begun \in 0..MaxRequests /\ faults \in 0..MaxFaults
    /\ user \in [User -> Row] /\ referenced \subseteq Present /\ invited \subseteq Mail

\* Two users of a tenant share an address only when two invitations had found it free.
AddressUnique ==
    \A u, v \in Present : u # v /\ user[u].mail = user[v].mail => user[u].mail \in invited
================================================================================
