------------------------------ MODULE AdminAccess ------------------------------
(***************************************************************************)
(* Just-in-time admin access on one Mac: a request is approved, denied or  *)
(* revoked by API handlers that read it, check its status and write it     *)
(* back when their transaction commits; one auto-revoke loop per server    *)
(* process revokes what has expired; each decision leaves a ScriptJob that *)
(* the agent on the Mac polls, runs as root and reports.                   *)
(*                                                                         *)
(* Reads and writes are separate steps (READ COMMITTED, no version column, *)
(* no FOR UPDATE on requests); jobs are taken with FOR UPDATE SKIP LOCKED. *)
(***************************************************************************)
EXTENDS Naturals, Sequences, FiniteSets, SequencesExt

CONSTANTS
    Request,           \* AdminAccessRequest ids
    Account,           \* local accounts of the Mac (DeviceUser rows)
    AccountOf,         \* AccountOf[r]: the account request r is for
    Handler,           \* decision requests the API can hold at a time
    Worker,            \* auto-revoke loops, one per uvicorn process
    Poll,              \* GET /agent/jobs requests the server can hold
    BatchLimit,        \* LIMIT of poll_jobs (10 in the code)
    CommitBeforeReply, \* FastAPI up to 0.117: TRUE; from 0.118 on: FALSE
    MaxFaults,         \* bound on losses, time-outs, failures and crashes
    None

ASSUME AccountOfAssumption == AccountOf \in [Request -> Account]
ASSUME PollAssumption ==
    /\ BatchLimit \in Nat \ {0} /\ MaxFaults \in Nat
    /\ CommitBeforeReply \in BOOLEAN /\ None \notin Poll

VARIABLES
    req,       \* req[r]: status of request r ("absent": not created yet)
    revokeAt,  \* revokeAt[r]: "unset", "ahead" or "passed"
    decision,  \* decision[h]: what handler h is about to commit
    expired,   \* expired[w]: the grants worker w is about to revoke
    jobs,      \* the ScriptJob rows in the order of their insertion
    phase,     \* phase[p]: progress of poll p
    batch,     \* batch[p]: jobs poll p has locked and set to "running"
    conn,      \* the poll the agent waits for, or None
    todo,      \* jobs the agent has received and not run yet
    results,   \* results on their way to the server
    admin,     \* accounts that are in the admin group of the Mac
    known,     \* accounts whose DeviceUser row says is_admin
    faults,    \* faults so far
    hist,      \* history: what became of each job on the Mac
    last       \* history: last[a]: the job that changed account a last, or 0

requests == <<req, revokeAt, decision, expired>>
polls    == <<phase, batch, conn>>
mac      == <<todo, admin, last>>
vars     == <<requests, jobs, polls, mac, results, known, faults, hist>>

--------------------------------------------------------------------------------
JobId     == 1..Len(jobs)
Of(j)     == AccountOf[jobs[j].req]
Fault     == faults < MaxFaults /\ faults' = faults + 1
\* A mutant: the initial status other tables use.
NewJobQueued(k, r) == [kind |-> k, req |-> r, status |-> "queued"]
Free      == [op |-> "none", req |-> None]
NewJob(k, r) == [kind |-> k, req |-> r, status |-> "pending"]
Untouched == [ran |-> 0, undone |-> 0, ok |-> FALSE, swapped |-> FALSE]

\* Jobs are inserted together with the decision they carry out.
Insert(new) ==
    /\ jobs' = jobs \o new
    /\ hist' = hist \o [i \in DOMAIN new |-> Untouched]

SetStatus(js, s) ==
    jobs' = [j \in JobId |-> IF j \in js THEN [jobs[j] EXCEPT !.status = s] ELSE jobs[j]]

Init ==
    /\ req      = [r \in Request |-> "absent"]
    /\ revokeAt = [r \in Request |-> "unset"]
    /\ decision = [h \in Handler |-> Free]
    /\ expired  = [w \in Worker |-> {}]
    /\ jobs     = <<>>
    /\ phase    = [p \in Poll |-> "free"]
    /\ batch    = [p \in Poll |-> {}]
    /\ conn     = None
    /\ todo     = {} /\ results = {}
    /\ admin    = {} /\ known = {}
    /\ faults   = 0
    /\ hist     = <<>>
    /\ last     = [a \in Account |-> 0]

--------------------------------------------------------------------------------
(* The API.                                                                     *)

\* Only an account that was not reported as admin can ask.
CreateRequest(r) ==
    /\ req[r] = "absent" /\ AccountOf[r] \notin known
    /\ req' = [req EXCEPT ![r] = "pending"]
    /\ UNCHANGED <<revokeAt, decision, expired, jobs, polls, mac, results, known, faults, hist>>

\* A decision route loads the request and checks its status.
Load(h, op, r) ==
    /\ decision[h] = Free
    /\ req[r] = IF op = "revoke" THEN "approved" ELSE "pending"
    /\ decision' = [decision EXCEPT ![h] = [op |-> op, req |-> r]]
    /\ UNCHANGED <<req, revokeAt, expired, jobs, polls, mac, results, known, faults, hist>>

\* Its transaction commits: the UPDATE is by id, whatever the status is by now.
Decide(h, op, status) ==
    /\ decision[h].op = op
    /\ req' = [req EXCEPT ![decision[h].req] = status]
    /\ decision' = [decision EXCEPT ![h] = Free]
    /\ UNCHANGED <<expired, polls, mac, results, known, faults>>

Approve(h) ==
    /\ Decide(h, "approve", "approved")
    /\ revokeAt' = [revokeAt EXCEPT ![decision[h].req] = "ahead"]
    /\ Insert(<<NewJob("add", decision[h].req)>>)

Deny(h) ==
    /\ Decide(h, "deny", "denied")
    /\ UNCHANGED <<revokeAt, jobs, hist>>

\* A mutant: the job is queued and the status forgotten.
RevokeKeepsStatus(h) ==
    /\ Decide(h, "revoke", "approved")
    /\ Insert(<<NewJob("remove", decision[h].req)>>)
    /\ UNCHANGED revokeAt
Revoke(h) ==
    /\ Decide(h, "revoke", "revoked")
    /\ Insert(<<NewJob("remove", decision[h].req)>>)
    /\ UNCHANGED revokeAt

\* Time passes revoke_at.
Expire(r) ==
    /\ revokeAt[r] = "ahead"
    /\ revokeAt' = [revokeAt EXCEPT ![r] = "passed"]
    /\ UNCHANGED <<req, decision, expired, jobs, polls, mac, results, known, faults, hist>>

--------------------------------------------------------------------------------
(* The auto-revoke loop.                                                        *)

\* A mutant: the comparison turned round.
DueAhead == {r \in Request : req[r] = "approved" /\ revokeAt[r] = "ahead"}
Due == {r \in Request : req[r] = "approved" /\ revokeAt[r] = "passed"}

FindExpired(w) ==
    /\ expired[w] = {} /\ Due # {}
    /\ expired' = [expired EXCEPT ![w] = Due]
    /\ UNCHANGED <<req, revokeAt, decision, jobs, polls, mac, results, known, faults, hist>>

\* A mutant: the statuses are committed and the jobs are not.
RevokeWithoutJob(w) ==
    /\ expired[w] # {}
    /\ req' = [r \in Request |-> IF r \in expired[w] THEN "revoked" ELSE req[r]]
    /\ Insert(<<>>)
    /\ expired' = [expired EXCEPT ![w] = {}]
    /\ UNCHANGED <<revokeAt, decision, polls, mac, results, known, faults>>

RevokeExpired(w) ==
    /\ expired[w] # {}
    /\ req' = [r \in Request |-> IF r \in expired[w] THEN "revoked" ELSE req[r]]
    /\ \E order \in SetToSeqs(expired[w]) :
           Insert([i \in DOMAIN order |-> NewJob("remove", order[i])])
    /\ expired' = [expired EXCEPT ![w] = {}]
    /\ UNCHANGED <<revokeAt, decision, polls, mac, results, known, faults>>

\* The loop logs the exception, rolls back and tries again a minute later.
RevokeFails(w) ==
    /\ expired[w] # {} /\ Fault
    /\ expired' = [expired EXCEPT ![w] = {}]
    /\ UNCHANGED <<req, revokeAt, decision, jobs, polls, mac, results, known, hist>>

--------------------------------------------------------------------------------
(* GET /agent/jobs and POST /agent/jobs/{id}/result.                            *)

Holding   == {"open", "replied"}
Locked(j) == \E p \in Poll : phase[p] \in Holding /\ j \in batch[p]

\* A mutant: a plain SELECT.
PendingUnlocked == {j \in JobId : jobs[j].status = "pending"}

\* What SELECT ... FOR UPDATE SKIP LOCKED sees.
PendingJobs == {j \in JobId : jobs[j].status = "pending" /\ ~Locked(j)}

\* The SELECT has no ORDER BY, so any BatchLimit of the pending jobs may come.
SelectJobs(p) ==
    /\ phase[p] = "received"
    /\ \E B \in SUBSET PendingJobs :
           /\ Cardinality(B) <= BatchLimit
           /\ Cardinality(B) = BatchLimit \/ B = PendingJobs
           /\ batch' = [batch EXCEPT ![p] = B]
    /\ phase' = [phase EXCEPT ![p] = "open"]
    /\ UNCHANGED <<requests, jobs, conn, mac, results, known, faults, hist>>

CommitPoll(p) ==
    /\ phase[p] = IF CommitBeforeReply THEN "open" ELSE "replied"
    /\ SetStatus(batch[p], "running")
    /\ IF CommitBeforeReply
       THEN phase' = [phase EXCEPT ![p] = "committed"] /\ UNCHANGED batch
       ELSE phase' = [phase EXCEPT ![p] = "free"] /\ batch' = [batch EXCEPT ![p] = {}]
    /\ UNCHANGED <<requests, conn, mac, results, known, faults, hist>>

ReplyPoll(p) ==
    /\ phase[p] = IF CommitBeforeReply THEN "committed" ELSE "open"
    /\ IF CommitBeforeReply
       THEN phase' = [phase EXCEPT ![p] = "free"] /\ batch' = [batch EXCEPT ![p] = {}]
       ELSE phase' = [phase EXCEPT ![p] = "replied"] /\ UNCHANGED batch
    /\ IF conn = p THEN conn' = None /\ todo' = batch[p] ELSE UNCHANGED <<conn, todo>>
    /\ UNCHANGED <<requests, jobs, admin, last, results, known, faults, hist>>

\* The request dies: what is not committed is rolled back.
PollCrash(p) ==
    /\ phase[p] # "free" /\ Fault
    /\ phase' = [phase EXCEPT ![p] = "free"]
    /\ batch' = [batch EXCEPT ![p] = {}]
    /\ conn'  = IF conn = p THEN None ELSE conn
    /\ hist'  = [j \in JobId |-> IF phase[p] = "replied" /\ j \in batch[p]
                                 THEN [hist[j] EXCEPT !.undone = @ + 1] ELSE hist[j]]
    /\ UNCHANGED <<requests, jobs, mac, results, known>>

\* A mutant: the result does not wait for the row lock of the poll.
StoreResultUnlocked(m) ==
    /\ m \in results
    /\ SetStatus({m.job}, IF m.ok THEN "completed" ELSE "failed")
    /\ results' = results \ {m}
    /\ UNCHANGED <<requests, polls, mac, known, faults, hist>>

\* A mutant: the exit code is not looked at.
StoreResultBlindly(m) ==
    /\ m \in results /\ ~Locked(m.job)
    /\ SetStatus({m.job}, "completed")
    /\ results' = results \ {m}
    /\ UNCHANGED <<requests, polls, mac, known, faults, hist>>

\* post_job_result checks no status; its UPDATE waits for a poll that still holds
\* the row.
StoreResult(m) ==
    /\ m \in results /\ ~Locked(m.job)
    /\ SetStatus({m.job}, IF m.ok THEN "completed" ELSE "failed")
    /\ results' = results \ {m}
    /\ UNCHANGED <<requests, polls, mac, known, faults, hist>>

\* The agent does not post a result again.
LoseResult(m) ==
    /\ m \in results /\ Fault
    /\ results' = results \ {m}
    /\ UNCHANGED <<requests, jobs, polls, mac, known, hist>>

--------------------------------------------------------------------------------
(* scripts/mdm_agent.sh on the Mac: poll, run the batch, report, sleep.         *)

Idle == conn = None /\ todo = {}

AgentPoll(p) ==
    /\ Idle /\ phase[p] = "free"
    /\ phase' = [phase EXCEPT ![p] = "received"]
    /\ conn'  = p
    /\ UNCHANGED <<requests, jobs, batch, mac, results, known, faults, hist>>

\* curl --max-time 20.
AgentTimeout ==
    /\ conn # None /\ Fault
    /\ conn' = None
    /\ UNCHANGED <<requests, jobs, phase, batch, mac, results, known, hist>>

\* A later job of the account has run before.
OutOfOrder(j) == \E k \in JobId : k > j /\ Of(k) = Of(j) /\ hist[k].ran > 0

\* One job: dseditgroup adds or removes the account, or fails (a fault).
RunJob(j, ok) ==
    /\ j \in todo
    /\ todo'    = todo \ {j}
    /\ results' = results \cup {[job |-> j, ok |-> ok]}
    /\ IF ok THEN UNCHANGED faults ELSE Fault
    /\ admin' = IF ~ok THEN admin
                ELSE IF jobs[j].kind = "add" THEN admin \cup {Of(j)} ELSE admin \ {Of(j)}
    /\ last' = IF ok THEN [last EXCEPT ![Of(j)] = j] ELSE last
    /\ hist' = [hist EXCEPT ![j] =
                  [ran     |-> hist[j].ran + 1,
                   undone  |-> hist[j].undone,
                   ok      |-> hist[j].ok \/ ok,
                   swapped |-> hist[j].swapped \/ OutOfOrder(j)]]
    /\ UNCHANGED <<requests, jobs, polls, known>>

\* The agent dies or the Mac shuts down; launchd starts it with nothing to do.
AgentCrash ==
    /\ ~Idle /\ Fault
    /\ todo' = {} /\ conn' = None
    /\ UNCHANGED <<requests, jobs, phase, batch, admin, last, results, known, hist>>

\* Every five minutes it sends the local accounts, and the server upserts them.
ReportUsers ==
    /\ Idle /\ known # admin
    /\ known' = admin
    /\ UNCHANGED <<requests, jobs, polls, mac, results, faults, hist>>

--------------------------------------------------------------------------------
Api == \/ \E r \in Request : CreateRequest(r) \/ Expire(r)
       \/ \E h \in Handler, r \in Request :
             Load(h, "approve", r) \/ Load(h, "deny", r) \/ Load(h, "revoke", r)
       \/ \E h \in Handler : Approve(h) \/ Deny(h) \/ Revoke(h)
AutoRevoke == \E w \in Worker : FindExpired(w) \/ RevokeExpired(w) \/ RevokeFails(w)
Server == \/ \E p \in Poll : SelectJobs(p) \/ CommitPoll(p) \/ ReplyPoll(p) \/ PollCrash(p)
          \/ \E m \in results : StoreResult(m) \/ LoseResult(m)
Agent == \/ \E p \in Poll : AgentPoll(p)
         \/ \E j \in todo : RunJob(j, TRUE) \/ RunJob(j, FALSE)
         \/ AgentTimeout \/ AgentCrash \/ ReportUsers

Next == Api \/ AutoRevoke \/ Server \/ Agent

Spec == Init /\ [][Next]_vars

\* revoke_at comes, the loops wake up every minute, the event loop runs requests to
\* their end, the agent polls every 30 seconds and runs what it gets.
FairSpec ==
    /\ Spec
    /\ \A r \in Request : WF_vars(Expire(r))
    /\ \A w \in Worker : WF_vars(FindExpired(w)) /\ WF_vars(RevokeExpired(w))
    /\ \A p \in Poll : WF_vars(SelectJobs(p)) /\ WF_vars(CommitPoll(p)) /\ WF_vars(ReplyPoll(p))
    /\ WF_vars(\E p \in Poll : AgentPoll(p))
    /\ WF_vars(\E j \in todo : RunJob(j, TRUE))

--------------------------------------------------------------------------------
(* Properties.                                                                  *)

\* Every variable has its type.
TypeOK ==
    /\ req \in [Request -> {"absent", "pending", "approved", "denied", "revoked"}]
    /\ revokeAt \in [Request -> {"unset", "ahead", "passed"}]
    /\ decision \in [Handler -> {Free} \cup [op : {"approve", "deny", "revoke"}, req : Request]]
    /\ expired \in [Worker -> SUBSET Request]
    /\ jobs \in Seq([kind : {"add", "remove"}, req : Request,
                     status : {"pending", "running", "completed", "failed"}])
    /\ phase \in [Poll -> {"free", "received", "open", "committed", "replied"}]
    /\ batch \in [Poll -> SUBSET JobId]
    /\ conn \in Poll \cup {None}
    /\ todo \subseteq JobId
    /\ results \subseteq [job : JobId, ok : BOOLEAN]
    /\ admin \subseteq Account /\ known \subseteq Account
    /\ faults \in 0..MaxFaults
    /\ hist \in Seq([ran : Nat, undone : Nat, ok : BOOLEAN, swapped : BOOLEAN])
    /\ Len(hist) = Len(jobs)
    /\ last \in [Account -> JobId \cup {0}]

\* A job runs once, and once more only for a poll that was rolled back after its
\* response had left, however polls overlap (poll_jobs: "atomically mark them as
\* running").
DispatchedOnce == \A j \in JobId : hist[j].ran <= 1 + hist[j].undone

\* The status of a job says what happened to it: it is "completed" only if it
\* succeeded on the Mac, and a job that never ran is not settled.
ResultIsTrue ==
    \A j \in JobId :
        /\ jobs[j].status = "completed" => hist[j].ok
        /\ jobs[j].status = "failed"    => hist[j].ran > 0

\* A settled job is never dispatched or settled again, unless its dispatch was
\* rolled back: post_job_result and poll_jobs overwrite each other's status.
JobSettledOnce ==
    [][\A j \in JobId :
          jobs[j].status \in {"completed", "failed"} /\ hist[j].undone = 0 =>
              jobs'[j].status = jobs[j].status]_vars

\* A job of r that ran out of order: a later job of the account had run before.
Swapped(a) == \E j \in JobId : Of(j) = a /\ hist[j].swapped

\* An account that is admin has a reason: a grant in force, or one of the ways the
\* code has to lose a revocation.  It was not run (yet), or it failed; the request
\* was denied by a handler that overlapped the approval; its jobs ran out of order.
AdminAccounted ==
    \A a \in admin :
        \/ \E r \in Request : AccountOf[r] = a /\ req[r] = "approved"
        \/ \E j \in JobId : Of(j) = a /\ jobs[j].kind = "remove" /\ ~hist[j].ok
        \/ \E j \in JobId : Of(j) = a /\ jobs[j].kind = "add" /\ req[jobs[j].req] = "denied"
        \/ Swapped(a)

\* Job j is the latest elevation of a request in force, and it succeeded.
Elevates(j) ==
    /\ jobs[j].kind = "add" /\ hist[j].ok /\ req[jobs[j].req] = "approved"
    /\ \A k \in JobId : k > j /\ jobs[k].kind = "add" => jobs[k].req # jobs[j].req

\* A grant in force whose latest elevation ran is in effect, or the very job that changed
\* the account last is a removal for another request, or one that ran out of order.
GrantInEffect ==
    \A j \in JobId :
        LET k == last[Of(j)]
        IN  Elevates(j) => \/ Of(j) \in admin
                           \/ /\ k \in JobId /\ jobs[k].kind = "remove"
                              /\ jobs[k].req # jobs[j].req \/ hist[k].swapped

\* README.md:336-338, approval is for a duration, the agent "runs `dseditgroup` to add
\* user to admin group", and access is removed "when `revoke_at` passes": not before, once
\* every job ran, in its order, and succeeded.
GrantHolds ==
    \A j \in JobId :
        /\ Elevates(j) /\ revokeAt[jobs[j].req] = "ahead"
        /\ \A k \in JobId : hist[k].ok /\ ~hist[k].swapped
        => Of(j) \in admin

\* TROUBLESHOOTING.md:551, of an approved request whose revoke_at has passed: "the
\* worker should have caught them".
GrantEnds ==
    \A r \in Request :
        req[r] = "approved" /\ revokeAt[r] = "passed" ~> req[r] # "approved"

\* README.md:338, the auto-revoke worker "removes access when revoke_at passes": from
\* some time on the account is admin only on the strength of another grant.
AccessRemoved ==
    \A r \in Request :
        req[r] = "approved" /\ revokeAt[r] = "passed" ~>
            [](AccountOf[r] \in admin => \E q \in Request \ {r} :
                                            AccountOf[q] = AccountOf[r] /\ req[q] = "approved")
================================================================================
