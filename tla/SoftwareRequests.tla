--------------------------- MODULE SoftwareRequests ----------------------------
(***************************************************************************)
(* Self-service software: a person asks for software in the portal, an     *)
(* administrator approves or rejects it, an approval leaves a ScriptJob    *)
(* with the address of an uploaded package and the agent token of the Mac  *)
(* in its command, the agent runs it, and the portal's listing copies the  *)
(* job's result to the request.  Packages are uploaded and deleted, and    *)
(* agents are installed, meanwhile.                                        *)
(*                                                                         *)
(* How overlapping polls hand out jobs is the subject of AdminAccess: a    *)
(* poll and the report of a result are one step each here.                 *)
(***************************************************************************)
EXTENDS Handlers, Sequences, SequencesExt

CONSTANTS
    Mac,
    Request,     \* SoftwareRequest ids
    Package,     \* SoftwarePackage ids; their file has the same name
    Named,       \* Macs with a local account called like the person's UPN prefix
    Packaged,    \* requests for the software the packages contain
    Otherwise,   \* Otherwise[r]: what else r resolves to, see Source
    None

VARIABLES
    checkins,  \* the enrolled Macs, the one that checked in last first
    reported,  \* Macs whose logged-in user the agent has reported (DeviceUser)
    token,     \* token[m]: agent_token of m's Device row, 0 for NULL
    minted,    \* agent tokens generated so far
    scripts,   \* bootstrap scripts handed out and not run yet
    config,    \* config[m]: the token in the config.json of m, 0 without agent
    packages,  \* the SoftwarePackage rows in the order of upload
    files,     \* packages whose file is in the bucket or directory
    req,       \* req[r]: status, Mac and script_job_id (0 for NULL)
    jobs,      \* the ScriptJob rows
    todo,      \* todo[m]: jobs m has received and not run yet
    results,   \* jobs whose result is on its way
    outcome,   \* history: how job j ended on its Mac
    withdrawn, \* history: packages some request started to delete
    crossed    \* history: Macs for which a token was overwritten by another, or was
               \* handed out and not stored

agents == <<token, minted, scripts, config, crossed>>
store  == <<packages, files, withdrawn>>
queue  == <<jobs, todo, results, outcome>>
portal == <<checkins, reported>>
vars   == <<handlers, agents, store, queue, portal, req>>

\* What the constants stand for.
Sorts ==
    /\ IsFiniteSet(Mac) /\ Named \subseteq Mac
    /\ Packaged \subseteq Request /\ Otherwise \in [Request -> {"catalog", "url", "none"}]
    /\ IsFiniteSet(Package) /\ Package \cap {"catalog", "url", "none"} = {}
    /\ None \notin Mac \cup Package

--------------------------------------------------------------------------------
JobId == 1..Len(jobs)

\* The agent is running and its token is the one the server knows.
Authorised(m) == token[m] # 0 /\ config[m] = token[m]

\* Any of the requests may come with packages uploaded and agents installed before.
Init ==
    /\ HandlersInit
    /\ checkins \in SetToSeqs(Mac)
    /\ reported = {}
    /\ \E installed \in {{}, Mac} :
           /\ token  = [m \in Mac |-> IF m \in installed THEN 1 ELSE 0]
           /\ config = token
    /\ minted = 1
    /\ scripts = {}
    /\ packages \in {<<>>} \cup SetToSeqs(Package)
    /\ files = Range(packages)
    /\ req = [r \in Request |-> [status |-> "absent", mac |-> None, job |-> 0]]
    /\ jobs = <<>>
    /\ todo = [m \in Mac |-> {}]
    /\ results = {}
    /\ outcome = <<>>
    /\ withdrawn = {} /\ crossed = {}

--------------------------------------------------------------------------------
(* The portal.                                                                  *)

\* The one of M that checked in last, if M has any.
MostRecent(M) ==
    {checkins[i] : i \in {i \in DOMAIN checkins : /\ checkins[i] \in M
                                                   /\ \A k \in 1..(i - 1) : checkins[k] \notin M}}

\* The Mac of the session: an account named like the UPN prefix decides, and any
\* logged-in account of the tenant otherwise.
PortalMac == MostRecent(IF reported \cap Named # {} THEN reported \cap Named ELSE reported)

CreateRequest(r) ==
    /\ AtOnce
    /\ req[r].status = "absent"
    /\ \E m \in PortalMac : req' = [req EXCEPT ![r] = [status |-> "pending", mac |-> m, job |-> 0]]
    /\ UNCHANGED <<agents, store, queue, portal>>

\* Mutants: the job's status as it is; the exit code is not looked at.
SettledVerbatim(j) == jobs[j].status
SettledRegardless(j) ==
    IF jobs[j].status \in {"completed", "failed"} THEN "completed" ELSE "installing"
\* What a listing makes of a request whose job is j.
Settled(j) ==
    IF jobs[j].status \in {"completed", "failed"} THEN jobs[j].status ELSE "installing"

\* The listing of one Mac synchronises the requests of that Mac only.
LoadListing(h) ==
    LET mine == {r \in Request : /\ req[r].mac \in PortalMac /\ req[r].status = "installing"
                                 /\ Settled(req[r].job) # "installing"}
    IN  /\ mine # {}
        /\ Begin(h, [op |-> "list", settled |-> [r \in mine |-> Settled(req[r].job)]])
        /\ UNCHANGED <<agents, store, queue, portal, req>>

CommitListing(h) ==
    /\ Finish(h, "list")
    /\ req' = [r \in Request |-> IF r \in DOMAIN request[h].settled
                                 THEN [req[r] EXCEPT !.status = request[h].settled[r]]
                                 ELSE req[r]]
    /\ UNCHANGED <<agents, store, queue, portal>>

--------------------------------------------------------------------------------
(* The administrator.                                                           *)

\* Where an approval takes the software from: the newest upload of that name, the
\* catalogue, the address in the request; otherwise it answers 400.
Source(r) == IF r \in Packaged /\ packages # <<>> THEN Last(packages) ELSE Otherwise[r]

\* A mutant: no check of the status.
LoadAnyApproval(h, r) ==
    /\ req[r].status # "absent" /\ Source(r) # "none"
    /\ Begin(h, [op |-> "approve", req |-> r, saw |-> req[r].status,
                 source |-> Source(r), token |-> token[req[r].mac]])
    /\ UNCHANGED <<agents, store, queue, portal, req>>
LoadApproval(h, r) ==
    /\ req[r].status = "pending" /\ Source(r) # "none"
    /\ Begin(h, [op |-> "approve", req |-> r, saw |-> req[r].status,
                 source |-> Source(r), token |-> token[req[r].mac]])
    /\ UNCHANGED <<agents, store, queue, portal, req>>

CommitApproval(h) ==
    LET q == request[h]
    IN  /\ Finish(h, "approve")
        /\ req'  = [req EXCEPT ![q.req].status = "installing", ![q.req].job = Len(jobs) + 1]
        /\ jobs' = Append(jobs, [req |-> q.req, mac |-> req[q.req].mac, source |-> q.source,
                                 token |-> q.token, status |-> "pending"])
        /\ outcome' = Append(outcome, "none")
        /\ UNCHANGED <<agents, store, portal, todo, results>>

\* A rejection looks at nothing but the existence of the request.
LoadRejection(h, r) ==
    /\ req[r].status # "absent"
    /\ Begin(h, [op |-> "reject", req |-> r])
    /\ UNCHANGED <<agents, store, queue, portal, req>>

CommitRejection(h) ==
    /\ Finish(h, "reject")
    /\ req' = [req EXCEPT ![request[h].req].status = "rejected"]
    /\ UNCHANGED <<agents, store, queue, portal>>

\* A mutant: the row is inserted before the file is there.
UploadRowFirst(h, p) ==
    /\ p \notin files \cup withdrawn \cup Range(packages)
    /\ Begin(h, [op |-> "upload", pkg |-> p])
    /\ packages' = Append(packages, p)
    /\ UNCHANGED <<agents, queue, portal, req, files, withdrawn>>
\* The file is written first; a failure later leaves it behind.
UploadFile(h, p) ==
    /\ p \notin files \cup withdrawn \cup Range(packages)
    /\ Begin(h, [op |-> "upload", pkg |-> p])
    /\ files' = files \cup {p}
    /\ UNCHANGED <<agents, queue, portal, req, packages, withdrawn>>

CommitUpload(h) ==
    /\ Finish(h, "upload")
    /\ packages' = Append(packages, request[h].pkg)
    /\ UNCHANGED <<agents, queue, portal, req, files, withdrawn>>

\* The file goes at once, the row with the commit.
DeleteFile(h, p) ==
    /\ p \in Range(packages)
    /\ Begin(h, [op |-> "delete", pkg |-> p])
    /\ files'     = files \ {p}
    /\ withdrawn' = withdrawn \cup {p}
    /\ UNCHANGED <<agents, queue, portal, req, packages>>

CommitDelete(h) ==
    /\ Finish(h, "delete")
    /\ IF request[h].pkg \in Range(packages)
       THEN \E i \in DOMAIN packages :
                packages[i] = request[h].pkg /\ packages' = RemoveAt(packages, i)
       ELSE UNCHANGED packages
    /\ UNCHANGED <<agents, queue, portal, req, files, withdrawn>>

\* A mutant: the script gets a token of its own where the row has one already.
LoadNewToken(h, m) ==
    /\ Begin(h, [op |-> "bootstrap", mac |-> m, saw |-> token[m], token |-> minted + 1])
    /\ minted' = minted + 1
    /\ UNCHANGED <<token, scripts, config, crossed, store, queue, portal, req>>
\* GET /agent/bootstrap and GET /devices/{id}/agent-token make a token if there is none.
LoadBootstrap(h, m) ==
    /\ Begin(h, [op |-> "bootstrap", mac |-> m, saw |-> token[m],
                 token |-> IF token[m] = 0 THEN minted + 1 ELSE token[m]])
    /\ minted' = IF token[m] = 0 THEN minted + 1 ELSE minted
    /\ UNCHANGED <<token, scripts, config, crossed, store, queue, portal, req>>

\* A bootstrap that was answered with a new token has the lock of the row.
Handing(m) == {h \in Handler : request[h].op = "handed" /\ request[h].mac = m}

HandsOut(q) == scripts' = scripts \cup {[mac |-> q.mac, token |-> q.token]}

\* A token that is stored already leaves nothing to commit.
ReplyBootstrap(h) ==
    LET q == request[h]
    IN  /\ Reply(h, "bootstrap", IF q.saw = 0 THEN [q EXCEPT !.op = "handed"] ELSE Free)
        /\ q.saw = 0 => Handing(q.mac) = {}
        /\ HandsOut(q)
        /\ UNCHANGED <<token, minted, config, crossed, store, queue, portal, req>>

\* The UPDATE with a new token has no condition on the old one.
CommitBootstrap(h) ==
    LET q == request[h]
    IN  /\ Finish(h, Due("bootstrap", "handed"))
        /\ token'   = IF q.saw = 0 THEN [token EXCEPT ![q.mac] = q.token] ELSE token
        /\ IF CommitBeforeReply THEN HandsOut(q) ELSE UNCHANGED scripts
        /\ crossed' = IF q.saw = 0 /\ token[q.mac] # 0 THEN crossed \cup {q.mac} ELSE crossed
        /\ UNCHANGED <<minted, config, store, queue, portal, req>>

--------------------------------------------------------------------------------
(* The Mac.                                                                     *)

RunScript(s) ==
    /\ s \in scripts
    /\ scripts' = scripts \ {s}
    /\ config'  = [config EXCEPT ![s.mac] = s.token]
    /\ UNCHANGED <<handlers, token, minted, crossed, store, queue, portal, req>>

CheckIn(m) ==
    /\ \E i \in DOMAIN checkins \ {1} :
           checkins[i] = m /\ checkins' = <<m>> \o RemoveAt(checkins, i)
    /\ UNCHANGED <<handlers, agents, store, queue, reported, req>>

ReportUsers(m) ==
    /\ Authorised(m) /\ m \notin reported
    /\ reported' = reported \cup {m}
    /\ UNCHANGED <<handlers, agents, store, queue, checkins, req>>

PollJobs(m) ==
    LET pending == {j \in JobId : jobs[j].mac = m /\ jobs[j].status = "pending"}
    IN  /\ Authorised(m) /\ todo[m] = {} /\ pending # {}
        /\ jobs' = [j \in JobId |-> IF j \in pending THEN [jobs[j] EXCEPT !.status = "running"]
                                    ELSE jobs[j]]
        /\ todo' = [todo EXCEPT ![m] = pending]
        /\ UNCHANGED <<handlers, agents, store, portal, req, results, outcome>>

\* GET /packages/{id}/download with the token that was put into the command.
Downloads(j) ==
    /\ jobs[j].token # 0 /\ jobs[j].token = token[jobs[j].mac]
    /\ jobs[j].source \in Range(packages) \cap files

\* Everything from elsewhere installs, or breaks by accident.
RunJob(m, j) ==
    /\ j \in todo[m]
    /\ todo'    = [todo EXCEPT ![m] = @ \ {j}]
    /\ results' = results \cup {j}
    /\ \/ /\ outcome' = [outcome EXCEPT ![j] = IF jobs[j].source \in Package /\ ~Downloads(j)
                                               THEN "refused" ELSE "ok"]
          /\ UNCHANGED handlers
       \/ Fault /\ outcome' = [outcome EXCEPT ![j] = "broken"] /\ UNCHANGED <<request, begun>>
    /\ UNCHANGED <<agents, store, portal, req, jobs>>

PostResult(j) ==
    /\ j \in results /\ Authorised(jobs[j].mac)
    /\ jobs'    = [jobs EXCEPT ![j].status = IF outcome[j] = "ok" THEN "completed" ELSE "failed"]
    /\ results' = results \ {j}
    /\ UNCHANGED <<handlers, agents, store, portal, req, todo, outcome>>

\* A result that is refused or lost is not sent again; an agent that dies forgets.
AgentFails(m) ==
    /\ Fault /\ todo[m] # {}
    /\ todo' = [todo EXCEPT ![m] = {}]
    /\ UNCHANGED <<request, begun, agents, store, portal, req, jobs, results, outcome>>

ResultLost(j) ==
    /\ j \in results
    /\ IF Authorised(jobs[j].mac) THEN Fault /\ UNCHANGED <<request, begun>> ELSE UNCHANGED handlers
    /\ results' = results \ {j}
    /\ UNCHANGED <<agents, store, portal, req, jobs, todo, outcome>>

--------------------------------------------------------------------------------
\* A script that left keeps a new token the row does not get.
RequestFails(h) ==
    LET q == request[h]
    IN  /\ Abandon(h)
        /\ crossed' = IF q.op = "handed" THEN crossed \cup {q.mac} ELSE crossed
        /\ UNCHANGED <<token, minted, scripts, config, store, queue, portal, req>>

Portal == \/ \E r \in Request : CreateRequest(r)
          \/ \E h \in Handler : LoadListing(h) \/ CommitListing(h)
Admin == \E h \in Handler :
            \/ \E r \in Request : LoadApproval(h, r) \/ LoadRejection(h, r)
            \/ \E p \in Package : UploadFile(h, p) \/ DeleteFile(h, p)
            \/ \E m \in Mac : LoadBootstrap(h, m)
            \/ CommitApproval(h) \/ CommitRejection(h) \/ CommitUpload(h) \/ CommitDelete(h)
            \/ ReplyBootstrap(h) \/ CommitBootstrap(h) \/ RequestFails(h)
Macs == \/ \E s \in scripts : RunScript(s)
        \/ \E m \in Mac : CheckIn(m) \/ ReportUsers(m) \/ PollJobs(m) \/ AgentFails(m)
        \/ \E m \in Mac : \E j \in todo[m] : RunJob(m, j)
        \/ \E j \in results : PostResult(j) \/ ResultLost(j)

Next == Portal \/ Admin \/ Macs \/ (Quiet /\ UNCHANGED vars)

Spec == Init /\ [][Next]_vars

--------------------------------------------------------------------------------
(* Properties.                                                                  *)

\* What a handler may have in its hands.
Operation ==
    {Free} \cup [op : {"approve"}, req : Request, saw : {"pending"}, source : Package \cup {"catalog", "url"}, token : Nat]
           \cup [op : {"reject"}, req : Request]
           \cup [op : {"upload", "delete"}, pkg : Package]
           \cup [op : {"bootstrap"}, mac : Mac, saw : Nat, token : Nat]
           \cup [op : {"handed"}, mac : Mac, saw : {0}, token : Nat]
           \cup UNION {[op : {"list"}, settled : [R -> {"completed", "failed"}]] : R \in SUBSET Request}

\* Every variable has its type.
TypeOK ==
    /\ request \in [Handler -> Operation] /\ begun \in 0..MaxRequests /\ faults \in 0..MaxFaults
    /\ checkins \in Seq(Mac) /\ reported \subseteq Mac
    /\ token \in [Mac -> Nat] /\ config \in [Mac -> Nat] /\ minted \in Nat
    /\ scripts \subseteq [mac : Mac, token : 1..minted]
    /\ packages \in Seq(Package) /\ files \subseteq Package
    /\ req \in [Request -> [status : {"absent", "pending", "installing", "completed", "failed", "rejected"},
                            mac : Mac \cup {None}, job : 0..Len(jobs)]]
    /\ jobs \in Seq([req : Request, mac : Mac, source : Package \cup {"catalog", "url"}, token : Nat,
                     status : {"pending", "running", "completed", "failed"}])
    /\ todo \in [Mac -> SUBSET JobId] /\ results \subseteq JobId
    /\ outcome \in Seq({"none", "ok", "refused", "broken"}) /\ Len(outcome) = Len(jobs)
    /\ withdrawn \subseteq Package /\ crossed \subseteq Mac

\* A request shown as completed was installed by one of its jobs, and one shown as
\* failed has a job that went wrong, however listings overlap decisions.
SettledTruly ==
    \A r \in Request :
        /\ req[r].status = "completed" => \E j \in JobId : jobs[j].req = r /\ outcome[j] = "ok"
        /\ req[r].status = "failed" =>
              \E j \in JobId : jobs[j].req = r /\ outcome[j] \in {"refused", "broken"}

\* The server refuses the package of an approved installation only when somebody had
\* started to delete it, or when the token in the command is not the Mac's any more.
RefusalExplained ==
    \A j \in JobId :
        outcome[j] = "refused" =>
            \/ jobs[j].source \in withdrawn
            \/ jobs[j].token # token[jobs[j].mac]

\* The handlers that found r undecided, or installing, and may still write it.
Deciding(r) ==
    {h \in Handler : \/ request[h].op = "approve" /\ request[h].req = r /\ request[h].saw = "pending"
                     \/ request[h].op = "list" /\ r \in DOMAIN request[h].settled}

\* A rejection is final unless a request that overlapped it had read the old status:
\* approve checks the status and reject does not.
RejectionFinal ==
    [][\A r \in Request :
          req[r].status = "rejected" /\ Deciding(r) = {} => req'[r].status = "rejected"]_vars

\* An agent has the token the server knows, or one that is being committed, unless two
\* bootstraps of a Mac without a token overlapped or one failed after its script had left:
\* then it may be locked out for good.
AgentAuthorised ==
    \A m \in Mac : config[m] # 0 /\ m \notin crossed =>
        config[m] = token[m] \/ \E h \in Handing(m) : config[m] = request[h].token
================================================================================
