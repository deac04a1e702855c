------------------------ MODULE SoftwareRequestsProofs -------------------------
(***************************************************************************)
(* Proofs about SoftwareRequests, for any Macs, requests, packages and     *)
(* handlers and any bounds on requests and failures.                       *)
(***************************************************************************)
EXTENDS SoftwareRequests, SequenceTheorems, FiniteSetTheorems, TLAPS

--------------------------------------------------------------------------------
(* The inductive invariant, in parts.                                           *)

\* A request that exists is for a Mac, and one being installed knows its job.
RequestInv ==
    \A r \in Request :
        /\ req[r].status # "absent" => req[r].mac \in Mac
        /\ req[r].status = "installing" => req[r].job \in JobId /\ jobs[req[r].job].req = r

\* How far each job is: waiting, received, run, or reported as it ended.
JobInv ==
    /\ \A j \in JobId :
           /\ jobs[j].status = "pending"   => outcome[j] = "none"
           /\ jobs[j].status = "completed" => outcome[j] = "ok"
           /\ jobs[j].status = "failed"    => outcome[j] \in {"refused", "broken"}
    /\ \A m \in Mac : \A j \in todo[m] :
           jobs[j].mac = m /\ jobs[j].status = "running" /\ outcome[j] = "none"
    /\ \A j \in results : jobs[j].status = "running" /\ outcome[j] # "none"

\* A job of r ended as the status says.
Ended(r, status) ==
    /\ status = "completed" => \E j \in JobId : jobs[j].req = r /\ outcome[j] = "ok"
    /\ status = "failed" => \E j \in JobId : jobs[j].req = r /\ outcome[j] \in {"refused", "broken"}

\* A package that was there is still there, or somebody started to delete it.
Kept(p) == p \in Package => p \in withdrawn \/ (p \in Range(packages) /\ p \in files)

StoreInv ==
    /\ \A p \in Range(packages) : Kept(p)
    /\ \A j \in JobId : Kept(jobs[j].source)

\* Tokens come from the counter, and a column that has one keeps one.
TokenInv ==
    /\ \A m \in Mac : token[m] <= minted /\ (todo[m] # {} => token[m] # 0)
    /\ \A j \in JobId : jobs[j].token <= minted

\* Until bootstraps cross or fail, a script has the token of the column, or one that is
\* being committed.
Stored(s)  == s.mac \in crossed \/ (token[s.mac] # 0 /\ s.token = token[s.mac])
Current(s) == Stored(s) \/ \E h \in Handing(s.mac) : s.token = request[h].token

ScriptInv == \A s \in scripts : Current(s)

\* A token that was made and is not in a column yet is in no command.
Unused(t) == (\A m \in Mac : token[m] # t) /\ \A j \in JobId : jobs[j].token # t

\* What a handler has read stays true until it commits.
Fits(q) ==
    /\ q.op \in {"approve", "reject"} => req[q.req].status # "absent"
    /\ q.op = "approve" => Kept(q.source) /\ q.token <= minted
    /\ q.op = "list"    => \A r \in DOMAIN q.settled : req[r].status # "absent" /\ Ended(r, q.settled[r])
    /\ q.op = "upload"  => q.pkg \in files \cup withdrawn
    /\ q.op = "delete"  => q.pkg \in withdrawn
    /\ q.op \in {"bootstrap", "handed"} => /\ q.token \in 1..minted
                                           /\ q.saw = 0 => Unused(q.token)
                                           /\ q.saw # 0 => Stored(q)
    /\ q.op = "handed" => ~CommitBeforeReply /\ q.saw = 0

HeldInv == \A h \in Handler : Fits(request[h])

\* Nobody else has the token a bootstrap made.
Makes(q) == q.op \in {"bootstrap", "handed"} /\ q.saw = 0

FreshInv ==
    \A h, i \in Handler :
        h # i /\ Makes(request[h]) /\ (Makes(request[i]) \/ request[i].op = "approve") =>
            request[h].token # request[i].token

IInv == /\ TypeOK /\ RequestInv /\ JobInv /\ StoreInv /\ TokenInv /\ ScriptInv /\ HeldInv /\ FreshInv
        /\ SettledTruly /\ RefusalExplained /\ AgentAuthorised

--------------------------------------------------------------------------------
(* Types.                                                                       *)

Sources  == Package \cup {"catalog", "url"}
JobRec   == [req : Request, mac : Mac, source : Sources, token : Nat,
             status : {"pending", "running", "completed", "failed"}]
Outcomes == {"none", "ok", "refused", "broken"}
ReqRec   == [status : {"absent", "pending", "installing", "completed", "failed", "rejected"},
             mac : Mac \cup {None}, job : 0..Len(jobs)]

\* What a request holds depends on its operation.
LEMMA OperationFacts ==
  ASSUME NEW q \in Operation
  PROVE  /\ q.op = "approve" => q.req \in Request /\ q.saw = "pending" /\ q.source \in Sources /\ q.token \in Nat
         /\ q.op = "reject" => q.req \in Request
         /\ q.op \in {"upload", "delete"} => q.pkg \in Package
         /\ q.op \in {"bootstrap", "handed"} => q.mac \in Mac /\ q.saw \in Nat /\ q.token \in Nat
         /\ q.op = "handed" => q.saw = 0
         /\ q.op = "list" => /\ DOMAIN q.settled \subseteq Request
                             /\ \A r \in DOMAIN q.settled : q.settled[r] \in {"completed", "failed"}
<1>1. \/ q \in {Free}
      \/ q \in [op : {"approve"}, req : Request, saw : {"pending"}, source : Sources, token : Nat]
      \/ q \in [op : {"reject"}, req : Request]
      \/ q \in [op : {"upload", "delete"}, pkg : Package]
      \/ q \in [op : {"bootstrap"}, mac : Mac, saw : Nat, token : Nat]
      \/ q \in [op : {"handed"}, mac : Mac, saw : {0}, token : Nat]
      \/ q \in UNION {[op : {"list"}, settled : [R -> {"completed", "failed"}]] : R \in SUBSET Request}
  BY DEF Operation, Sources
<1>2. CASE q \in UNION {[op : {"list"}, settled : [R -> {"completed", "failed"}]] : R \in SUBSET Request}
  <2>1. PICK R \in SUBSET Request : q \in [op : {"list"}, settled : [R -> {"completed", "failed"}]]
    BY <1>2
  <2> QED BY <2>1
<1>3. CASE q \in {Free}
  BY <1>3 DEF Free
<1>4. CASE q \in [op : {"approve"}, req : Request, saw : {"pending"}, source : Sources, token : Nat]
  BY <1>4
<1>5. CASE q \in [op : {"reject"}, req : Request]
  BY <1>5
<1>6. CASE q \in [op : {"upload", "delete"}, pkg : Package]
  BY <1>6
<1>7. CASE q \in [op : {"bootstrap"}, mac : Mac, saw : Nat, token : Nat]
  BY <1>7
<1>8. CASE q \in [op : {"handed"}, mac : Mac, saw : {0}, token : Nat]
  BY <1>8
<1> QED BY <1>1, <1>2, <1>3, <1>4, <1>5, <1>6, <1>7, <1>8

\* The sequences are functions over their identifiers.
LEMMA Rows ==
  ASSUME TypeOK
  PROVE  /\ Len(jobs) \in Nat /\ JobId = DOMAIN jobs /\ jobs \in [JobId -> JobRec] /\ jobs \in Seq(JobRec)
         /\ Len(outcome) = Len(jobs) /\ outcome \in [JobId -> Outcomes] /\ outcome \in Seq(Outcomes)
         /\ Len(packages) \in Nat /\ packages \in [1..Len(packages) -> Package]
         /\ Range(packages) = {packages[i] : i \in 1..Len(packages)} /\ Range(packages) \subseteq Package
         /\ Len(checkins) \in Nat /\ checkins \in [1..Len(checkins) -> Mac]
<1>1. jobs \in Seq(JobRec) /\ outcome \in Seq(Outcomes) /\ Len(outcome) = Len(jobs)
  BY DEF TypeOK, JobRec, Outcomes, Sources
<1>2. packages \in Seq(Package) /\ checkins \in Seq(Mac)
  BY DEF TypeOK
<1>3. Len(packages) \in Nat /\ packages \in [1..Len(packages) -> Package]
  BY <1>2, LenProperties
<1>4. Range(packages) = {packages[i] : i \in 1..Len(packages)} /\ Range(packages) \subseteq Package
  BY <1>3 DEF Range
<1> QED BY <1>1, <1>2, <1>3, <1>4, LenProperties DEF JobId

\* The Mac of a session is one that checked in.
LEMMA PortalFacts ==
  ASSUME TypeOK
  PROVE  PortalMac \subseteq Mac
BY Rows DEF PortalMac, MostRecent

\* Removing one row of the store leaves the others.
LEMMA RemoveFacts ==
  ASSUME NEW S, NEW s \in Seq(S), NEW i \in 1..Len(s)
  PROVE  /\ RemoveAt(s, i) \in Seq(S)
         /\ Range(RemoveAt(s, i)) \subseteq Range(s)
         /\ \A k \in 1..Len(s) : k # i => s[k] \in Range(RemoveAt(s, i))
<1> DEFINE n == Len(s)
           a == SubSeq(s, 1, i - 1)
           b == SubSeq(s, i + 1, n)
<1>1. n \in Nat /\ s \in [1..n -> S] /\ i \in 1..n
  BY LenProperties
<1>2. /\ a \in Seq(S) /\ Len(a) = i - 1 /\ \A k \in 1..(i - 1) : a[k] = s[k]
  <2>1. i - 1 \in Int /\ 1 \in Int /\ \A k \in 1..(i - 1) : s[k] \in S
    BY <1>1
  <2>2. /\ a \in Seq(S) /\ Len(a) = IF 1 <= i - 1 THEN (i - 1) - 1 + 1 ELSE 0
        /\ \A k \in 1..((i - 1) - 1 + 1) : a[k] = s[1 + k - 1]
    BY <2>1, SubSeqProperties
  <2> HIDE DEF a
  <2> QED BY <1>1, <2>2
<1>3. /\ b \in Seq(S) /\ Len(b) = n - i /\ \A k \in 1..(n - i) : b[k] = s[i + k]
  <2>1. i + 1 \in Int /\ n \in Int /\ \A k \in (i + 1)..n : s[k] \in S
    BY <1>1
  <2>2. /\ b \in Seq(S) /\ Len(b) = IF i + 1 <= n THEN n - (i + 1) + 1 ELSE 0
        /\ \A k \in 1..(n - (i + 1) + 1) : b[k] = s[i + 1 + k - 1]
    BY <2>1, SubSeqProperties
  <2> HIDE DEF b, n
  <2> QED BY <1>1, <2>2
<1> HIDE DEF a, b, n
<1>4. /\ a \o b \in Seq(S) /\ Len(a \o b) = n - 1
      /\ \A k \in 1..(n - 1) : (a \o b)[k] = IF k < i THEN s[k] ELSE s[k + 1]
  <2>1. /\ a \o b \in Seq(S) /\ Len(a \o b) = Len(a) + Len(b)
        /\ \A k \in 1..(Len(a) + Len(b)) : (a \o b)[k] = IF k <= Len(a) THEN a[k] ELSE b[k - Len(a)]
    BY <1>2, <1>3, ConcatProperties
  <2> QED BY <1>1, <1>2, <1>3, <2>1
<1>5. RemoveAt(s, i) = a \o b
  BY DEF RemoveAt, a, b, n
<1>6. DOMAIN (a \o b) = 1..(n - 1)
  BY <1>4, LenProperties
<1>7. Range(a \o b) \subseteq Range(s)
  <2>1. \A k \in 1..(n - 1) : (a \o b)[k] \in {s[m] : m \in 1..n}
    BY <1>1, <1>4
  <2> QED BY <1>1, <1>6, <2>1 DEF Range
<1>8. \A k \in 1..n : k # i => s[k] \in Range(a \o b)
  <2> SUFFICES ASSUME NEW k \in 1..n, k # i
               PROVE  s[k] \in Range(a \o b)
    OBVIOUS
  <2>1. CASE k < i
    <3>1. k \in 1..(n - 1) /\ (a \o b)[k] = s[k]
      BY <1>1, <1>4, <2>1
    <3> QED BY <1>6, <3>1 DEF Range
  <2>2. CASE k > i
    <3>1. k - 1 \in 1..(n - 1) /\ ~(k - 1 < i) /\ (k - 1) + 1 = k
      BY <1>1, <2>2
    <3>2. (a \o b)[k - 1] = s[k]
      BY <1>4, <3>1
    <3> QED BY <1>6, <3>1, <3>2 DEF Range
  <2> QED BY <1>1, <2>1, <2>2
<1> QED BY <1>4, <1>5, <1>7, <1>8 DEF n

LEMMA FreeType == Free \in Operation
BY DEF Operation

\* A handler that takes something up, or lets it go.
LEMMA HeldType ==
  ASSUME TypeOK, NEW h \in Handler, NEW q \in Operation, request' = [request EXCEPT ![h] = q]
  PROVE  /\ request' \in [Handler -> Operation]
         /\ \A i \in Handler : request'[i] = IF i = h THEN q ELSE request[i]
BY DEF TypeOK

LEMMA BeginType ==
  ASSUME TypeOK, NEW h \in Handler, NEW q \in Operation, Begin(h, q)
  PROVE  /\ request' \in [Handler -> Operation] /\ begun' \in 0..MaxRequests /\ faults' = faults
         /\ \A i \in Handler : request'[i] = IF i = h THEN q ELSE request[i]
         /\ request[h].op = "none"
<1>1. request' = [request EXCEPT ![h] = q] /\ begun < MaxRequests /\ begun' = begun + 1 /\ faults' = faults
      /\ request[h].op = "none"
  BY DEF Begin, Hold, Arrives
<1>2. begun' \in 0..MaxRequests
  BY <1>1, HandlersAssumption DEF TypeOK
<1> QED BY <1>1, <1>2, HeldType

LEMMA FinishType ==
  ASSUME TypeOK, NEW h \in Handler, NEW op, Finish(h, op)
  PROVE  /\ request' \in [Handler -> Operation] /\ UNCHANGED <<begun, faults>>
         /\ \A i \in Handler : request'[i] = IF i = h THEN Free ELSE request[i]
         /\ request[h] \in Operation /\ request[h].op = op
BY FreeType, HeldType DEF Finish, TypeOK

\* Scripts and agents while no token changes and no bootstrap that was answered ends.
LEMMA TokensKept ==
  ASSUME UNCHANGED <<token, crossed, config, scripts>>,
         \A i \in Handler : request[i].op = "handed" => request'[i] = request[i]
  PROVE  /\ \A s : Stored(s) => Stored(s)'
         /\ ScriptInv => ScriptInv'
         /\ AgentAuthorised => AgentAuthorised'
<1>1. \A s : Stored(s) => Stored(s)'
  BY DEF Stored
<1>2. \A m : \A i \in Handing(m) : request'[i] = request[i] /\ i \in Handing(m)'
  BY DEF Handing
<1>3. \A s : Current(s) => Current(s)'
  BY <1>1, <1>2 DEF Current
<1>4. AgentAuthorised => AgentAuthorised'
  BY <1>2 DEF AgentAuthorised
<1> QED BY <1>1, <1>3, <1>4 DEF ScriptInv

\* What every arrival that only reads shares.
LEMMA ReadStep ==
  ASSUME IInv, NEW h \in Handler, NEW q \in Operation, Begin(h, q),
         UNCHANGED <<agents, store, queue, portal, req>>, Fits(q), ~Makes(q),
         q.op = "approve" => \A i \in Handler : Makes(request[i]) => request[i].token # q.token
  PROVE  IInv'
<1>1. UNCHANGED <<checkins, reported, token, minted, scripts, config, packages, files, req, jobs, todo,
                  results, outcome, withdrawn, crossed>>
  BY DEF agents, store, queue, portal
<1>2. /\ request' \in [Handler -> Operation] /\ begun' \in 0..MaxRequests /\ faults' \in 0..MaxFaults
      /\ \A i \in Handler : request'[i] = IF i = h THEN q ELSE request[i]
      /\ request[h].op = "none"
  BY BeginType DEF IInv, TypeOK
<1>3. TypeOK'
  BY <1>1, <1>2 DEF IInv, TypeOK, JobId
<1>4. RequestInv' /\ JobInv' /\ StoreInv'
  BY <1>1 DEF IInv, RequestInv, JobInv, StoreInv, Kept, JobId
<1>5. TokenInv' /\ ScriptInv' /\ AgentAuthorised'
  BY <1>1, <1>2, TokensKept DEF IInv, TokenInv, JobId
<1>6. HeldInv'
  <2>1. \A x : Fits(x) => Fits(x)'
    BY <1>1 DEF Fits, Kept, Ended, Unused, Stored, JobId
  <2> QED BY <1>2, <2>1 DEF IInv, HeldInv
<1>7. FreshInv'
  BY <1>2 DEF IInv, FreshInv, Makes
<1>8. SettledTruly' /\ RefusalExplained'
  BY <1>1 DEF IInv, SettledTruly, RefusalExplained, JobId
<1> QED BY <1>3, <1>4, <1>5, <1>6, <1>7, <1>8 DEF IInv

--------------------------------------------------------------------------------
(* The portal and the decisions.                                                *)

LEMMA LoadListingStep ==
  ASSUME IInv, NEW h \in Handler, LoadListing(h)
  PROVE  IInv'
<1> DEFINE mine == {r \in Request : /\ req[r].mac \in PortalMac /\ req[r].status = "installing"
                                    /\ Settled(req[r].job) # "installing"}
           settled == [r \in mine |-> Settled(req[r].job)]
           q == [op |-> "list", settled |-> settled]
<1>1. Begin(h, q) /\ UNCHANGED <<agents, store, queue, portal, req>>
  BY DEF LoadListing
<1>2. \A r \in mine : /\ req[r].job \in JobId /\ jobs[req[r].job].req = r
                      /\ jobs[req[r].job].status \in {"completed", "failed"}
                      /\ Settled(req[r].job) = jobs[req[r].job].status
  BY DEF IInv, RequestInv, Settled
<1>3. settled \in [mine -> {"completed", "failed"}] /\ mine \in SUBSET Request
  BY <1>2
<1>4. \A r \in mine : req[r].status # "absent" /\ Ended(r, settled[r])
  BY <1>2 DEF IInv, JobInv, Ended
<1> HIDE DEF settled, mine
<1>5. q \in Operation
  <2>1. q \in [op : {"list"}, settled : [mine -> {"completed", "failed"}]]
    BY <1>3
  <2>2. q \in UNION {[op : {"list"}, settled : [R -> {"completed", "failed"}]] : R \in SUBSET Request}
    BY <1>3, <2>1
  <2> HIDE DEF q
  <2> QED BY <2>2 DEF Operation
<1>6. Fits(q) /\ ~Makes(q) /\ q.op # "approve"
  BY <1>3, <1>4 DEF Fits, Makes
<1> HIDE DEF q
<1> QED BY <1>1, <1>5, <1>6, ReadStep

LEMMA LoadApprovalStep ==
  ASSUME IInv, Sorts, NEW h \in Handler, NEW r \in Request, LoadApproval(h, r)
  PROVE  IInv'
<1> DEFINE q == [op |-> "approve", req |-> r, saw |-> req[r].status, source |-> Source(r),
                 token |-> token[req[r].mac]]
<1>1. /\ Begin(h, q) /\ UNCHANGED <<agents, store, queue, portal, req>>
      /\ req[r].status = "pending" /\ Source(r) # "none"
  BY DEF LoadApproval
<1>2. req[r].mac \in Mac
  BY <1>1 DEF IInv, RequestInv
<1>3. token[req[r].mac] \in Nat /\ token[req[r].mac] <= minted
  BY <1>2 DEF IInv, TypeOK, TokenInv
<1>4. Source(r) \in Sources /\ Kept(Source(r))
  <2>1. CASE r \in Packaged /\ packages # <<>>
    <3>1. packages \in Seq(Package)
      BY DEF IInv, TypeOK
    <3>2. Len(packages) \in 1..Len(packages)
      BY <2>1, <3>1, EmptySeq, LenProperties
    <3>3. Source(r) = packages[Len(packages)]
      BY <2>1 DEF Source, Last
    <3>4. Source(r) \in Range(packages) /\ Source(r) \in Package
      BY <3>2, <3>3, Rows DEF IInv
    <3> QED BY <3>4 DEF IInv, StoreInv, Sources
  <2>2. CASE ~(r \in Packaged /\ packages # <<>>)
    <3>1. Source(r) = Otherwise[r]
      BY <2>2 DEF Source
    <3>2. Source(r) \in {"catalog", "url"}
      BY <1>1, <3>1 DEF Sorts
    <3> QED BY <3>2 DEF Sorts, Sources, Kept
  <2> QED BY <2>1, <2>2
<1>5. \A i \in Handler : Makes(request[i]) => request[i].token # token[req[r].mac]
  BY <1>2 DEF IInv, HeldInv, Fits, Makes, Unused
<1>6. q \in Operation
  <2>1. q \in [op : {"approve"}, req : Request, saw : {"pending"}, source : Sources, token : Nat]
    BY <1>1, <1>3, <1>4
  <2> HIDE DEF q
  <2> QED BY <2>1 DEF Operation, Sources
<1>7. /\ Fits(q) /\ ~Makes(q)
      /\ \A i \in Handler : Makes(request[i]) => request[i].token # q.token
  BY <1>1, <1>3, <1>4, <1>5 DEF Fits, Makes
<1> HIDE DEF q
<1> QED BY <1>1, <1>6, <1>7, ReadStep

LEMMA LoadRejectionStep ==
  ASSUME IInv, NEW h \in Handler, NEW r \in Request, LoadRejection(h, r)
  PROVE  IInv'
<1> DEFINE q == [op |-> "reject", req |-> r]
<1>1. Begin(h, q) /\ UNCHANGED <<agents, store, queue, portal, req>> /\ req[r].status # "absent"
  BY DEF LoadRejection
<1>2. q \in Operation
  BY DEF Operation
<1>3. Fits(q) /\ ~Makes(q) /\ q.op # "approve"
  BY <1>1 DEF Fits, Makes
<1> HIDE DEF q
<1> QED BY <1>1, <1>2, <1>3, ReadStep

\* A script that left without its commit: what the Mac has may be nobody's token.
LEMMA FailStep ==
  ASSUME IInv, NEW h \in Handler, RequestFails(h)
  PROVE  IInv'
<1> PICK q : q = request[h]
  OBVIOUS
<1>1. /\ UNCHANGED <<begun, checkins, reported, token, minted, scripts, config, packages, files, req, jobs,
                     todo, results, outcome, withdrawn>>
      /\ crossed' = IF q.op = "handed" THEN crossed \cup {q.mac} ELSE crossed
      /\ request' = [request EXCEPT ![h] = Free] /\ faults' \in 0..MaxFaults
  BY HandlersAssumption DEF RequestFails, Abandon, Fault, store, queue, portal, IInv, TypeOK
<1>2. /\ request' \in [Handler -> Operation]
      /\ \A i \in Handler : request'[i] = IF i = h THEN Free ELSE request[i]
  BY <1>1, FreeType, HeldType DEF IInv
<1>3. q.op = "handed" => q.mac \in Mac
  BY OperationFacts DEF IInv, TypeOK
<1>4. TypeOK'
  BY <1>1, <1>2, <1>3 DEF IInv, TypeOK, JobId
<1>5. RequestInv' /\ JobInv' /\ StoreInv' /\ TokenInv'
  BY <1>1 DEF IInv, RequestInv, JobInv, StoreInv, TokenInv, Kept, JobId
<1>6. \A s : Stored(s) => Stored(s)'
  BY <1>1 DEF Stored
<1>7. \A m : \A i \in Handing(m) : m \in crossed' \/ (i \in Handing(m)' /\ request'[i] = request[i])
  BY <1>1, <1>2 DEF Handing
<1>8. ScriptInv'
  BY <1>1, <1>6, <1>7 DEF IInv, ScriptInv, Current, Stored
<1>9. AgentAuthorised'
  <2> SUFFICES ASSUME NEW m \in Mac, config[m] # 0, m \notin crossed'
               PROVE  config[m] = token[m] \/ \E i \in Handing(m)' : config[m] = request'[i].token
    BY <1>1 DEF AgentAuthorised
  <2>1. m \notin crossed
    BY <1>1
  <2> QED BY <1>7, <2>1 DEF IInv, AgentAuthorised
<1>10. HeldInv'
  <2>1. \A x : Fits(x) => Fits(x)'
    BY <1>1, <1>6 DEF Fits, Kept, Ended, Unused, JobId
  <2>2. Fits(Free)
    BY DEF Fits, Free
  <2> QED BY <1>2, <2>1, <2>2 DEF IInv, HeldInv
<1>11. FreshInv'
  BY <1>2 DEF IInv, FreshInv, Makes, Free
<1>12. SettledTruly' /\ RefusalExplained'
  BY <1>1 DEF IInv, SettledTruly, RefusalExplained, JobId
<1> QED BY <1>4, <1>5, <1>8, <1>9, <1>10, <1>11, <1>12 DEF IInv

\* What is left of the invariant when a request changes and no job and no token does.
LEMMA DecisionStep ==
  ASSUME IInv, UNCHANGED <<agents, store, queue, portal>>, begun' \in 0..MaxRequests, faults' = faults,
         request' \in [Handler -> Operation],
         \A h \in Handler : request'[h] \in {request[h], Free} /\ (request[h].op = "handed" => request'[h] = request[h]),
         req' \in [Request -> ReqRec],
         \A r \in Request : /\ req[r].status # "absent" => req'[r].status # "absent"
                            /\ req'[r].status # "absent" => req'[r].mac \in Mac
                            /\ req'[r].status = "installing" => req'[r] = req[r]
                            /\ Ended(r, req'[r].status)
  PROVE  IInv'
<1>1. UNCHANGED <<checkins, reported, token, minted, scripts, config, packages, files, jobs, todo,
                  results, outcome, withdrawn, crossed>>
  BY DEF agents, store, queue, portal
<1>2. TypeOK'
  BY <1>1 DEF IInv, TypeOK, JobId, ReqRec
<1>3. RequestInv'
  BY <1>1 DEF IInv, RequestInv, JobId
<1>4. JobInv' /\ StoreInv'
  BY <1>1 DEF IInv, JobInv, StoreInv, Kept, JobId
<1>5. TokenInv' /\ ScriptInv' /\ AgentAuthorised'
  BY <1>1, TokensKept DEF IInv, TokenInv, JobId
<1>6. HeldInv'
  <2> SUFFICES ASSUME NEW h \in Handler
               PROVE  Fits(request[h])'
    BY DEF HeldInv
  <2>1. CASE request'[h] = Free
    BY <2>1 DEF Fits, Free
  <2>2. CASE request'[h] = request[h]
    <3>1. Fits(request[h])
      BY DEF IInv, HeldInv
    <3>2. /\ request[h].op \in {"approve", "reject"} => request[h].req \in Request
          /\ request[h].op = "list" => DOMAIN request[h].settled \subseteq Request
      BY OperationFacts DEF IInv, TypeOK
    <3> QED BY <1>1, <2>2, <3>1, <3>2 DEF Fits, Kept, Ended, Unused, Stored, JobId
  <2> QED BY <2>1, <2>2
<1>7. FreshInv'
  <2>1. \A h \in Handler : request'[h] = request[h] \/ (~Makes(request'[h]) /\ request'[h].op # "approve")
    BY DEF Makes, Free
  <2> QED BY <2>1 DEF IInv, FreshInv, Makes
<1>8. SettledTruly'
  BY <1>1 DEF SettledTruly, Ended, JobId
<1>9. RefusalExplained'
  BY <1>1 DEF IInv, RefusalExplained, JobId
<1> QED BY <1>2, <1>3, <1>4, <1>5, <1>6, <1>7, <1>8, <1>9 DEF IInv

\* SettledTruly of one request.
SettledNow(r) ==
    /\ req[r].status = "completed" => \E j \in JobId : jobs[j].req = r /\ outcome[j] = "ok"
    /\ req[r].status = "failed" =>
          \E j \in JobId : jobs[j].req = r /\ outcome[j] \in {"refused", "broken"}

\* What is shown of a request is so before a step.
LEMMA EndedNow ==
  ASSUME IInv, NEW r \in Request
  PROVE  Ended(r, req[r].status)
BY DEF IInv, SettledTruly, Ended

LEMMA CreateRequestStep ==
  ASSUME IInv, NEW r \in Request, CreateRequest(r)
  PROVE  IInv'
<1>1. PICK m \in Mac : req' = [req EXCEPT ![r] = [status |-> "pending", mac |-> m, job |-> 0]]
  BY PortalFacts DEF CreateRequest, IInv
<1>2. /\ UNCHANGED <<agents, store, queue, portal, request, faults>> /\ begun' \in 0..MaxRequests
      /\ req[r].status = "absent"
  BY HandlersAssumption DEF CreateRequest, AtOnce, Arrives, IInv, TypeOK
<1>3. req \in [Request -> ReqRec] /\ request \in [Handler -> Operation]
  BY DEF IInv, TypeOK, ReqRec
<1>4. [status |-> "pending", mac |-> m, job |-> 0] \in ReqRec
  BY Rows DEF ReqRec, IInv
<1>5. req' \in [Request -> ReqRec]
  BY <1>1, <1>3, <1>4
<1>6. \A i \in Request : req'[i] = IF i = r THEN [status |-> "pending", mac |-> m, job |-> 0] ELSE req[i]
  BY <1>1, <1>3
<1>7. \A i \in Request : /\ req[i].status # "absent" => req'[i].status # "absent"
                         /\ req'[i].status # "absent" => req'[i].mac \in Mac
                         /\ req'[i].status = "installing" => req'[i] = req[i]
                         /\ Ended(i, req'[i].status)
  <2>1. Ended(r, "pending")
    BY DEF Ended
  <2> QED BY <1>2, <1>6, <2>1, EndedNow DEF IInv, RequestInv
<1> QED BY <1>2, <1>3, <1>5, <1>7, DecisionStep

LEMMA CommitListingStep ==
  ASSUME IInv, NEW h \in Handler, CommitListing(h)
  PROVE  IInv'
<1> DEFINE settled == request[h].settled
<1>1. /\ Finish(h, "list") /\ UNCHANGED <<agents, store, queue, portal>>
      /\ req' = [r \in Request |-> IF r \in DOMAIN settled THEN [req[r] EXCEPT !.status = settled[r]]
                                   ELSE req[r]]
  BY DEF CommitListing
<1>2. /\ request' \in [Handler -> Operation] /\ UNCHANGED <<begun, faults>>
      /\ \A i \in Handler : /\ request'[i] \in {request[i], Free}
                            /\ request[i].op = "handed" => request'[i] = request[i]
      /\ request[h] \in Operation /\ request[h].op = "list"
  BY <1>1, FinishType DEF IInv
<1>3. \A r \in DOMAIN settled : /\ settled[r] \in {"completed", "failed"} /\ Ended(r, settled[r])
                                /\ req[r].status # "absent"
  BY <1>2, OperationFacts DEF IInv, HeldInv, Fits
<1>4. req \in [Request -> ReqRec] /\ begun \in 0..MaxRequests
  BY DEF IInv, TypeOK, ReqRec
<1> HIDE DEF settled
<1>5. \A r \in Request : /\ req'[r] \in ReqRec /\ req'[r].mac = req[r].mac
                         /\ req'[r] = req[r] \/ (r \in DOMAIN settled /\ req'[r].status = settled[r])
  BY <1>1, <1>3, <1>4 DEF ReqRec
<1>6. req' \in [Request -> ReqRec]
  BY <1>1, <1>5
<1>7. \A r \in Request : /\ req[r].status # "absent" => req'[r].status # "absent"
                         /\ req'[r].status # "absent" => req'[r].mac \in Mac
                         /\ req'[r].status = "installing" => req'[r] = req[r]
                         /\ Ended(r, req'[r].status)
  BY <1>3, <1>5, EndedNow DEF IInv, RequestInv
<1> QED BY <1>1, <1>2, <1>4, <1>6, <1>7, DecisionStep

\* A rejection shows no end of a job.
LEMMA CommitRejectionStep ==
  ASSUME IInv, NEW h \in Handler, CommitRejection(h)
  PROVE  IInv'
<1> DEFINE k == request[h].req
<1>1. /\ Finish(h, "reject") /\ UNCHANGED <<agents, store, queue, portal>>
      /\ req' = [req EXCEPT ![k].status = "rejected"]
  BY DEF CommitRejection
<1>2. /\ request' \in [Handler -> Operation] /\ UNCHANGED <<begun, faults>>
      /\ \A i \in Handler : /\ request'[i] \in {request[i], Free}
                            /\ request[i].op = "handed" => request'[i] = request[i]
      /\ request[h] \in Operation /\ request[h].op = "reject"
  BY <1>1, FinishType DEF IInv
<1>3. k \in Request /\ req[k].status # "absent"
  BY <1>2, OperationFacts DEF IInv, HeldInv, Fits
<1>4. req \in [Request -> ReqRec] /\ begun \in 0..MaxRequests
  BY DEF IInv, TypeOK, ReqRec
<1> HIDE DEF k
<1>5. \A r \in Request : /\ req'[r] \in ReqRec /\ req'[r].mac = req[r].mac
                         /\ req'[r] = req[r] \/ (r = k /\ req'[r].status = "rejected")
  BY <1>1, <1>3, <1>4 DEF ReqRec
<1>6. req' \in [Request -> ReqRec]
  BY <1>1, <1>4, <1>5
<1>7. \A r \in Request : /\ req[r].status # "absent" => req'[r].status # "absent"
                         /\ req'[r].status # "absent" => req'[r].mac \in Mac
                         /\ req'[r].status = "installing" => req'[r] = req[r]
                         /\ Ended(r, req'[r].status)
  <2>1. Ended(k, "rejected")
    BY DEF Ended
  <2> QED BY <1>3, <1>5, <2>1, EndedNow DEF IInv, RequestInv
<1> QED BY <1>1, <1>2, <1>4, <1>6, <1>7, DecisionStep

\* An approval adds a job.
LEMMA ApprovalFacts ==
  ASSUME IInv, NEW h \in Handler, CommitApproval(h), NEW q, q = request[h], NEW n, n = Len(jobs) + 1
  PROVE  /\ q \in Operation /\ q.op = "approve" /\ q.req \in Request /\ req[q.req].mac \in Mac
         /\ JobId' = 1..n /\ n \notin JobId /\ JobId' = JobId \cup {n} /\ n \in Nat
         /\ Len(jobs') = n /\ Len(outcome') = n
         /\ jobs' \in Seq(JobRec) /\ outcome' \in Seq(Outcomes)
         /\ \A i \in JobId : jobs'[i] = jobs[i] /\ outcome'[i] = outcome[i]
         /\ jobs'[n].req = q.req /\ jobs'[n].mac = req[q.req].mac /\ jobs'[n].source = q.source
         /\ jobs'[n].token = q.token /\ jobs'[n].status = "pending"
         /\ outcome'[n] = "none"
<1> DEFINE j == [req |-> q.req, mac |-> req[q.req].mac, source |-> q.source, token |-> q.token,
                 status |-> "pending"]
<1>1. q \in Operation /\ q.op = "approve"
  BY FinishType DEF CommitApproval, IInv
<1>2. q.req \in Request /\ q.source \in Sources /\ q.token \in Nat /\ req[q.req].mac \in Mac
  <2>1. q.req \in Request /\ q.source \in Sources /\ q.token \in Nat
    BY <1>1, OperationFacts
  <2> QED BY <1>1, <2>1 DEF IInv, HeldInv, Fits, RequestInv
<1>3. j \in JobRec
  BY <1>2 DEF JobRec
<1>4. /\ Len(jobs) \in Nat /\ JobId = 1..Len(jobs) /\ jobs \in Seq(JobRec)
      /\ Len(outcome) = Len(jobs) /\ outcome \in Seq(Outcomes)
  BY Rows DEF IInv, JobId
<1>5. jobs' = Append(jobs, j) /\ outcome' = Append(outcome, "none")
  BY DEF CommitApproval
<1> HIDE DEF j
<1>6. /\ jobs' \in Seq(JobRec) /\ Len(jobs') = n /\ jobs'[n] = j
      /\ \A i \in 1..Len(jobs) : jobs'[i] = jobs[i]
  BY <1>3, <1>4, <1>5, AppendProperties
<1>7. "none" \in Outcomes
  BY DEF Outcomes
<1>8. /\ outcome' \in Seq(Outcomes) /\ Len(outcome') = n /\ outcome'[n] = "none"
      /\ \A i \in 1..Len(jobs) : outcome'[i] = outcome[i]
  BY <1>4, <1>5, <1>7, AppendProperties
<1>9. JobId' = 1..n /\ n \notin JobId /\ JobId' = JobId \cup {n} /\ n \in Nat
  BY <1>4, <1>6 DEF JobId
<1>10. /\ j.req = q.req /\ j.mac = req[q.req].mac /\ j.source = q.source /\ j.token = q.token
       /\ j.status = "pending"
  BY DEF j
<1> QED BY <1>1, <1>2, <1>4, <1>6, <1>8, <1>9, <1>10

LEMMA CommitApprovalStep ==
  ASSUME IInv, NEW h \in Handler, CommitApproval(h)
  PROVE  IInv'
<1> PICK q : q = request[h]
  OBVIOUS
<1> PICK n : n = Len(jobs) + 1
  OBVIOUS
<1>1. /\ q \in Operation /\ q.op = "approve" /\ q.req \in Request /\ req[q.req].mac \in Mac
      /\ JobId' = 1..n /\ n \notin JobId /\ JobId' = JobId \cup {n} /\ n \in Nat
      /\ Len(jobs') = n /\ Len(outcome') = n
      /\ jobs' \in Seq(JobRec) /\ outcome' \in Seq(Outcomes)
      /\ \A i \in JobId : jobs'[i] = jobs[i] /\ outcome'[i] = outcome[i]
      /\ outcome'[n] = "none"
      /\ jobs'[n].req = q.req /\ jobs'[n].mac = req[q.req].mac /\ jobs'[n].source = q.source
      /\ jobs'[n].token = q.token /\ jobs'[n].status = "pending"
  BY ApprovalFacts
<1>2. /\ UNCHANGED <<checkins, reported, token, minted, scripts, config, packages, files, todo, results,
                     withdrawn, crossed, begun, faults>>
      /\ request' \in [Handler -> Operation]
      /\ \A i \in Handler : request'[i] = IF i = h THEN Free ELSE request[i]
      /\ req' = [req EXCEPT ![q.req].status = "installing", ![q.req].job = n]
  BY FinishType DEF CommitApproval, IInv, agents, store, portal
<1>3. Fits(q)
  BY DEF IInv, HeldInv
<1>4. \A i \in Handler : i # h /\ Makes(request[i]) => request[i].token # q.token
  BY <1>1 DEF IInv, FreshInv
<1>5. req \in [Request -> ReqRec] /\ JobId = 1..Len(jobs) /\ Len(jobs) \in Nat /\ n = Len(jobs) + 1
  BY Rows DEF IInv, TypeOK, ReqRec, JobId
<1>6. /\ req' \in [Request -> ReqRec']
      /\ \A r \in Request \ {q.req} : req'[r] = req[r]
      /\ req'[q.req].status = "installing" /\ req'[q.req].job = n /\ req'[q.req].mac = req[q.req].mac
  <2>1. \A r \in Request \ {q.req} : req'[r] = req[r]
    BY <1>2, <1>5
  <2>2. req'[q.req] = [req[q.req] EXCEPT !.status = "installing", !.job = n]
    BY <1>1, <1>2, <1>5
  <2>3. /\ req'[q.req].status = "installing" /\ req'[q.req].job = n /\ req'[q.req].mac = req[q.req].mac
    BY <1>1, <1>5, <2>2 DEF ReqRec
  <2>4. 0..Len(jobs) \subseteq 0..Len(jobs') /\ n \in 0..Len(jobs')
    BY <1>1, <1>5
  <2>5. ReqRec \subseteq ReqRec'
    BY <2>4 DEF ReqRec
  <2>6. req'[q.req] \in ReqRec'
    <3>1. req[q.req] \in ReqRec'
      BY <1>1, <1>5, <2>5
    <3> QED BY <2>2, <2>4, <3>1 DEF ReqRec
  <2>7. DOMAIN req' = Request /\ req' = [r \in Request |-> req'[r]]
    BY <1>2, <1>5
  <2> QED BY <1>5, <2>1, <2>3, <2>5, <2>6, <2>7
<1>7. TypeOK'
  <2>1. todo' \in [Mac -> SUBSET JobId'] /\ results' \subseteq JobId'
    BY <1>1, <1>2 DEF IInv, TypeOK
  <2> QED BY <1>1, <1>2, <1>6, <2>1 DEF IInv, TypeOK, ReqRec, JobRec, Outcomes, Sources
<1>8. RequestInv'
  BY <1>1, <1>5, <1>6 DEF IInv, RequestInv
<1>9. JobInv'
  <2>1. (\A m \in Mac : todo[m] \subseteq JobId) /\ results \subseteq JobId
    BY DEF IInv, TypeOK
  <2>2. JobInv
    BY DEF IInv
  <2>3. todo' = todo /\ results' = results
    BY <1>2
  <2>4. \A j \in JobId' : j \in JobId \/ (jobs'[j].status = "pending" /\ outcome'[j] = "none")
    BY <1>1
  <2> QED BY <1>1, <2>1, <2>2, <2>3, <2>4 DEF JobInv
<1>10. \A p : Kept(p) => Kept(p)'
  BY <1>2 DEF Kept
<1>11. StoreInv'
  <2>1. Kept(q.source)
    BY <1>1, <1>3 DEF Fits
  <2> QED BY <1>1, <1>2, <1>10, <2>1 DEF IInv, StoreInv
<1>12. TokenInv'
  <2>1. q.token <= minted
    BY <1>1, <1>3 DEF Fits
  <2> QED BY <1>1, <1>2, <2>1 DEF IInv, TokenInv
<1>13. ScriptInv' /\ AgentAuthorised' /\ \A s : Stored(s) => Stored(s)'
  BY <1>1, <1>2, TokensKept DEF IInv
<1>14. \A r, status : Ended(r, status) => Ended(r, status)'
  BY <1>1 DEF Ended
<1>15. \A r \in Request : req[r].status # "absent" => req'[r].status # "absent"
  BY <1>6
<1>16. HeldInv'
  <2> SUFFICES ASSUME NEW i \in Handler
               PROVE  Fits(request[i])'
    BY DEF HeldInv
  <2>1. CASE i = h
    BY <1>2, <2>1 DEF Fits, Free
  <2>2. CASE i # h
    <3>1. Fits(request[i]) /\ request'[i] = request[i]
      BY <1>2, <2>2 DEF IInv, HeldInv
    <3>2. /\ request[i].op \in {"approve", "reject"} => request[i].req \in Request
          /\ request[i].op = "list" => DOMAIN request[i].settled \subseteq Request
      BY OperationFacts DEF IInv, TypeOK
    <3>3. request[i].op \in {"bootstrap", "handed"} /\ request[i].saw = 0 => Unused(request[i].token)'
      BY <1>1, <1>2, <1>4, <2>2, <3>1 DEF Fits, Unused, Makes
    <3>4. request[i].op \in {"bootstrap", "handed"} /\ request[i].saw # 0 => Stored(request[i])'
      BY <1>2, <3>1 DEF Fits, Stored
    <3> QED BY <1>2, <1>10, <1>14, <1>15, <3>1, <3>2, <3>3, <3>4 DEF Fits
  <2> QED BY <2>1, <2>2
<1>17. FreshInv'
  BY <1>2 DEF IInv, FreshInv, Makes, Free
<1>18. SettledTruly'
  <2>1. \A r \in Request : req'[r].status \in {"completed", "failed"} => req'[r] = req[r]
    BY <1>6
  <2>2. \A r \in Request : req'[r] = req[r] => SettledNow(r)'
    BY <1>1 DEF IInv, SettledTruly, SettledNow
  <2> QED BY <2>1, <2>2 DEF SettledTruly, SettledNow
<1>19. RefusalExplained'
  BY <1>1, <1>2 DEF IInv, RefusalExplained
<1> QED BY <1>7, <1>8, <1>9, <1>11, <1>12, <1>13, <1>16, <1>17, <1>18, <1>19 DEF IInv

--------------------------------------------------------------------------------
(* The store.                                                                   *)

\* Packages come with their file and go after it.
LEMMA StoreStep ==
  ASSUME IInv, UNCHANGED <<agents, queue, portal, req>>, begun' \in 0..MaxRequests, faults' = faults,
         packages' \in Seq(Package), files' \subseteq Package, withdrawn' \subseteq Package,
         withdrawn \subseteq withdrawn', files \cup withdrawn \subseteq files' \cup withdrawn',
         \A p : Kept(p) => Kept(p)', \A p \in Range(packages') : Kept(p)',
         NEW h \in Handler, NEW q \in Operation, request' = [request EXCEPT ![h] = q],
         request[h].op # "handed", q.op \in {"none", "upload", "delete"}, Fits(request[h])'
  PROVE  IInv'
<1>1. UNCHANGED <<checkins, reported, token, minted, scripts, config, req, jobs, todo, results, outcome,
                  crossed>>
  BY DEF agents, queue, portal
<1>2. /\ request' \in [Handler -> Operation]
      /\ \A i \in Handler : request'[i] = IF i = h THEN q ELSE request[i]
  BY HeldType DEF IInv
<1>3. TypeOK'
  BY <1>1, <1>2 DEF IInv, TypeOK, JobId
<1>4. RequestInv' /\ JobInv'
  BY <1>1 DEF IInv, RequestInv, JobInv, JobId
<1>5. StoreInv'
  BY <1>1 DEF IInv, StoreInv, JobId
<1>6. TokenInv' /\ ScriptInv' /\ AgentAuthorised'
  BY <1>1, <1>2, TokensKept DEF IInv, TokenInv, JobId
<1>7. HeldInv'
  <2> SUFFICES ASSUME NEW i \in Handler, i # h
               PROVE  Fits(request[i])'
    BY DEF HeldInv
  <2>1. Fits(request[i]) /\ request'[i] = request[i]
    BY <1>2 DEF IInv, HeldInv
  <2>2. request[i].op = "approve" => Kept(request[i].source)'
    BY <2>1 DEF Fits
  <2>3. request[i].op = "list" =>
            \A r \in DOMAIN request[i].settled : req[r].status # "absent" /\ Ended(r, request[i].settled[r])'
    BY <1>1, <2>1 DEF Fits, Ended, JobId
  <2>4. request[i].op \in {"bootstrap", "handed"} => /\ request[i].saw = 0 => Unused(request[i].token)'
                                                     /\ request[i].saw # 0 => Stored(request[i])'
    BY <1>1, <2>1 DEF Fits, Unused, Stored, JobId
  <2> QED BY <1>1, <2>1, <2>2, <2>3, <2>4 DEF Fits
<1>8. FreshInv'
  BY <1>2 DEF IInv, FreshInv, Makes
<1>9. SettledTruly' /\ RefusalExplained'
  BY <1>1 DEF IInv, SettledTruly, RefusalExplained, JobId
<1> QED BY <1>3, <1>4, <1>5, <1>6, <1>7, <1>8, <1>9 DEF IInv

LEMMA UploadFileStep ==
  ASSUME IInv, NEW h \in Handler, NEW p \in Package, UploadFile(h, p)
  PROVE  IInv'
<1> DEFINE q == [op |-> "upload", pkg |-> p]
<1>1. /\ Begin(h, q) /\ files' = files \cup {p}
      /\ UNCHANGED <<agents, queue, portal, req, packages, withdrawn>>
  BY DEF UploadFile
<1>2. q \in Operation /\ q.op = "upload" /\ q.pkg = p
  BY DEF Operation
<1> HIDE DEF q
<1>3. /\ begun' \in 0..MaxRequests /\ faults' = faults /\ request' = [request EXCEPT ![h] = q] /\ request'[h] = q
      /\ request[h].op # "handed"
  BY <1>1, <1>2, BeginType DEF IInv, Begin, Hold
<1>4. \A x : Kept(x) => Kept(x)'
  BY <1>1 DEF Kept
<1>5. Fits(request[h])'
  BY <1>1, <1>2, <1>3 DEF Fits
<1>6. \A x \in Range(packages') : Kept(x)'
  BY <1>1, <1>4 DEF IInv, StoreInv
<1>7. packages' \in Seq(Package) /\ files' \subseteq Package /\ withdrawn' \subseteq Package
  BY <1>1 DEF IInv, TypeOK
<1>8. withdrawn \subseteq withdrawn' /\ files \cup withdrawn \subseteq files' \cup withdrawn'
  BY <1>1
<1> QED BY <1>1, <1>2, <1>3, <1>4, <1>5, <1>6, <1>7, <1>8, StoreStep

LEMMA CommitUploadStep ==
  ASSUME IInv, NEW h \in Handler, CommitUpload(h)
  PROVE  IInv'
<1> DEFINE p == request[h].pkg
<1>1. /\ Finish(h, "upload") /\ packages' = Append(packages, p)
      /\ UNCHANGED <<agents, queue, portal, req, files, withdrawn>>
  BY DEF CommitUpload
<1>2. /\ UNCHANGED <<begun, faults>> /\ request[h] \in Operation /\ request[h].op = "upload"
      /\ request' = [request EXCEPT ![h] = Free] /\ request'[h] = Free
  BY <1>1, FinishType DEF IInv, Finish
<1>3. p \in Package /\ p \in files \cup withdrawn
  BY <1>2, OperationFacts DEF IInv, HeldInv, Fits
<1> HIDE DEF p
<1>4. packages \in Seq(Package) /\ begun \in 0..MaxRequests
  BY DEF IInv, TypeOK
<1>5. packages' \in Seq(Package) /\ Range(packages') = Range(packages) \cup {p}
  <2>1. /\ packages' \in Seq(Package) /\ Len(packages') = Len(packages) + 1 /\ Len(packages) \in Nat
        /\ \A i \in 1..Len(packages) : packages'[i] = packages[i]
        /\ packages'[Len(packages) + 1] = p
    BY <1>1, <1>3, <1>4, AppendProperties, LenProperties
  <2>2. DOMAIN packages = 1..Len(packages) /\ DOMAIN packages' = 1..(Len(packages) + 1)
    BY <1>4, <2>1, LenProperties
  <2> QED BY <2>1, <2>2 DEF Range
<1>6. \A x : Kept(x) => Kept(x)'
  BY <1>1, <1>5 DEF Kept
<1>7. \A x \in Range(packages') : Kept(x)'
  <2>1. \A x : x = p => Kept(x)'
    BY <1>1, <1>3, <1>5 DEF Kept
  <2> QED BY <1>5, <1>6, <2>1 DEF IInv, StoreInv
<1>8. Free \in Operation /\ Free.op = "none" /\ Fits(request[h])'
  BY <1>2, FreeType DEF Fits, Free
<1>9. files' \subseteq Package /\ withdrawn' \subseteq Package
  BY <1>1 DEF IInv, TypeOK
<1>10. withdrawn \subseteq withdrawn' /\ files \cup withdrawn \subseteq files' \cup withdrawn'
  BY <1>1
<1> QED BY <1>1, <1>2, <1>4, <1>5, <1>6, <1>7, <1>8, <1>9, <1>10, StoreStep

LEMMA DeleteFileStep ==
  ASSUME IInv, NEW h \in Handler, NEW p \in Package, DeleteFile(h, p)
  PROVE  IInv'
<1> DEFINE q == [op |-> "delete", pkg |-> p]
<1>1. /\ Begin(h, q) /\ files' = files \ {p} /\ withdrawn' = withdrawn \cup {p}
      /\ UNCHANGED <<agents, queue, portal, req, packages>>
  BY DEF DeleteFile
<1>2. q \in Operation /\ q.op = "delete" /\ q.pkg = p
  BY DEF Operation
<1> HIDE DEF q
<1>3. /\ begun' \in 0..MaxRequests /\ faults' = faults /\ request' = [request EXCEPT ![h] = q] /\ request'[h] = q
      /\ request[h].op # "handed"
  BY <1>1, <1>2, BeginType DEF IInv, Begin, Hold
<1>4. \A x : Kept(x) => Kept(x)'
  BY <1>1 DEF Kept
<1>5. Fits(request[h])'
  BY <1>1, <1>2, <1>3 DEF Fits
<1>6. \A x \in Range(packages') : Kept(x)'
  BY <1>1, <1>4 DEF IInv, StoreInv
<1>7. packages' \in Seq(Package) /\ files' \subseteq Package /\ withdrawn' \subseteq Package
  BY <1>1 DEF IInv, TypeOK
<1>8. withdrawn \subseteq withdrawn' /\ files \cup withdrawn \subseteq files' \cup withdrawn'
  BY <1>1
<1> QED BY <1>1, <1>2, <1>3, <1>4, <1>5, <1>6, <1>7, <1>8, StoreStep

LEMMA CommitDeleteStep ==
  ASSUME IInv, NEW h \in Handler, CommitDelete(h)
  PROVE  IInv'
<1> DEFINE p == request[h].pkg
<1>1. Finish(h, "delete") /\ UNCHANGED <<agents, queue, portal, req, files, withdrawn>>
  BY DEF CommitDelete
<1>2. /\ UNCHANGED <<begun, faults>> /\ request[h] \in Operation /\ request[h].op = "delete"
      /\ request' = [request EXCEPT ![h] = Free] /\ request'[h] = Free
  BY <1>1, FinishType DEF IInv, Finish
<1>3. p \in withdrawn
  BY <1>2 DEF IInv, HeldInv, Fits
<1>4. packages \in Seq(Package) /\ begun \in 0..MaxRequests
  BY DEF IInv, TypeOK
<1>5. /\ packages' \in Seq(Package) /\ Range(packages') \subseteq Range(packages)
      /\ \A x \in Range(packages) : x # p => x \in Range(packages')
  <2>1. CASE UNCHANGED packages
    BY <1>4, <2>1
  <2>2. ASSUME NEW i \in DOMAIN packages, packages[i] = p, packages' = RemoveAt(packages, i)
        PROVE  /\ packages' \in Seq(Package) /\ Range(packages') \subseteq Range(packages)
               /\ \A x \in Range(packages) : x # p => x \in Range(packages')
    <3>1. i \in 1..Len(packages) /\ DOMAIN packages = 1..Len(packages)
      BY <1>4, LenProperties
    <3> HIDE DEF p
    <3>2. /\ packages' \in Seq(Package) /\ Range(packages') \subseteq Range(packages)
          /\ \A k \in 1..Len(packages) : k # i => packages[k] \in Range(packages')
      BY <1>4, <2>2, <3>1, RemoveFacts
    <3>3. \A x \in Range(packages) : \E k \in 1..Len(packages) : x = packages[k]
      BY <3>1 DEF Range
    <3> QED BY <2>2, <3>2, <3>3
  <2> QED BY <2>1, <2>2 DEF CommitDelete
<1> HIDE DEF p
<1>6. \A x : Kept(x) => Kept(x)'
  BY <1>1, <1>3, <1>5 DEF Kept
<1>7. \A x \in Range(packages') : Kept(x)'
  BY <1>5, <1>6 DEF IInv, StoreInv
<1>8. Free \in Operation /\ Free.op = "none" /\ Fits(request[h])'
  BY <1>2, FreeType DEF Fits, Free
<1>9. files' \subseteq Package /\ withdrawn' \subseteq Package
  BY <1>1 DEF IInv, TypeOK
<1>10. withdrawn \subseteq withdrawn' /\ files \cup withdrawn \subseteq files' \cup withdrawn'
  BY <1>1
<1> QED BY <1>1, <1>2, <1>4, <1>5, <1>6, <1>7, <1>8, <1>9, <1>10, StoreStep

--------------------------------------------------------------------------------
(* Bootstraps and scripts.                                                      *)

LEMMA LoadBootstrapStep ==
  ASSUME IInv, NEW h \in Handler, NEW m \in Mac, LoadBootstrap(h, m)
  PROVE  IInv'
<1>1. token[m] \in Nat /\ minted \in Nat /\ token[m] <= minted
  BY DEF IInv, TypeOK, TokenInv
<1>2. CASE token[m] # 0
  <2> DEFINE q == [op |-> "bootstrap", mac |-> m, saw |-> token[m], token |-> token[m]]
  <2>1. Begin(h, q) /\ UNCHANGED <<agents, store, queue, portal, req>>
    BY <1>2 DEF LoadBootstrap, agents
  <2>2. q \in Operation
    BY <1>1 DEF Operation
  <2>3. Fits(q) /\ ~Makes(q) /\ q.op # "approve"
    BY <1>1, <1>2 DEF Fits, Makes, Stored
  <2> HIDE DEF q
  <2> QED BY <2>1, <2>2, <2>3, ReadStep
<1>3. CASE token[m] = 0
  <2> DEFINE q == [op |-> "bootstrap", mac |-> m, saw |-> token[m], token |-> minted + 1]
  <2>1. /\ Begin(h, q) /\ minted' = minted + 1
        /\ UNCHANGED <<checkins, reported, token, scripts, config, packages, files, req, jobs, todo, results,
                       outcome, withdrawn, crossed>>
    BY <1>3 DEF LoadBootstrap, store, queue, portal
  <2>2. q \in Operation
    BY <1>1 DEF Operation
  <2>3. q.op = "bootstrap" /\ q.saw = 0 /\ q.token = minted + 1
    BY <1>3
  <2> HIDE DEF q
  <2>4. /\ request' \in [Handler -> Operation] /\ begun' \in 0..MaxRequests /\ faults' = faults
        /\ \A i \in Handler : request'[i] = IF i = h THEN q ELSE request[i]
        /\ request[h].op = "none"
    BY <2>1, <2>2, BeginType DEF IInv
  <2>5. TypeOK'
    <3>1. minted' \in Nat /\ 1..minted \subseteq 1..minted'
      BY <1>1, <2>1
    <3>2. scripts' \subseteq [mac : Mac, token : 1..minted']
      BY <2>1, <3>1 DEF IInv, TypeOK
    <3> QED BY <2>1, <2>4, <3>1, <3>2 DEF IInv, TypeOK, JobId
  <2>6. RequestInv' /\ JobInv' /\ StoreInv'
    BY <2>1 DEF IInv, RequestInv, JobInv, StoreInv, Kept, JobId
  <2>7. \A t \in Nat : t <= minted => t <= minted'
    BY <1>1, <2>1
  <2>8. (\A i \in Mac : token[i] \in Nat) /\ \A j \in JobId : jobs[j].token \in Nat
    BY Rows DEF IInv, TypeOK, JobRec
  <2>9. TokenInv' /\ ScriptInv' /\ AgentAuthorised'
    <3>1. TokenInv'
      BY <2>1, <2>7, <2>8 DEF IInv, TokenInv, JobId
    <3> QED BY <2>1, <2>4, <3>1, TokensKept DEF IInv
  <2>10. HeldInv'
    <3> SUFFICES ASSUME NEW i \in Handler
                 PROVE  Fits(request[i])'
      BY DEF HeldInv
    <3>1. CASE i = h
      <4>1. request'[i] = q
        BY <2>4, <3>1
      <4>2. (\A k \in Mac : token[k] # minted + 1) /\ \A j \in JobId : jobs[j].token # minted + 1
        BY <1>1, <2>8 DEF IInv, TokenInv
      <4>3. \A t : t = minted + 1 => Unused(t)'
        BY <2>1, <4>2 DEF Unused, JobId
      <4>4. minted + 1 \in 1..minted'
        BY <1>1, <2>1
      <4> QED BY <2>3, <4>1, <4>3, <4>4 DEF Fits
    <3>2. CASE i # h
      <4>1. Fits(request[i]) /\ request'[i] = request[i]
        BY <2>4, <3>2 DEF IInv, HeldInv
      <4>2. request[i].op = "approve" => request[i].token <= minted'
        BY <2>7, <4>1, OperationFacts DEF Fits, IInv, TypeOK
      <4>3. request[i].op \in {"bootstrap", "handed"} => request[i].token \in 1..minted'
        BY <1>1, <2>1, <4>1 DEF Fits
      <4> QED BY <2>1, <4>1, <4>2, <4>3 DEF Fits, Kept, Ended, Unused, Stored, JobId
    <3> QED BY <3>1, <3>2
  <2>11. FreshInv'
    <3>1. \A i \in Handler : Makes(request[i]) \/ request[i].op = "approve" => request[i].token # minted + 1
      BY <1>1, OperationFacts DEF IInv, HeldInv, Fits, Makes, TypeOK
    <3> QED BY <2>3, <2>4, <3>1 DEF IInv, FreshInv, Makes
  <2>12. SettledTruly' /\ RefusalExplained'
    BY <2>1 DEF IInv, SettledTruly, RefusalExplained, JobId
  <2> QED BY <2>5, <2>6, <2>9, <2>10, <2>11, <2>12 DEF IInv
<1> QED BY <1>2, <1>3

\* A commit writes a token only where it had found none, and then one that nobody else has.
LEMMA CommitBootstrapStep ==
  ASSUME IInv, NEW h \in Handler, CommitBootstrap(h)
  PROVE  IInv'
<1> PICK q : q = request[h]
  OBVIOUS
<1>1. /\ request' \in [Handler -> Operation] /\ UNCHANGED <<begun, faults>>
      /\ \A i \in Handler : request'[i] = IF i = h THEN Free ELSE request[i]
      /\ q \in Operation /\ q.op \in {"bootstrap", "handed"} /\ (~CommitBeforeReply => q.op = "handed")
  BY FinishType DEF CommitBootstrap, Due, IInv
<1>2. /\ UNCHANGED <<checkins, reported, minted, config, packages, files, req, jobs, todo, results,
                     outcome, withdrawn>>
      /\ token'   = IF q.saw = 0 THEN [token EXCEPT ![q.mac] = q.token] ELSE token
      /\ scripts' = IF CommitBeforeReply THEN scripts \cup {[mac |-> q.mac, token |-> q.token]} ELSE scripts
      /\ crossed' = IF q.saw = 0 /\ token[q.mac] # 0 THEN crossed \cup {q.mac} ELSE crossed
  BY DEF CommitBootstrap, HandsOut, store, queue, portal
<1>3. q.mac \in Mac /\ q.saw \in Nat /\ q.token \in Nat
  BY <1>1, OperationFacts
<1>4. /\ q.token \in 1..minted /\ (q.saw = 0 => Unused(q.token))
      /\ q.saw # 0 => Stored(q)
      /\ ~CommitBeforeReply => q.saw = 0
  BY <1>1 DEF IInv, HeldInv, Fits
<1>5. /\ token \in [Mac -> Nat] /\ minted \in Nat /\ crossed \subseteq Mac
      /\ scripts \subseteq [mac : Mac, token : 1..minted]
  BY DEF IInv, TypeOK
<1>6. \A m \in Mac : /\ token'[m] = IF m = q.mac /\ q.saw = 0 THEN q.token ELSE token[m]
                     /\ m \in crossed' <=> m \in crossed \/ (m = q.mac /\ q.saw = 0 /\ token[m] # 0)
  BY <1>2, <1>3, <1>4, <1>5
<1>7. TypeOK'
  <2>1. token' \in [Mac -> Nat]
    BY <1>2, <1>3, <1>5
  <2>2. crossed' \subseteq Mac
    BY <1>2, <1>3, <1>5
  <2>3. scripts' \subseteq [mac : Mac, token : 1..minted]
    BY <1>2, <1>3, <1>4, <1>5
  <2> QED BY <1>1, <1>2, <2>1, <2>2, <2>3 DEF IInv, TypeOK, JobId
<1>8. RequestInv' /\ JobInv' /\ StoreInv'
  BY <1>2 DEF IInv, RequestInv, JobInv, StoreInv, Kept, JobId
<1>9. \A m \in Mac : token[m] # 0 => token'[m] # 0
  BY <1>4, <1>6
<1>10. TokenInv'
  <2>1. \A m \in Mac : token'[m] <= minted
    BY <1>4, <1>6 DEF IInv, TokenInv
  <2> QED BY <1>2, <1>9, <2>1 DEF IInv, TokenInv, JobId
<1>11. \A s : s.mac \in Mac /\ Stored(s) => Stored(s)'
  <2> SUFFICES ASSUME NEW s, s.mac \in Mac, Stored(s)
               PROVE  Stored(s)'
    OBVIOUS
  <2>1. CASE s.mac \in crossed
    BY <1>6, <2>1 DEF Stored
  <2>2. CASE token[s.mac] # 0 /\ s.token = token[s.mac]
    BY <1>6, <2>2 DEF Stored
  <2> QED BY <2>1, <2>2 DEF Stored
<1>18. \A m \in Mac : \A i \in Handing(m) : \A t : t = request[i].token =>
            \/ m \in crossed' \/ token'[m] = t
            \/ i \in Handing(m)' /\ request'[i].token = t
  <2> SUFFICES ASSUME NEW m \in Mac, NEW i \in Handing(m)
               PROVE  \/ m \in crossed' \/ token'[m] = request[i].token
                      \/ i \in Handing(m)' /\ request'[i] = request[i]
    OBVIOUS
  <2>1. CASE i = h
    <3>1. q.mac = m /\ q.saw = 0
      BY <2>1, OperationFacts, <1>1 DEF Handing
    <3> QED BY <1>6, <2>1, <3>1
  <2>2. CASE i # h
    BY <1>1, <2>2 DEF Handing
  <2> QED BY <2>1, <2>2
<1>12. ScriptInv'
  <2>1. \A s \in scripts : Current(s)'
    <3> SUFFICES ASSUME NEW s \in scripts
                 PROVE  Current(s)'
      OBVIOUS
    <3>1. s.mac \in Mac /\ s.token # 0 /\ Current(s)
      BY <1>5 DEF IInv, ScriptInv
    <3> QED BY <1>11, <1>18, <3>1 DEF Current, Stored
  <2>2. ASSUME NEW s, s = [mac |-> q.mac, token |-> q.token]
        PROVE  Current(s)'
    <3>1. s.mac = q.mac /\ s.token = q.token
      BY <2>2
    <3>2. CASE q.saw = 0
      BY <1>3, <1>4, <1>6, <3>1, <3>2 DEF Current, Stored
    <3>3. CASE q.saw # 0
      <4>1. Stored(q)'
        BY <1>3, <1>4, <1>11, <3>3
      <4> QED BY <3>1, <4>1 DEF Current, Stored
    <3> QED BY <3>2, <3>3
  <2> QED BY <1>2, <2>1, <2>2 DEF ScriptInv
<1>13. HeldInv'
  <2> SUFFICES ASSUME NEW i \in Handler
               PROVE  Fits(request[i])'
    BY DEF HeldInv
  <2>1. CASE i = h
    BY <1>1, <2>1 DEF Fits, Free
  <2>2. CASE i # h
    <3>1. Fits(request[i]) /\ request'[i] = request[i] /\ request[i] \in Operation
      BY <1>1, <2>2 DEF IInv, HeldInv, TypeOK
    <3>2. ASSUME request[i].op \in {"bootstrap", "handed"}, request[i].saw = 0
          PROVE  Unused(request[i].token)'
      <4>1. Unused(request[i].token)
        BY <3>1, <3>2 DEF Fits
      <4>2. q.saw = 0 => request[i].token # q.token
        BY <1>1, <2>2, <3>2 DEF IInv, FreshInv, Makes
      <4>3. \A m \in Mac : token'[m] # request[i].token
        BY <1>6, <4>1, <4>2 DEF Unused
      <4> QED BY <1>2, <3>1, <4>1, <4>3 DEF Unused, JobId
    <3>3. request[i].op \in {"bootstrap", "handed"} /\ request[i].saw # 0 => Stored(request[i])'
      <4>1. \A x : x = request[i] /\ x.op \in {"bootstrap", "handed"} /\ x.saw # 0 => x.mac \in Mac /\ Stored(x)
        BY <3>1, OperationFacts DEF Fits
      <4>2. \A x : x = request[i] /\ x.op \in {"bootstrap", "handed"} /\ x.saw # 0 => Stored(x)'
        BY <1>11, <4>1
      <4> QED BY <3>1, <4>2 DEF Stored
    <3> QED BY <1>2, <3>1, <3>2, <3>3 DEF Fits, Kept, Ended, JobId
  <2> QED BY <2>1, <2>2
<1>14. FreshInv'
  BY <1>1 DEF IInv, FreshInv, Makes, Free
<1>15. SettledTruly'
  BY <1>2 DEF IInv, SettledTruly, JobId
<1>16. RefusalExplained'
  <2> SUFFICES ASSUME NEW j \in JobId, outcome[j] = "refused"
               PROVE  jobs[j].source \in withdrawn \/ jobs[j].token # token'[jobs[j].mac]
    BY <1>2 DEF RefusalExplained, JobId
  <2>1. jobs[j].source \in withdrawn \/ jobs[j].token # token[jobs[j].mac]
    BY DEF IInv, RefusalExplained
  <2>2. jobs[j].mac \in Mac
    BY Rows DEF IInv, JobRec
  <2>3. q.saw = 0 => jobs[j].token # q.token
    BY <1>4 DEF Unused
  <2> QED BY <1>6, <2>1, <2>2, <2>3
<1>17. AgentAuthorised'
  <2> SUFFICES ASSUME NEW m \in Mac, config[m] # 0, m \notin crossed'
               PROVE  config[m] = token'[m] \/ \E i \in Handing(m)' : config[m] = request'[i].token
    BY <1>2 DEF AgentAuthorised
  <2>1. m \notin crossed
    BY <1>6
  <2>2. CASE config[m] = token[m]
    BY <1>6, <2>2
  <2>3. CASE \E i \in Handing(m) : config[m] = request[i].token
    BY <1>18, <2>3
  <2> QED BY <2>1, <2>2, <2>3 DEF IInv, AgentAuthorised
<1> QED BY <1>7, <1>8, <1>10, <1>12, <1>13, <1>14, <1>15, <1>16, <1>17 DEF IInv

\* The answer leaves: with a stored token, or with one that is about to be.
LEMMA ReplyBootstrapStep ==
  ASSUME IInv, NEW h \in Handler, ReplyBootstrap(h)
  PROVE  IInv'
<1> PICK q : q = request[h]
  OBVIOUS
<1> PICK n : n = IF q.saw = 0 THEN [q EXCEPT !.op = "handed"] ELSE Free
  OBVIOUS
<1>1. /\ UNCHANGED <<begun, faults, checkins, reported, token, minted, config, packages, files, req, jobs,
                     todo, results, outcome, withdrawn, crossed>>
      /\ scripts' = scripts \cup {[mac |-> q.mac, token |-> q.token]}
      /\ ~CommitBeforeReply /\ request' = [request EXCEPT ![h] = n] /\ q.op = "bootstrap"
  BY DEF ReplyBootstrap, HandsOut, Reply, store, queue, portal
<1>2. q \in Operation /\ q.mac \in Mac /\ q.saw \in Nat /\ q.token \in Nat
  <2>1. q \in Operation
    BY DEF IInv, TypeOK
  <2> QED BY <1>1, <2>1, OperationFacts
<1>3. /\ q.token \in 1..minted /\ (q.saw = 0 => Unused(q.token)) /\ (q.saw # 0 => Stored(q))
      /\ minted \in Nat /\ scripts \subseteq [mac : Mac, token : 1..minted]
  BY <1>1 DEF IInv, HeldInv, Fits, TypeOK
<1>4. /\ q.saw = 0 => n.op = "handed" /\ n.mac = q.mac /\ n.saw = 0 /\ n.token = q.token
      /\ q.saw # 0 => n = Free
      /\ n \in Operation
  <2>1. CASE q.saw = 0
    <3>1. q \in [op : {"bootstrap"}, mac : Mac, saw : Nat, token : Nat]
      <4>1. q \in Operation /\ q.op = "bootstrap"
        BY <1>1, <1>2
      <4>2. q \notin UNION {[op : {"list"}, settled : [R -> {"completed", "failed"}]] : R \in SUBSET Request}
        BY <4>1
      <4> QED BY <4>1, <4>2 DEF Operation, Free
    <3>2. n = [q EXCEPT !.op = "handed"]
      BY <2>1
    <3>3. n = [op |-> "handed", mac |-> q.mac, saw |-> q.saw, token |-> q.token]
      BY <3>1, <3>2
    <3>4. n \in [op : {"handed"}, mac : Mac, saw : {0}, token : Nat]
      BY <1>2, <2>1, <3>3
    <3> QED BY <2>1, <3>3, <3>4 DEF Operation
  <2>2. CASE q.saw # 0
    BY <2>2, FreeType
  <2> QED BY <2>1, <2>2
<1>5. /\ request' \in [Handler -> Operation]
      /\ \A i \in Handler : request'[i] = IF i = h THEN n ELSE request[i]
  BY <1>1, <1>4, HeldType DEF IInv
<1>6. TypeOK'
  <2>1. scripts' \subseteq [mac : Mac, token : 1..minted]
    BY <1>1, <1>2, <1>3
  <2> QED BY <1>1, <1>5, <2>1 DEF IInv, TypeOK, JobId
<1>7. RequestInv' /\ JobInv' /\ StoreInv' /\ TokenInv'
  BY <1>1 DEF IInv, RequestInv, JobInv, StoreInv, TokenInv, Kept, JobId
<1>8. \A m : \A i \in Handing(m) : i \in Handing(m)' /\ request'[i] = request[i]
  BY <1>1, <1>5 DEF Handing
<1>9. ScriptInv'
  <2>1. \A s \in scripts : Current(s)'
    BY <1>1, <1>8 DEF IInv, ScriptInv, Current, Stored
  <2>2. ASSUME NEW s, s = [mac |-> q.mac, token |-> q.token]
        PROVE  Current(s)'
    <3>1. s.mac = q.mac /\ s.token = q.token
      BY <2>2
    <3>2. CASE q.saw = 0
      <4>1. h \in Handing(q.mac)' /\ request'[h].token = q.token
        BY <1>4, <1>5, <3>2 DEF Handing
      <4> QED BY <3>1, <4>1 DEF Current
    <3>3. CASE q.saw # 0
      BY <1>1, <1>3, <3>1, <3>3 DEF Current, Stored
    <3> QED BY <3>2, <3>3
  <2> QED BY <1>1, <2>1, <2>2 DEF ScriptInv
<1>10. AgentAuthorised'
  BY <1>1, <1>8 DEF IInv, AgentAuthorised
<1>11. HeldInv'
  <2>1. \A x : Fits(x) => Fits(x)'
    BY <1>1 DEF Fits, Kept, Ended, Unused, Stored, JobId
  <2>2. Fits(n)
    <3>1. Fits(Free)
      BY DEF Fits, Free
    <3> QED BY <1>1, <1>3, <1>4, <3>1 DEF Fits
  <2> QED BY <1>5, <2>1, <2>2 DEF IInv, HeldInv
<1>12. FreshInv'
  <2>1. Makes(n) => Makes(q) /\ n.token = q.token
    BY <1>1, <1>4 DEF Makes, Free
  <2>2. n.op # "approve"
    BY <1>2, <1>4 DEF Free
  <2>3. \A i \in Handler :
           /\ Makes(request[i])' => Makes(request[i]) /\ request'[i].token = request[i].token
           /\ request'[i].op = "approve" => request[i].op = "approve" /\ request'[i].token = request[i].token
    BY <1>5, <2>1, <2>2 DEF Makes
  <2> QED BY <2>3 DEF IInv, FreshInv
<1>13. SettledTruly' /\ RefusalExplained'
  BY <1>1 DEF IInv, SettledTruly, RefusalExplained, JobId
<1> QED BY <1>6, <1>7, <1>9, <1>10, <1>11, <1>12, <1>13 DEF IInv

LEMMA RunScriptStep ==
  ASSUME IInv, NEW s \in scripts, RunScript(s)
  PROVE  IInv'
<1>1. /\ scripts' = scripts \ {s} /\ config' = [config EXCEPT ![s.mac] = s.token]
      /\ UNCHANGED <<request, begun, faults, checkins, reported, token, minted, packages, files, req, jobs,
                     todo, results, outcome, withdrawn, crossed>>
  BY DEF RunScript, handlers, store, queue, portal
<1>2. /\ s \in [mac : Mac, token : 1..minted] /\ minted \in Nat /\ config \in [Mac -> Nat]
      /\ scripts \subseteq [mac : Mac, token : 1..minted] /\ Current(s)
  BY DEF IInv, TypeOK, ScriptInv
<1>3. /\ config' \in [Mac -> Nat]
      /\ \A m \in Mac : config'[m] = IF m = s.mac THEN s.token ELSE config[m]
  BY <1>1, <1>2
<1>4. TypeOK'
  BY <1>1, <1>2, <1>3 DEF IInv, TypeOK, JobId
<1>5. RequestInv' /\ JobInv' /\ StoreInv'
  BY <1>1 DEF IInv, RequestInv, JobInv, StoreInv, Kept, JobId
<1>6. TokenInv' /\ ScriptInv'
  BY <1>1, <1>2, <1>3 DEF IInv, TokenInv, ScriptInv, Current, Stored, Handing, JobId
<1>7. HeldInv' /\ FreshInv'
  BY <1>1 DEF IInv, HeldInv, FreshInv, Makes, Fits, Kept, Ended, Unused, Stored, JobId
<1>8. SettledTruly' /\ RefusalExplained'
  BY <1>1 DEF IInv, SettledTruly, RefusalExplained, JobId
<1>9. AgentAuthorised'
  BY <1>1, <1>2, <1>3 DEF IInv, AgentAuthorised, Current, Stored, Handing
<1> QED BY <1>4, <1>5, <1>6, <1>7, <1>8, <1>9 DEF IInv

--------------------------------------------------------------------------------
(* The Mac and its jobs.                                                        *)

\* Who checked in and who is logged in matters for new requests only.
LEMMA PresenceStep ==
  ASSUME IInv, UNCHANGED <<handlers, agents, store, queue, req>>,
         checkins' \in Seq(Mac), reported' \subseteq Mac
  PROVE  IInv'
<1>1. UNCHANGED <<request, begun, faults, token, minted, scripts, config, packages, files, req, jobs, todo,
                  results, outcome, withdrawn, crossed>>
  BY DEF handlers, agents, store, queue
<1>2. TypeOK'
  BY <1>1 DEF IInv, TypeOK, JobId
<1>3. RequestInv' /\ JobInv' /\ StoreInv'
  BY <1>1 DEF IInv, RequestInv, JobInv, StoreInv, Kept, JobId
<1>4. TokenInv' /\ ScriptInv' /\ AgentAuthorised'
  BY <1>1, TokensKept DEF IInv, TokenInv, JobId
<1>5. HeldInv' /\ FreshInv'
  BY <1>1 DEF IInv, HeldInv, FreshInv, Makes, Fits, Kept, Ended, Unused, Stored, JobId
<1>6. SettledTruly' /\ RefusalExplained'
  BY <1>1 DEF IInv, SettledTruly, RefusalExplained, JobId
<1> QED BY <1>2, <1>3, <1>4, <1>5, <1>6 DEF IInv

LEMMA CheckInStep ==
  ASSUME IInv, NEW m \in Mac, CheckIn(m)
  PROVE  IInv'
<1>1. PICK i \in DOMAIN checkins \ {1} : checkins[i] = m /\ checkins' = <<m>> \o RemoveAt(checkins, i)
  BY DEF CheckIn
<1>2. checkins \in Seq(Mac) /\ reported \subseteq Mac
  BY DEF IInv, TypeOK
<1>3. i \in 1..Len(checkins)
  BY <1>1, <1>2, LenProperties
<1>4. RemoveAt(checkins, i) \in Seq(Mac)
  BY <1>2, <1>3, RemoveFacts
<1>5. <<m>> \in Seq(Mac)
  OBVIOUS
<1>6. checkins' \in Seq(Mac)
  BY <1>1, <1>4, <1>5, ConcatProperties
<1>7. UNCHANGED <<handlers, agents, store, queue, req>> /\ reported' \subseteq Mac
  BY <1>2 DEF CheckIn
<1> QED BY <1>6, <1>7, PresenceStep

LEMMA ReportUsersStep ==
  ASSUME IInv, NEW m \in Mac, ReportUsers(m)
  PROVE  IInv'
<1>1. /\ UNCHANGED <<handlers, agents, store, queue, req>>
      /\ checkins' \in Seq(Mac) /\ reported' \subseteq Mac
  BY DEF ReportUsers, IInv, TypeOK
<1> QED BY <1>1, PresenceStep

\* Ended after the step.
EndedNext(r, status) ==
    /\ status = "completed" => \E j \in JobId' : jobs'[j].req = r /\ outcome'[j] = "ok"
    /\ status = "failed" => \E j \in JobId' : jobs'[j].req = r /\ outcome'[j] \in {"refused", "broken"}

\* A job keeps what it was made of; how it ended stays, and a refusal has a reason.
LEMMA JobStep ==
  ASSUME IInv, UNCHANGED <<request, begun, agents, store, portal, req>>, faults' \in 0..MaxFaults,
         jobs' \in Seq(JobRec), Len(jobs') = Len(jobs),
         outcome' \in Seq(Outcomes), Len(outcome') = Len(jobs),
         \A j \in JobId : /\ jobs'[j].req = jobs[j].req /\ jobs'[j].mac = jobs[j].mac
                          /\ jobs'[j].source = jobs[j].source /\ jobs'[j].token = jobs[j].token
                          /\ outcome[j] # "none" => outcome'[j] = outcome[j]
                          /\ outcome'[j] = "refused" =>
                                \/ outcome[j] = "refused"
                                \/ jobs[j].source \in withdrawn \/ jobs[j].token # token[jobs[j].mac],
         todo' \in [Mac -> SUBSET JobId], results' \subseteq JobId,
         \A m \in Mac : todo'[m] # {} => token[m] # 0,
         JobInv'
  PROVE  IInv'
<1>1. /\ UNCHANGED <<checkins, reported, token, minted, scripts, config, packages, files, req, withdrawn, crossed>>
      /\ JobId' = JobId
  BY DEF agents, store, portal, JobId
<1>2. TypeOK'
  BY <1>1 DEF IInv, TypeOK, JobRec, Outcomes, Sources
<1>3. RequestInv'
  BY <1>1 DEF IInv, RequestInv
<1>4. StoreInv'
  BY <1>1 DEF IInv, StoreInv, Kept
<1>5. TokenInv'
  BY <1>1 DEF IInv, TokenInv
<1>6. ScriptInv' /\ AgentAuthorised'
  BY <1>1, TokensKept DEF IInv, agents
<1>7. \A r, status : Ended(r, status) => EndedNext(r, status)
  BY <1>1 DEF Ended, EndedNext
<1>8. HeldInv'
  <2> SUFFICES ASSUME NEW i \in Handler
               PROVE  Fits(request[i])'
    BY DEF HeldInv
  <2>1. Fits(request[i]) /\ request'[i] = request[i]
    BY DEF IInv, HeldInv
  <2>2. request[i].op \in {"bootstrap", "handed"} /\ request[i].saw = 0 => Unused(request[i].token)'
    BY <1>1, <2>1 DEF Fits, Unused
  <2>3. request[i].op = "list" => \A r \in DOMAIN request[i].settled : EndedNext(r, request[i].settled[r])
    BY <1>7, <2>1 DEF Fits
  <2> QED BY <1>1, <2>1, <2>2, <2>3 DEF Fits, Kept, Stored, Ended, EndedNext
<1>9. FreshInv'
  BY DEF IInv, FreshInv, Makes
<1>10. SettledTruly'
  BY <1>1 DEF IInv, SettledTruly
<1>11. RefusalExplained'
  BY <1>1 DEF IInv, RefusalExplained
<1> QED BY <1>2, <1>3, <1>4, <1>5, <1>6, <1>8, <1>9, <1>10, <1>11 DEF IInv

\* A function over 1..n is a sequence.
LEMMA FunctionIsSeq ==
  ASSUME NEW S, NEW n \in Nat, NEW f \in [1..n -> S]
  PROVE  f \in Seq(S) /\ Len(f) = n
<1>1. f \in Seq(S)
  BY SeqDef
<1>2. Len(f) \in Nat /\ DOMAIN f = 1..Len(f)
  BY <1>1, LenProperties
<1>3. 1..Len(f) = 1..n
  BY <1>2
<1> QED BY <1>1, <1>2, <1>3

\* What the steps of an agent start from.
LEMMA JobFacts ==
  ASSUME IInv
  PROVE  /\ jobs \in [JobId -> JobRec] /\ jobs \in Seq(JobRec) /\ JobId = 1..Len(jobs) /\ Len(jobs) \in Nat
         /\ outcome \in [JobId -> Outcomes] /\ outcome \in Seq(Outcomes) /\ Len(outcome) = Len(jobs)
         /\ todo \in [Mac -> SUBSET JobId] /\ results \subseteq JobId /\ faults \in 0..MaxFaults
         /\ \A m \in Mac : token[m] \in Nat /\ (todo[m] # {} => token[m] # 0)
<1>1. TypeOK
  BY DEF IInv
<1> QED BY <1>1, Rows DEF IInv, TypeOK, TokenInv, JobId

LEMMA PollJobsStep ==
  ASSUME IInv, NEW m \in Mac, PollJobs(m)
  PROVE  IInv'
<1> DEFINE pending == {j \in JobId : jobs[j].mac = m /\ jobs[j].status = "pending"}
<1>1. /\ token[m] # 0
      /\ jobs' = [j \in JobId |-> IF j \in pending THEN [jobs[j] EXCEPT !.status = "running"] ELSE jobs[j]]
      /\ todo' = [todo EXCEPT ![m] = pending]
      /\ UNCHANGED <<handlers, agents, store, portal, req, results, outcome>>
  BY DEF PollJobs, Authorised
<1>2. UNCHANGED <<request, begun, faults>>
  BY <1>1 DEF handlers
<1>3. \A j \in JobId : /\ jobs'[j] \in JobRec
                       /\ jobs'[j].req = jobs[j].req /\ jobs'[j].mac = jobs[j].mac
                       /\ jobs'[j].source = jobs[j].source /\ jobs'[j].token = jobs[j].token
                       /\ jobs'[j].status = IF j \in pending THEN "running" ELSE jobs[j].status
  <2>1. \A j \in JobId : jobs[j] \in JobRec
    BY JobFacts
  <2> HIDE DEF pending
  <2> QED BY <1>1, <2>1 DEF JobRec
<1>4. jobs' \in Seq(JobRec) /\ Len(jobs') = Len(jobs)
  <2>1. jobs' \in [1..Len(jobs) -> JobRec]
    BY <1>1, <1>3, JobFacts
  <2> QED BY <2>1, JobFacts, FunctionIsSeq
<1>5. /\ todo' \in [Mac -> SUBSET JobId]
      /\ \A i \in Mac : todo'[i] = IF i = m THEN pending ELSE todo[i]
  BY <1>1, JobFacts
<1>6. \A j \in pending : j \in JobId /\ jobs[j].mac = m /\ jobs[j].status = "pending" /\ outcome[j] = "none"
  BY DEF IInv, JobInv
<1> HIDE DEF pending
<1>7. \A i \in Mac : todo'[i] # {} => token[i] # 0
  BY <1>1, <1>5, JobFacts
<1>8. JobInv'
  <2>1. JobId' = JobId
    BY <1>4 DEF JobId
  <2>2. JobInv /\ results \subseteq JobId /\ \A i \in Mac : todo[i] \subseteq JobId
    BY JobFacts DEF IInv
  <2> QED BY <1>1, <1>3, <1>5, <1>6, <2>1, <2>2 DEF JobInv
<1> QED BY <1>1, <1>2, <1>3, <1>4, <1>5, <1>7, <1>8, JobFacts, JobStep

LEMMA RunJobStep ==
  ASSUME IInv, NEW m \in Mac, NEW j \in todo[m], RunJob(m, j)
  PROVE  IInv'
<1>1. /\ j \in JobId /\ jobs[j].mac = m /\ jobs[j].status = "running" /\ outcome[j] = "none"
      /\ token[m] # 0
  BY JobFacts DEF IInv, JobInv
<1>2. /\ todo' = [todo EXCEPT ![m] = todo[m] \ {j}] /\ results' = results \cup {j}
      /\ UNCHANGED <<request, begun, agents, store, portal, req, jobs>> /\ faults' \in 0..MaxFaults
  BY HandlersAssumption, JobFacts DEF RunJob, handlers, Fault
<1>3. PICK e \in {"ok", "refused", "broken"} :
          /\ outcome' = [outcome EXCEPT ![j] = e]
          /\ e = "refused" => jobs[j].source \in Package /\ ~Downloads(j)
  BY DEF RunJob
<1>4. e \in Outcomes /\ e # "none"
  BY <1>3 DEF Outcomes
<1>5. /\ outcome' \in Seq(Outcomes) /\ Len(outcome') = Len(jobs)
      /\ \A i \in JobId : outcome'[i] = IF i = j THEN e ELSE outcome[i]
  <2>1. j \in 1..Len(outcome)
    BY <1>1, JobFacts
  <2> QED BY <1>3, <1>4, <2>1, JobFacts, ExceptSeq
<1>6. e = "refused" => jobs[j].source \in withdrawn \/ jobs[j].token # token[jobs[j].mac]
  <2> SUFFICES ASSUME e = "refused", jobs[j].source \notin withdrawn
               PROVE  jobs[j].token # token[jobs[j].mac]
    OBVIOUS
  <2>1. jobs[j].source \in Range(packages) \cap files
    BY <1>1, <1>3 DEF IInv, StoreInv, Kept
  <2> QED BY <1>1, <1>3, <2>1 DEF Downloads
<1>7. /\ todo' \in [Mac -> SUBSET JobId] /\ results' \subseteq JobId
      /\ \A i \in Mac : todo'[i] = IF i = m THEN todo[i] \ {j} ELSE todo[i]
  BY <1>1, <1>2, JobFacts
<1>8. \A i \in Mac : todo'[i] # {} => token[i] # 0
  BY <1>7, JobFacts
<1>9. JobInv'
  <2>1. JobId' = JobId
    BY <1>2 DEF JobId
  <2>2. JobInv /\ results \subseteq JobId /\ \A i \in Mac : todo[i] \subseteq JobId
    BY JobFacts DEF IInv
  <2>3. \A i \in Mac : \A k \in todo'[i] : k \in todo[i] /\ k # j
    BY <1>1, <1>7, <2>2 DEF JobInv
  <2>4. \A k \in results' : k \in results \/ k = j
    BY <1>2
  <2> QED BY <1>1, <1>2, <1>4, <1>5, <2>1, <2>2, <2>3, <2>4 DEF JobInv
<1>10. \A i \in JobId : /\ outcome[i] # "none" => outcome'[i] = outcome[i]
                        /\ outcome'[i] = "refused" =>
                              \/ outcome[i] = "refused"
                              \/ jobs[i].source \in withdrawn \/ jobs[i].token # token[jobs[i].mac]
  BY <1>1, <1>5, <1>6
<1> QED BY <1>2, <1>5, <1>7, <1>8, <1>9, <1>10, JobFacts, JobStep

LEMMA PostResultStep ==
  ASSUME IInv, NEW j \in results, PostResult(j)
  PROVE  IInv'
<1> DEFINE status == IF outcome[j] = "ok" THEN "completed" ELSE "failed"
<1>1. j \in JobId /\ jobs[j].status = "running" /\ outcome[j] \in {"ok", "refused", "broken"}
  BY JobFacts DEF IInv, JobInv, Outcomes
<1>2. /\ jobs' = [jobs EXCEPT ![j] = [jobs[j] EXCEPT !.status = status]]
      /\ results' = results \ {j}
      /\ UNCHANGED <<handlers, agents, store, portal, req, todo, outcome>>
  BY DEF PostResult
<1>3. UNCHANGED <<request, begun, faults>>
  BY <1>2 DEF handlers
<1>4. status \in {"completed", "failed"}
  OBVIOUS
<1>5. [jobs[j] EXCEPT !.status = status] \in JobRec
  BY <1>1, <1>4, JobFacts DEF JobRec
<1>6. /\ jobs' \in Seq(JobRec) /\ Len(jobs') = Len(jobs)
      /\ \A i \in JobId : jobs'[i] = IF i = j THEN [jobs[j] EXCEPT !.status = status] ELSE jobs[i]
  <2>1. j \in 1..Len(jobs)
    BY <1>1, JobFacts
  <2> HIDE DEF status
  <2> QED BY <1>2, <1>5, <2>1, JobFacts, ExceptSeq
<1>7. \A i \in JobId : /\ jobs'[i].req = jobs[i].req /\ jobs'[i].mac = jobs[i].mac
                       /\ jobs'[i].source = jobs[i].source /\ jobs'[i].token = jobs[i].token
                       /\ jobs'[i].status = IF i = j THEN status ELSE jobs[i].status
  <2>1. \A i \in JobId : jobs[i] \in JobRec
    BY JobFacts
  <2> HIDE DEF status
  <2> QED BY <1>6, <2>1 DEF JobRec
<1>8. JobInv'
  <2>1. JobId' = JobId
    BY <1>6 DEF JobId
  <2>2. JobInv /\ results \subseteq JobId /\ \A i \in Mac : todo[i] \subseteq JobId
    BY JobFacts DEF IInv
  <2>3. \A i \in Mac : \A k \in todo[i] : k # j
    BY <1>1, <2>2 DEF JobInv
  <2> QED BY <1>1, <1>2, <1>7, <2>1, <2>2, <2>3 DEF JobInv
<1>9. \A i \in JobId : outcome'[i] = outcome[i]
  BY <1>2
<1>10. \A i \in JobId :
           outcome[i] = "refused" => jobs[i].source \in withdrawn \/ jobs[i].token # token[jobs[i].mac]
  BY DEF IInv, RefusalExplained
<1> HIDE DEF status
<1> QED BY <1>2, <1>3, <1>6, <1>7, <1>8, <1>9, <1>10, JobFacts, JobStep

\* An agent that dies, or a result that is lost, leaves its jobs as they are.
LEMMA ForgetStep ==
  ASSUME IInv, UNCHANGED <<request, begun, agents, store, portal, req, jobs, outcome>>,
         faults' \in 0..MaxFaults, results' \subseteq results, todo' \in [Mac -> SUBSET JobId],
         \A m \in Mac : todo'[m] \subseteq todo[m]
  PROVE  IInv'
<1>1. JobId' = JobId
  BY DEF JobId
<1>2. JobInv'
  BY <1>1 DEF IInv, JobInv
<1>3. (\A m \in Mac : todo'[m] # {} => token[m] # 0) /\ results' \subseteq JobId
  BY JobFacts
<1> QED BY <1>2, <1>3, JobFacts, JobStep

LEMMA AgentFailsStep ==
  ASSUME IInv, NEW m \in Mac, AgentFails(m)
  PROVE  IInv'
<1>1. /\ UNCHANGED <<request, begun, agents, store, portal, req, jobs, outcome, results>>
      /\ todo' = [todo EXCEPT ![m] = {}] /\ faults' \in 0..MaxFaults
  BY HandlersAssumption, JobFacts DEF AgentFails, Fault
<1>2. todo' \in [Mac -> SUBSET JobId] /\ \A i \in Mac : todo'[i] \subseteq todo[i]
  BY <1>1, JobFacts
<1> QED BY <1>1, <1>2, ForgetStep

LEMMA ResultLostStep ==
  ASSUME IInv, NEW j \in results, ResultLost(j)
  PROVE  IInv'
<1>1. /\ UNCHANGED <<request, begun, agents, store, portal, req, jobs, outcome, todo>>
      /\ results' \subseteq results /\ faults' \in 0..MaxFaults
  BY HandlersAssumption, JobFacts DEF ResultLost, Fault, handlers
<1>2. todo' \in [Mac -> SUBSET JobId] /\ \A i \in Mac : todo'[i] \subseteq todo[i]
  BY <1>1, JobFacts
<1> QED BY <1>1, <1>2, ForgetStep

--------------------------------------------------------------------------------
(* All steps together.                                                          *)

\* An arrangement of a set is a sequence over it.
LEMMA Arrangement ==
  ASSUME NEW S, IsFiniteSet(S), NEW s \in SetToSeqs(S)
  PROVE  s \in Seq(S)
<1>1. Cardinality(S) \in Nat
  BY FS_CardinalityType
<1>2. s \in [1..Cardinality(S) -> S]
  BY DEF SetToSeqs
<1> QED BY <1>1, <1>2, FunctionIsSeq

LEMMA InitIInv ==
  ASSUME Sorts, Init
  PROVE  IInv
<1>1. /\ request = [h \in Handler |-> Free] /\ begun = 0 /\ faults = 0
      /\ reported = {} /\ minted = 1 /\ scripts = {} /\ todo = [m \in Mac |-> {}] /\ results = {}
      /\ withdrawn = {} /\ crossed = {} /\ config = token /\ files = Range(packages)
      /\ req = [r \in Request |-> [status |-> "absent", mac |-> None, job |-> 0]]
  BY DEF Init, HandlersInit
<1>2. jobs = <<>> /\ outcome = <<>> /\ Len(jobs) = 0 /\ Len(outcome) = 0 /\ JobId = {}
  BY EmptySeq DEF Init, JobId
<1>3. checkins \in Seq(Mac)
  BY Arrangement DEF Init, Sorts
<1>4. packages \in Seq(Package)
  <2>1. packages = <<>> \/ packages \in SetToSeqs(Package)
    BY DEF Init
  <2>2. <<>> \in Seq(Package)
    BY EmptySeq
  <2> QED BY <2>1, <2>2, Arrangement DEF Sorts
<1>5. token \in [Mac -> {0, 1}]
  BY DEF Init
<1>6. files \subseteq Package
  <2>1. packages \in [1..Len(packages) -> Package]
    BY <1>4, LenProperties
  <2> QED BY <1>1, <2>1 DEF Range
<1>7. \A h \in Handler : request[h] = Free /\ request[h].op = "none"
  BY <1>1 DEF Free
<1>8. TypeOK
  <2>1. request \in [Handler -> Operation] /\ begun \in 0..MaxRequests /\ faults \in 0..MaxFaults
    BY <1>1, FreeType, HandlersAssumption
  <2>2. req \in [Request -> [status : {"absent", "pending", "installing", "completed", "failed", "rejected"},
                             mac : Mac \cup {None}, job : 0..Len(jobs)]]
    BY <1>1, <1>2
  <2>3. token \in [Mac -> Nat] /\ config \in [Mac -> Nat] /\ minted \in Nat
    BY <1>1, <1>5
  <2>4. todo \in [Mac -> SUBSET JobId]
    BY <1>1
  <2>5. /\ jobs \in Seq([req : Request, mac : Mac, source : Package \cup {"catalog", "url"}, token : Nat,
                         status : {"pending", "running", "completed", "failed"}])
        /\ outcome \in Seq({"none", "ok", "refused", "broken"})
    BY <1>2, EmptySeq
  <2> QED BY <1>1, <1>2, <1>3, <1>4, <1>6, <2>1, <2>2, <2>3, <2>4, <2>5 DEF TypeOK
<1>9. RequestInv /\ SettledTruly
  BY <1>1 DEF RequestInv, SettledTruly
<1>10. JobInv /\ RefusalExplained
  BY <1>1, <1>2 DEF JobInv, RefusalExplained
<1>11. StoreInv
  BY <1>1, <1>2 DEF StoreInv, Kept
<1>12. TokenInv
  BY <1>1, <1>2, <1>5 DEF TokenInv
<1>13. ScriptInv /\ AgentAuthorised
  BY <1>1 DEF ScriptInv, AgentAuthorised
<1>14. HeldInv /\ FreshInv
  BY <1>7 DEF HeldInv, FreshInv, Fits, Makes
<1> QED BY <1>8, <1>9, <1>10, <1>11, <1>12, <1>13, <1>14 DEF IInv

LEMMA Inductive ==
  ASSUME Sorts, IInv, [Next]_vars
  PROVE  IInv'
<1>1. CASE Portal
  BY <1>1, CreateRequestStep, LoadListingStep, CommitListingStep DEF Portal
<1>2. CASE Admin
  <2>1. PICK h \in Handler :
           \/ \E r \in Request : LoadApproval(h, r) \/ LoadRejection(h, r)
           \/ \E p \in Package : UploadFile(h, p) \/ DeleteFile(h, p)
           \/ \E m \in Mac : LoadBootstrap(h, m)
           \/ CommitApproval(h) \/ CommitRejection(h) \/ CommitUpload(h) \/ CommitDelete(h)
           \/ ReplyBootstrap(h) \/ CommitBootstrap(h) \/ RequestFails(h)
    BY <1>2 DEF Admin
  <2>2. CASE \E r \in Request : LoadApproval(h, r) \/ LoadRejection(h, r)
    BY <2>2, LoadApprovalStep, LoadRejectionStep
  <2>3. CASE \E p \in Package : UploadFile(h, p) \/ DeleteFile(h, p)
    BY <2>3, UploadFileStep, DeleteFileStep
  <2>4. CASE \E m \in Mac : LoadBootstrap(h, m)
    BY <2>4, LoadBootstrapStep
  <2>5. CASE CommitApproval(h) \/ CommitRejection(h)
    BY <2>5, CommitApprovalStep, CommitRejectionStep
  <2>6. CASE CommitUpload(h) \/ CommitDelete(h)
    BY <2>6, CommitUploadStep, CommitDeleteStep
  <2>7. CASE ReplyBootstrap(h) \/ CommitBootstrap(h) \/ RequestFails(h)
    BY <2>7, ReplyBootstrapStep, CommitBootstrapStep, FailStep
  <2> QED BY <2>1, <2>2, <2>3, <2>4, <2>5, <2>6, <2>7
<1>3. CASE Macs
  <2>1. CASE \E s \in scripts : RunScript(s)
    BY <2>1, RunScriptStep
  <2>2. CASE \E m \in Mac : CheckIn(m) \/ ReportUsers(m) \/ PollJobs(m) \/ AgentFails(m)
    BY <2>2, CheckInStep, ReportUsersStep, PollJobsStep, AgentFailsStep
  <2>3. CASE \E m \in Mac : \E j \in todo[m] : RunJob(m, j)
    BY <2>3, RunJobStep
  <2>4. CASE \E j \in results : PostResult(j) \/ ResultLost(j)
    BY <2>4, PostResultStep, ResultLostStep
  <2> QED BY <1>3, <2>1, <2>2, <2>3, <2>4 DEF Macs
<1>4. CASE UNCHANGED vars
  <2>1. UNCHANGED <<handlers, agents, store, queue, portal, req>> /\ UNCHANGED <<checkins, reported>>
    BY <1>4 DEF vars, portal
  <2> QED BY <2>1, PresenceStep DEF IInv, TypeOK
<1> QED BY <1>1, <1>2, <1>3, <1>4 DEF Next

\* Only what had read the old status takes a request out of its rejection.
LEMMA RejectionStep ==
  ASSUME IInv, [Next]_vars, NEW r \in Request, req[r].status = "rejected", Deciding(r) = {}
  PROVE  req'[r].status = "rejected"
<1>0. req \in [Request -> ReqRec]
  BY DEF IInv, TypeOK, ReqRec
<1>1. CASE UNCHANGED req
  BY <1>1
<1>2. CASE \E k \in Request : CreateRequest(k)
  <2>1. PICK k \in Request : CreateRequest(k)
    BY <1>2
  <2>2. PICK m : req' = [req EXCEPT ![k] = [status |-> "pending", mac |-> m, job |-> 0]]
    BY <2>1 DEF CreateRequest
  <2>3. k # r
    BY <2>1 DEF CreateRequest
  <2> QED BY <1>0, <2>2, <2>3
<1>3. CASE \E h \in Handler : CommitListing(h)
  <2>1. PICK h \in Handler : CommitListing(h)
    BY <1>3
  <2>2. request[h].op = "list"
    BY <2>1 DEF CommitListing, Finish
  <2>3. r \notin DOMAIN request[h].settled
    BY <2>2 DEF Deciding
  <2> QED BY <1>0, <2>1, <2>3 DEF CommitListing
<1>4. CASE \E h \in Handler : CommitApproval(h)
  <2>1. PICK h \in Handler : CommitApproval(h)
    BY <1>4
  <2>2. request[h].op = "approve" /\ request[h].saw = "pending"
    BY <2>1, FinishType, OperationFacts DEF CommitApproval, IInv
  <2>3. request[h].req # r
    BY <2>2 DEF Deciding
  <2> QED BY <1>0, <2>1, <2>3 DEF CommitApproval
<1>5. CASE \E h \in Handler : CommitRejection(h)
  <2>1. PICK h \in Handler : req' = [req EXCEPT ![request[h].req].status = "rejected"]
    BY <1>5 DEF CommitRejection
  <2>2. PICK k : k = request[h].req
    OBVIOUS
  <2>3. req' = [req EXCEPT ![k] = [req[k] EXCEPT !.status = "rejected"]]
    BY <2>1, <2>2
  <2>4. [req[r] EXCEPT !.status = "rejected"].status = "rejected"
    BY <1>0 DEF ReqRec
  <2> QED BY <1>0, <2>3, <2>4
<1>6. CASE \E h \in Handler : \/ LoadListing(h)
                              \/ \E k \in Request : LoadApproval(h, k) \/ LoadRejection(h, k)
                              \/ \E p \in Package : UploadFile(h, p) \/ DeleteFile(h, p)
                              \/ \E m \in Mac : LoadBootstrap(h, m)
                              \/ CommitUpload(h) \/ CommitDelete(h) \/ RequestFails(h)
                              \/ ReplyBootstrap(h) \/ CommitBootstrap(h)
  BY <1>1, <1>6 DEF LoadListing, LoadApproval, LoadRejection, UploadFile, DeleteFile, LoadBootstrap,
                    CommitUpload, CommitDelete, ReplyBootstrap, CommitBootstrap, RequestFails
<1>7. CASE Macs
  BY <1>1, <1>7 DEF Macs, RunScript, CheckIn, ReportUsers, PollJobs, AgentFails, RunJob, PostResult, ResultLost
<1>8. CASE UNCHANGED vars
  BY <1>1, <1>8 DEF vars
<1> QED BY <1>2, <1>3, <1>4, <1>5, <1>6, <1>7, <1>8 DEF Next, Portal, Admin

\* The invariant holds in every reachable state.
THEOREM Invariance ==
  ASSUME Sorts
  PROVE  Spec => []IInv
<1>1. Init => IInv
  BY InitIInv
<1>2. IInv /\ [Next]_vars => IInv'
  BY Inductive
<1> QED BY <1>1, <1>2, PTL DEF Spec

\* Every variable has its type, the rows of the portal and of the job queue among them.
THEOREM TypeCorrect ==
  ASSUME Sorts
  PROVE  Spec => []TypeOK
<1>1. IInv => TypeOK
  BY DEF IInv
<1> QED BY <1>1, Invariance, PTL

\* A request shown as completed or failed has a job that ended so (list_software_requests, portal.py).
THEOREM ShownTruly ==
  ASSUME Sorts
  PROVE  Spec => []SettledTruly
<1>1. IInv => SettledTruly
  BY DEF IInv
<1> QED BY <1>1, Invariance, PTL

\* A refused download has a deleted package or an outdated token for a reason.
THEOREM RefusalsExplained ==
  ASSUME Sorts
  PROVE  Spec => []RefusalExplained
<1>1. IInv => RefusalExplained
  BY DEF IInv
<1> QED BY <1>1, Invariance, PTL

\* An agent keeps its access unless two first bootstraps of its Mac overlapped, or one
\* failed after its script had left.
THEOREM AgentsAuthorised ==
  ASSUME Sorts
  PROVE  Spec => []AgentAuthorised
<1>1. IInv => AgentAuthorised
  BY DEF IInv
<1> QED BY <1>1, Invariance, PTL

\* A rejection is final but for what had read the request before.
THEOREM RejectionsFinal ==
  ASSUME Sorts
  PROVE  Spec => RejectionFinal
<1> DEFINE Final == \A r \in Request :
                        req[r].status = "rejected" /\ Deciding(r) = {} => req'[r].status = "rejected"
<1>1. IInv /\ [Next]_vars => [Final]_vars
  BY RejectionStep
<1> QED BY <1>1, Invariance, PTL DEF Spec, RejectionFinal
================================================================================
