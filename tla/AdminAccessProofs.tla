--------------------------- MODULE AdminAccessProofs ---------------------------
(***************************************************************************)
(* Proofs about AdminAccess, for any requests, accounts, handlers, loops   *)
(* and polls, any batch limit, any number of faults, and both orders of    *)
(* commit and reply.                                                       *)
(***************************************************************************)
EXTENDS AdminAccess, SequenceTheorems, FiniteSetTheorems, TLAPS

--------------------------------------------------------------------------------
(* The inductive invariant, in parts.                                           *)

\* Requests exist before anything is decided about them or queued for them, and only
\* finitely many do.
Created == {r \in Request : req[r] # "absent"}
CreatedInv ==
    /\ IsFiniteSet(Created)
    /\ \A h \in Handler : decision[h] # Free => decision[h].req \in Created
    /\ \A w \in Worker : expired[w] \subseteq Created
    /\ \A j \in JobId : jobs[j].req \in Created

\* The status of a request says which of its jobs was queued last.
RequestInv ==
    /\ \A j \in JobId : jobs[j].kind = "add" =>
           req[jobs[j].req] \in {"approved", "denied", "revoked"}
    /\ \A r \in Request : req[r] = "revoked" =>
           \E k \in JobId : /\ jobs[k].kind = "remove" /\ jobs[k].req = r
                            /\ \A j \in JobId : jobs[j].kind = "add" /\ jobs[j].req = r => j < k
    /\ \A r \in Request : req[r] = "approved" =>
           \E j \in JobId : /\ jobs[j].kind = "add" /\ jobs[j].req = r
                            /\ \A k \in JobId : jobs[k].kind = "remove" /\ jobs[k].req = r => k < j

\* A poll locks pending jobs no other poll holds, and the agent that waits for a
\* response has nothing left to run.
PollInv ==
    /\ \A p \in Poll : phase[p] \in {"free", "received"} => batch[p] = {}
    /\ \A p, q \in Poll : batch[p] \cap batch[q] # {} => p = q
    /\ \A p \in Poll, j \in JobId : j \in batch[p] =>
           /\ phase[p] \in Holding => jobs[j].status = "pending"
           /\ phase[p] = "committed" => jobs[j].status # "pending"
    /\ conn # None => todo = {}
    /\ \A p \in Poll : phase[p] # IF CommitBeforeReply THEN "replied" ELSE "committed"

\* A committed or delivered hand-out is a run, a job in the agent's hands or a response
\* under way, and each of those was paid for by a commit or a rollback.
Undelivered(j) == \E p \in Poll : phase[p] = "committed" /\ j \in batch[p]
Replied(j)     == \E p \in Poll : phase[p] = "replied" /\ j \in batch[p]
Count(b)       == IF b THEN 1 ELSE 0
DispatchInv ==
    \A j \in JobId :
        hist[j].ran + Count(j \in todo) + Count(Undelivered(j))
            <= hist[j].undone + Count(jobs[j].status # "pending" \/ Replied(j))

\* A result under way, like a settled status, is true, and unless a hand-out was rolled
\* back it is the only one and not stored yet.
Settled(j) == jobs[j].status \in {"completed", "failed"}
ResultInv ==
    /\ \A m \in results : hist[m.job].ran > 0 /\ (m.ok => hist[m.job].ok)
    /\ \A j \in JobId : hist[j].ok => hist[j].ran > 0
    /\ \A m \in results : hist[m.job].undone = 0 =>
           /\ ~Settled(m.job)
           /\ \A n \in results : n.job = m.job => n = m

\* Whoever is admin was elevated by a job that nothing has undone since, unless the jobs
\* of the account ran out of order.
AdminInv ==
    \A a \in admin :
        \/ Swapped(a)
        \/ \E j \in JobId :
               /\ Of(j) = a /\ jobs[j].kind = "add" /\ hist[j].ok
               /\ \A k \in JobId : k > j /\ Of(k) = a /\ jobs[k].kind = "remove" => ~hist[k].ok

IInv == /\ TypeOK /\ CreatedInv /\ RequestInv /\ PollInv
        /\ DispatchInv /\ ResultInv /\ ResultIsTrue /\ AdminInv /\ GrantInEffect

--------------------------------------------------------------------------------
(* The operators the model is built from.                                       *)

Status  == {"pending", "running", "completed", "failed"}
JobRec  == [kind : {"add", "remove"}, req : Request, status : Status]
HistRec == [ran : Nat, undone : Nat, ok : BOOLEAN, swapped : BOOLEAN]

\* The rows and their histories are functions over the same indices.
LEMMA Rows ==
  ASSUME TypeOK
  PROVE  /\ Len(jobs) \in Nat /\ Len(hist) = Len(jobs)
         /\ jobs \in [JobId -> JobRec] /\ hist \in [JobId -> HistRec]
         /\ JobId \subseteq Nat /\ DOMAIN jobs = JobId /\ DOMAIN hist = JobId
         /\ jobs \in Seq(JobRec) /\ hist \in Seq(HistRec)
<1>1. jobs \in Seq(JobRec) /\ hist \in Seq(HistRec) /\ Len(hist) = Len(jobs)
  BY DEF TypeOK, JobRec, HistRec, Status
<1> QED BY <1>1, LenProperties DEF JobId

\* A function over 1..n is a sequence of length n.
LEMMA FunctionIsSeq ==
  ASSUME NEW S, NEW n \in Nat, NEW f \in [1..n -> S]
  PROVE  f \in Seq(S) /\ Len(f) = n
<1>1. f \in Seq(S)
  BY SeqDef
<1>2. Len(f) \in Nat /\ DOMAIN f = 1..Len(f) /\ DOMAIN f = 1..n
  BY <1>1, LenProperties
<1>3. 1..Len(f) = 1..n
  BY <1>2
<1>4. Len(f) = n
  <2> DEFINE l == Len(f)
  <2>1. l \in Nat /\ 1..l = 1..n
    BY <1>2, <1>3
  <2> HIDE DEF l
  <2>2. l <= n
    <3>1. CASE l = 0 BY <3>1
    <3>2. CASE l # 0
      <4>1. l \in 1..l BY <2>1, <3>2
      <4> QED BY <2>1, <4>1
    <3> QED BY <3>1, <3>2
  <2>3. n <= l
    <3>1. CASE n = 0 BY <2>1, <3>1
    <3>2. CASE n # 0
      <4>1. n \in 1..n BY <3>2
      <4> QED BY <2>1, <4>1
    <3> QED BY <3>1, <3>2
  <2>4. l = n BY <2>1, <2>2, <2>3
  <2> QED BY <2>4 DEF l
<1> QED BY <1>1, <1>4

\* Inserting jobs changes none that is there, and adds them untouched.
LEMMA InsertFacts ==
  ASSUME TypeOK, NEW n \in Nat, NEW new \in [1..n -> JobRec], Insert(new)
  PROVE  /\ jobs' \in Seq(JobRec) /\ hist' \in Seq(HistRec)
         /\ Len(jobs') = Len(jobs) + n /\ Len(hist') = Len(jobs')
         /\ JobId' = 1..(Len(jobs) + n) /\ JobId \subseteq JobId'
         /\ \A j \in JobId : jobs'[j] = jobs[j] /\ hist'[j] = hist[j]
         /\ \A i \in 1..n : jobs'[Len(jobs) + i] = new[i]
         /\ \A j \in JobId' : j \notin JobId => jobs'[j] = new[j - Len(jobs)] /\ hist'[j] = Untouched
<1> DEFINE fresh == [i \in DOMAIN new |-> Untouched]
           N == Len(jobs)
<1>1. new \in Seq(JobRec) /\ Len(new) = n /\ DOMAIN new = 1..n
  BY FunctionIsSeq
<1>2. fresh \in [1..n -> HistRec]
  BY <1>1 DEF Untouched, HistRec
<1>3. fresh \in Seq(HistRec) /\ Len(fresh) = n /\ \A i \in 1..n : fresh[i] = Untouched
  BY <1>1, <1>2, FunctionIsSeq
<1>4. /\ N \in Nat /\ Len(hist) = N
      /\ jobs \in Seq(JobRec) /\ hist \in Seq(HistRec)
  BY Rows
<1>5. jobs' = jobs \o new /\ hist' = hist \o fresh
  BY DEF Insert
<1> HIDE DEF fresh
<1>6. /\ jobs' \in Seq(JobRec) /\ Len(jobs') = N + n
      /\ \A i \in 1..N + n : jobs'[i] = IF i <= N THEN jobs[i] ELSE new[i - N]
  <2>1. /\ jobs \o new \in Seq(JobRec) /\ Len(jobs \o new) = Len(jobs) + Len(new)
        /\ \A i \in 1..Len(jobs) + Len(new) :
               (jobs \o new)[i] = IF i <= Len(jobs) THEN jobs[i] ELSE new[i - Len(jobs)]
    BY <1>1, <1>4, ConcatProperties
  <2> QED BY <1>1, <1>4, <1>5, <2>1
<1>7. /\ hist' \in Seq(HistRec) /\ Len(hist') = N + n
      /\ \A i \in 1..N + n : hist'[i] = IF i <= N THEN hist[i] ELSE fresh[i - N]
  <2>1. /\ hist \o fresh \in Seq(HistRec) /\ Len(hist \o fresh) = Len(hist) + Len(fresh)
        /\ \A i \in 1..Len(hist) + Len(fresh) :
               (hist \o fresh)[i] = IF i <= Len(hist) THEN hist[i] ELSE fresh[i - Len(hist)]
    BY <1>3, <1>4, ConcatProperties
  <2> QED BY <1>3, <1>4, <1>5, <2>1
<1>8. JobId = 1..N /\ JobId' = 1..(N + n)
  BY <1>6 DEF JobId
<1> HIDE DEF N
<1>9. \A j \in 1..N : j \in 1..N + n /\ j <= N
  BY <1>4
<1>10. \A i \in 1..n : N + i \in 1..N + n /\ ~(N + i <= N) /\ (N + i) - N = i
  BY <1>4
<1>11. \A j \in 1..N + n : j \notin 1..N => ~(j <= N) /\ j - N \in 1..n
  BY <1>4
<1>12. \A j \in JobId : jobs'[j] = jobs[j] /\ hist'[j] = hist[j]
  BY <1>6, <1>7, <1>8, <1>9
<1>13. \A i \in 1..n : jobs'[N + i] = new[i]
  BY <1>6, <1>10
<1>14. \A j \in JobId' : j \notin JobId => jobs'[j] = new[j - N] /\ hist'[j] = Untouched
  BY <1>3, <1>6, <1>7, <1>8, <1>11
<1> QED BY <1>6, <1>7, <1>8, <1>9, <1>12, <1>13, <1>14 DEF N

\* An UPDATE of some jobs' status changes nothing else.
LEMMA SetStatusFacts ==
  ASSUME TypeOK, NEW js, NEW s \in Status, SetStatus(js, s)
  PROVE  /\ jobs' \in Seq(JobRec) /\ Len(jobs') = Len(jobs) /\ JobId' = JobId
         /\ \A j \in JobId : /\ jobs'[j].kind = jobs[j].kind /\ jobs'[j].req = jobs[j].req
                             /\ jobs'[j].status = IF j \in js THEN s ELSE jobs[j].status
<1>1. Len(jobs) \in Nat /\ jobs \in [1..Len(jobs) -> JobRec] /\ JobId = 1..Len(jobs)
  BY Rows DEF JobId
<1>2. jobs' = [j \in JobId |-> IF j \in js THEN [jobs[j] EXCEPT !.status = s] ELSE jobs[j]]
  BY DEF SetStatus
<1>3. jobs' \in [1..Len(jobs) -> JobRec]
  BY <1>1, <1>2 DEF JobRec
<1>4. jobs' \in Seq(JobRec) /\ Len(jobs') = Len(jobs)
  BY <1>1, <1>3, FunctionIsSeq
<1>5. \A j \in JobId : jobs[j] \in JobRec
  BY <1>1
<1>6. \A j \in JobId : /\ jobs'[j].kind = jobs[j].kind /\ jobs'[j].req = jobs[j].req
                       /\ jobs'[j].status = IF j \in js THEN s ELSE jobs[j].status
  BY <1>2, <1>5 DEF JobRec
<1> QED BY <1>4, <1>6 DEF JobId

\* The auto-revoke loop inserts a job for each grant it revokes, in some order.
LEMMA OrderFacts ==
  ASSUME NEW S, IsFiniteSet(S), NEW order \in SetToSeqs(S)
  PROVE  /\ Cardinality(S) \in Nat
         /\ order \in [1..Cardinality(S) -> S]
         /\ \A x \in S : \E i \in 1..Cardinality(S) : order[i] = x
<1> DEFINE D == 1..Cardinality(S)
<1>1. Cardinality(S) \in Nat
  BY FS_CardinalityType
<1>2. order \in [D -> S] /\ \A i, j \in D : i # j => order[i] # order[j]
  BY DEF SetToSeqs
<1>3. order \in Injection(D, S)
  BY <1>2 DEF Injection, IsInjective
<1>4. Cardinality(D) = Cardinality(S)
  BY <1>1, FS_Interval
<1>5. order \in Surjection(D, S)
  BY <1>3, <1>4, FS_Injection
<1> QED BY <1>1, <1>2, <1>5 DEF Surjection

\* What an insertion of jobs of one kind for the requests in R leaves behind.
Inserted(kind, R) ==
    /\ jobs' \in Seq(JobRec) /\ hist' \in Seq(HistRec) /\ Len(hist') = Len(jobs')
    /\ JobId \subseteq JobId' /\ JobId' \subseteq Nat
    /\ \A j \in JobId : jobs'[j] = jobs[j] /\ hist'[j] = hist[j]
    /\ \A j \in JobId' \ JobId :
           /\ jobs'[j].kind = kind /\ jobs'[j].req \in R /\ jobs'[j].status = "pending"
           /\ hist'[j] = Untouched
           /\ \A k \in JobId : k < j
    /\ \A r \in R : \E j \in JobId' \ JobId : jobs'[j].req = r

LEMMA InsertMany ==
  ASSUME TypeOK, NEW kind \in {"add", "remove"}, NEW R \in SUBSET Request,
         NEW n \in Nat, NEW order \in [1..n -> R],
         \A r \in R : \E i \in 1..n : order[i] = r,
         Insert([i \in DOMAIN order |-> NewJob(kind, order[i])])
  PROVE  Inserted(kind, R)
<1> DEFINE new == [i \in DOMAIN order |-> NewJob(kind, order[i])]
           N == Len(jobs)
<1>1. DOMAIN order = 1..n /\ \A i \in 1..n : order[i] \in R
  OBVIOUS
<1>2. new \in [1..n -> JobRec] /\ \A i \in 1..n : new[i] = NewJob(kind, order[i])
  BY <1>1 DEF NewJob, JobRec, Status
<1>3. Insert(new)
  OBVIOUS
<1>4. N \in Nat /\ JobId = 1..N
  BY Rows DEF JobId
<1> HIDE DEF new
<1>5. /\ jobs' \in Seq(JobRec) /\ hist' \in Seq(HistRec) /\ Len(hist') = Len(jobs')
      /\ JobId' = 1..(N + n) /\ JobId \subseteq JobId'
      /\ \A j \in JobId : jobs'[j] = jobs[j] /\ hist'[j] = hist[j]
      /\ \A i \in 1..n : jobs'[N + i] = new[i]
      /\ \A j \in JobId' : j \notin JobId => jobs'[j] = new[j - N] /\ hist'[j] = Untouched
  BY <1>2, <1>3, InsertFacts
<1> HIDE DEF N
<1>6. \A j \in JobId' \ JobId : j - N \in 1..n /\ \A k \in JobId : k < j
  BY <1>4, <1>5
<1>7. \A i \in 1..n : N + i \in JobId' \ JobId
  BY <1>4, <1>5
<1>8. \A j \in JobId' \ JobId :
           /\ jobs'[j].kind = kind /\ jobs'[j].req \in R /\ jobs'[j].status = "pending"
  BY <1>1, <1>2, <1>5, <1>6 DEF NewJob
<1>9. \A r \in R : \E j \in JobId' \ JobId : jobs'[j].req = r
  <2> SUFFICES ASSUME NEW r \in R
               PROVE  \E j \in JobId' \ JobId : jobs'[j].req = r
    OBVIOUS
  <2>1. PICK i \in 1..n : order[i] = r
    OBVIOUS
  <2>2. jobs'[N + i].req = r
    <3>1. jobs'[N + i] = new[i]
      BY <1>5
    <3>2. new[i] = NewJob(kind, r)
      BY <1>2, <2>1
    <3> QED BY <3>1, <3>2 DEF NewJob
  <2>3. N + i \in JobId' \ JobId
    BY <1>7
  <2> QED BY <2>2, <2>3
<1>10. JobId' \subseteq Nat
  BY <1>4, <1>5
<1> QED BY <1>5, <1>6, <1>8, <1>9, <1>10 DEF Inserted

LEMMA InsertOne ==
  ASSUME TypeOK, NEW kind \in {"add", "remove"}, NEW r \in Request,
         Insert(<<NewJob(kind, r)>>)
  PROVE  Inserted(kind, {r})
<1> DEFINE order == [i \in 1..1 |-> r]
<1>1. order \in [1..1 -> {r}] /\ \A x \in {r} : \E i \in 1..1 : order[i] = x
  OBVIOUS
<1>2. <<NewJob(kind, r)>> = [i \in DOMAIN order |-> NewJob(kind, order[i])]
  OBVIOUS
<1>3. Insert([i \in DOMAIN order |-> NewJob(kind, order[i])])
  BY <1>2
<1>4. {r} \in SUBSET Request
  OBVIOUS
<1> HIDE DEF order
<1> QED BY <1>1, <1>3, <1>4, InsertMany

\* The three actions that insert jobs.
LEMMA ApproveInserts ==
  ASSUME TypeOK, NEW h \in Handler, Approve(h)
  PROVE  decision[h].req \in Request /\ Inserted("add", {decision[h].req})
<1>1. decision[h].req \in Request
  BY DEF Approve, Decide, TypeOK, Free
<1> QED BY <1>1, InsertOne DEF Approve

LEMMA RevokeInserts ==
  ASSUME TypeOK, NEW h \in Handler, Revoke(h)
  PROVE  decision[h].req \in Request /\ Inserted("remove", {decision[h].req})
<1>1. decision[h].req \in Request
  BY DEF Revoke, Decide, TypeOK, Free
<1> QED BY <1>1, InsertOne DEF Revoke

LEMMA RevokeExpiredInserts ==
  ASSUME TypeOK, CreatedInv, NEW w \in Worker, RevokeExpired(w)
  PROVE  Inserted("remove", expired[w])
<1> DEFINE S == expired[w]
           n == Cardinality(S)
<1>1. S \in SUBSET Request
  BY DEF TypeOK
<1>2. IsFiniteSet(S)
  BY FS_Subset DEF CreatedInv
<1>3. PICK order \in SetToSeqs(S) : Insert([i \in DOMAIN order |-> NewJob("remove", order[i])])
  BY DEF RevokeExpired
<1> HIDE DEF S
<1>4. n \in Nat /\ order \in [1..n -> S] /\ \A x \in S : \E i \in 1..n : order[i] = x
  BY <1>2, OrderFacts
<1> HIDE DEF n
<1>5. Inserted("remove", S)
  BY <1>1, <1>3, <1>4, InsertMany
<1> QED BY <1>5 DEF S

\* A poll that dies after its reply leaves a dispatch undone, and nothing else.
LEMMA CrashFacts ==
  ASSUME TypeOK, NEW p \in Poll, PollCrash(p)
  PROVE  /\ hist' \in Seq(HistRec) /\ Len(hist') = Len(hist)
         /\ \A j \in JobId :
               /\ hist'[j].ran = hist[j].ran /\ hist'[j].ok = hist[j].ok
               /\ hist'[j].swapped = hist[j].swapped
               /\ hist'[j].undone = IF phase[p] = "replied" /\ j \in batch[p]
                                    THEN hist[j].undone + 1 ELSE hist[j].undone
<1>1. Len(jobs) \in Nat /\ hist \in [1..Len(jobs) -> HistRec] /\ JobId = 1..Len(jobs)
      /\ Len(hist) = Len(jobs)
  BY Rows DEF JobId
<1>2. hist' = [j \in JobId |-> IF phase[p] = "replied" /\ j \in batch[p]
                               THEN [hist[j] EXCEPT !.undone = @ + 1] ELSE hist[j]]
  BY DEF PollCrash
<1>3. \A j \in JobId : hist[j] \in HistRec
  BY <1>1
<1>4. hist' \in [1..Len(jobs) -> HistRec]
  BY <1>1, <1>2, <1>3 DEF HistRec
<1>5. hist' \in Seq(HistRec) /\ Len(hist') = Len(jobs)
  BY <1>1, <1>4, FunctionIsSeq
<1> QED BY <1>1, <1>2, <1>3, <1>5 DEF HistRec

\* A run is counted once.
LEMMA RunFacts ==
  ASSUME TypeOK, NEW j \in JobId, NEW ok \in BOOLEAN, RunJob(j, ok)
  PROVE  /\ hist' \in Seq(HistRec) /\ Len(hist') = Len(hist)
         /\ \A k \in JobId : k # j => hist'[k] = hist[k]
         /\ hist'[j].ran = hist[j].ran + 1 /\ hist'[j].undone = hist[j].undone
         /\ hist'[j].ok <=> hist[j].ok \/ ok
         /\ hist'[j].swapped <=> hist[j].swapped \/ OutOfOrder(j)
<1> DEFINE o == hist[j].ok \/ ok
           s == hist[j].swapped \/ OutOfOrder(j)
           e == [ran |-> hist[j].ran + 1, undone |-> hist[j].undone, ok |-> o, swapped |-> s]
<1>1. hist \in Seq(HistRec) /\ j \in 1..Len(hist) /\ hist[j] \in HistRec /\ JobId = 1..Len(hist)
  BY Rows DEF JobId
<1>2. hist' = [hist EXCEPT ![j] = e]
  BY DEF RunJob
<1>3. o \in BOOLEAN /\ s \in BOOLEAN
  OBVIOUS
<1> HIDE DEF o, s
<1>4. /\ e \in HistRec
      /\ e.ran = hist[j].ran + 1 /\ e.undone = hist[j].undone /\ e.ok = o /\ e.swapped = s
  BY <1>1, <1>3 DEF HistRec
<1> HIDE DEF e
<1>5. /\ hist' \in Seq(HistRec) /\ Len(hist') = Len(hist)
      /\ \A k \in JobId : hist'[k] = IF k = j THEN e ELSE hist[k]
  BY <1>1, <1>2, <1>4, ExceptSeq
<1>6. /\ hist'[j].ok = o /\ hist'[j].swapped = s
      /\ hist'[j].ran = hist[j].ran + 1 /\ hist'[j].undone = hist[j].undone
  BY <1>4, <1>5
<1> QED BY <1>5, <1>6 DEF o, s

--------------------------------------------------------------------------------
(* Type correctness.                                                            *)

\* The rows keep their type when jobs are inserted, and so does what refers to them.
LEMMA TypedInsert ==
  ASSUME TypeOK, NEW kind \in {"add", "remove"}, NEW R \in SUBSET Request, Inserted(kind, R),
         req' \in [Request -> {"absent", "pending", "approved", "denied", "revoked"}],
         revokeAt' \in [Request -> {"unset", "ahead", "passed"}],
         decision' \in [Handler -> {Free} \cup [op : {"approve", "deny", "revoke"}, req : Request]],
         expired' \in [Worker -> SUBSET Request],
         UNCHANGED <<polls, mac, results, known, faults>>
  PROVE  TypeOK'
<1>1. /\ jobs' \in Seq(JobRec) /\ hist' \in Seq(HistRec) /\ Len(hist') = Len(jobs')
      /\ JobId \subseteq JobId'
  BY DEF Inserted
<1>2. batch' \in [Poll -> SUBSET JobId'] /\ todo' \subseteq JobId'
      /\ results' \subseteq [job : JobId', ok : BOOLEAN]
  BY <1>1 DEF TypeOK, polls, mac
<1> QED BY <1>1, <1>2 DEF TypeOK, JobRec, HistRec, Status, polls, mac

\* Every step preserves the types.
LEMMA TypeStep ==
  ASSUME TypeOK, CreatedInv, [Next]_vars
  PROVE  TypeOK'
<1> USE DEF requests, polls, mac
<1>1. ASSUME NEW r \in Request, CreateRequest(r) \/ Expire(r)
      PROVE  TypeOK'
  <2>1. CASE CreateRequest(r)
    BY <2>1 DEF CreateRequest, TypeOK, JobId
  <2>2. CASE Expire(r)
    BY <2>2 DEF Expire, TypeOK, JobId
  <2> QED BY <1>1, <2>1, <2>2
<1>2. ASSUME NEW h \in Handler, NEW r \in Request, NEW op \in {"approve", "deny", "revoke"}, Load(h, op, r)
      PROVE  TypeOK'
  BY <1>2 DEF Load, TypeOK, JobId
<1>3. ASSUME NEW h \in Handler, Approve(h)
      PROVE  TypeOK'
  <2>1. decision[h].req \in Request /\ Inserted("add", {decision[h].req})
    BY <1>3, ApproveInserts
  <2>2. /\ req' \in [Request -> {"absent", "pending", "approved", "denied", "revoked"}]
        /\ revokeAt' \in [Request -> {"unset", "ahead", "passed"}]
        /\ decision' \in [Handler -> {Free} \cup [op : {"approve", "deny", "revoke"}, req : Request]]
        /\ expired' \in [Worker -> SUBSET Request]
    BY <1>3, <2>1 DEF Approve, Decide, TypeOK
  <2> QED BY <1>3, <2>1, <2>2, TypedInsert DEF Approve, Decide
<1>4. ASSUME NEW h \in Handler, Deny(h)
      PROVE  TypeOK'
  BY <1>4 DEF Deny, Decide, TypeOK, JobId, Free
<1>5. ASSUME NEW h \in Handler, Revoke(h)
      PROVE  TypeOK'
  <2>1. decision[h].req \in Request /\ Inserted("remove", {decision[h].req})
    BY <1>5, RevokeInserts
  <2>2. /\ req' \in [Request -> {"absent", "pending", "approved", "denied", "revoked"}]
        /\ revokeAt' \in [Request -> {"unset", "ahead", "passed"}]
        /\ decision' \in [Handler -> {Free} \cup [op : {"approve", "deny", "revoke"}, req : Request]]
        /\ expired' \in [Worker -> SUBSET Request]
    BY <1>5, <2>1 DEF Revoke, Decide, TypeOK
  <2> QED BY <1>5, <2>1, <2>2, TypedInsert DEF Revoke, Decide
<1>6. ASSUME NEW w \in Worker, FindExpired(w) \/ RevokeFails(w)
      PROVE  TypeOK'
  <2>1. CASE FindExpired(w)
    BY <2>1 DEF FindExpired, Due, TypeOK, JobId
  <2>2. CASE RevokeFails(w)
    BY <2>2, PollAssumption DEF RevokeFails, Fault, TypeOK, JobId
  <2> QED BY <1>6, <2>1, <2>2
<1>7. ASSUME NEW w \in Worker, RevokeExpired(w)
      PROVE  TypeOK'
  <2>1. Inserted("remove", expired[w]) /\ expired[w] \in SUBSET Request
    BY <1>7, RevokeExpiredInserts DEF TypeOK
  <2>2. /\ req' \in [Request -> {"absent", "pending", "approved", "denied", "revoked"}]
        /\ revokeAt' \in [Request -> {"unset", "ahead", "passed"}]
        /\ decision' \in [Handler -> {Free} \cup [op : {"approve", "deny", "revoke"}, req : Request]]
        /\ expired' \in [Worker -> SUBSET Request]
    BY <1>7, <2>1 DEF RevokeExpired, TypeOK
  <2> QED BY <1>7, <2>1, <2>2, TypedInsert DEF RevokeExpired
<1>8. ASSUME NEW p \in Poll, SelectJobs(p) \/ ReplyPoll(p) \/ AgentPoll(p)
      PROVE  TypeOK'
  <2>1. CASE SelectJobs(p)
    BY <2>1 DEF SelectJobs, PendingJobs, TypeOK, JobId
  <2>2. CASE ReplyPoll(p)
    <3>1. phase' \in [Poll -> {"free", "received", "open", "committed", "replied"}]
      BY <2>2 DEF ReplyPoll, TypeOK
    <3>2. batch' \in [Poll -> SUBSET JobId] /\ batch[p] \subseteq JobId
      BY <2>2 DEF ReplyPoll, TypeOK
    <3>3. conn' \in Poll \cup {None} /\ todo' \subseteq JobId
      BY <2>2, <3>2 DEF ReplyPoll, TypeOK
    <3> QED BY <2>2, <3>1, <3>2, <3>3 DEF ReplyPoll, TypeOK, JobId
  <2>3. CASE AgentPoll(p)
    BY <2>3 DEF AgentPoll, TypeOK, JobId
  <2> QED BY <1>8, <2>1, <2>2, <2>3
<1>9. ASSUME NEW p \in Poll, CommitPoll(p)
      PROVE  TypeOK'
  <2>1. jobs' \in Seq(JobRec) /\ Len(jobs') = Len(jobs) /\ JobId' = JobId
    BY <1>9, SetStatusFacts DEF CommitPoll, Status
  <2> QED BY <1>9, <2>1 DEF CommitPoll, TypeOK, JobRec, Status
<1>10. ASSUME NEW p \in Poll, PollCrash(p)
       PROVE  TypeOK'
  <2>1. hist' \in Seq(HistRec) /\ Len(hist') = Len(hist)
    BY <1>10, CrashFacts
  <2>2. faults' \in 0..MaxFaults
    BY <1>10, PollAssumption DEF PollCrash, Fault, TypeOK
  <2> QED BY <1>10, <2>1, <2>2 DEF PollCrash, TypeOK, JobId, HistRec
<1>11. ASSUME NEW m \in results, StoreResult(m)
       PROVE  TypeOK'
  <2>1. jobs' \in Seq(JobRec) /\ Len(jobs') = Len(jobs) /\ JobId' = JobId
    BY <1>11, SetStatusFacts DEF StoreResult, Status
  <2> QED BY <1>11, <2>1 DEF StoreResult, TypeOK, JobRec, Status
<1>12. ASSUME NEW m \in results, LoseResult(m)
       PROVE  TypeOK'
  BY <1>12, PollAssumption DEF LoseResult, Fault, TypeOK, JobId
<1>13. ASSUME NEW j \in todo, NEW ok \in BOOLEAN, RunJob(j, ok)
       PROVE  TypeOK'
  <2>1. j \in JobId /\ jobs[j].req \in Request /\ Of(j) \in Account
    BY Rows, AccountOfAssumption DEF TypeOK, JobRec, Of
  <2>2. hist' \in Seq(HistRec) /\ Len(hist') = Len(hist)
    BY <1>13, <2>1, RunFacts
  <2>3. faults' \in 0..MaxFaults
    BY <1>13, PollAssumption DEF RunJob, Fault, TypeOK
  <2>4. admin' \subseteq Account /\ last' \in [Account -> JobId \cup {0}]
    BY <1>13, <2>1 DEF RunJob, TypeOK
  <2> QED BY <1>13, <2>1, <2>2, <2>3, <2>4 DEF RunJob, TypeOK, JobId, HistRec
<1>14. CASE AgentTimeout \/ AgentCrash \/ ReportUsers
  <2>1. CASE AgentTimeout
    BY <2>1, PollAssumption DEF AgentTimeout, Fault, TypeOK, JobId
  <2>2. CASE AgentCrash
    BY <2>2, PollAssumption DEF AgentCrash, Fault, TypeOK, JobId
  <2>3. CASE ReportUsers
    BY <2>3 DEF ReportUsers, TypeOK, JobId
  <2> QED BY <1>14, <2>1, <2>2, <2>3
<1>15. CASE UNCHANGED vars
  BY <1>15 DEF vars, TypeOK, JobId
<1> QED BY <1>1, <1>2, <1>3, <1>4, <1>5, <1>6, <1>7, <1>8, <1>9, <1>10, <1>11, <1>12, <1>13,
           <1>14, <1>15 DEF Next, Api, AutoRevoke, Server, Agent

--------------------------------------------------------------------------------
(* Requests and the jobs queued for them.                                       *)

\* Which request a job is of, and what for, never changes.
JobsKept == /\ JobId' = JobId
            /\ \A j \in JobId : jobs'[j].kind = jobs[j].kind /\ jobs'[j].req = jobs[j].req

\* Polls and the agent leave the requests alone, and the purpose of every job.
LEMMA OutsideApi ==
  ASSUME TypeOK, Server \/ Agent \/ UNCHANGED vars
  PROVE  UNCHANGED requests /\ JobsKept
<1> USE DEF JobsKept
<1>1. ASSUME NEW p \in Poll, SelectJobs(p) \/ ReplyPoll(p) \/ PollCrash(p) \/ AgentPoll(p)
      PROVE  UNCHANGED requests /\ JobsKept
  BY <1>1 DEF SelectJobs, ReplyPoll, PollCrash, AgentPoll, JobId
<1>2. ASSUME NEW p \in Poll, CommitPoll(p)
      PROVE  UNCHANGED requests /\ JobsKept
  BY <1>2, SetStatusFacts DEF CommitPoll, Status
<1>3. ASSUME NEW m \in results, StoreResult(m)
      PROVE  UNCHANGED requests /\ JobsKept
  BY <1>3, SetStatusFacts DEF StoreResult, Status
<1>4. ASSUME NEW m \in results, LoseResult(m)
      PROVE  UNCHANGED requests /\ JobsKept
  BY <1>4 DEF LoseResult, JobId
<1>5. ASSUME NEW j \in todo, RunJob(j, TRUE) \/ RunJob(j, FALSE)
      PROVE  UNCHANGED requests /\ JobsKept
  BY <1>5 DEF RunJob, JobId
<1>6. CASE AgentTimeout \/ AgentCrash \/ ReportUsers \/ UNCHANGED vars
  BY <1>6 DEF AgentTimeout, AgentCrash, ReportUsers, vars, JobId
<1> QED BY <1>1, <1>2, <1>3, <1>4, <1>5, <1>6 DEF Server, Agent

LEMMA CreatedStep ==
  ASSUME TypeOK, CreatedInv, [Next]_vars
  PROVE  CreatedInv'
<1> USE DEF Created
<1>1. ASSUME NEW r \in Request, CreateRequest(r)
      PROVE  CreatedInv'
  <2>1. Created' = Created \cup {r}
    BY <1>1 DEF CreateRequest, TypeOK
  <2>2. IsFiniteSet(Created')
    BY <2>1, FS_AddElement DEF CreatedInv
  <2> QED BY <1>1, <2>1, <2>2 DEF CreateRequest, CreatedInv, JobId
<1>2. ASSUME NEW h \in Handler, NEW op, NEW status \in {"approved", "denied", "revoked"},
             op # "none", Decide(h, op, status)
      PROVE  /\ decision[h].req \in Created /\ Created' = Created
             /\ \A g \in Handler : decision'[g] # Free => decision'[g].req \in Created'
             /\ \A w \in Worker : expired'[w] \subseteq Created'
  <2>1. decision[h] # Free
    BY <1>2 DEF Decide, Free
  <2>2. decision[h].req \in Created
    BY <2>1 DEF CreatedInv
  <2>3. Created' = Created
    BY <1>2, <2>2 DEF Decide, TypeOK
  <2> QED BY <1>2, <2>2, <2>3 DEF Decide, CreatedInv, TypeOK
<1>3. ASSUME NEW kind, NEW R \in SUBSET Created, Inserted(kind, R), Created' = Created
      PROVE  IsFiniteSet(Created') /\ \A j \in JobId' : jobs'[j].req \in Created'
  BY <1>3 DEF Inserted, CreatedInv
<1>4. ASSUME NEW h \in Handler, Approve(h)
      PROVE  CreatedInv'
  <2>1. Inserted("add", {decision[h].req})
    BY <1>4, ApproveInserts
  <2> QED BY <1>2, <1>3, <1>4, <2>1 DEF Approve, CreatedInv
<1>5. ASSUME NEW h \in Handler, Revoke(h)
      PROVE  CreatedInv'
  <2>1. Inserted("remove", {decision[h].req})
    BY <1>5, RevokeInserts
  <2> QED BY <1>2, <1>3, <1>5, <2>1 DEF Revoke, CreatedInv
<1>6. ASSUME NEW h \in Handler, Deny(h)
      PROVE  CreatedInv'
  BY <1>2, <1>6 DEF Deny, CreatedInv, JobId
<1>7. ASSUME NEW h \in Handler, NEW r \in Request, NEW op \in {"approve", "deny", "revoke"}, Load(h, op, r)
      PROVE  CreatedInv'
  BY <1>7 DEF Load, CreatedInv, TypeOK, JobId
<1>8. ASSUME NEW r \in Request, Expire(r)
      PROVE  CreatedInv'
  BY <1>8 DEF Expire, CreatedInv, JobId
<1>9. ASSUME NEW w \in Worker, FindExpired(w)
      PROVE  CreatedInv'
  BY <1>9 DEF FindExpired, Due, CreatedInv, TypeOK, JobId
<1>10. ASSUME NEW w \in Worker, RevokeFails(w)
       PROVE  CreatedInv'
  BY <1>10 DEF RevokeFails, CreatedInv, TypeOK, JobId
<1>11. ASSUME NEW w \in Worker, RevokeExpired(w)
       PROVE  CreatedInv'
  <2>1. Inserted("remove", expired[w]) /\ expired[w] \in SUBSET Created
    BY <1>11, RevokeExpiredInserts DEF CreatedInv
  <2>2. Created' = Created
    BY <1>11, <2>1 DEF RevokeExpired, TypeOK
  <2> QED BY <1>3, <1>11, <2>1, <2>2 DEF RevokeExpired, CreatedInv, TypeOK
<1>12. CASE Server \/ Agent \/ UNCHANGED vars
  BY <1>12, OutsideApi DEF JobsKept, requests, CreatedInv
<1> QED BY <1>1, <1>4, <1>5, <1>6, <1>7, <1>8, <1>9, <1>10, <1>11, <1>12 DEF Next, Api, AutoRevoke

\* A request keeps its status, or gets the one its newest jobs are for.
LEMMA RequestStep ==
  ASSUME TypeOK, CreatedInv, RequestInv, [Next]_vars
  PROVE  RequestInv'
<1>1. ASSUME NEW kind, NEW R \in SUBSET Request, Inserted(kind, R),
             \/ kind = "add" /\ \A r \in R : req'[r] = "approved"
             \/ kind = "remove" /\ \A r \in R : req'[r] = "revoked",
             \A r \in Request \ R : req'[r] = req[r]
      PROVE  RequestInv'
  <2> DEFINE New == JobId' \ JobId
  <2>1. /\ JobId \subseteq JobId' /\ JobId' \subseteq Nat
        /\ \A j \in JobId : jobs'[j] = jobs[j] /\ jobs[j].req \in Request
        /\ \A j \in New : jobs'[j].kind = kind /\ jobs'[j].req \in R /\ \A k \in JobId : k < j
        /\ \A r \in R : \E j \in New : jobs'[j].req = r
    BY <1>1, Rows DEF Inserted, JobRec
  <2>2. \A j \in JobId' : jobs'[j].kind = "add" =>
            req'[jobs'[j].req] \in {"approved", "denied", "revoked"}
    BY <1>1, <2>1 DEF RequestInv
  <2>3. ASSUME NEW r \in Request, req'[r] = "revoked"
        PROVE  \E k \in JobId' : /\ jobs'[k].kind = "remove" /\ jobs'[k].req = r
                                 /\ \A j \in JobId' : jobs'[j].kind = "add" /\ jobs'[j].req = r => j < k
    <3>1. CASE r \in R
      <4>1. PICK k \in New : jobs'[k].req = r
        BY <2>1, <3>1
      <4>2. kind = "remove"
        BY <1>1, <2>3, <3>1
      <4> QED BY <2>1, <4>1, <4>2
    <3>2. CASE r \notin R
      <4>1. PICK k \in JobId : /\ jobs[k].kind = "remove" /\ jobs[k].req = r
                               /\ \A j \in JobId : jobs[j].kind = "add" /\ jobs[j].req = r => j < k
        BY <1>1, <2>3, <3>2 DEF RequestInv
      <4> QED BY <2>1, <3>2, <4>1
    <3> QED BY <3>1, <3>2
  <2>4. ASSUME NEW r \in Request, req'[r] = "approved"
        PROVE  \E j \in JobId' : /\ jobs'[j].kind = "add" /\ jobs'[j].req = r
                                 /\ \A k \in JobId' : jobs'[k].kind = "remove" /\ jobs'[k].req = r => k < j
    <3>1. CASE r \in R
      <4>1. PICK j \in New : jobs'[j].req = r
        BY <2>1, <3>1
      <4>2. kind = "add"
        BY <1>1, <2>4, <3>1
      <4> QED BY <2>1, <4>1, <4>2
    <3>2. CASE r \notin R
      <4>1. PICK j \in JobId : /\ jobs[j].kind = "add" /\ jobs[j].req = r
                               /\ \A k \in JobId : jobs[k].kind = "remove" /\ jobs[k].req = r => k < j
        BY <1>1, <2>4, <3>2 DEF RequestInv
      <4> QED BY <2>1, <3>2, <4>1
    <3> QED BY <3>1, <3>2
  <2> QED BY <2>2, <2>3, <2>4 DEF RequestInv
<1>2. ASSUME JobsKept, NEW r \in Request, req[r] \notin {"approved", "denied", "revoked"},
             \A q \in Request \ {r} : req'[q] = req[q], req'[r] \notin {"approved", "revoked"}
      PROVE  RequestInv'
  <2>1. \A j \in JobId : jobs[j].req \in Request /\ (jobs[j].kind = "add" => jobs[j].req # r)
    BY <1>2, Rows DEF RequestInv, JobRec
  <2> QED BY <1>2, <2>1 DEF RequestInv, JobsKept
<1>3. ASSUME JobsKept, NEW r \in Request,
             \A q \in Request \ {r} : req'[q] = req[q], req'[r] = "denied"
      PROVE  RequestInv'
  <2>1. \A j \in JobId : jobs[j].req \in Request
    BY Rows DEF JobRec
  <2> QED BY <1>3, <2>1 DEF RequestInv, JobsKept
<1>4. ASSUME JobsKept, UNCHANGED req
      PROVE  RequestInv'
  BY <1>4 DEF RequestInv, JobsKept
<1>5. ASSUME NEW r \in Request, CreateRequest(r)
      PROVE  RequestInv'
  <2>1. JobsKept
    BY <1>5 DEF CreateRequest, JobsKept, JobId
  <2> QED BY <1>2, <1>5, <2>1 DEF CreateRequest, TypeOK
<1>6. ASSUME NEW h \in Handler, Approve(h)
      PROVE  RequestInv'
  <2> DEFINE r == decision[h].req
  <2>1. r \in Request /\ Inserted("add", {r})
    BY <1>6, ApproveInserts
  <2>2. req'[r] = "approved" /\ \A q \in Request \ {r} : req'[q] = req[q]
    BY <1>6, <2>1 DEF Approve, Decide, TypeOK
  <2> HIDE DEF r
  <2> QED BY <1>1, <2>1, <2>2
<1>7. ASSUME NEW h \in Handler, Revoke(h)
      PROVE  RequestInv'
  <2> DEFINE r == decision[h].req
  <2>1. r \in Request /\ Inserted("remove", {r})
    BY <1>7, RevokeInserts
  <2>2. req'[r] = "revoked" /\ \A q \in Request \ {r} : req'[q] = req[q]
    BY <1>7, <2>1 DEF Revoke, Decide, TypeOK
  <2> HIDE DEF r
  <2> QED BY <1>1, <2>1, <2>2
<1>8. ASSUME NEW h \in Handler, Deny(h)
      PROVE  RequestInv'
  <2>1. decision[h].req \in Request
    BY <1>8 DEF Deny, Decide, TypeOK, Free
  <2>2. JobsKept
    BY <1>8 DEF Deny, JobsKept, JobId
  <2> QED BY <1>3, <1>8, <2>1, <2>2 DEF Deny, Decide, TypeOK
<1>9. ASSUME NEW w \in Worker, RevokeExpired(w)
      PROVE  RequestInv'
  <2>1. Inserted("remove", expired[w]) /\ expired[w] \in SUBSET Request
    BY <1>9, RevokeExpiredInserts DEF TypeOK
  <2>2. /\ \A r \in expired[w] : req'[r] = "revoked"
        /\ \A q \in Request \ expired[w] : req'[q] = req[q]
    BY <1>9, <2>1 DEF RevokeExpired
  <2> QED BY <1>1, <2>1, <2>2
<1>10. ASSUME NEW h \in Handler, NEW r \in Request, NEW op, Load(h, op, r)
       PROVE  RequestInv'
  BY <1>4, <1>10 DEF Load, JobsKept, JobId
<1>11. ASSUME NEW r \in Request, Expire(r)
       PROVE  RequestInv'
  BY <1>4, <1>11 DEF Expire, JobsKept, JobId
<1>12. ASSUME NEW w \in Worker, FindExpired(w) \/ RevokeFails(w)
       PROVE  RequestInv'
  BY <1>4, <1>12 DEF FindExpired, RevokeFails, JobsKept, JobId
<1>13. CASE Server \/ Agent \/ UNCHANGED vars
  BY <1>4, <1>13, OutsideApi DEF requests
<1> QED BY <1>5, <1>6, <1>7, <1>8, <1>9, <1>10, <1>11, <1>12, <1>13 DEF Next, Api, AutoRevoke

--------------------------------------------------------------------------------
(* Polls, dispatches and results.                                               *)

\* All that the API and the auto-revoke loops do to jobs is insert new ones.
JobsGrown ==
    /\ JobId \subseteq JobId' /\ JobId' \subseteq Nat
    /\ \A j \in JobId : jobs'[j] = jobs[j] /\ hist'[j] = hist[j]
    /\ \A j \in JobId' \ JobId : /\ jobs'[j].status = "pending" /\ hist'[j] = Untouched
                                 /\ \A k \in JobId : k < j

LEMMA ApiGrows ==
  ASSUME TypeOK, CreatedInv, Api \/ AutoRevoke
  PROVE  JobsGrown /\ UNCHANGED <<phase, batch, conn, todo, results, admin, last>>
<1>1. ASSUME NEW kind, NEW R, Inserted(kind, R)
      PROVE  JobsGrown
  BY <1>1 DEF Inserted, JobsGrown
<1>2. ASSUME UNCHANGED <<jobs, hist>>
      PROVE  JobsGrown
  BY <1>2, Rows DEF JobsGrown, JobId
<1> USE DEF polls, mac
<1>3. ASSUME NEW r \in Request, CreateRequest(r) \/ Expire(r)
      PROVE  JobsGrown /\ UNCHANGED <<phase, batch, conn, todo, results, admin, last>>
  BY <1>2, <1>3 DEF CreateRequest, Expire
<1>4. ASSUME NEW h \in Handler, NEW r \in Request, NEW op, Load(h, op, r)
      PROVE  JobsGrown /\ UNCHANGED <<phase, batch, conn, todo, results, admin, last>>
  BY <1>2, <1>4 DEF Load
<1>5. ASSUME NEW h \in Handler, Approve(h)
      PROVE  JobsGrown /\ UNCHANGED <<phase, batch, conn, todo, results, admin, last>>
  BY <1>1, <1>5, ApproveInserts DEF Approve, Decide
<1>6. ASSUME NEW h \in Handler, Deny(h)
      PROVE  JobsGrown /\ UNCHANGED <<phase, batch, conn, todo, results, admin, last>>
  BY <1>2, <1>6 DEF Deny, Decide
<1>7. ASSUME NEW h \in Handler, Revoke(h)
      PROVE  JobsGrown /\ UNCHANGED <<phase, batch, conn, todo, results, admin, last>>
  BY <1>1, <1>7, RevokeInserts DEF Revoke, Decide
<1>8. ASSUME NEW w \in Worker, FindExpired(w) \/ RevokeFails(w)
      PROVE  JobsGrown /\ UNCHANGED <<phase, batch, conn, todo, results, admin, last>>
  BY <1>2, <1>8 DEF FindExpired, RevokeFails
<1>9. ASSUME NEW w \in Worker, RevokeExpired(w)
      PROVE  JobsGrown /\ UNCHANGED <<phase, batch, conn, todo, results, admin, last>>
  BY <1>1, <1>9, RevokeExpiredInserts DEF RevokeExpired
<1> QED BY <1>3, <1>4, <1>5, <1>6, <1>7, <1>8, <1>9 DEF Api, AutoRevoke

\* The steps of the client that touch neither rows nor polls' rows.
LEMMA AgentFacts ==
  ASSUME TypeOK, NEW p \in Poll, AgentPoll(p)
  PROVE  /\ todo = {} /\ conn = None /\ phase[p] = "free"
         /\ phase' = [phase EXCEPT ![p] = "received"] /\ conn' = p
         /\ UNCHANGED <<jobs, hist, batch, todo, results, admin>>
BY DEF AgentPoll, Idle, mac

\* No job is locked by two polls, and the agent waits with empty hands.
LEMMA PollStep ==
  ASSUME TypeOK, CreatedInv, PollInv, [Next]_vars
  PROVE  PollInv'
<1> USE DEF Holding
<1>1. CASE Api \/ AutoRevoke
  <2>1. JobsGrown /\ UNCHANGED <<phase, batch, conn, todo>>
    BY <1>1, ApiGrows
  <2>2. \A p \in Poll : batch[p] \subseteq JobId
    BY DEF TypeOK
  <2> QED BY <2>1, <2>2 DEF PollInv, JobsGrown
<1>2. ASSUME NEW p \in Poll, SelectJobs(p)
      PROVE  PollInv'
  <2>1. PICK B \in SUBSET PendingJobs : batch' = [batch EXCEPT ![p] = B]
    BY <1>2 DEF SelectJobs
  <2>2. \A j \in B : /\ jobs[j].status = "pending"
                     /\ \A q \in Poll : phase[q] \in Holding => j \notin batch[q]
    BY DEF PendingJobs, Locked
  <2>3. \A q \in Poll, j \in B : j \notin batch[q]
    BY <2>2 DEF PollInv, TypeOK, JobId, PendingJobs
  <2>4. /\ phase' = [phase EXCEPT ![p] = "open"] /\ phase[p] = "received"
        /\ UNCHANGED <<jobs, conn, todo>>
    BY <1>2 DEF SelectJobs, mac
  <2>5. \A q \in Poll : /\ phase'[q] = IF q = p THEN "open" ELSE phase[q]
                        /\ batch'[q] = IF q = p THEN B ELSE batch[q]
    <3>1. DOMAIN phase = Poll /\ DOMAIN batch = Poll
      BY DEF TypeOK
    <3> QED BY <2>1, <2>4, <3>1
  <2>6. JobId' = JobId
    BY <2>4 DEF JobId
  <2>7. \A q, o \in Poll : batch'[q] \cap batch'[o] # {} => q = o
    <3> SUFFICES ASSUME NEW q \in Poll, NEW o \in Poll, NEW j, j \in batch'[q], j \in batch'[o]
                 PROVE  q = o
      OBVIOUS
    <3>1. CASE q # p /\ o # p
      BY <2>5, <3>1 DEF PollInv
    <3>2. CASE q = p \/ o = p
      BY <2>3, <2>5, <3>2
    <3> QED BY <3>1, <3>2
  <2>8. \A q \in Poll, j \in JobId' : j \in batch'[q] =>
           /\ phase'[q] \in Holding => jobs'[j].status = "pending"
           /\ phase'[q] = "committed" => jobs'[j].status # "pending"
    <3> SUFFICES ASSUME NEW q \in Poll, NEW j \in JobId, j \in batch'[q]
                 PROVE  /\ phase'[q] \in Holding => jobs[j].status = "pending"
                        /\ phase'[q] = "committed" => jobs[j].status # "pending"
      BY <2>4, <2>6
    <3>1. CASE q = p
      BY <2>2, <2>5, <3>1
    <3>2. CASE q # p
      BY <2>5, <3>2 DEF PollInv
    <3> QED BY <3>1, <3>2
  <2>9. \A q \in Poll : /\ phase'[q] \in {"free", "received"} => batch'[q] = {}
                        /\ phase'[q] # IF CommitBeforeReply THEN "replied" ELSE "committed"
    BY <2>5 DEF PollInv
  <2>10. conn' # None => todo' = {}
    BY <2>4 DEF PollInv
  <2> QED BY <2>7, <2>8, <2>9, <2>10 DEF PollInv
<1>3. ASSUME NEW p \in Poll, CommitPoll(p)
      PROVE  PollInv'
  <2>1. JobId' = JobId /\ \A j \in JobId : jobs'[j].status = IF j \in batch[p] THEN "running" ELSE jobs[j].status
    BY <1>3, SetStatusFacts DEF CommitPoll, Status
  <2>2. UNCHANGED <<conn, todo>>
    BY <1>3 DEF CommitPoll, mac
  <2>3. \A q \in Poll, j \in JobId : j \in batch[p] /\ j \in batch[q] => q = p
    BY DEF PollInv
  <2>4. CASE CommitBeforeReply
    <3>1. phase[p] = "open" /\ phase' = [phase EXCEPT ![p] = "committed"] /\ UNCHANGED batch
      BY <1>3, <2>4 DEF CommitPoll
    <3>2. \A q \in Poll : phase'[q] = IF q = p THEN "committed" ELSE phase[q]
      BY <3>1 DEF TypeOK
    <3>3. \A q \in Poll, j \in JobId' : j \in batch'[q] =>
             /\ phase'[q] \in Holding => jobs'[j].status = "pending"
             /\ phase'[q] = "committed" => jobs'[j].status # "pending"
      BY <2>1, <2>3, <3>1, <3>2 DEF PollInv, Holding
    <3> QED BY <2>1, <2>2, <2>4, <3>1, <3>2, <3>3 DEF PollInv
  <2>5. CASE ~CommitBeforeReply
    <3>1. phase' = [phase EXCEPT ![p] = "free"] /\ batch' = [batch EXCEPT ![p] = {}]
      BY <1>3, <2>5 DEF CommitPoll
    <3> QED BY <2>1, <2>2, <2>3, <2>5, <3>1 DEF PollInv, TypeOK
  <2> QED BY <2>4, <2>5
<1>4. ASSUME NEW p \in Poll, ReplyPoll(p)
      PROVE  PollInv'
  <2>1. jobs' = jobs /\ JobId' = JobId /\ (conn' # None => conn # None /\ todo' = todo)
    BY <1>4 DEF ReplyPoll, JobId
  <2>2. CASE CommitBeforeReply
    <3>1. phase' = [phase EXCEPT ![p] = "free"] /\ batch' = [batch EXCEPT ![p] = {}]
      BY <1>4, <2>2 DEF ReplyPoll
    <3> QED BY <2>1, <2>2, <3>1 DEF PollInv, TypeOK
  <2>3. CASE ~CommitBeforeReply
    <3>1. phase[p] = "open" /\ phase' = [phase EXCEPT ![p] = "replied"] /\ UNCHANGED batch
      BY <1>4, <2>3 DEF ReplyPoll
    <3> QED BY <2>1, <2>3, <3>1 DEF PollInv, TypeOK
  <2> QED BY <2>2, <2>3
<1>5. ASSUME NEW p \in Poll, PollCrash(p)
      PROVE  PollInv'
  <2>1. /\ jobs' = jobs /\ JobId' = JobId /\ (conn' # None => conn # None) /\ todo' = todo
        /\ phase' = [phase EXCEPT ![p] = "free"] /\ batch' = [batch EXCEPT ![p] = {}]
    BY <1>5 DEF PollCrash, JobId, mac
  <2> QED BY <2>1 DEF PollInv, TypeOK
<1>6. ASSUME NEW m \in results, StoreResult(m)
      PROVE  PollInv'
  <2>1. /\ JobId' = JobId
        /\ \A j \in JobId : jobs'[j].status = IF j = m.job
                            THEN IF m.ok THEN "completed" ELSE "failed" ELSE jobs[j].status
    BY <1>6, SetStatusFacts DEF StoreResult, Status
  <2>2. UNCHANGED <<phase, batch, conn, todo>>
    BY <1>6 DEF StoreResult, mac, polls
  <2>3. \A q \in Poll : phase[q] \in Holding => m.job \notin batch[q]
    BY <1>6 DEF StoreResult, Locked
  <2>4. \A q \in Poll, j \in JobId : j \in batch[q] =>
            /\ phase[q] \in Holding => jobs'[j].status = "pending"
            /\ phase[q] = "committed" => jobs'[j].status # "pending"
    BY <2>1, <2>3 DEF PollInv
  <2> QED BY <2>1, <2>2, <2>4 DEF PollInv
<1>7. ASSUME NEW m \in results, LoseResult(m)
      PROVE  PollInv'
  BY <1>7 DEF LoseResult, PollInv, polls, mac, JobId
<1>8. ASSUME NEW p \in Poll, AgentPoll(p)
      PROVE  PollInv'
  <2>1. JobId' = JobId
    BY <1>8, AgentFacts DEF JobId
  <2>2. todo = {} /\ phase[p] = "free" /\ UNCHANGED <<jobs, batch, todo>>
    BY <1>8, AgentFacts
  <2>3. \A q \in Poll : phase'[q] = IF q = p THEN "received" ELSE phase[q]
    BY <1>8, AgentFacts DEF TypeOK
  <2> QED BY <2>1, <2>2, <2>3 DEF PollInv
<1>9. ASSUME NEW j \in todo, RunJob(j, TRUE) \/ RunJob(j, FALSE)
      PROVE  PollInv'
  BY <1>9 DEF RunJob, PollInv, polls, JobId
<1>10. CASE AgentTimeout \/ AgentCrash \/ ReportUsers \/ UNCHANGED vars
  BY <1>10 DEF AgentTimeout, AgentCrash, ReportUsers, vars, polls, mac, PollInv, JobId
<1> QED BY <1>1, <1>2, <1>3, <1>4, <1>5, <1>6, <1>7, <1>8, <1>9, <1>10 DEF Next, Server, Agent

\* What a commit and a reply do to the poll's jobs, in either order.
LEMMA CommitPollFacts ==
  ASSUME TypeOK, PollInv, NEW p \in Poll, CommitPoll(p)
  PROVE  /\ JobId' = JobId /\ UNCHANGED <<hist, conn, todo, results, admin>>
         /\ \A j \in JobId : jobs'[j].status = IF j \in batch[p] THEN "running" ELSE jobs[j].status
         /\ \A j \in JobId : j \notin batch[p] => /\ Undelivered(j)' <=> Undelivered(j)
                                                  /\ Replied(j)' <=> Replied(j)
         /\ \A j \in JobId : j \in batch[p] =>
                /\ jobs[j].status = "pending" /\ ~Undelivered(j)
                /\ Undelivered(j)' => ~Replied(j)
<1>1. JobId' = JobId /\ \A j \in JobId : jobs'[j].status = IF j \in batch[p] THEN "running" ELSE jobs[j].status
  BY SetStatusFacts DEF CommitPoll, Status
<1>2. UNCHANGED <<hist, conn, todo, results, admin>>
  BY DEF CommitPoll, mac
<1>3. \A q \in Poll, j \in JobId : j \in batch[p] /\ j \in batch[q] => q = p
  BY DEF PollInv
<1>4. phase[p] \in Holding
  BY DEF CommitPoll, Holding
<1>5. CASE CommitBeforeReply
  <2>1. phase[p] = "open" /\ phase' = [phase EXCEPT ![p] = "committed"] /\ UNCHANGED batch
    BY <1>5 DEF CommitPoll
  <2>2. \A q \in Poll : phase[q] # "replied"
    BY <1>5 DEF PollInv
  <2> QED BY <1>1, <1>2, <1>3, <1>4, <2>1, <2>2 DEF PollInv, TypeOK, Undelivered, Replied
<1>6. CASE ~CommitBeforeReply
  <2>1. phase' = [phase EXCEPT ![p] = "free"] /\ batch' = [batch EXCEPT ![p] = {}] /\ phase[p] = "replied"
    BY <1>6 DEF CommitPoll
  <2>2. \A q \in Poll : phase[q] # "committed"
    BY <1>6 DEF PollInv
  <2> QED BY <1>1, <1>2, <1>3, <1>4, <2>1, <2>2 DEF PollInv, TypeOK, Undelivered, Replied
<1> QED BY <1>5, <1>6

LEMMA ReplyPollFacts ==
  ASSUME TypeOK, PollInv, NEW p \in Poll, ReplyPoll(p)
  PROVE  /\ JobId' = JobId /\ UNCHANGED <<jobs, hist, results, admin>>
         /\ \A j \in JobId : j \in todo' => j \in todo \/ (j \in batch[p] /\ j \notin todo)
         /\ \A j \in JobId : j \notin batch[p] => /\ j \in todo' => j \in todo
                                                  /\ Undelivered(j)' <=> Undelivered(j)
                                                  /\ Replied(j)' <=> Replied(j)
         /\ \A j \in JobId : j \in batch[p] =>
                /\ ~Undelivered(j)'
                /\ CommitBeforeReply => Undelivered(j) /\ jobs[j].status # "pending"
                /\ ~CommitBeforeReply => ~Replied(j) /\ Replied(j)' /\ jobs[j].status = "pending"
         /\ todo' = todo \/ todo = {}
<1>1. JobId' = JobId /\ UNCHANGED <<jobs, hist, results, admin>>
  BY DEF ReplyPoll, JobId
<1>2. todo' = todo \/ (todo = {} /\ todo' = batch[p])
  BY PollAssumption DEF ReplyPoll, PollInv
<1>3. \A q \in Poll, j \in JobId : j \in batch[p] /\ j \in batch[q] => q = p
  BY DEF PollInv
<1>4. CASE CommitBeforeReply
  <2>1. phase' = [phase EXCEPT ![p] = "free"] /\ batch' = [batch EXCEPT ![p] = {}] /\ phase[p] = "committed"
    BY <1>4 DEF ReplyPoll
  <2>2. \A q \in Poll : phase[q] # "replied"
    BY <1>4 DEF PollInv
  <2> QED BY <1>1, <1>2, <1>3, <1>4, <2>1, <2>2 DEF PollInv, TypeOK, Undelivered, Replied
<1>5. CASE ~CommitBeforeReply
  <2>1. phase[p] = "open" /\ phase' = [phase EXCEPT ![p] = "replied"] /\ UNCHANGED batch
    BY <1>5 DEF ReplyPoll
  <2>2. \A q \in Poll : phase[q] # "committed"
    BY <1>5 DEF PollInv
  <2> QED BY <1>1, <1>2, <1>3, <1>5, <2>1, <2>2 DEF PollInv, TypeOK, Undelivered, Replied, Holding
<1> QED BY <1>4, <1>5

\* Every hand-out of a job is paid for.
LEMMA DispatchStep ==
  ASSUME TypeOK, CreatedInv, PollInv, DispatchInv, [Next]_vars
  PROVE  DispatchInv'
<1> DEFINE Paid(j) == hist[j].ran + Count(j \in todo) + Count(Undelivered(j))
                        <= hist[j].undone + Count(jobs[j].status # "pending" \/ Replied(j))
<1>1. \A j \in JobId : Paid(j) /\ hist[j].ran \in Nat /\ hist[j].undone \in Nat
  BY Rows DEF DispatchInv, HistRec
<1>2. CASE Api \/ AutoRevoke
  <2>1. JobsGrown /\ UNCHANGED <<phase, batch, todo>>
    BY <1>2, ApiGrows
  <2>2. ASSUME NEW j \in JobId
        PROVE  Paid(j)'
    BY <1>1, <2>1, <2>2 DEF JobsGrown, Undelivered, Replied, Count
  <2>3. ASSUME NEW j \in JobId' \ JobId
        PROVE  Paid(j)'
    <3>1. j \notin todo /\ \A p \in Poll : j \notin batch[p]
      BY <2>3 DEF TypeOK
    <3>2. hist'[j] = Untouched
      BY <2>1, <2>3 DEF JobsGrown
    <3> QED BY <2>1, <3>1, <3>2 DEF Undelivered, Replied, Count, Untouched
  <2> QED BY <2>2, <2>3 DEF DispatchInv
<1>3. ASSUME NEW p \in Poll, SelectJobs(p)
      PROVE  DispatchInv'
  <2>1. UNCHANGED <<jobs, todo, hist>> /\ JobId' = JobId
    BY <1>3 DEF SelectJobs, mac, JobId
  <2>2. \A j \in JobId : Undelivered(j)' = Undelivered(j) /\ Replied(j)' = Replied(j)
    BY <1>3 DEF SelectJobs, Undelivered, Replied, TypeOK
  <2> QED BY <2>1, <2>2 DEF DispatchInv, Count
<1>4. ASSUME NEW p \in Poll, CommitPoll(p)
      PROVE  DispatchInv'
  <2>1. \A j \in JobId : j \notin batch[p] => Paid(j)'
    BY <1>1, <1>4, CommitPollFacts DEF Count
  <2>2. \A j \in JobId : j \in batch[p] => Paid(j)'
    BY <1>1, <1>4, CommitPollFacts DEF Count
  <2> QED BY <1>4, <2>1, <2>2, CommitPollFacts DEF DispatchInv
<1>5. ASSUME NEW p \in Poll, ReplyPoll(p)
      PROVE  DispatchInv'
  <2>1. \A j \in JobId : j \notin batch[p] => Paid(j)'
    BY <1>1, <1>5, ReplyPollFacts DEF Count
  <2>2. ASSUME NEW j \in JobId, j \in batch[p]
        PROVE  Paid(j)'
    <3>1. CASE CommitBeforeReply
      BY <1>1, <1>5, <2>2, <3>1, ReplyPollFacts DEF Count
    <3>2. CASE ~CommitBeforeReply
      BY <1>1, <1>5, <2>2, <3>2, ReplyPollFacts DEF Count
    <3> QED BY <3>1, <3>2
  <2> QED BY <1>5, <2>1, <2>2, ReplyPollFacts DEF DispatchInv
<1>6. ASSUME NEW p \in Poll, PollCrash(p)
      PROVE  DispatchInv'
  <2>1. UNCHANGED <<jobs, todo>> /\ JobId' = JobId
    BY <1>6 DEF PollCrash, mac, JobId
  <2>2. \A j \in JobId : /\ Undelivered(j)' => Undelivered(j)
                         /\ Replied(j) => Replied(j)' \/ (phase[p] = "replied" /\ j \in batch[p])
    BY <1>6 DEF PollCrash, Undelivered, Replied, TypeOK
  <2>3. \A j \in JobId : Paid(j)'
    BY <1>1, <1>6, <2>1, <2>2, CrashFacts DEF Count
  <2> QED BY <2>1, <2>3 DEF DispatchInv
<1>7. ASSUME NEW m \in results, StoreResult(m)
      PROVE  DispatchInv'
  <2>1. /\ JobId' = JobId
        /\ \A j \in JobId : jobs[j].status # "pending" => jobs'[j].status # "pending"
    BY <1>7, SetStatusFacts DEF StoreResult, Status
  <2>2. UNCHANGED <<phase, batch, todo, hist>>
    BY <1>7 DEF StoreResult, mac, polls
  <2> QED BY <1>1, <2>1, <2>2 DEF DispatchInv, Undelivered, Replied, Count
<1>8. ASSUME NEW j \in todo, NEW ok \in BOOLEAN, RunJob(j, ok)
      PROVE  DispatchInv'
  <2>1. j \in JobId
    BY DEF TypeOK
  <2>2. UNCHANGED <<jobs, phase, batch>> /\ JobId' = JobId /\ todo' = todo \ {j}
    BY <1>8 DEF RunJob, polls, JobId
  <2>3. \A k \in JobId : k # j => hist'[k] = hist[k]
    BY <1>8, <2>1, RunFacts
  <2>4. hist'[j].ran = hist[j].ran + 1 /\ hist'[j].undone = hist[j].undone
    BY <1>8, <2>1, RunFacts
  <2>5. \A k \in JobId : Undelivered(k)' = Undelivered(k) /\ Replied(k)' = Replied(k)
    BY <2>2 DEF Undelivered, Replied
  <2> HIDE <1>8
  <2>6. \A k \in JobId : k # j => Paid(k)'
    BY <1>1, <2>2, <2>3, <2>5 DEF Count
  <2>7. Paid(j)'
    BY <1>1, <2>1, <2>2, <2>4, <2>5 DEF Count
  <2> QED BY <2>2, <2>6, <2>7 DEF DispatchInv
<1>9. CASE AgentTimeout \/ AgentCrash \/ ReportUsers \/ UNCHANGED vars
           \/ (\E m \in results : LoseResult(m)) \/ (\E p \in Poll : AgentPoll(p))
  <2>1. UNCHANGED <<jobs, hist, batch>> /\ JobId' = JobId /\ (todo' = todo \/ todo' = {})
    BY <1>9 DEF AgentTimeout, AgentCrash, ReportUsers, LoseResult, AgentPoll, vars, polls, mac, JobId
  <2>2. \A j \in JobId : Undelivered(j)' = Undelivered(j) /\ Replied(j)' = Replied(j)
    BY <1>9 DEF AgentTimeout, AgentCrash, ReportUsers, LoseResult, AgentPoll, vars, polls,
                Undelivered, Replied, TypeOK
  <2> QED BY <1>1, <2>1, <2>2 DEF DispatchInv, Count
<1> QED BY <1>2, <1>3, <1>4, <1>5, <1>6, <1>7, <1>8, <1>9 DEF Next, Server, Agent

\* A job in the agent's hands whose dispatch was not undone has not run yet.
LEMMA FirstRun ==
  ASSUME TypeOK, DispatchInv, ResultInv, ResultIsTrue,
         NEW j \in todo, hist[j].undone = 0
  PROVE  hist[j].ran = 0 /\ ~Settled(j) /\ \A m \in results : m.job # j
<1>1. j \in JobId /\ hist[j] \in HistRec
  BY Rows DEF TypeOK
<1>2. hist[j].ran = 0
  BY <1>1 DEF DispatchInv, Count, HistRec
<1> QED BY <1>1, <1>2 DEF ResultInv, ResultIsTrue, Settled

\* Statuses change in three ways: a poll takes pending jobs, a result is stored, or new
\* jobs appear.
LEMMA ResultStep ==
  ASSUME TypeOK, CreatedInv, PollInv, DispatchInv, ResultInv, ResultIsTrue, [Next]_vars
  PROVE  /\ ResultInv' /\ ResultIsTrue'
         /\ \A j \in JobId : Settled(j) /\ hist[j].undone = 0 => jobs'[j].status = jobs[j].status
<1> DEFINE Goal == /\ ResultInv' /\ ResultIsTrue'
                   /\ \A j \in JobId : Settled(j) /\ hist[j].undone = 0 =>
                                           jobs'[j].status = jobs[j].status
<1>1. /\ \A m \in results : m.job \in JobId /\ m.ok \in BOOLEAN
      /\ \A j \in JobId : hist[j] \in HistRec
  BY Rows DEF TypeOK
<1>2. CASE Api \/ AutoRevoke
  <2>1. JobsGrown /\ results' = results
    BY <1>2, ApiGrows
  <2>2. ResultInv'
    <3>1. \A j \in JobId' : hist'[j].ok => hist'[j].ran > 0
      BY <2>1 DEF ResultInv, JobsGrown, Untouched
    <3> QED BY <1>1, <2>1, <3>1 DEF ResultInv, JobsGrown, Settled
  <2>3. ResultIsTrue'
    BY <2>1 DEF ResultIsTrue, JobsGrown
  <2> QED BY <2>1, <2>2, <2>3 DEF JobsGrown
<1>3. ASSUME NEW p \in Poll, SelectJobs(p) \/ ReplyPoll(p) \/ AgentPoll(p)
      PROVE  Goal
  <2>1. UNCHANGED <<jobs, hist, results>>
    BY <1>3 DEF SelectJobs, ReplyPoll, AgentPoll
  <2> QED BY <2>1 DEF ResultInv, ResultIsTrue, Settled, JobId
<1>4. ASSUME NEW p \in Poll, CommitPoll(p)
      PROVE  Goal
  <2>1. /\ JobId' = JobId /\ UNCHANGED <<hist, results>>
        /\ \A j \in JobId : jobs'[j].status = IF j \in batch[p] THEN "running" ELSE jobs[j].status
        /\ \A j \in JobId : j \in batch[p] => jobs[j].status = "pending"
    BY <1>4, CommitPollFacts
  <2> HIDE <1>4
  <2> QED BY <1>1, <2>1 DEF ResultInv, ResultIsTrue, Settled
<1>5. ASSUME NEW p \in Poll, PollCrash(p)
      PROVE  Goal
  <2>1. JobId' = JobId /\ UNCHANGED <<jobs, results>>
    BY <1>5 DEF PollCrash, JobId
  <2>2. \A j \in JobId : /\ hist'[j].ran = hist[j].ran /\ hist'[j].ok = hist[j].ok
                         /\ hist'[j].undone = 0 => hist[j].undone = 0
    BY <1>1, <1>5, CrashFacts DEF HistRec
  <2> QED BY <1>1, <2>1, <2>2 DEF ResultInv, ResultIsTrue, Settled
<1>6. ASSUME NEW m \in results, StoreResult(m)
      PROVE  Goal
  <2>1. /\ JobId' = JobId
        /\ \A j \in JobId : jobs'[j].status = IF j = m.job
                            THEN IF m.ok THEN "completed" ELSE "failed" ELSE jobs[j].status
    BY <1>6, SetStatusFacts DEF StoreResult, Status
  <2>2. UNCHANGED hist /\ results' = results \ {m}
    BY <1>6 DEF StoreResult
  <2>3. hist[m.job].ran > 0 /\ (m.ok => hist[m.job].ok)
    BY DEF ResultInv
  <2>4. hist[m.job].undone = 0 => ~Settled(m.job) /\ \A n \in results : n.job = m.job => n = m
    BY DEF ResultInv
  <2>5. ResultInv'
    BY <1>1, <2>1, <2>2, <2>4 DEF ResultInv, Settled
  <2>6. ResultIsTrue'
    BY <2>1, <2>2, <2>3 DEF ResultIsTrue
  <2>7. \A j \in JobId : Settled(j) /\ hist[j].undone = 0 => jobs'[j].status = jobs[j].status
    BY <2>1, <2>4
  <2> QED BY <2>5, <2>6, <2>7
<1>7. ASSUME NEW m \in results, LoseResult(m)
      PROVE  Goal
  <2>1. UNCHANGED <<jobs, hist>> /\ results' = results \ {m}
    BY <1>7 DEF LoseResult
  <2> QED BY <2>1 DEF ResultInv, ResultIsTrue, Settled, JobId
<1>8. ASSUME NEW j \in todo, NEW ok \in BOOLEAN, RunJob(j, ok)
      PROVE  Goal
  <2>1. j \in JobId
    BY DEF TypeOK
  <2>2. /\ UNCHANGED jobs /\ JobId' = JobId
        /\ results' = results \cup {[job |-> j, ok |-> ok]}
    BY <1>8 DEF RunJob, JobId
  <2>3. /\ \A k \in JobId : k # j => hist'[k] = hist[k]
        /\ hist'[j].ran = hist[j].ran + 1 /\ hist'[j].undone = hist[j].undone
        /\ hist'[j].ok <=> hist[j].ok \/ ok
    BY <1>8, <2>1, RunFacts
  <2> HIDE <1>8
  <2>4. hist'[j].ran > 0
    BY <1>1, <2>1, <2>3 DEF HistRec
  <2>5. hist[j].undone = 0 => ~Settled(j) /\ \A m \in results : m.job # j
    BY FirstRun
  <2>6. \A m \in results' : hist'[m.job].ran > 0 /\ (m.ok => hist'[m.job].ok)
    BY <1>1, <2>2, <2>3, <2>4 DEF ResultInv
  <2>7. \A k \in JobId' : hist'[k].ok => hist'[k].ran > 0
    BY <2>2, <2>3, <2>4 DEF ResultInv
  <2>8. \A m \in results' : hist'[m.job].undone = 0 =>
             /\ ~Settled(m.job)' /\ \A n \in results' : n.job = m.job => n = m
    BY <1>1, <2>2, <2>3, <2>5 DEF ResultInv, Settled
  <2>9. ResultIsTrue'
    BY <2>2, <2>3, <2>4 DEF ResultIsTrue
  <2> QED BY <2>2, <2>6, <2>7, <2>8, <2>9 DEF ResultInv
<1>9. CASE AgentTimeout \/ AgentCrash \/ ReportUsers \/ UNCHANGED vars
  <2>1. UNCHANGED <<jobs, hist, results>>
    BY <1>9 DEF AgentTimeout, AgentCrash, ReportUsers, vars
  <2> QED BY <2>1 DEF ResultInv, ResultIsTrue, Settled, JobId
<1> QED BY <1>2, <1>3, <1>4, <1>5, <1>6, <1>7, <1>8, <1>9 DEF Next, Server, Agent

--------------------------------------------------------------------------------
(* The admin group of the Mac.                                                  *)

\* What every step but a run leaves as it was.
MacKept == /\ JobsKept /\ UNCHANGED <<req, admin, last>>
           /\ \A j \in JobId : hist'[j].ok = hist[j].ok /\ hist'[j].swapped = hist[j].swapped

LEMMA OutsideRuns ==
  ASSUME TypeOK, Next \/ UNCHANGED vars
  PROVE  \/ Api \/ AutoRevoke \/ MacKept
         \/ \E j \in todo, ok \in BOOLEAN : RunJob(j, ok)
<1>1. ASSUME Server \/ Agent \/ UNCHANGED vars
      PROVE  JobsKept /\ UNCHANGED req
  BY <1>1, OutsideApi DEF requests
<1>2. ASSUME NEW p \in Poll, PollCrash(p)
      PROVE  MacKept
  <2>1. JobsKept /\ UNCHANGED req
    BY <1>1, <1>2 DEF Server
  <2>2. UNCHANGED <<admin, last>>
    BY <1>2 DEF PollCrash, mac
  <2> QED BY <1>2, <2>1, <2>2, CrashFacts DEF MacKept
<1>3. ASSUME NEW p \in Poll, SelectJobs(p) \/ ReplyPoll(p) \/ CommitPoll(p) \/ AgentPoll(p)
      PROVE  MacKept
  <2>1. JobsKept /\ UNCHANGED req
    BY <1>1, <1>3 DEF Server, Agent
  <2>2. UNCHANGED <<admin, last, hist>>
    BY <1>3 DEF SelectJobs, ReplyPoll, CommitPoll, AgentPoll, mac
  <2> QED BY <2>1, <2>2 DEF MacKept
<1>4. ASSUME NEW m \in results, StoreResult(m) \/ LoseResult(m)
      PROVE  MacKept
  <2>1. JobsKept /\ UNCHANGED req
    BY <1>1, <1>4 DEF Server
  <2>2. UNCHANGED <<admin, last, hist>>
    BY <1>4 DEF StoreResult, LoseResult, mac
  <2> QED BY <2>1, <2>2 DEF MacKept
<1>5. ASSUME AgentTimeout \/ AgentCrash \/ ReportUsers \/ UNCHANGED vars
      PROVE  MacKept
  <2>1. JobsKept /\ UNCHANGED req
    BY <1>1, <1>5 DEF Agent
  <2>2. UNCHANGED <<admin, last, hist>>
    BY <1>5 DEF AgentTimeout, AgentCrash, ReportUsers, mac, vars
  <2> QED BY <2>1, <2>2 DEF MacKept
<1> QED BY <1>2, <1>3, <1>4, <1>5 DEF Next, Server, Agent

\* What a run does to the admin group.
LEMMA RunOnMac ==
  ASSUME TypeOK, NEW j \in todo, NEW ok \in BOOLEAN, RunJob(j, ok)
  PROVE  /\ j \in JobId /\ UNCHANGED <<jobs, req>> /\ JobId' = JobId
         /\ \A k \in JobId : k # j => hist'[k] = hist[k]
         /\ hist'[j].ok <=> hist[j].ok \/ ok
         /\ hist'[j].swapped <=> hist[j].swapped \/ OutOfOrder(j)
         /\ ~ok => admin' = admin
         /\ ok /\ jobs[j].kind = "add" => admin' = admin \cup {Of(j)}
         /\ ok /\ jobs[j].kind = "remove" => admin' = admin \ {Of(j)}
         /\ last' = IF ok THEN [last EXCEPT ![Of(j)] = j] ELSE last
<1>1. j \in JobId
  BY DEF TypeOK
<1>2. UNCHANGED <<jobs, req>> /\ JobId' = JobId
  BY DEF RunJob, requests, JobId
<1>3. /\ ~ok => admin' = admin
      /\ ok /\ jobs[j].kind = "add" => admin' = admin \cup {Of(j)}
      /\ ok /\ jobs[j].kind = "remove" => admin' = admin \ {Of(j)}
      /\ last' = IF ok THEN [last EXCEPT ![Of(j)] = j] ELSE last
  BY DEF RunJob
<1> QED BY <1>1, <1>2, <1>3, RunFacts

\* Jobs that never ran succeeded and disordered nothing.
LEMMA SwappedStays ==
  ASSUME TypeOK, CreatedInv, [Next]_vars, NEW a, Swapped(a)
  PROVE  Swapped(a)'
<1>1. PICK j \in JobId : Of(j) = a /\ hist[j].swapped
  BY DEF Swapped
<1>2. CASE Api \/ AutoRevoke
  BY <1>1, <1>2, ApiGrows DEF JobsGrown, Swapped, Of
<1>3. CASE MacKept
  BY <1>1, <1>3 DEF MacKept, JobsKept, Swapped, Of
<1>4. ASSUME NEW i \in todo, NEW ok \in BOOLEAN, RunJob(i, ok)
      PROVE  Swapped(a)'
  BY <1>1, <1>4, RunOnMac DEF Swapped, Of
<1> QED BY <1>2, <1>3, <1>4, OutsideRuns

\* An account becomes admin by a run that succeeds, and stops by a later one, or by one
\* that came out of order.
LEMMA AdminStep ==
  ASSUME TypeOK, CreatedInv, ResultInv, AdminInv, [Next]_vars
  PROVE  AdminInv'
<1> DEFINE Elevated(a) == \E j \in JobId :
               /\ Of(j) = a /\ jobs[j].kind = "add" /\ hist[j].ok
               /\ \A k \in JobId : k > j /\ Of(k) = a /\ jobs[k].kind = "remove" => ~hist[k].ok
<1> SUFFICES ASSUME NEW a \in admin', ~Swapped(a)'
             PROVE  Elevated(a)'
  BY DEF AdminInv
<1>1. ~Swapped(a)
  BY SwappedStays
<1>2. a \in admin => \E j \in JobId :
               /\ Of(j) = a /\ jobs[j].kind = "add" /\ hist[j].ok
               /\ \A k \in JobId : k > j /\ Of(k) = a /\ jobs[k].kind = "remove" => ~hist[k].ok
  BY <1>1 DEF AdminInv
<1>3. CASE Api \/ AutoRevoke
  <2>1. JobsGrown /\ admin' = admin
    BY <1>3, ApiGrows
  <2>2. PICK j \in JobId :
               /\ Of(j) = a /\ jobs[j].kind = "add" /\ hist[j].ok
               /\ \A k \in JobId : k > j /\ Of(k) = a /\ jobs[k].kind = "remove" => ~hist[k].ok
    BY <1>2, <2>1
  <2>3. \A k \in JobId' : k \notin JobId => ~hist'[k].ok
    BY <2>1 DEF JobsGrown, Untouched
  <2>4. j \in JobId' /\ Of(j)' = a /\ jobs'[j].kind = "add" /\ hist'[j].ok
    BY <2>1, <2>2 DEF JobsGrown, Of
  <2>5. \A k \in JobId' : k > j /\ Of(k)' = a /\ jobs'[k].kind = "remove" => ~hist'[k].ok
    BY <2>1, <2>2, <2>3 DEF JobsGrown, Of
  <2> QED BY <2>4, <2>5
<1>4. CASE MacKept
  <2>1. /\ admin' = admin /\ JobId' = JobId
        /\ \A k \in JobId : /\ Of(k)' = Of(k) /\ jobs'[k].kind = jobs[k].kind
                            /\ hist'[k].ok = hist[k].ok
    BY <1>4 DEF MacKept, JobsKept, Of
  <2>2. PICK j \in JobId :
             /\ Of(j) = a /\ jobs[j].kind = "add" /\ hist[j].ok
             /\ \A k \in JobId : k > j /\ Of(k) = a /\ jobs[k].kind = "remove" => ~hist[k].ok
    BY <1>2, <2>1
  <2>3. j \in JobId' /\ Of(j)' = a /\ jobs'[j].kind = "add" /\ hist'[j].ok
    BY <2>1, <2>2
  <2>4. \A k \in JobId' : k > j /\ Of(k)' = a /\ jobs'[k].kind = "remove" => ~hist'[k].ok
    BY <2>1, <2>2
  <2> QED BY <2>3, <2>4
<1>5. ASSUME NEW i \in todo, NEW ok \in BOOLEAN, RunJob(i, ok)
      PROVE  Elevated(a)'
  <2>1. i \in JobId /\ jobs[i].kind \in {"add", "remove"} /\ jobs[i].req \in Request
    BY <1>5, RunOnMac, Rows DEF JobRec
  <2>2. /\ UNCHANGED jobs /\ JobId' = JobId /\ \A k \in JobId : Of(k)' = Of(k)
        /\ \A k \in JobId : k # i => hist'[k] = hist[k]
        /\ hist'[i].ok <=> hist[i].ok \/ ok
        /\ OutOfOrder(i) => hist'[i].swapped
        /\ ~ok => admin' = admin
        /\ ok /\ jobs[i].kind = "add" => admin' = admin \cup {Of(i)}
        /\ ok /\ jobs[i].kind = "remove" => admin' = admin \ {Of(i)}
    BY <1>5, RunOnMac DEF Of
  <2>3. CASE ok /\ jobs[i].kind = "add" /\ a = Of(i)
    <3>1. ~OutOfOrder(i)
      BY <2>1, <2>2, <2>3 DEF Swapped
    <3>2. \A k \in JobId : k > i /\ Of(k) = a /\ jobs[k].kind = "remove" => ~hist[k].ok
      BY <2>3, <3>1 DEF OutOfOrder, ResultInv
    <3>3. \A k \in JobId' : k > i /\ Of(k)' = a /\ jobs'[k].kind = "remove" => ~hist'[k].ok
      BY <2>2, <2>3, <3>2
    <3>4. i \in JobId' /\ Of(i)' = a /\ jobs'[i].kind = "add" /\ hist'[i].ok
      BY <2>1, <2>2, <2>3
    <3> QED BY <3>3, <3>4
  <2>4. CASE ~(ok /\ jobs[i].kind = "add" /\ a = Of(i))
    <3>1. a \in admin /\ (ok /\ jobs[i].kind = "remove" => Of(i) # a)
      BY <2>1, <2>2, <2>4
    <3>2. PICK j \in JobId :
               /\ Of(j) = a /\ jobs[j].kind = "add" /\ hist[j].ok
               /\ \A k \in JobId : k > j /\ Of(k) = a /\ jobs[k].kind = "remove" => ~hist[k].ok
      BY <1>2, <3>1
    <3>3. j \in JobId' /\ Of(j)' = a /\ jobs'[j].kind = "add" /\ hist'[j].ok
      BY <2>2, <3>2
    <3>4. \A k \in JobId' : k > j /\ Of(k)' = a /\ jobs'[k].kind = "remove" => ~hist'[k].ok
      BY <2>2, <3>1, <3>2
    <3> QED BY <3>3, <3>4
  <2> QED BY <2>3, <2>4
<1> QED BY <1>3, <1>4, <1>5, OutsideRuns

\* A grant stays in effect: the removal that takes it away is of another request or out of order.
LEMMA GrantStep ==
  ASSUME TypeOK, CreatedInv, RequestInv, RequestInv', ResultInv, GrantInEffect, [Next]_vars
  PROVE  GrantInEffect'
<1> DEFINE Latest(j) == \A k \in JobId : k > j /\ jobs[k].kind = "add" => jobs[k].req # jobs[j].req
           By(k, j)  == /\ k \in JobId /\ jobs[k].kind = "remove"
                        /\ jobs[k].req # jobs[j].req \/ hist[k].swapped
           Taken(j)  == By(last[Of(j)], j)
<1>1. \A j \in JobId : jobs[j].kind = "add" /\ hist[j].ok /\ req[jobs[j].req] = "approved" /\ Latest(j)
          => Of(j) \in admin \/ Taken(j)
  BY DEF GrantInEffect, Elevates
<1> SUFFICES ASSUME NEW j \in JobId', jobs'[j].kind = "add", hist'[j].ok,
                    req'[jobs'[j].req] = "approved", Latest(j)'
             PROVE  Of(j)' \in admin' \/ Taken(j)'
  BY DEF GrantInEffect, Elevates
<1>2. CASE Api \/ AutoRevoke
  <2>1. JobsGrown /\ UNCHANGED <<admin, last>>
    BY <1>2, ApiGrows
  <2>2. j \in JobId /\ jobs'[j] = jobs[j] /\ hist[j].ok /\ jobs[j].req \in Request
    BY <2>1, Rows DEF JobsGrown, Untouched, JobRec
  <2>3. Latest(j)
    BY <2>1, <2>2 DEF JobsGrown
  <2>4. req[jobs[j].req] = "approved"
    <3>1. CASE req'[jobs[j].req] = req[jobs[j].req]
      BY <2>2, <3>1
    <3>2. ASSUME NEW h \in Handler, Approve(h), decision[h].req = jobs[j].req
          PROVE  FALSE
      <4>1. Inserted("add", {jobs[j].req})
        BY <3>2, ApproveInserts
      <4>2. PICK i \in JobId' \ JobId : jobs'[i].req = jobs[j].req /\ jobs'[i].kind = "add" /\ j < i
        BY <2>2, <4>1 DEF Inserted
      <4> QED BY <2>1, <2>2, <4>2 DEF JobsGrown
    <3>3. ASSUME NEW h \in Handler, Revoke(h) \/ Deny(h)
          PROVE  req'[jobs[j].req] = req[jobs[j].req]
      BY <2>2, <3>3 DEF Revoke, Deny, Decide, TypeOK
    <3>4. ASSUME NEW h \in Handler, Approve(h), decision[h].req # jobs[j].req
          PROVE  req'[jobs[j].req] = req[jobs[j].req]
      BY <2>2, <3>4 DEF Approve, Decide, TypeOK
    <3>5. ASSUME NEW r \in Request, CreateRequest(r) \/ Expire(r)
          PROVE  req'[jobs[j].req] = req[jobs[j].req]
      BY <2>2, <3>5 DEF CreateRequest, Expire, TypeOK
    <3>6. ASSUME NEW w \in Worker, FindExpired(w) \/ RevokeExpired(w) \/ RevokeFails(w)
          PROVE  req'[jobs[j].req] = req[jobs[j].req]
      BY <2>2, <3>6 DEF FindExpired, RevokeExpired, RevokeFails, TypeOK
    <3>7. ASSUME NEW h \in Handler, NEW r \in Request, NEW op, Load(h, op, r)
          PROVE  req'[jobs[j].req] = req[jobs[j].req]
      BY <3>7 DEF Load
    <3> QED BY <1>2, <3>1, <3>2, <3>3, <3>4, <3>5, <3>6, <3>7 DEF Api, AutoRevoke
  <2>5. Of(j) \in admin \/ Taken(j)
    BY <1>1, <2>2, <2>3, <2>4
  <2>6. Of(j)' = Of(j)
    BY <2>2 DEF Of
  <2>7. Taken(j) => Taken(j)'
    <3>1. last'[Of(j)'] = last[Of(j)]
      BY <2>1, <2>6
    <3>2. ASSUME NEW k, By(k, j)
          PROVE  By(k, j)'
      BY <2>1, <2>2, <3>2 DEF JobsGrown
    <3> QED BY <3>1, <3>2
  <2> QED BY <2>1, <2>5, <2>6, <2>7
<1>3. CASE MacKept
  <2>1. j \in JobId /\ Of(j)' = Of(j) /\ admin' = admin
    BY <1>3 DEF MacKept, JobsKept, Of
  <2>2. Of(j) \in admin \/ Taken(j)
    BY <1>1, <1>3 DEF MacKept, JobsKept
  <2>3. Taken(j) => Taken(j)'
    <3>1. last'[Of(j)'] = last[Of(j)]
      BY <1>3, <2>1 DEF MacKept
    <3>2. ASSUME NEW k, By(k, j)
          PROVE  By(k, j)'
      BY <1>3, <2>1, <3>2 DEF MacKept, JobsKept
    <3> QED BY <3>1, <3>2
  <2> QED BY <2>1, <2>2, <2>3
<1>4. ASSUME NEW i \in todo, NEW ok \in BOOLEAN, RunJob(i, ok)
      PROVE  Of(j)' \in admin' \/ Taken(j)'
  <2>1. i \in JobId /\ jobs[i].kind \in {"add", "remove"} /\ j \in JobId /\ jobs[j].req \in Request
        /\ JobId \subseteq Nat
    BY <1>4, RunOnMac, Rows DEF JobRec
  <2>2. /\ UNCHANGED <<jobs, req>> /\ JobId' = JobId /\ \A k \in JobId : Of(k)' = Of(k)
        /\ \A k \in JobId : k # i => hist'[k] = hist[k]
        /\ hist'[i].ok <=> hist[i].ok \/ ok
        /\ hist'[i].swapped <=> hist[i].swapped \/ OutOfOrder(i)
        /\ ~ok => admin' = admin
        /\ ok /\ jobs[i].kind = "add" => admin' = admin \cup {Of(i)}
        /\ ok /\ jobs[i].kind = "remove" => admin' = admin \ {Of(i)}
        /\ last' = IF ok THEN [last EXCEPT ![Of(i)] = i] ELSE last
    BY <1>4, RunOnMac DEF Of
  <2>3. /\ Of(j) \in Account /\ Of(j)' = Of(j)
        /\ last'[Of(j)] = IF ok /\ Of(i) = Of(j) THEN i ELSE last[Of(j)]
    <3>1. Of(j) \in Account /\ last \in [Account -> JobId \cup {0}]
      BY <2>1, AccountOfAssumption DEF Of, TypeOK
    <3> QED BY <2>1, <2>2, <3>1
  <2>4. CASE ok /\ jobs[i].kind = "remove" /\ Of(i) = Of(j)
    <3>1. jobs[i].req # jobs[j].req \/ hist'[i].swapped
      <4>1. SUFFICES ASSUME jobs[i].req = jobs[j].req
                     PROVE  OutOfOrder(i)
        BY <2>2
      <4>2. hist[j].ok /\ req[jobs[j].req] = "approved" /\ Latest(j)
        BY <2>1, <2>2, <2>4
      <4>3. PICK g \in JobId :
              /\ jobs[g].kind = "add" /\ jobs[g].req = jobs[j].req
              /\ \A k \in JobId : jobs[k].kind = "remove" /\ jobs[k].req = jobs[j].req => k < g
        BY <2>1, <4>2 DEF RequestInv
      <4>4. i < g /\ ~(g > j)
        BY <2>1, <2>4, <4>1, <4>2, <4>3
      <4>5. j > i
        BY <2>1, <4>4
      <4>6. hist[j].ran > 0
        BY <2>1, <4>2 DEF ResultInv
      <4> QED BY <2>1, <2>4, <4>5, <4>6 DEF OutOfOrder
    <3>2. By(i, j)'
      BY <2>1, <2>2, <2>4, <3>1
    <3> QED BY <2>3, <2>4, <3>2
  <2>5. CASE ok /\ jobs[i].kind = "add" /\ Of(i) = Of(j)
    BY <2>1, <2>2, <2>3, <2>5
  <2>6. CASE ~(ok /\ Of(i) = Of(j))
    <3>1. hist[j].ok /\ req[jobs[j].req] = "approved" /\ Latest(j)
      BY <2>1, <2>2, <2>6
    <3>2. Of(j) \in admin \/ Taken(j)
      BY <1>1, <2>1, <2>2, <3>1
    <3>3. Of(j) \in admin => Of(j) \in admin'
      BY <2>1, <2>2, <2>6
    <3>4. last'[Of(j)'] = last[Of(j)]
      BY <2>3, <2>6
    <3>5. ASSUME NEW k, By(k, j)
          PROVE  By(k, j)'
      BY <2>1, <2>2, <3>5
    <3> QED BY <2>3, <3>2, <3>3, <3>4, <3>5
  <2> QED BY <2>1, <2>4, <2>5, <2>6
<1> QED BY <1>2, <1>3, <1>4, OutsideRuns

--------------------------------------------------------------------------------
(* The theorems.                                                                *)

LEMMA InitIInv == Init => IInv
<1> SUFFICES ASSUME Init PROVE IInv
  OBVIOUS
<1>1. JobId = {} /\ jobs \in Seq(JobRec) /\ hist \in Seq(HistRec) /\ Len(hist) = Len(jobs)
  BY DEF Init, JobId
<1>2. TypeOK
  BY <1>1, PollAssumption DEF Init, TypeOK, JobRec, HistRec, Status
<1>3. Created = {}
  BY DEF Init, Created
<1>4. CreatedInv
  BY <1>1, <1>3, FS_EmptySet DEF Init, CreatedInv
<1>5. PollInv
  BY DEF Init, PollInv, Holding
<1> QED BY <1>1, <1>2, <1>4, <1>5
        DEF Init, IInv, RequestInv, DispatchInv, ResultInv, ResultIsTrue, AdminInv, GrantInEffect

LEMMA NextIInv == IInv /\ [Next]_vars => IInv'
<1> SUFFICES ASSUME IInv, [Next]_vars PROVE IInv'
  OBVIOUS
<1>1. TypeOK' /\ CreatedInv' /\ RequestInv'
  BY TypeStep, CreatedStep, RequestStep DEF IInv
<1>2. PollInv' /\ DispatchInv' /\ ResultInv' /\ ResultIsTrue'
  BY PollStep, DispatchStep, ResultStep DEF IInv
<1>3. AdminInv' /\ GrantInEffect'
  BY <1>1, AdminStep, GrantStep DEF IInv
<1> QED BY <1>1, <1>2, <1>3 DEF IInv

\* The inductive invariant holds of every reachable state.
THEOREM Invariance == Spec => []IInv
BY InitIInv, NextIInv, PTL DEF Spec

\* Every variable has its type.
THEOREM TypeCorrect == Spec => []TypeOK
<1>1. IInv => TypeOK
  BY DEF IInv
<1> QED BY Invariance, <1>1, PTL

\* A job runs as root once, and again only after a poll that was rolled back when its
\* response had left, however many polls overlap and in whichever order they commit.
THEOREM RunsOnce == Spec => []DispatchedOnce
<1>1. IInv => DispatchedOnce
  <2> SUFFICES ASSUME IInv, NEW j \in JobId
               PROVE  hist[j].ran <= 1 + hist[j].undone
    BY DEF DispatchedOnce
  <2>1. hist[j].ran \in Nat /\ hist[j].undone \in Nat
    BY Rows DEF IInv, HistRec
  <2> QED BY <2>1 DEF IInv, DispatchInv, Count
<1> QED BY Invariance, <1>1, PTL

\* A completed job succeeded on the Mac and a settled one ran there.
THEOREM ResultsAreTrue == Spec => []ResultIsTrue
<1>1. IInv => ResultIsTrue
  BY DEF IInv
<1> QED BY Invariance, <1>1, PTL

\* Neither a poll nor another result overwrites the status of a settled job.
THEOREM SettlesOnce == Spec => JobSettledOnce
<1>1. IInv /\ [Next]_vars =>
        [\A j \in JobId :
            jobs[j].status \in {"completed", "failed"} /\ hist[j].undone = 0 =>
                jobs'[j].status = jobs[j].status]_vars
  BY ResultStep DEF IInv, Settled
<1> QED BY Invariance, <1>1, PTL DEF Spec, JobSettledOnce

\* Whoever is admin on the Mac has a grant in force, or one of the listed ways to lose a
\* revocation has happened: an elevation that nothing undid belongs to a request that is
\* approved, denied after all, or revoked by a job that has not succeeded.
THEOREM AdminsAccounted == Spec => []AdminAccounted
<1>1. IInv => AdminAccounted
  <2> SUFFICES ASSUME IInv, NEW a \in admin, ~Swapped(a)
               PROVE  \/ \E r \in Request : AccountOf[r] = a /\ req[r] = "approved"
                      \/ \E j \in JobId : Of(j) = a /\ jobs[j].kind = "remove" /\ ~hist[j].ok
                      \/ \E j \in JobId : Of(j) = a /\ jobs[j].kind = "add" /\ req[jobs[j].req] = "denied"
    BY DEF AdminAccounted
  <2>1. PICK j \in JobId :
           /\ Of(j) = a /\ jobs[j].kind = "add" /\ hist[j].ok
           /\ \A k \in JobId : k > j /\ Of(k) = a /\ jobs[k].kind = "remove" => ~hist[k].ok
    BY DEF IInv, AdminInv
  <2> DEFINE r == jobs[j].req
  <2>2. r \in Request /\ req[r] \in {"approved", "denied", "revoked"} /\ AccountOf[r] = a
    BY <2>1, Rows DEF IInv, RequestInv, JobRec, Of
  <2>3. CASE req[r] = "revoked"
    <3>1. PICK k \in JobId : jobs[k].kind = "remove" /\ jobs[k].req = r /\ j < k
      BY <2>1, <2>2, <2>3 DEF IInv, RequestInv
    <3>2. Of(k) = a
      BY <2>2, <3>1 DEF Of
    <3>3. k > j
      BY <3>1, Rows DEF IInv
    <3> QED BY <2>1, <3>1, <3>2, <3>3
  <2> QED BY <2>1, <2>2, <2>3
<1> QED BY Invariance, <1>1, PTL

\* A grant in force whose latest elevation ran is in effect, unless the job that changed the
\* account last is a removal for another request, or one that came after a later job.
THEOREM GrantsInEffect == Spec => []GrantInEffect
<1>1. IInv => GrantInEffect
  BY DEF IInv
<1> QED BY Invariance, <1>1, PTL
================================================================================
