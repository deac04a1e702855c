---------------------------- MODULE SessionsProofs -----------------------------
(***************************************************************************)
(* Proofs about Sessions, for any users, processes and handlers and any    *)
(* bounds on tokens, secrets, links, requests and failures.                *)
(***************************************************************************)
EXTENDS Sessions, SequenceTheorems, FiniteSetTheorems, TLAPS

--------------------------------------------------------------------------------
(* The inductive invariant, in parts.                                           *)

\* Every validation under way will find room for its token.
Validating == {h \in Handler : request[h].op = "validate"}
RoomInv    == IsFiniteSet(Validating) /\ Len(tokens) + Cardinality(Validating) <= MaxTokens

\* A link that served is used up.
UseInv ==
    /\ Len(resetsBy) = Len(resets)
    /\ \A k \in ResetId : resetsBy[k] > 0 => resets[k].used
    /\ \A h \in Handler : request[h].op = "reset" => request[h].fresh

\* Where the answer waits for the commit, a token was given for a revoked one.
OnceInv ==
    CommitBeforeReply =>
        PendingOnce /\ \A i \in TokenId : tokens[i].from # 0 => tokens[i].from \in blocklist

\* A look-up that did not find the token in the cache had found it unrevoked.
CheckInv == \A h \in Handler : request[h].op = "check" => request[h].hit \/ request[h].clean

\* The secret of a set-up that is not committed is new: nobody has it or has seen it.
SetupInv ==
    \A h \in Handler : request[h].op = "setup" =>
        /\ request[h].secret <= secrets
        /\ \A u \in User : account[u].secret # request[h].secret /\ app[u] # request[h].secret
        /\ \A i \in Handler : request[i].op \in {"setup", "shown"} /\ i # h => request[i].secret # request[h].secret
        /\ \A i \in Handler : request[i].op = "enable" => request[i].saw.secret # request[h].secret

\* One that was answered is with its user at most, who is locked, and scanned it if that
\* matters; nobody is checked with it yet.
ShownInv ==
    \A h \in Handler : request[h].op = "shown" =>
        LET u == request[h].user
            s == request[h].secret
        IN  /\ ~CommitBeforeReply /\ s <= secrets
            /\ \A v \in User : account[v].secret # s /\ (v # u => app[v] # s)
            /\ \A i \in Handler : request[i].op = "shown" /\ i # h => request[i].secret # s /\ request[i].user # u
            /\ \A i \in Handler : request[i].op = "enable" => request[i].saw.secret # s
            /\ account[u].enabled => app[u] = s \/ u \in crossed

\* What exists was counted when it was made.
SecretInv ==
    /\ \A u \in User : account[u].secret <= secrets /\ app[u] <= secrets
    /\ \A h \in Handler : request[h].op = "enable" => request[h].saw.secret <= secrets

\* Whoever is about to enable the second factor has the secret, if it is still the same.
EnableInv ==
    \A h \in Handler : request[h].op = "enable" =>
        LET u == request[h].user
            s == request[h].saw.secret
        IN  s # 0 /\ (account[u].secret = s => app[u] = s \/ Locked(u) \/ u \in crossed)

IInv == /\ TypeOK /\ RoomInv /\ UseInv /\ OnceInv /\ CheckInv
        /\ SetupInv /\ ShownInv /\ SecretInv /\ EnableInv /\ SingleUse /\ SecondFactorWorks

--------------------------------------------------------------------------------
(* The operators the model is built from.                                       *)

TokenRec == [user : User, kind : {"access", "pending", "portal"}, from : 0..MaxTokens]
ResetRec == [user : User, used : BOOLEAN]

\* What a request holds depends on its operation.
LEMMA OperationFacts ==
  ASSUME NEW q \in Operation
  PROVE  /\ q.op \in {"validate", "validated", "logout"} => q.token \in TokenId
         /\ q.op = "check" => /\ q.proc \in Process /\ q.token \in TokenId /\ q.goal \in Goal
                              /\ q.hit \in BOOLEAN /\ q.clean \in BOOLEAN
         /\ q.op \in {"setup", "shown"} => q.user \in User /\ q.secret \in 1..MaxSecrets
         /\ q.op \in {"enable", "disable"} => q.user \in User /\ q.saw \in Factor
         /\ q.op = "reset" => q.link \in ResetId /\ q.fresh \in BOOLEAN
BY DEF Operation, Free

\* It stays meaningful when tokens and links are added.
LEMMA OperationGrows ==
  ASSUME TokenId \subseteq TokenId', ResetId \subseteq ResetId'
  PROVE  Operation \subseteq Operation'
BY DEF Operation

\* The sequences are functions over their identifiers.
LEMMA Rows ==
  ASSUME TypeOK
  PROVE  /\ Len(tokens) \in Nat /\ TokenId = 1..Len(tokens) /\ tokens \in [TokenId -> TokenRec]
         /\ Len(resets) \in Nat /\ ResetId = 1..Len(resets) /\ resets \in [ResetId -> ResetRec]
         /\ Len(resetsBy) \in Nat /\ resetsBy \in [1..Len(resetsBy) -> Nat]
<1>1. tokens \in Seq(TokenRec) /\ resets \in Seq(ResetRec) /\ resetsBy \in Seq(Nat)
  BY DEF TypeOK, TokenRec, ResetRec
<1> QED BY <1>1, LenProperties DEF TokenId, ResetId

\* A new token changes none there is.
LEMMA IssueFacts ==
  ASSUME TypeOK, NEW u \in User, NEW kind \in {"access", "pending", "portal"},
         NEW from \in 0..MaxTokens, Issue(u, kind, from)
  PROVE  /\ tokens' \in Seq(TokenRec) /\ Len(tokens') = Len(tokens) + 1
         /\ TokenId' = 1..(Len(tokens) + 1) /\ TokenId \subseteq TokenId'
         /\ \A i \in TokenId : tokens'[i] = tokens[i]
         /\ tokens'[Len(tokens) + 1].from = from
<1> DEFINE t == [user |-> u, kind |-> kind, from |-> from]
<1>1. t \in TokenRec /\ t.from = from /\ tokens \in Seq(TokenRec)
  BY DEF TokenRec, TypeOK
<1>2. tokens' = Append(tokens, t)
  BY DEF Issue
<1> HIDE DEF t
<1>3. /\ tokens' \in Seq(TokenRec) /\ Len(tokens') = Len(tokens) + 1
      /\ \A i \in 1..Len(tokens) : tokens'[i] = tokens[i]
      /\ tokens'[Len(tokens) + 1] = t
  BY <1>1, <1>2, AppendProperties
<1>4. TokenId' = 1..(Len(tokens) + 1) /\ TokenId = 1..Len(tokens) /\ Len(tokens) \in Nat
  BY <1>1, <1>3, LenProperties DEF TokenId
<1> QED BY <1>1, <1>3, <1>4

\* A new link is unused.
LEMMA ForgotFacts ==
  ASSUME TypeOK, NEW u \in User, ForgotPassword(u)
  PROVE  /\ resets' \in Seq(ResetRec) /\ Len(resets') = Len(resets) + 1
         /\ resetsBy' \in Seq(Nat) /\ Len(resetsBy') = Len(resetsBy) + 1
         /\ ResetId' = 1..(Len(resets) + 1) /\ ResetId \subseteq ResetId'
         /\ \A k \in ResetId : resets'[k] = resets[k]
         /\ \A k \in 1..Len(resetsBy) : resetsBy'[k] = resetsBy[k]
         /\ resetsBy'[Len(resetsBy) + 1] = 0
<1> DEFINE r == [user |-> u, used |-> FALSE]
<1>1. r \in ResetRec /\ resets \in Seq(ResetRec) /\ resetsBy \in Seq(Nat)
  BY DEF ResetRec, TypeOK
<1>2. resets' = Append(resets, r) /\ resetsBy' = Append(resetsBy, 0)
  BY DEF ForgotPassword
<1> HIDE DEF r
<1>3. /\ resets' \in Seq(ResetRec) /\ Len(resets') = Len(resets) + 1
      /\ \A k \in 1..Len(resets) : resets'[k] = resets[k]
  BY <1>1, <1>2, AppendProperties
<1>4. /\ resetsBy' \in Seq(Nat) /\ Len(resetsBy') = Len(resetsBy) + 1
      /\ \A k \in 1..Len(resetsBy) : resetsBy'[k] = resetsBy[k]
      /\ resetsBy'[Len(resetsBy) + 1] = 0
  BY <1>1, <1>2, AppendProperties
<1>5. ResetId' = 1..(Len(resets) + 1) /\ ResetId = 1..Len(resets) /\ Len(resets) \in Nat
  BY <1>1, <1>3, LenProperties DEF ResetId
<1> QED BY <1>3, <1>4, <1>5

\* A reset uses its link up and counts.
LEMMA ResetFacts ==
  ASSUME TypeOK, UseInv, NEW h \in Handler, CommitReset(h)
  PROVE  LET k == request[h].link
         IN  /\ k \in ResetId /\ ResetId' = ResetId
             /\ resets' \in Seq(ResetRec) /\ resetsBy' \in Seq(Nat)
             /\ Len(resets') = Len(resets) /\ Len(resetsBy') = Len(resetsBy)
             /\ resets'[k].used /\ resetsBy'[k] = resetsBy[k] + 1
             /\ \A i \in ResetId \ {k} : resets'[i] = resets[i] /\ resetsBy'[i] = resetsBy[i]
<1> DEFINE k == request[h].link
           r == [resets[k] EXCEPT !.used = TRUE]
<1>1. request[h] \in Operation /\ request[h].op = "reset"
  BY DEF TypeOK, CommitReset, Finish
<1>2. k \in ResetId
  BY <1>1, OperationFacts
<1>3. /\ resets \in Seq(ResetRec) /\ resetsBy \in Seq(Nat) /\ Len(resetsBy) = Len(resets)
      /\ ResetId = 1..Len(resets)
  BY LenProperties DEF ResetId, TypeOK, ResetRec, UseInv
<1>4. resets[k] \in ResetRec /\ resetsBy[k] \in Nat
  BY <1>2, <1>3, ElementOfSeq
<1>5. r \in ResetRec /\ r.used
  BY <1>4 DEF ResetRec
<1>6. resets' = [resets EXCEPT ![k] = r] /\ resetsBy' = [resetsBy EXCEPT ![k] = resetsBy[k] + 1]
  BY DEF CommitReset
<1> HIDE DEF k, r
<1>7. /\ resets' \in Seq(ResetRec) /\ Len(resets') = Len(resets)
      /\ \A i \in ResetId : resets'[i] = IF i = k THEN r ELSE resets[i]
  BY <1>2, <1>3, <1>5, <1>6, ExceptSeq
<1>8. /\ resetsBy' \in Seq(Nat) /\ Len(resetsBy') = Len(resetsBy)
      /\ \A i \in ResetId : resetsBy'[i] = IF i = k THEN resetsBy[k] + 1 ELSE resetsBy[i]
  BY <1>2, <1>3, <1>4, <1>6, ExceptSeq
<1>9. ResetId' = ResetId
  BY <1>3, <1>7, LenProperties DEF ResetId
<1> QED BY <1>2, <1>5, <1>7, <1>8, <1>9 DEF k

--------------------------------------------------------------------------------
(* Type correctness.                                                            *)

\* What a handler takes up or puts down has a type.
LEMMA HeldType ==
  ASSUME TypeOK, TokenId \subseteq TokenId', ResetId \subseteq ResetId',
         NEW h \in Handler, NEW q \in Operation', request' = [request EXCEPT ![h] = q]
  PROVE  request' \in [Handler -> Operation']
<1>1. request \in [Handler -> Operation] /\ Operation \subseteq Operation'
  BY OperationGrows DEF TypeOK
<1> QED BY <1>1

LEMMA FreeType == Free \in Operation
BY DEF Operation

\* Requests that only read, and rollbacks.
LEMMA ReadType ==
  ASSUME TypeOK, UNCHANGED <<jwts, factor, links>>,
         NEW h \in Handler, NEW q \in Operation, Begin(h, q) \/ (q = Free /\ Abandon(h))
  PROVE  TypeOK'
<1>1. TokenId' = TokenId /\ ResetId' = ResetId /\ Operation' = Operation
  BY DEF jwts, links, TokenId, ResetId, Operation, Free
<1>2. request' \in [Handler -> Operation']
  BY <1>1, HeldType DEF Begin, Hold, Abandon
<1>3. begun' \in 0..MaxRequests /\ faults' \in 0..MaxFaults
  <2>1. CASE Begin(h, q)
    BY <2>1, HandlersAssumption DEF Begin, Arrives, TypeOK
  <2>2. CASE Abandon(h)
    BY <2>2, HandlersAssumption DEF Abandon, Fault, TypeOK
  <2> QED BY <2>1, <2>2
<1> QED BY <1>1, <1>2, <1>3 DEF TypeOK, jwts, factor, links

LEMMA AtOnceType ==
  ASSUME TypeOK, AtOnce
  PROVE  begun' \in 0..MaxRequests /\ faults' \in 0..MaxFaults /\ request' = request
BY HandlersAssumption DEF AtOnce, Arrives, TypeOK

\* A token handed out at once.
LEMMA SignInType ==
  ASSUME TypeOK, Bounds, RoomInv, NEW u \in User,
         Login(u) \/ SsoCallback(u) \/ PortalCallback(u)
  PROVE  TypeOK'
<1>1. PICK kind \in {"access", "pending", "portal"} : Issue(u, kind, 0)
  BY DEF Login, SsoCallback, PortalCallback
<1>2. AtOnce /\ Room /\ UNCHANGED <<blocklist, cache, unrevoked, factor, links>>
  BY DEF Login, SsoCallback, PortalCallback
<1>3. 0 \in 0..MaxTokens
  BY DEF Bounds
<1>4. tokens' \in Seq(TokenRec) /\ Len(tokens') = Len(tokens) + 1 /\ TokenId \subseteq TokenId'
  BY <1>1, <1>3, IssueFacts
<1>5. Len(tokens') <= MaxTokens
  <2>1. Len(tokens) + Cardinality(Validating) < MaxTokens
    BY <1>2 DEF Room, Validating
  <2>2. Cardinality(Validating) \in Nat /\ Len(tokens) \in Nat
    BY FS_CardinalityType, Rows DEF RoomInv
  <2> QED BY <1>4, <2>1, <2>2 DEF Bounds
<1>6. UNCHANGED <<account, app, secrets, crossed, resets, resetsBy, doubled>>
  BY <1>2 DEF factor, links
<1>7. begun' \in 0..MaxRequests /\ faults' \in 0..MaxFaults /\ request' = request
  BY <1>2, AtOnceType
<1>8. ResetId' = ResetId
  BY <1>6 DEF ResetId
<1>9. request' \in [Handler -> Operation']
  BY <1>4, <1>7, <1>8, OperationGrows DEF TypeOK
<1>10. unrevoked' \subseteq TokenId'
  BY <1>2, <1>4 DEF TypeOK
<1> QED BY <1>2, <1>4, <1>5, <1>6, <1>7, <1>8, <1>9, <1>10 DEF TypeOK, TokenRec

\* What a route that was admitted holds next, and the secret it made.
LEMMA AdmitFacts ==
  ASSUME TypeOK, Bounds, NEW h \in Handler, Admit(h)
  PROVE  LET q == request[h]
             u == tokens[q.token].user
         IN  /\ q.op = "check" /\ q.proc \in Process /\ q.token \in TokenId /\ u \in User
             /\ request' = [request EXCEPT ![h] = request'[h]] /\ request'[h] \in Operation
             /\ \/ request'[h] = Free
                \/ request'[h] = [op |-> "logout", token |-> q.token]
                \/ secrets < MaxSecrets /\ request'[h] = [op |-> "setup", user |-> u, secret |-> secrets + 1]
                \/ Verifies(u) /\ request'[h] = [op |-> "enable", user |-> u, saw |-> account[u]]
                \/ request'[h] = [op |-> "disable", user |-> u, saw |-> account[u]]
             /\ secrets' = IF request'[h].op = "setup" THEN secrets + 1 ELSE secrets
             /\ secrets' \in 0..MaxSecrets
             /\ request'[h].op \in {"none", "logout", "setup", "enable", "disable"}
             /\ cache'[q.proc] \subseteq IF q.hit THEN cache[q.proc] ELSE cache[q.proc] \cup {q.token}
             /\ \A p \in Process \ {q.proc} : cache'[p] = cache[p]
             /\ cache' \in [Process -> SUBSET TokenId]
<1> DEFINE q == request[h]
           u == tokens[q.token].user
           Confirmed == IF q.hit THEN cache[q.proc] ELSE cache[q.proc] \cup {q.token}
<1>1. q \in Operation /\ q.op = "check"
  BY DEF TypeOK, Admit
<1>2. q.proc \in Process /\ q.token \in TokenId
  BY <1>1, OperationFacts
<1>3. u \in User
  BY <1>2, Rows DEF TokenRec
<1>4. account[u] \in Factor /\ secrets \in 0..MaxSecrets
  BY <1>3 DEF TypeOK
<1>5. PICK n \in {Free, Route(q, u)} : request' = [request EXCEPT ![h] = n]
  BY DEF Admit
<1>6. request'[h] = n
  BY <1>5 DEF TypeOK
<1>7. \/ n = Free
      \/ n = [op |-> "logout", token |-> q.token]
      \/ secrets < MaxSecrets /\ n = [op |-> "setup", user |-> u, secret |-> secrets + 1]
      \/ Verifies(u) /\ n = [op |-> "enable", user |-> u, saw |-> account[u]]
      \/ n = [op |-> "disable", user |-> u, saw |-> account[u]]
  BY <1>5 DEF Route
<1>8. n \in Operation
  <2>1. [op |-> "logout", token |-> q.token] \in Operation
    BY <1>2 DEF Operation
  <2>2. secrets < MaxSecrets => [op |-> "setup", user |-> u, secret |-> secrets + 1] \in Operation
    <3>1. secrets < MaxSecrets => secrets + 1 \in 1..MaxSecrets
      BY <1>4 DEF Bounds
    <3> QED BY <1>3, <3>1 DEF Operation
  <2>3. \A op \in {"enable", "disable"} : [op |-> op, user |-> u, saw |-> account[u]] \in Operation
    BY <1>3, <1>4 DEF Operation
  <2> QED BY <1>7, <2>1, <2>2, <2>3, FreeType
<1>9. /\ cache' = [cache EXCEPT ![q.proc] = cache'[q.proc]]
      /\ cache'[q.proc] \subseteq Confirmed
  BY <1>2 DEF Admit, TypeOK
<1>10. Confirmed \subseteq TokenId /\ cache \in [Process -> SUBSET TokenId]
  BY <1>2 DEF TypeOK
<1>11. secrets' = IF request'[h].op = "setup" THEN secrets + 1 ELSE secrets
  BY DEF Admit
<1>12. secrets' \in 0..MaxSecrets
  <2>1. n.op = "setup" => secrets < MaxSecrets
    BY <1>7 DEF Free
  <2> HIDE DEF q, u
  <2> QED BY <1>4, <1>6, <1>11, <2>1 DEF Bounds
<1>13. n.op \in {"none", "logout", "setup", "enable", "disable"}
  BY <1>7 DEF Free
<1> HIDE DEF Confirmed
<1>14. /\ \A p \in Process \ {q.proc} : cache'[p] = cache[p]
       /\ cache' \in [Process -> SUBSET TokenId]
  BY <1>2, <1>9, <1>10
<1> QED BY <1>1, <1>2, <1>3, <1>5, <1>6, <1>7, <1>8, <1>9, <1>11, <1>12, <1>13, <1>14
       DEF Confirmed

\* A validation has room for its token.
LEMMA ValidateFacts ==
  ASSUME TypeOK, Bounds, RoomInv, NEW h \in Handler, request[h].op \in {"validate", "validated"}
  PROVE  LET t == request[h].token
         IN  /\ t \in TokenId /\ TokenId = 1..Len(tokens) /\ Len(tokens) \in Nat
             /\ tokens[t].user \in User /\ t \in 1..MaxTokens
             /\ request[h].op = "validate" => Len(tokens) + 1 <= MaxTokens
<1> DEFINE t == request[h].token
<1>1. request[h] \in Operation
  BY DEF TypeOK
<1>2. t \in TokenId /\ TokenId = 1..Len(tokens) /\ Len(tokens) \in Nat
  BY <1>1, OperationFacts, Rows
<1>3. tokens[t].user \in User /\ t \in 1..MaxTokens
  <2>1. tokens[t] \in TokenRec
    BY <1>2, Rows
  <2>2. Len(tokens) <= MaxTokens
    BY DEF TypeOK
  <2> QED BY <1>2, <2>1, <2>2 DEF TokenRec, Bounds
<1>4. ASSUME request[h].op = "validate"
      PROVE  Len(tokens) + 1 <= MaxTokens
  <2>1. Cardinality(Validating) \in Nat
    BY FS_CardinalityType DEF RoomInv
  <2>2. Cardinality(Validating) # 0
    <3>1. h \in Validating
      BY <1>4 DEF Validating
    <3> QED BY <3>1, FS_EmptySet DEF RoomInv
  <2> QED BY <1>2, <2>1, <2>2 DEF RoomInv, Bounds
<1> QED BY <1>2, <1>3, <1>4

LEMMA ValidateType ==
  ASSUME TypeOK, Bounds, RoomInv, NEW h \in Handler, ReplyValidate(h) \/ CommitValidate(h)
  PROVE  TypeOK'
<1> DEFINE t == request[h].token
<1>1. /\ request[h] \in Operation /\ request[h].op \in {"validate", "validated"}
      /\ tokens' # tokens => request[h].op = "validate"
  BY DEF TypeOK, ReplyValidate, CommitValidate, Finish, Reply, Due
<1>2. t \in TokenId /\ TokenId = 1..Len(tokens) /\ Len(tokens) \in Nat
  BY <1>1, ValidateFacts
<1>3. tokens[t].user \in User /\ t \in 0..MaxTokens
  BY <1>1, ValidateFacts DEF Bounds
<1>4. blocklist' \subseteq TokenId /\ (tokens' = tokens \/ Issue(tokens[t].user, "access", t))
  <2>1. CASE ReplyValidate(h)
    BY <2>1 DEF ReplyValidate, TypeOK
  <2>2. CASE CommitValidate(h)
    BY <1>2, <2>2 DEF CommitValidate, TypeOK
  <2> QED BY <2>1, <2>2
<1>5. tokens' \in Seq(TokenRec) /\ Len(tokens') <= MaxTokens /\ TokenId \subseteq TokenId'
      /\ blocklist' \subseteq TokenId
  <2>1. CASE tokens' = tokens
    BY <1>4, <2>1 DEF TypeOK, TokenRec, TokenId
  <2>2. CASE tokens' # tokens
    <3>1. Issue(tokens[t].user, "access", t) /\ Len(tokens) + 1 <= MaxTokens
      BY <1>1, <1>4, <2>2, ValidateFacts
    <3> QED BY <1>2, <1>3, <1>4, <3>1, IssueFacts
  <2> QED BY <2>1, <2>2
<1>6. UNCHANGED <<begun, faults, cache, unrevoked, account, app, secrets, crossed, resets, resetsBy, doubled>>
  BY DEF ReplyValidate, CommitValidate, Finish, Reply, factor, links
<1>7. ResetId' = ResetId
  BY <1>6 DEF ResetId
<1>8. request' \in [Handler -> Operation']
  <2>1. Free \in Operation'
    BY DEF Operation
  <2>2. [op |-> "validated", token |-> t] \in Operation'
    BY <1>2, <1>5 DEF Operation
  <2> QED BY <1>5, <1>7, <2>1, <2>2, HeldType DEF ReplyValidate, CommitValidate, Finish, Reply
<1>9. unrevoked' \subseteq TokenId'
  BY <1>5, <1>6 DEF TypeOK
<1> QED BY <1>5, <1>6, <1>7, <1>8, <1>9 DEF TypeOK, TokenRec

\* Every step preserves the types.
LEMMA TypeStep ==
  ASSUME TypeOK, Bounds, RoomInv, UseInv, SetupInv, [Next]_vars
  PROVE  TypeOK'
<1> DEFINE Ids == TokenId' = TokenId /\ ResetId' = ResetId /\ Operation' = Operation
<1>1. ASSUME UNCHANGED <<tokens, resets>>
      PROVE  Ids
  BY <1>1 DEF TokenId, ResetId, Operation, Free
<1>2. ASSUME NEW h \in Handler, NEW op, Finish(h, op), Ids
      PROVE  /\ request' \in [Handler -> Operation'] /\ begun' = begun /\ faults' = faults
             /\ request[h] \in Operation /\ request[h].op = op
  BY <1>2, FreeType, HeldType DEF Finish, TypeOK
<1>3. ASSUME NEW u \in User, Login(u) \/ SsoCallback(u) \/ PortalCallback(u)
      PROVE  TypeOK'
  BY <1>3, SignInType
<1>4. ASSUME NEW u \in User, ForgotPassword(u)
      PROVE  TypeOK'
  <2>1. UNCHANGED <<tokens, blocklist, cache, unrevoked, account, app, secrets, crossed, doubled>> /\ AtOnce
    BY <1>4 DEF ForgotPassword, jwts, factor
  <2>2. TokenId' = TokenId
    BY <2>1 DEF TokenId
  <2>3. /\ resets' \in Seq(ResetRec) /\ resetsBy' \in Seq(Nat) /\ ResetId \subseteq ResetId'
    BY <1>4, ForgotFacts
  <2>4. begun' \in 0..MaxRequests /\ faults' \in 0..MaxFaults /\ request' = request
    BY <2>1, AtOnceType
  <2>5. request' \in [Handler -> Operation']
    BY <2>2, <2>3, <2>4, OperationGrows DEF TypeOK
  <2> QED BY <2>1, <2>2, <2>3, <2>4, <2>5 DEF TypeOK, ResetRec
<1>5. ASSUME NEW u \in User, SetStatus(u)
      PROVE  TypeOK'
  <2>1. UNCHANGED <<tokens, blocklist, cache, unrevoked, app, secrets, crossed, resets, resetsBy, doubled>> /\ AtOnce
    BY <1>5 DEF SetStatus, jwts, links
  <2>2. begun' \in 0..MaxRequests /\ faults' \in 0..MaxFaults /\ request' = request
    BY <2>1, AtOnceType
  <2>3. account' \in [User -> Factor]
    BY <1>5 DEF SetStatus, TypeOK, Factor
  <2> QED BY <1>1, <2>1, <2>2, <2>3 DEF TypeOK
<1>6. ASSUME NEW h \in Handler, NEW t \in TokenId, LoadValidate(h, t)
      PROVE  TypeOK'
  <2>1. [op |-> "validate", token |-> t] \in Operation
    BY DEF Operation
  <2> QED BY <1>6, <2>1, ReadType DEF LoadValidate
<1>7. ASSUME NEW h \in Handler, NEW p \in Process, NEW t \in TokenId, NEW goal \in Goal, LookUp(h, p, t, goal)
      PROVE  TypeOK'
  <2>1. [op |-> "check", proc |-> p, token |-> t, goal |-> goal, hit |-> t \in cache[p],
         clean |-> t \notin blocklist] \in Operation
    BY DEF Operation
  <2> QED BY <1>7, <2>1, ReadType DEF LookUp
<1>8. ASSUME NEW h \in Handler, NEW k \in ResetId, LoadReset(h, k)
      PROVE  TypeOK'
  <2>1. resets[k].used \in BOOLEAN
    BY Rows DEF ResetRec
  <2>2. [op |-> "reset", link |-> k, fresh |-> ~resets[k].used] \in Operation
    BY <2>1 DEF Operation
  <2> QED BY <1>8, <2>2, ReadType DEF LoadReset
<1>9. ASSUME NEW h \in Handler, RequestFails(h)
      PROVE  TypeOK'
  <2>1. Abandon(h) /\ UNCHANGED <<tokens, blocklist, cache, account, app, secrets, resets, resetsBy, doubled>>
    BY <1>9 DEF RequestFails, links
  <2>2. Ids /\ request[h] \in Operation
    BY <1>1, <2>1 DEF TypeOK
  <2>3. unrevoked' \subseteq TokenId /\ crossed' \subseteq User
    BY <1>9, <2>2, OperationFacts DEF RequestFails, TypeOK
  <2>4. request' \in [Handler -> Operation'] /\ begun' \in 0..MaxRequests /\ faults' \in 0..MaxFaults
    BY <2>1, <2>2, FreeType, HeldType, HandlersAssumption DEF Abandon, Fault, TypeOK
  <2> QED BY <2>1, <2>2, <2>3, <2>4 DEF TypeOK
<1>10. ASSUME NEW h \in Handler, Admit(h)
       PROVE  TypeOK'
  <2>1. UNCHANGED <<begun, faults, tokens, blocklist, unrevoked, account, app, crossed, resets, resetsBy, doubled>>
    BY <1>10 DEF Admit, links
  <2>2. Ids
    BY <1>1, <2>1
  <2>3. /\ request' = [request EXCEPT ![h] = request'[h]] /\ request'[h] \in Operation'
        /\ cache' \in [Process -> SUBSET TokenId]
    BY <1>10, <2>2, AdmitFacts
  <2>4. request' \in [Handler -> Operation']
    BY <2>2, <2>3 DEF TypeOK
  <2>5. secrets' \in 0..MaxSecrets
    BY <1>10, AdmitFacts
  <2> QED BY <2>1, <2>2, <2>3, <2>4, <2>5 DEF TypeOK
<1>11. ASSUME NEW h \in Handler, ReplyValidate(h) \/ CommitValidate(h)
       PROVE  TypeOK'
  BY <1>11, ValidateType
<1>12. ASSUME NEW h \in Handler, CommitLogout(h)
       PROVE  TypeOK'
  <2>1. UNCHANGED <<tokens, cache, unrevoked, account, app, secrets, crossed, resets, resetsBy, doubled>>
    BY <1>12 DEF CommitLogout, factor, links
  <2>2. Ids /\ blocklist' = blocklist \cup {request[h].token} /\ Finish(h, "logout")
    BY <1>1, <1>12, <2>1 DEF CommitLogout
  <2>3. request[h].token \in TokenId
    BY <1>2, <2>2, OperationFacts
  <2> QED BY <1>2, <2>1, <2>2, <2>3 DEF TypeOK
<1>13. ASSUME NEW h \in Handler, CommitReset(h)
       PROVE  TypeOK'
  <2>1. UNCHANGED <<tokens, blocklist, cache, unrevoked, account, app, secrets, crossed>> /\ Finish(h, "reset")
    BY <1>13 DEF CommitReset, jwts, factor
  <2>2. /\ request[h].link \in ResetId /\ ResetId' = ResetId
        /\ resets' \in Seq(ResetRec) /\ resetsBy' \in Seq(Nat)
    BY <1>13, ResetFacts
  <2>3. TokenId' = TokenId
    BY <2>1 DEF TokenId
  <2>4. Ids
    BY <2>2, <2>3 DEF Operation, Free
  <2>5. doubled' \subseteq ResetId
    BY <1>13, <2>2 DEF CommitReset, TypeOK
  <2> QED BY <1>2, <2>1, <2>2, <2>4, <2>5 DEF TypeOK, ResetRec
<1>14. ASSUME NEW h \in Handler, ReplySetup(h) \/ CommitSetup(h)
       PROVE  TypeOK'
  <2>1. UNCHANGED <<begun, faults, tokens, blocklist, cache, unrevoked, secrets, resets, resetsBy, doubled>>
    BY <1>14 DEF ReplySetup, CommitSetup, Finish, Reply, jwts, links
  <2>2. Ids
    BY <1>1, <2>1
  <2>3. /\ request[h] \in Operation /\ request[h].op \in {"setup", "shown"}
        /\ ReplySetup(h) => request[h].op = "setup"
    BY <1>14 DEF ReplySetup, CommitSetup, Finish, Reply, Due, TypeOK
  <2>4. request[h].user \in User /\ request[h].secret \in 1..MaxSecrets /\ request[h].secret \in 0..MaxSecrets
    BY <2>3, OperationFacts DEF Bounds
  <2>5. account' \in [User -> Factor]
    <3>1. account' = account \/ account' = [account EXCEPT ![request[h].user].secret = request[h].secret]
      BY <1>14 DEF ReplySetup, CommitSetup
    <3> QED BY <2>4, <3>1 DEF TypeOK, Factor
  <2>6. app' \in [User -> 0..MaxSecrets] /\ crossed' \subseteq User
    <3>1. (app' = app /\ crossed' = crossed) \/ Scan(request[h].user, request[h].secret)
      BY <1>14 DEF ReplySetup, CommitSetup
    <3> QED BY <2>4, <3>1 DEF Scan, TypeOK
  <2>7. [request[h] EXCEPT !.op = "shown"] \in Operation \/ CommitSetup(h)
    BY <1>14, <2>3 DEF Operation, Free
  <2>8. request' \in [Handler -> Operation']
    BY <1>14, <2>2, <2>7, FreeType, HeldType DEF ReplySetup, CommitSetup, Finish, Reply
  <2> QED BY <2>1, <2>2, <2>5, <2>6, <2>8 DEF TypeOK
<1>15. ASSUME NEW h \in Handler, NEW op \in {"enable", "disable"},
              Finish(h, op), crossed' = Crossing(request[h]), UNCHANGED <<app, secrets, jwts, links>>,
              account' \in [User -> Factor]
       PROVE  TypeOK'
  <2>1. UNCHANGED <<tokens, blocklist, cache, unrevoked, app, secrets, resets, resetsBy, doubled>>
    BY <1>15 DEF jwts, links
  <2>2. Ids
    BY <1>1, <2>1
  <2>3. request[h].user \in User
    BY <1>2, <1>15, <2>2, OperationFacts
  <2>4. crossed' \subseteq User
    BY <1>15, <2>3 DEF Crossing, TypeOK
  <2> QED BY <1>2, <1>15, <2>1, <2>2, <2>4 DEF TypeOK
<1>16. ASSUME NEW h \in Handler, CommitEnable(h)
       PROVE  TypeOK'
  <2>1. account' \in [User -> Factor]
    BY <1>16 DEF CommitEnable, TypeOK, Factor
  <2> QED BY <1>15, <1>16, <2>1 DEF CommitEnable
<1>17. ASSUME NEW h \in Handler, CommitDisable(h)
       PROVE  TypeOK'
  <2>1. account' \in [User -> Factor]
    <3> DEFINE u == request[h].user
    <3>1. Finish(h, "disable") /\ account' = [account EXCEPT ![u].enabled = FALSE, ![u].secret = 0]
          /\ UNCHANGED <<jwts, links>>
      BY <1>17 DEF CommitDisable
    <3>2. u \in User
      <4>1. request[h] \in Operation /\ request[h].op = "disable"
        BY <3>1 DEF Finish, TypeOK
      <4> QED BY <4>1, OperationFacts
    <3> HIDE DEF u
    <3>3. account \in [User -> Factor] /\ 0 \in 0..MaxSecrets
      BY DEF TypeOK, Bounds
    <3>4. [account EXCEPT ![u].enabled = FALSE] \in [User -> Factor]
      BY <3>2, <3>3 DEF Factor
    <3> QED BY <3>1, <3>2, <3>3, <3>4 DEF Factor
  <2> QED BY <1>15, <1>17, <2>1 DEF CommitDisable
<1>18. ASSUME NEW p \in Process, NEW t \in cache[p], CacheExpires(p, t)
       PROVE  TypeOK'
  <2>1. UNCHANGED <<request, begun, faults, tokens, blocklist, unrevoked, account, app, secrets, crossed,
                    resets, resetsBy, doubled>>
    BY <1>18 DEF CacheExpires, handlers, factor, links
  <2>2. cache' \in [Process -> SUBSET TokenId]
    BY <1>18 DEF CacheExpires, TypeOK
  <2> QED BY <1>1, <2>1, <2>2 DEF TypeOK
<1>19. CASE UNCHANGED vars
  BY <1>1, <1>19 DEF vars, handlers, jwts, factor, links, TypeOK
<1> QED BY <1>3, <1>4, <1>5, <1>6, <1>7, <1>8, <1>9, <1>10, <1>11, <1>12, <1>13, <1>14, <1>16,
           <1>17, <1>18, <1>19 DEF Next, Arrivals, Proceeds

--------------------------------------------------------------------------------
(* What the steps do to the requests and to the second factor.                  *)

\* A handler takes a request up, holds what the route read, or lets it go.
Takes(h) ==
    \/ request'[h] \in {request[h], Free}
    \/ Admit(h)
    \/ request'[h].op \in {"validate", "validated"}
    \/ ReplySetup(h)
    \/ request'[h].op = "check" /\ (request'[h].hit \/ request'[h].clean)
    \/ request'[h].op = "reset" /\ request'[h].fresh

LEMMA Taken ==
  ASSUME TypeOK, Bounds, [Next]_vars, NEW h \in Handler
  PROVE  Takes(h)
<1>1. ASSUME NEW i \in Handler, NEW q, request' = [request EXCEPT ![i] = q]
      PROVE  request'[h] \in {request[h], q} /\ (i # h => request'[h] = request[h])
  BY <1>1 DEF TypeOK
<1>2. ASSUME request' = request
      PROVE  Takes(h)
  BY <1>2 DEF Takes
<1>3. ASSUME NEW u \in User,
             Login(u) \/ SsoCallback(u) \/ PortalCallback(u) \/ ForgotPassword(u) \/ SetStatus(u)
      PROVE  Takes(h)
  BY <1>2, <1>3 DEF Login, SsoCallback, PortalCallback, ForgotPassword, SetStatus, AtOnce
<1>4. ASSUME NEW i \in Handler, NEW t \in TokenId, LoadValidate(i, t)
      PROVE  Takes(h)
  <2>1. request' = [request EXCEPT ![i] = [op |-> "validate", token |-> t]]
    BY <1>4 DEF LoadValidate, Begin, Hold
  <2> QED BY <1>1, <2>1 DEF Takes
<1>5. ASSUME NEW i \in Handler, NEW p \in Process, NEW t \in TokenId, NEW goal \in Goal, LookUp(i, p, t, goal)
      PROVE  Takes(h)
  <2> DEFINE q == [op |-> "check", proc |-> p, token |-> t, goal |-> goal, hit |-> t \in cache[p],
                   clean |-> t \notin blocklist]
  <2>1. request' = [request EXCEPT ![i] = q] /\ (t \in cache[p] \/ t \notin blocklist)
    BY <1>5 DEF LookUp, Begin, Hold
  <2>2. q.op = "check" /\ (q.hit \/ q.clean)
    BY <2>1
  <2> HIDE DEF q
  <2> QED BY <1>1, <2>1, <2>2 DEF Takes
<1>6. ASSUME NEW i \in Handler, NEW k \in ResetId, LoadReset(i, k)
      PROVE  Takes(h)
  <2> DEFINE q == [op |-> "reset", link |-> k, fresh |-> ~resets[k].used]
  <2>1. request' = [request EXCEPT ![i] = q] /\ ~resets[k].used
    BY <1>6 DEF LoadReset, Begin, Hold
  <2>2. q.op = "reset" /\ q.fresh
    BY <2>1
  <2> HIDE DEF q
  <2> QED BY <1>1, <2>1, <2>2 DEF Takes
<1>7. ASSUME NEW i \in Handler, Admit(i)
      PROVE  Takes(h)
  <2>1. request' = [request EXCEPT ![i] = request'[i]]
    BY <1>7, AdmitFacts
  <2> QED BY <1>1, <1>7, <2>1 DEF Takes
<1>8. ASSUME NEW i \in Handler, request' = [request EXCEPT ![i] = Free]
      PROVE  Takes(h)
  BY <1>1, <1>8 DEF Takes
<1>9. ASSUME NEW i \in Handler,
             \/ CommitValidate(i) \/ CommitLogout(i) \/ CommitReset(i)
             \/ CommitSetup(i) \/ CommitEnable(i) \/ CommitDisable(i) \/ RequestFails(i)
      PROVE  Takes(h)
  BY <1>8, <1>9 DEF CommitValidate, CommitLogout, CommitReset, CommitSetup, CommitEnable, CommitDisable,
                    RequestFails, Finish, Abandon
<1>10. CASE UNCHANGED vars
  BY <1>2, <1>10 DEF vars, handlers
<1>11. CASE \E p \in Process : \E t \in cache[p] : CacheExpires(p, t)
  BY <1>2, <1>11 DEF CacheExpires, handlers
<1>12. CASE Arrivals
  BY <1>3, <1>4, <1>5, <1>6, <1>12 DEF Arrivals
<1>13. ASSUME NEW i \in Handler, ReplyValidate(i)
       PROVE  Takes(h)
  <2>1. request' = [request EXCEPT ![i] = [op |-> "validated", token |-> request[i].token]]
    BY <1>13 DEF ReplyValidate, Reply
  <2> QED BY <1>1, <2>1 DEF Takes
<1>14. ASSUME NEW i \in Handler, ReplySetup(i)
       PROVE  Takes(h)
  <2>1. request' = [request EXCEPT ![i] = [request[i] EXCEPT !.op = "shown"]]
    BY <1>14 DEF ReplySetup, Reply
  <2> QED BY <1>1, <1>14, <2>1 DEF Takes
<1>15. CASE \E i \in Handler : Proceeds(i) \/ RequestFails(i)
  BY <1>7, <1>9, <1>13, <1>14, <1>15 DEF Proceeds
<1> QED BY <1>10, <1>11, <1>12, <1>15 DEF Next

\* A setup that was answered.
LEMMA ShownFacts ==
  ASSUME TypeOK, NEW h \in Handler, ReplySetup(h)
  PROVE  /\ request[h].op = "setup" /\ request'[h] = [request[h] EXCEPT !.op = "shown"]
         /\ request'[h].op = "shown" /\ request'[h].user = request[h].user
         /\ request'[h].secret = request[h].secret
<1>1. request[h] \in Operation /\ request[h].op = "setup"
      /\ request'[h] = [request[h] EXCEPT !.op = "shown"]
  BY DEF ReplySetup, Reply, TypeOK
<1>2. request[h] \in [op : {"setup", "shown"}, user : User, secret : 1..MaxSecrets]
  BY <1>1 DEF Operation, Free
<1> QED BY <1>1, <1>2

\* A request that was answered ends by its commit or fails.
LEMMA AnsweredKept ==
  ASSUME TypeOK, Bounds, [Next]_vars, NEW h \in Handler, request[h].op \in {"validated", "shown"}
  PROVE  \/ request'[h] = request[h]
         \/ request[h].op = "validated" /\ CommitValidate(h)
         \/ request[h].op = "shown" /\ CommitSetup(h)
         \/ RequestFails(h)
<1>1. ASSUME NEW i \in Handler, NEW q, request' = [request EXCEPT ![i] = q]
      PROVE  i # h => request'[h] = request[h]
  BY <1>1 DEF TypeOK
<1>2. CASE request' = request
  BY <1>2
<1>3. ASSUME NEW u \in User,
             Login(u) \/ SsoCallback(u) \/ PortalCallback(u) \/ ForgotPassword(u) \/ SetStatus(u)
      PROVE  request' = request
  BY <1>3 DEF Login, SsoCallback, PortalCallback, ForgotPassword, SetStatus, AtOnce
<1>4. ASSUME NEW i \in Handler,
             \/ \E t \in TokenId : LoadValidate(i, t)
             \/ \E p \in Process, t \in TokenId, goal \in Goal : LookUp(i, p, t, goal)
             \/ \E k \in ResetId : LoadReset(i, k)
      PROVE  i # h /\ \E q : request' = [request EXCEPT ![i] = q]
  <2>1. ASSUME NEW q, Begin(i, q)
        PROVE  i # h /\ \E r : request' = [request EXCEPT ![i] = r]
    BY <2>1 DEF Begin, Hold
  <2> QED BY <1>4, <2>1 DEF LoadValidate, LookUp, LoadReset
<1>5. ASSUME NEW i \in Handler, Admit(i)
      PROVE  i # h /\ \E q : request' = [request EXCEPT ![i] = q]
  BY <1>5 DEF Admit
<1>6. ASSUME NEW i \in Handler, ReplyValidate(i) \/ ReplySetup(i)
      PROVE  i # h /\ \E q : request' = [request EXCEPT ![i] = q]
  BY <1>6 DEF ReplyValidate, ReplySetup, Reply
<1>7. ASSUME NEW i \in Handler, CommitLogout(i) \/ CommitReset(i) \/ CommitEnable(i) \/ CommitDisable(i)
      PROVE  i # h /\ \E q : request' = [request EXCEPT ![i] = q]
  BY <1>7 DEF CommitLogout, CommitReset, CommitEnable, CommitDisable, Finish
<1>8. ASSUME NEW i \in Handler, CommitValidate(i) \/ CommitSetup(i) \/ RequestFails(i)
      PROVE  /\ \E q : request' = [request EXCEPT ![i] = q]
             /\ CommitValidate(i) => request[i].op \in {"validate", "validated"}
             /\ CommitSetup(i) => request[i].op \in {"setup", "shown"}
  BY <1>8 DEF CommitValidate, CommitSetup, RequestFails, Finish, Due, Abandon
<1>9. CASE UNCHANGED vars \/ \E p \in Process : \E t \in cache[p] : CacheExpires(p, t)
  BY <1>2, <1>9 DEF vars, CacheExpires, handlers
<1>10. CASE Arrivals
  BY <1>1, <1>2, <1>3, <1>4, <1>10 DEF Arrivals
<1>11. CASE \E i \in Handler : Proceeds(i) \/ RequestFails(i)
  <2>1. PICK i \in Handler : Proceeds(i) \/ RequestFails(i)
    BY <1>11
  <2>2. CASE i # h
    BY <1>1, <1>5, <1>6, <1>7, <1>8, <2>1, <2>2 DEF Proceeds
  <2>3. CASE i = h
    BY <1>5, <1>6, <1>7, <1>8, <2>1, <2>3 DEF Proceeds
  <2> QED BY <2>2, <2>3
<1> QED BY <1>9, <1>10, <1>11 DEF Next

\* Accounts and authenticators change in six ways.
LEMMA FactorSteps ==
  ASSUME [Next]_vars
  PROVE  \/ UNCHANGED <<account, app, crossed>> /\ (secrets' = secrets \/ \E h \in Handler : Admit(h))
         \/ \E u \in User : SetStatus(u)
         \/ \E h \in Handler : RequestFails(h)
         \/ \E h \in Handler : ReplySetup(h) \/ CommitSetup(h) \/ CommitEnable(h) \/ CommitDisable(h)
<1>1. CASE \E u \in User : Login(u) \/ SsoCallback(u) \/ PortalCallback(u) \/ ForgotPassword(u)
  BY <1>1 DEF Login, SsoCallback, PortalCallback, ForgotPassword, factor
<1>2. CASE \E h \in Handler :
              \/ \E t \in TokenId : LoadValidate(h, t)
              \/ \E p \in Process, t \in TokenId, goal \in Goal : LookUp(h, p, t, goal)
              \/ \E k \in ResetId : LoadReset(h, k)
  BY <1>2 DEF LoadValidate, LookUp, LoadReset, factor
<1>3. CASE \E h \in Handler : ReplyValidate(h) \/ CommitValidate(h) \/ CommitLogout(h) \/ CommitReset(h)
  BY <1>3 DEF ReplyValidate, CommitValidate, CommitLogout, CommitReset, factor
<1>4. CASE \E h \in Handler : Admit(h)
  BY <1>4 DEF Admit
<1>5. CASE UNCHANGED vars \/ \E p \in Process : \E t \in cache[p] : CacheExpires(p, t)
  BY <1>5 DEF vars, CacheExpires, factor
<1> QED BY <1>1, <1>2, <1>3, <1>4, <1>5 DEF Next, Arrivals, Proceeds

\* What they do to them.
LEMMA StatusFacts ==
  ASSUME TypeOK, NEW u \in User, SetStatus(u)
  PROVE  /\ UNCHANGED <<app, secrets, crossed, request>>
         /\ \A v \in User : /\ account'[v].secret = account[v].secret
                            /\ account'[v].enabled = account[v].enabled
BY DEF SetStatus, AtOnce, TypeOK, Factor

\* The secret goes to the authenticator with the answer, which may come before the commit.
LEMMA SetupFacts ==
  ASSUME TypeOK, NEW h \in Handler, ReplySetup(h) \/ CommitSetup(h)
  PROVE  LET u == request[h].user
             s == request[h].secret
         IN  /\ request[h].op = (IF CommitSetup(h) /\ ~CommitBeforeReply THEN "shown" ELSE "setup")
             /\ u \in User /\ s \in 1..MaxSecrets /\ secrets' = secrets /\ crossed \subseteq crossed'
             /\ \A v \in User \ {u} : account'[v] = account[v] /\ app'[v] = app[v]
             /\ account'[u].enabled = account[u].enabled
             /\ IF CommitSetup(h)
                THEN account'[u].secret = s /\ request' = [request EXCEPT ![h] = Free]
                ELSE /\ ~CommitBeforeReply /\ ~Locked(u) /\ account' = account
                     /\ request' = [request EXCEPT ![h] = [request[h] EXCEPT !.op = "shown"]]
             /\ IF CommitSetup(h) /\ ~CommitBeforeReply
                THEN UNCHANGED <<app, crossed>>
                ELSE app'[u] = s \/ (app' = app /\ (account[u].enabled => u \in crossed'))
<1> DEFINE u == request[h].user
           s == request[h].secret
<1>1. request[h] \in Operation
      /\ request[h].op = (IF CommitSetup(h) /\ ~CommitBeforeReply THEN "shown" ELSE "setup")
  BY DEF TypeOK, ReplySetup, CommitSetup, Reply, Finish, Due
<1>2. u \in User /\ s \in 1..MaxSecrets
  BY <1>1, OperationFacts
<1>3. account \in [User -> Factor] /\ app \in [User -> 0..MaxSecrets]
  BY DEF TypeOK
<1>4. ASSUME Scan(u, s)
      PROVE  /\ app'[u] = s \/ (app' = app /\ (account[u].enabled => u \in crossed'))
             /\ crossed \subseteq crossed' /\ \A v \in User \ {u} : app'[v] = app[v]
  BY <1>2, <1>3, <1>4 DEF Scan
<1>5. ASSUME CommitSetup(h)
      PROVE  /\ account'[u].secret = s /\ account'[u].enabled = account[u].enabled
             /\ \A v \in User \ {u} : account'[v] = account[v]
             /\ request' = [request EXCEPT ![h] = Free] /\ secrets' = secrets
             /\ IF CommitBeforeReply THEN Scan(u, s) ELSE UNCHANGED <<app, crossed>>
  <2>1. account' = [account EXCEPT ![u].secret = s]
    BY <1>5 DEF CommitSetup
  <2>2. account'[u].secret = s /\ account'[u].enabled = account[u].enabled
        /\ \A v \in User \ {u} : account'[v] = account[v]
    BY <1>2, <1>3, <2>1 DEF Factor
  <2> QED BY <1>5, <2>2 DEF CommitSetup, Finish
<1>6. ASSUME ~CommitSetup(h)
      PROVE  /\ ~CommitBeforeReply /\ ~Locked(u) /\ Scan(u, s) /\ UNCHANGED <<account, secrets>>
             /\ request' = [request EXCEPT ![h] = [request[h] EXCEPT !.op = "shown"]]
  BY <1>6 DEF ReplySetup, Reply
<1> HIDE DEF u, s
<1>7. CASE CommitSetup(h)
  BY <1>1, <1>2, <1>4, <1>5, <1>7 DEF u, s
<1>8. CASE ~CommitSetup(h)
  BY <1>1, <1>2, <1>4, <1>6, <1>8 DEF u, s
<1> QED BY <1>7, <1>8

LEMMA EnableFacts ==
  ASSUME TypeOK, NEW h \in Handler, CommitEnable(h)
  PROVE  LET q == request[h]
             u == request[h].user
         IN  /\ q.op = "enable" /\ u \in User /\ q.saw \in Factor /\ ~Locked(u)
             /\ UNCHANGED <<app, secrets>> /\ request' = [request EXCEPT ![h] = Free]
             /\ \A v \in User : account'[v].secret = account[v].secret
             /\ crossed \subseteq crossed' /\ (account[u] # q.saw => u \in crossed')
             /\ \A v \in User \ {u} : account'[v] = account[v]
             /\ q.saw.enabled => account' = account
<1>1. request[h] \in Operation /\ request[h].op = "enable"
  BY DEF TypeOK, CommitEnable, Finish
<1>2. request[h].user \in User /\ request[h].saw \in Factor
  BY <1>1, OperationFacts
<1>3. /\ account' = IF request[h].saw.enabled THEN account
                    ELSE [account EXCEPT ![request[h].user].enabled = TRUE]
      /\ UNCHANGED <<app, secrets>> /\ request' = [request EXCEPT ![h] = Free]
      /\ crossed' = Crossing(request[h])
  BY DEF CommitEnable, Finish
<1>4. account \in [User -> Factor]
  BY DEF TypeOK
<1>5. crossed \subseteq crossed' /\ (account[request[h].user] # request[h].saw => request[h].user \in crossed')
  BY <1>3 DEF Crossing
<1>6. \A v \in User : account'[v].secret = account[v].secret
  BY <1>2, <1>3, <1>4 DEF Factor
<1>7. ~Locked(request[h].user)
  BY DEF CommitEnable
<1> QED BY <1>1, <1>2, <1>3, <1>4, <1>5, <1>6, <1>7

LEMMA DisableFacts ==
  ASSUME TypeOK, NEW h \in Handler, CommitDisable(h)
  PROVE  LET u == request[h].user
         IN  /\ request[h].op = "disable" /\ u \in User
             /\ UNCHANGED <<app, secrets>> /\ request' = [request EXCEPT ![h] = Free]
             /\ account'[u].secret = 0 /\ ~account'[u].enabled
             /\ crossed \subseteq crossed'
             /\ \A v \in User \ {u} : account'[v] = account[v]
<1>1. request[h] \in Operation /\ request[h].op = "disable"
  BY DEF TypeOK, CommitDisable, Finish
<1>2. request[h].user \in User
  BY <1>1, OperationFacts
<1>3. /\ account' = [account EXCEPT ![request[h].user].enabled = FALSE, ![request[h].user].secret = 0]
      /\ UNCHANGED <<app, secrets>> /\ request' = [request EXCEPT ![h] = Free]
      /\ crossed' = Crossing(request[h])
  BY DEF CommitDisable, Finish
<1>4. account \in [User -> Factor]
  BY DEF TypeOK
<1>5. crossed \subseteq crossed'
  BY <1>3 DEF Crossing
<1>6. account'[request[h].user].secret = 0 /\ ~account'[request[h].user].enabled
  BY <1>2, <1>3, <1>4 DEF Factor
<1>7. \A v \in User \ {request[h].user} : account'[v] = account[v]
  BY <1>3, <1>4
<1> QED BY <1>1, <1>2, <1>3, <1>5, <1>6, <1>7

--------------------------------------------------------------------------------
(* Every part of the invariant is inductive.                                    *)

LEMMA CheckStep ==
  ASSUME TypeOK, Bounds, CheckInv, [Next]_vars
  PROVE  CheckInv'
<1> SUFFICES ASSUME NEW h \in Handler, request'[h].op = "check"
             PROVE  request'[h].hit \/ request'[h].clean
  BY DEF CheckInv
<1>1. CASE request'[h] \in {request[h], Free}
  BY <1>1 DEF CheckInv, Free
<1>2. CASE Admit(h)
  <2>1. request'[h].op # "check"
    BY <1>2, AdmitFacts
  <2> QED BY <2>1
<1>3. CASE ReplySetup(h)
  BY <1>3, ShownFacts
<1> QED BY <1>1, <1>2, <1>3, Taken DEF Takes

\* The validations under way are a finite set that one step changes by one at most.
LEMMA ValidatingFacts ==
  ASSUME TypeOK, RoomInv, NEW h \in Handler, NEW q, request' = [request EXCEPT ![h] = q]
  PROVE  /\ IsFiniteSet(Validating') /\ Cardinality(Validating') \in Nat /\ Cardinality(Validating) \in Nat
         /\ Cardinality(Validating') <= Cardinality(Validating) + 1
         /\ q.op # "validate" => Cardinality(Validating') <= Cardinality(Validating)
         /\ q.op # "validate" /\ request[h].op = "validate" =>
                Cardinality(Validating') = Cardinality(Validating) - 1
<1>1. \A i \in Handler : request'[i] = IF i = h THEN q ELSE request[i]
  BY DEF TypeOK
<1>2. IsFiniteSet(Validating) /\ Cardinality(Validating) \in Nat
  BY FS_CardinalityType DEF RoomInv
<1>3. CASE q.op = "validate"
  <2>1. Validating' = Validating \cup {h}
    BY <1>1, <1>3 DEF Validating
  <2>2. /\ IsFiniteSet(Validating \cup {h})
        /\ Cardinality(Validating \cup {h}) = IF h \in Validating THEN Cardinality(Validating)
                                              ELSE Cardinality(Validating) + 1
    BY <1>2, FS_AddElement
  <2> QED BY <1>2, <1>3, <2>1, <2>2
<1>4. CASE q.op # "validate"
  <2>1. Validating' = Validating \ {h}
    BY <1>1, <1>4 DEF Validating
  <2>2. /\ IsFiniteSet(Validating \ {h})
        /\ Cardinality(Validating \ {h}) = IF h \in Validating THEN Cardinality(Validating) - 1
                                           ELSE Cardinality(Validating)
    BY <1>2, FS_RemoveElement
  <2>3. Cardinality(Validating') \in Nat
    BY <2>1, <2>2, FS_CardinalityType
  <2>4. request[h].op = "validate" => h \in Validating
    BY DEF Validating
  <2> QED BY <1>2, <1>4, <2>1, <2>2, <2>3, <2>4
<1> QED BY <1>3, <1>4

LEMMA RoomStep ==
  ASSUME TypeOK, Bounds, RoomInv, [Next]_vars
  PROVE  RoomInv'
<1>1. Len(tokens) \in Nat /\ Cardinality(Validating) \in Nat /\ MaxTokens \in Nat
  BY Rows, FS_CardinalityType DEF RoomInv, Bounds
<1>2. ASSUME request' = request, tokens' = tokens
      PROVE  RoomInv'
  <2>1. Validating' = Validating
    BY <1>2 DEF Validating
  <2> QED BY <1>2, <2>1 DEF RoomInv
<1>3. ASSUME NEW h \in Handler, NEW q, request' = [request EXCEPT ![h] = q], q.op # "validate",
             tokens' = tokens
      PROVE  RoomInv'
  <2>1. /\ IsFiniteSet(Validating') /\ Cardinality(Validating') \in Nat
        /\ Cardinality(Validating') <= Cardinality(Validating)
    BY <1>3, ValidatingFacts
  <2>2. Len(tokens) + Cardinality(Validating) <= MaxTokens
    BY DEF RoomInv
  <2>3. Len(tokens) + Cardinality(Validating') <= MaxTokens
    BY <1>1, <2>1, <2>2
  <2> QED BY <1>3, <2>1, <2>3 DEF RoomInv
<1>4. ASSUME NEW u \in User, Login(u) \/ SsoCallback(u) \/ PortalCallback(u)
      PROVE  RoomInv'
  <2>1. PICK kind \in {"access", "pending", "portal"} : Issue(u, kind, 0)
    BY <1>4 DEF Login, SsoCallback, PortalCallback
  <2>2. request' = request /\ Len(tokens) + Cardinality(Validating) < MaxTokens
    BY <1>4 DEF Login, SsoCallback, PortalCallback, AtOnce, Room, Validating
  <2>3. Validating' = Validating
    BY <2>2 DEF Validating
  <2>4. 0 \in 0..MaxTokens
    BY <1>1
  <2>5. Len(tokens') = Len(tokens) + 1
    BY <2>1, <2>4, IssueFacts
  <2> QED BY <1>1, <2>2, <2>3, <2>5 DEF RoomInv
<1>5. ASSUME NEW u \in User, ForgotPassword(u) \/ SetStatus(u)
      PROVE  RoomInv'
  BY <1>2, <1>5 DEF ForgotPassword, SetStatus, AtOnce, jwts
<1>6. ASSUME NEW h \in Handler, NEW t \in TokenId, LoadValidate(h, t)
      PROVE  RoomInv'
  <2>1. /\ request' = [request EXCEPT ![h] = [op |-> "validate", token |-> t]] /\ tokens' = tokens
        /\ Len(tokens) + Cardinality(Validating) < MaxTokens
    BY <1>6 DEF LoadValidate, Begin, Hold, jwts, Room, Validating
  <2>2. IsFiniteSet(Validating') /\ Cardinality(Validating') \in Nat
        /\ Cardinality(Validating') <= Cardinality(Validating) + 1
    BY <2>1, ValidatingFacts
  <2> QED BY <1>1, <2>1, <2>2 DEF RoomInv
<1>7. ASSUME NEW h \in Handler,
             \/ \E p \in Process, t \in TokenId, goal \in Goal : LookUp(h, p, t, goal)
             \/ \E k \in ResetId : LoadReset(h, k)
      PROVE  RoomInv'
  <2>1. \E q : q.op # "validate" /\ request' = [request EXCEPT ![h] = q]
    <3>1. CASE \E p \in Process, t \in TokenId, goal \in Goal : LookUp(h, p, t, goal)
      <4>1. PICK p \in Process, t \in TokenId, goal \in Goal : LookUp(h, p, t, goal)
        BY <3>1
      <4> DEFINE q == [op |-> "check", proc |-> p, token |-> t, goal |-> goal, hit |-> t \in cache[p],
                       clean |-> t \notin blocklist]
      <4>2. request' = [request EXCEPT ![h] = q] /\ q.op # "validate"
        BY <4>1 DEF LookUp, Begin, Hold
      <4> HIDE DEF q
      <4> QED BY <4>2
    <3>2. CASE \E k \in ResetId : LoadReset(h, k)
      <4>1. PICK k \in ResetId : LoadReset(h, k)
        BY <3>2
      <4> DEFINE q == [op |-> "reset", link |-> k, fresh |-> ~resets[k].used]
      <4>2. request' = [request EXCEPT ![h] = q] /\ q.op # "validate"
        BY <4>1 DEF LoadReset, Begin, Hold
      <4> HIDE DEF q
      <4> QED BY <4>2
    <3> QED BY <1>7, <3>1, <3>2
  <2>2. tokens' = tokens
    BY <1>7 DEF LookUp, LoadReset, jwts
  <2> QED BY <1>3, <2>1, <2>2
<1>8. ASSUME NEW h \in Handler, Admit(h)
      PROVE  RoomInv'
  <2>1. tokens' = tokens /\ request' = [request EXCEPT ![h] = request'[h]] /\ request'[h].op # "validate"
    <3>1. tokens' = tokens
      BY <1>8 DEF Admit
    <3>2. request' = [request EXCEPT ![h] = request'[h]] /\ request'[h].op # "validate"
      BY <1>8, AdmitFacts
    <3> QED BY <3>1, <3>2
  <2> QED BY <1>3, <2>1
<1>9. ASSUME NEW h \in Handler, ReplyValidate(h) \/ (CommitBeforeReply /\ CommitValidate(h))
      PROVE  RoomInv'
  <2>1. request[h].op = "validate" /\ \E q : request' = [request EXCEPT ![h] = q] /\ q.op # "validate"
    <3>1. Free.op # "validate" /\ [op |-> "validated", token |-> request[h].token].op # "validate"
      BY DEF Free
    <3> QED BY <1>9, <3>1 DEF ReplyValidate, CommitValidate, Reply, Finish, Due
  <2>2. /\ IsFiniteSet(Validating') /\ Cardinality(Validating') \in Nat
        /\ Cardinality(Validating') = Cardinality(Validating) - 1
    BY <2>1, ValidatingFacts
  <2>3. Len(tokens') \in {Len(tokens), Len(tokens) + 1}
    <3> DEFINE t == request[h].token
    <3>1. request[h] \in Operation /\ t \in TokenId
      BY <2>1, OperationFacts DEF TypeOK
    <3>2. tokens[t].user \in User /\ t \in 0..MaxTokens
      <4>1. tokens[t] \in TokenRec /\ t \in 1..Len(tokens)
        BY <3>1, Rows
      <4>2. Len(tokens) <= MaxTokens
        BY DEF TypeOK
      <4> QED BY <1>1, <4>1, <4>2 DEF TokenRec
    <3>3. tokens' = tokens \/ Issue(tokens[t].user, "access", t)
      BY <1>9 DEF ReplyValidate, CommitValidate
    <3> HIDE DEF t
    <3> QED BY <3>2, <3>3, IssueFacts
  <2> QED BY <1>1, <2>2, <2>3 DEF RoomInv
<1>10. ASSUME NEW h \in Handler,
              \/ ~CommitBeforeReply /\ CommitValidate(h)
              \/ CommitLogout(h) \/ CommitReset(h) \/ CommitSetup(h) \/ CommitEnable(h)
              \/ CommitDisable(h) \/ RequestFails(h)
       PROVE  RoomInv'
  <2>1. request' = [request EXCEPT ![h] = Free] /\ Free.op # "validate" /\ tokens' = tokens
    BY <1>10 DEF CommitValidate, CommitLogout, CommitReset, CommitSetup, CommitEnable, CommitDisable,
                 RequestFails, Finish, Abandon, Free, jwts
  <2> QED BY <1>3, <2>1
<1>14. ASSUME NEW h \in Handler, ReplySetup(h)
       PROVE  RoomInv'
  <2> DEFINE q == [request[h] EXCEPT !.op = "shown"]
  <2>1. request' = [request EXCEPT ![h] = q] /\ tokens' = tokens /\ request[h].op = "setup"
    BY <1>14 DEF ReplySetup, Reply, jwts
  <2>2. q.op # "validate"
    BY <2>1
  <2> HIDE DEF q
  <2> QED BY <1>3, <2>1, <2>2
<1>11. CASE UNCHANGED vars \/ \E p \in Process : \E t \in cache[p] : CacheExpires(p, t)
  BY <1>2, <1>11 DEF vars, handlers, jwts, CacheExpires
<1>12. CASE Arrivals
  BY <1>4, <1>5, <1>6, <1>7, <1>12 DEF Arrivals
<1>13. CASE \E h \in Handler : Proceeds(h) \/ RequestFails(h)
  BY <1>8, <1>9, <1>10, <1>13, <1>14 DEF Proceeds
<1> QED BY <1>11, <1>12, <1>13 DEF Next

\* Tokens are issued for a pending one, or for none.
LEMMA TokenSteps ==
  ASSUME TypeOK, Bounds, [Next]_vars
  PROVE  /\ blocklist \subseteq blocklist' /\ unrevoked \subseteq unrevoked'
         /\ \/ tokens' = tokens
            \/ \E u \in User, kind \in {"access", "pending", "portal"} : Issue(u, kind, 0)
            \/ \E h \in Handler :
                   /\ request[h].op = "validate"
                   /\ Issue(tokens[request[h].token].user, "access", request[h].token)
                   /\ \/ ReplyValidate(h)
                      \/ CommitBeforeReply /\ CommitValidate(h) /\ request[h].token \notin blocklist
<1>1. CASE \E u \in User : Login(u) \/ SsoCallback(u) \/ PortalCallback(u)
  BY <1>1 DEF Login, SsoCallback, PortalCallback
<1>2. CASE \E u \in User : ForgotPassword(u) \/ SetStatus(u)
  BY <1>2 DEF ForgotPassword, SetStatus, jwts
<1>3. CASE \E h \in Handler :
              \/ \E t \in TokenId : LoadValidate(h, t)
              \/ \E p \in Process, t \in TokenId, goal \in Goal : LookUp(h, p, t, goal)
              \/ \E k \in ResetId : LoadReset(h, k)
  BY <1>3 DEF LoadValidate, LookUp, LoadReset, jwts
<1>4. CASE \E h \in Handler : Admit(h) \/ CommitLogout(h) \/ RequestFails(h)
  BY <1>4 DEF Admit, CommitLogout, RequestFails
<1>5. CASE \E h \in Handler : CommitReset(h) \/ ReplySetup(h) \/ CommitSetup(h) \/ CommitEnable(h) \/ CommitDisable(h)
  BY <1>5 DEF CommitReset, ReplySetup, CommitSetup, CommitEnable, CommitDisable, jwts
<1>6. CASE \E h \in Handler : ReplyValidate(h) \/ CommitValidate(h)
  BY <1>6 DEF ReplyValidate, CommitValidate, Reply, Finish, Due
<1>7. CASE UNCHANGED vars \/ \E p \in Process : \E t \in cache[p] : CacheExpires(p, t)
  BY <1>7 DEF vars, jwts, CacheExpires
<1> QED BY <1>1, <1>2, <1>3, <1>4, <1>5, <1>6, <1>7 DEF Next, Arrivals, Proceeds

\* What the last token adds to the others.
LEMMA IssuedFrom ==
  ASSUME TypeOK, Bounds, NEW u \in User, NEW kind \in {"access", "pending", "portal"},
         NEW from \in 0..MaxTokens, Issue(u, kind, from)
  PROVE  \E n : /\ TokenId' = TokenId \cup {n} /\ tokens'[n].from = from /\ n \notin TokenId
                /\ \A i \in TokenId : tokens'[i] = tokens[i]
<1>1. /\ TokenId' = 1..(Len(tokens) + 1) /\ TokenId = 1..Len(tokens) /\ Len(tokens) \in Nat
      /\ \A i \in TokenId : tokens'[i] = tokens[i]
      /\ tokens'[Len(tokens) + 1].from = from
  BY IssueFacts, Rows
<1> QED BY <1>1

\* The token a validation holds.
LEMMA ValidatedToken ==
  ASSUME TypeOK, Bounds, NEW h \in Handler, request[h].op = "validate"
  PROVE  /\ request[h].token \in 0..MaxTokens /\ request[h].token # 0
         /\ tokens[request[h].token].user \in User
<1>1. request[h].token \in TokenId
  <2>1. request[h] \in Operation
    BY DEF TypeOK
  <2> QED BY <2>1, OperationFacts
<1>2. /\ TokenId = 1..Len(tokens) /\ Len(tokens) \in Nat /\ Len(tokens) <= MaxTokens
      /\ tokens[request[h].token] \in TokenRec
  BY <1>1, Rows DEF TypeOK
<1> QED BY <1>1, <1>2 DEF Bounds, TokenRec

\* The answer of a pending token revokes it, or the request that does is under way.
Answered(t) ==
    \/ t \in blocklist \cup unrevoked
    \/ \E h \in Handler : request[h].op = "validated" /\ request[h].token = t

Given == \A i \in TokenId : \A t : tokens[i].from = t /\ t # 0 => Answered(t)

LEMMA AnsweredStays ==
  ASSUME TypeOK, Bounds, [Next]_vars
  PROVE  \A t : Answered(t) => Answered(t)'
<1> SUFFICES ASSUME NEW t, Answered(t)
             PROVE  Answered(t)'
  OBVIOUS
<1>1. CASE t \in blocklist \cup unrevoked
  BY <1>1, TokenSteps DEF Answered
<1>2. CASE \E h \in Handler : request[h].op = "validated" /\ request[h].token = t
  <2>1. PICK h \in Handler : request[h].op = "validated" /\ request[h].token = t
    BY <1>2
  <2>2. CASE request'[h] = request[h]
    BY <2>1, <2>2 DEF Answered
  <2>3. CASE CommitValidate(h)
    BY <2>1, <2>3 DEF CommitValidate, Answered
  <2>4. CASE RequestFails(h)
    BY <2>1, <2>4 DEF RequestFails, Answered
  <2> QED BY <2>1, <2>2, <2>3, <2>4, AnsweredKept
<1> QED BY <1>1, <1>2 DEF Answered

\* Tokens, whichever comes first.
LEMMA GivenStep ==
  ASSUME TypeOK, Bounds, [Next]_vars, Given
  PROVE  Given'
<1>1. CASE tokens' = tokens
  BY <1>1, AnsweredStays DEF TokenId, Given
<1>2. ASSUME NEW u \in User, NEW kind \in {"access", "pending", "portal"}, NEW from \in 0..MaxTokens,
             Issue(u, kind, from), from # 0 => Answered(from)'
      PROVE  Given'
  <2>1. PICK n : /\ TokenId' = TokenId \cup {n} /\ tokens'[n].from = from
                 /\ \A i \in TokenId : tokens'[i] = tokens[i]
    BY <1>2, IssuedFrom
  <2> SUFFICES ASSUME NEW i \in TokenId', NEW t, tokens'[i].from = t, t # 0
               PROVE  Answered(t)'
    BY DEF Given
  <2>2. CASE i \in TokenId
    BY <2>1, <2>2, AnsweredStays DEF Given
  <2>3. CASE i = n
    BY <1>2, <2>1, <2>3
  <2> QED BY <2>1, <2>2, <2>3
<1>3. CASE \E u \in User, kind \in {"access", "pending", "portal"} : Issue(u, kind, 0)
  BY <1>2, <1>3 DEF Bounds
<1>4. ASSUME NEW h \in Handler, request[h].op = "validate",
             Issue(tokens[request[h].token].user, "access", request[h].token),
             ReplyValidate(h) \/ (CommitBeforeReply /\ CommitValidate(h))
      PROVE  Given'
  <2>0. PICK t : t = request[h].token
    OBVIOUS
  <2>1. Answered(t)'
    <3>1. CASE ReplyValidate(h)
      <4>1. request' = [request EXCEPT ![h] = [op |-> "validated", token |-> request[h].token]]
        BY <3>1 DEF ReplyValidate, Reply
      <4>2. request'[h].op = "validated" /\ request'[h].token = t
        BY <2>0, <4>1 DEF TypeOK
      <4> QED BY <4>2 DEF Answered
    <3>2. CASE CommitValidate(h)
      BY <2>0, <3>2 DEF CommitValidate, Answered
    <3> QED BY <1>4, <3>1, <3>2
  <2>2. t \in 0..MaxTokens /\ tokens[t].user \in User
    BY <1>4, <2>0, ValidatedToken
  <2>3. Issue(tokens[t].user, "access", t)
    BY <1>4, <2>0
  <2>4. PICK u \in User : u = tokens[t].user
    BY <2>2
  <2>5. Issue(u, "access", t)
    BY <2>3, <2>4 DEF Issue
  <2> HIDE <2>0
  <2> QED BY <1>2, <2>1, <2>2, <2>5
<1> QED BY <1>1, <1>3, <1>4, TokenSteps

\* With the commit first, whoever finds the pending token in the blocklist gets nothing.
LEMMA OnceStep ==
  ASSUME TypeOK, Bounds, OnceInv, [Next]_vars
  PROVE  OnceInv'
<1> SUFFICES ASSUME CommitBeforeReply
             PROVE  /\ \A i, j \in TokenId' : tokens'[i].from # 0 /\ tokens'[i].from = tokens'[j].from => i = j
                    /\ \A i \in TokenId' : tokens'[i].from # 0 => tokens'[i].from \in blocklist'
  BY DEF OnceInv, PendingOnce
<1>1. /\ \A i, j \in TokenId : tokens[i].from # 0 /\ tokens[i].from = tokens[j].from => i = j
      /\ \A i \in TokenId : tokens[i].from # 0 => tokens[i].from \in blocklist
      /\ blocklist \subseteq blocklist'
  BY TokenSteps DEF OnceInv, PendingOnce
<1>2. CASE tokens' = tokens
  BY <1>1, <1>2 DEF TokenId
<1>3. ASSUME NEW u \in User, NEW kind \in {"access", "pending", "portal"}, NEW from \in 0..MaxTokens,
             Issue(u, kind, from), from # 0 => from \notin blocklist /\ from \in blocklist'
      PROVE  /\ \A i, j \in TokenId' : tokens'[i].from # 0 /\ tokens'[i].from = tokens'[j].from => i = j
             /\ \A i \in TokenId' : tokens'[i].from # 0 => tokens'[i].from \in blocklist'
  <2>1. PICK n : /\ TokenId' = TokenId \cup {n} /\ tokens'[n].from = from
                 /\ \A i \in TokenId : tokens'[i] = tokens[i]
    BY <1>3, IssuedFrom
  <2> QED BY <1>1, <1>3, <2>1
<1>4. CASE \E u \in User, kind \in {"access", "pending", "portal"} : Issue(u, kind, 0)
  BY <1>3, <1>4 DEF Bounds
<1>5. ASSUME NEW h \in Handler, request[h].op = "validate",
             Issue(tokens[request[h].token].user, "access", request[h].token),
             CommitValidate(h), request[h].token \notin blocklist
      PROVE  /\ \A i, j \in TokenId' : tokens'[i].from # 0 /\ tokens'[i].from = tokens'[j].from => i = j
             /\ \A i \in TokenId' : tokens'[i].from # 0 => tokens'[i].from \in blocklist'
  <2>1. request[h].token \in blocklist'
    BY <1>5 DEF CommitValidate
  <2> QED BY <1>3, <1>5, <2>1, ValidatedToken
<1>6. \A h \in Handler : ~ReplyValidate(h)
  BY DEF ReplyValidate, Reply
<1> QED BY <1>2, <1>4, <1>5, <1>6, TokenSteps

\* Tokens and links.
LEMMA UseStep ==
  ASSUME TypeOK, Bounds, UseInv, SingleUse, [Next]_vars
  PROVE  UseInv' /\ SingleUse'
<1> DEFINE Served == /\ Len(resetsBy) = Len(resets)
                     /\ \A k \in ResetId : resetsBy[k] > 0 => resets[k].used
                     /\ \A k \in ResetId : resetsBy[k] > 1 => k \in doubled
<1>1. Given /\ Served
  BY DEF UseInv, SingleUse, Given, Answered
<1>2. \A h \in Handler : request'[h].op = "reset" => request'[h].fresh
  <2> SUFFICES ASSUME NEW h \in Handler, request'[h].op = "reset"
               PROVE  request'[h].fresh
    OBVIOUS
  <2>1. CASE request'[h] \in {request[h], Free}
    BY <2>1 DEF UseInv, Free
  <2>2. CASE Admit(h)
    <3>1. request'[h].op # "reset"
      BY <2>2, AdmitFacts
    <3> QED BY <3>1
  <2>3. CASE ReplySetup(h)
    BY <2>3, ShownFacts
  <2> QED BY <2>1, <2>2, <2>3, Taken DEF Takes
<1>3. Given'
  BY <1>1, GivenStep
<1>4. Served'
  <2>1. CASE UNCHANGED links
    BY <1>1, <2>1 DEF links, ResetId
  <2>2. CASE \E u \in User : ForgotPassword(u)
    <3>1. PICK u \in User : ForgotPassword(u)
      BY <2>2
    <3>2. /\ Len(resets') = Len(resets) + 1 /\ Len(resetsBy') = Len(resetsBy) + 1
          /\ ResetId' = 1..(Len(resets) + 1) /\ ResetId = 1..Len(resets) /\ Len(resets) \in Nat
          /\ \A k \in ResetId : resets'[k] = resets[k] /\ resetsBy'[k] = resetsBy[k]
          /\ resetsBy'[Len(resets) + 1] = 0
      BY <1>1, <3>1, ForgotFacts, Rows
    <3>3. doubled' = doubled
      BY <3>1 DEF ForgotPassword
    <3> QED BY <1>1, <3>2, <3>3
  <2>3. CASE \E h \in Handler : CommitReset(h)
    <3>1. PICK h \in Handler : CommitReset(h)
      BY <2>3
    <3> DEFINE k == request[h].link
    <3>2. /\ k \in ResetId /\ ResetId' = ResetId
          /\ Len(resets') = Len(resets) /\ Len(resetsBy') = Len(resetsBy)
          /\ resets'[k].used /\ resetsBy'[k] = resetsBy[k] + 1
          /\ \A i \in ResetId \ {k} : resets'[i] = resets[i] /\ resetsBy'[i] = resetsBy[i]
      BY <3>1, ResetFacts
    <3>3. request[h].fresh
      BY <3>1 DEF UseInv, CommitReset, Finish
    <3>4. doubled \subseteq doubled' /\ (resets[k].used => k \in doubled')
      BY <3>1, <3>3 DEF CommitReset
    <3>5. resetsBy[k] \in Nat
      BY <1>1, <3>2, Rows
    <3> HIDE DEF k
    <3> QED BY <1>1, <3>2, <3>4, <3>5
  <2>4. CASE \E u \in User : Login(u) \/ SsoCallback(u) \/ PortalCallback(u) \/ SetStatus(u)
    BY <2>1, <2>4 DEF Login, SsoCallback, PortalCallback, SetStatus
  <2>5. CASE \E h \in Handler :
                \/ \E t \in TokenId : LoadValidate(h, t)
                \/ \E p \in Process, t \in TokenId, goal \in Goal : LookUp(h, p, t, goal)
                \/ \E k \in ResetId : LoadReset(h, k)
    BY <2>1, <2>5 DEF LoadValidate, LookUp, LoadReset
  <2>6. CASE \E h \in Handler : \/ Admit(h) \/ ReplyValidate(h) \/ ReplySetup(h) \/ CommitValidate(h)
                                \/ CommitLogout(h) \/ CommitSetup(h) \/ CommitEnable(h) \/ CommitDisable(h)
                                \/ RequestFails(h)
    BY <2>1, <2>6 DEF Admit, ReplyValidate, ReplySetup, CommitValidate, CommitLogout, CommitSetup,
                      CommitEnable, CommitDisable, RequestFails
  <2>7. CASE UNCHANGED vars \/ \E p \in Process : \E t \in cache[p] : CacheExpires(p, t)
    BY <2>1, <2>7 DEF vars, CacheExpires
  <2> QED BY <2>2, <2>3, <2>4, <2>5, <2>6, <2>7 DEF Next, Arrivals, Proceeds
<1> QED BY <1>2, <1>3, <1>4 DEF UseInv, SingleUse, Given, Answered

\* Without an admission nobody begins to set a second factor up or to enable one.
LEMMA Kept ==
  ASSUME TypeOK, Bounds, [Next]_vars, \A h \in Handler : ~Admit(h),
         NEW h \in Handler
  PROVE  /\ request'[h].op \in {"setup", "enable"} => request'[h] = request[h]
         /\ request'[h].op = "shown" => request'[h] = request[h] \/ ReplySetup(h)
<1>1. ReplySetup(h) => request'[h].op = "shown"
  BY ShownFacts
<1> QED BY <1>1, Taken DEF Takes, Free

\* The values the second factor is about are numbers.
LEMMA FactorTypes ==
  ASSUME TypeOK, Bounds
  PROVE  /\ secrets \in Nat
         /\ \A u \in User : account[u] \in Factor /\ account[u].secret \in Nat /\ app[u] \in Nat
         /\ \A h \in Handler : /\ request[h].op \in {"setup", "shown"} =>
                                      request[h].user \in User /\ request[h].secret \in Nat \ {0}
                               /\ request[h].op = "enable" => /\ request[h].user \in User
                                                              /\ request[h].saw \in Factor
                                                              /\ request[h].saw.secret \in Nat
<1>1. secrets \in Nat /\ \A u \in User : account[u] \in Factor /\ app[u] \in Nat
  BY DEF TypeOK, Bounds
<1>2. \A a \in Factor : a.secret \in Nat
  BY DEF Factor, Bounds
<1>3. ASSUME NEW h \in Handler
      PROVE  /\ request[h].op \in {"setup", "shown"} =>
                    request[h].user \in User /\ request[h].secret \in Nat \ {0}
             /\ request[h].op = "enable" => request[h].user \in User /\ request[h].saw \in Factor
  <2>1. request[h] \in Operation
    BY DEF TypeOK
  <2> QED BY <2>1, OperationFacts DEF Bounds
<1> QED BY <1>1, <1>2, <1>3

FactorInv == SetupInv /\ ShownInv /\ SecretInv /\ EnableInv /\ SecondFactorWorks

\* A new secret is greater than every other; who begins to enable the second factor has its secret.
LEMMA AdmitStep ==
  ASSUME TypeOK, Bounds, FactorInv, NEW h \in Handler, Admit(h)
  PROVE  FactorInv'
<1> DEFINE n == request'[h]
           u == tokens[request[h].token].user
<1>1. /\ u \in User
      /\ \/ n.op = "setup" /\ n.secret = secrets + 1 /\ secrets' = secrets + 1
         \/ Verifies(u) /\ n = [op |-> "enable", user |-> u, saw |-> account[u]] /\ secrets' = secrets
         \/ n.op \notin {"setup", "shown", "enable"} /\ secrets' = secrets
      /\ request' = [request EXCEPT ![h] = n]
  <2>1. /\ u \in User
        /\ \/ n = Free
           \/ n = [op |-> "logout", token |-> request[h].token]
           \/ n = [op |-> "setup", user |-> u, secret |-> secrets + 1]
           \/ Verifies(u) /\ n = [op |-> "enable", user |-> u, saw |-> account[u]]
           \/ n = [op |-> "disable", user |-> u, saw |-> account[u]]
        /\ request' = [request EXCEPT ![h] = n]
        /\ secrets' = IF n.op = "setup" THEN secrets + 1 ELSE secrets
    BY AdmitFacts
  <2> HIDE DEF n, u
  <2>2. CASE n = Free
    BY <2>1, <2>2 DEF Free
  <2>3. CASE n = [op |-> "logout", token |-> request[h].token]
    BY <2>1, <2>3
  <2>4. CASE n = [op |-> "setup", user |-> u, secret |-> secrets + 1]
    BY <2>1, <2>4
  <2>5. CASE Verifies(u) /\ n = [op |-> "enable", user |-> u, saw |-> account[u]]
    BY <2>1, <2>5
  <2>6. CASE n = [op |-> "disable", user |-> u, saw |-> account[u]]
    BY <2>1, <2>6
  <2> QED BY <2>1, <2>2, <2>3, <2>4, <2>5, <2>6
<1>2. UNCHANGED <<account, app, crossed>>
  BY DEF Admit
<1>3. \A i \in Handler : request'[i] = IF i = h THEN n ELSE request[i]
  BY <1>1 DEF TypeOK
<1> HIDE DEF n, u
<1>4. account[u].secret \in Nat /\ secrets \in Nat
  BY <1>1, FactorTypes
<1>8. n.op # "shown" /\ request[h].op # "shown"
  BY <1>1 DEF Admit
<1>9. \A v : Locked(v)' <=> Locked(v)
  BY <1>3, <1>8 DEF Locked
<1>10. SecondFactorWorks'
  BY <1>2, <1>9 DEF FactorInv, SecondFactorWorks, Verifies
<1>5. CASE n.op = "setup" /\ n.secret = secrets + 1 /\ secrets' = secrets + 1
  <2>1. SecretInv'
    BY <1>2, <1>3, <1>5, FactorTypes DEF FactorInv, SecretInv
  <2>2. SetupInv'
    <3> SUFFICES ASSUME NEW i \in Handler, request'[i].op = "setup"
                 PROVE  /\ request'[i].secret <= secrets'
                        /\ \A v \in User : account[v].secret # request'[i].secret /\ app[v] # request'[i].secret
                        /\ \A j \in Handler : request'[j].op \in {"setup", "shown"} /\ j # i =>
                               request'[j].secret # request'[i].secret
                        /\ \A j \in Handler : request'[j].op = "enable" =>
                               request'[j].saw.secret # request'[i].secret
      BY <1>2 DEF SetupInv
    <3>1. \A j \in Handler \ {h} : /\ request[j].op \in {"setup", "shown"} => request[j].secret < secrets + 1
                                   /\ request[j].op = "enable" => request[j].saw.secret < secrets + 1
      BY <1>4, FactorTypes DEF FactorInv, SetupInv, ShownInv, SecretInv
    <3>2. \A v \in User : account[v].secret < secrets + 1 /\ app[v] < secrets + 1
      BY <1>4, FactorTypes DEF FactorInv, SecretInv
    <3>3. CASE i = h
      BY <1>3, <1>4, <1>5, <3>1, <3>2, <3>3, FactorTypes
    <3>4. CASE i # h
      BY <1>3, <1>4, <1>5, <3>1, <3>4, FactorTypes DEF FactorInv, SetupInv
    <3> QED BY <3>3, <3>4
  <2>3. EnableInv'
    BY <1>2, <1>3, <1>5, <1>9 DEF FactorInv, EnableInv
  <2>4. ShownInv'
    BY <1>2, <1>3, <1>4, <1>5, FactorTypes DEF FactorInv, ShownInv
  <2> QED BY <1>10, <2>1, <2>2, <2>3, <2>4 DEF FactorInv
<1>6. CASE Verifies(u) /\ n = [op |-> "enable", user |-> u, saw |-> account[u]] /\ secrets' = secrets
  <2>1. n.op = "enable" /\ n.user = u /\ n.saw.secret = account[u].secret /\ Verifies(u)
    BY <1>6
  <2>2. SecretInv'
    BY <1>1, <1>2, <1>3, <1>6, <2>1 DEF FactorInv, SecretInv
  <2>3. SetupInv'
    BY <1>1, <1>2, <1>3, <1>6, <2>1 DEF FactorInv, SetupInv
  <2>4. EnableInv'
    BY <1>2, <1>3, <1>9, <2>1 DEF FactorInv, EnableInv, Verifies
  <2>5. ShownInv'
    BY <1>1, <1>2, <1>3, <1>6, <2>1 DEF FactorInv, ShownInv
  <2> QED BY <1>10, <2>2, <2>3, <2>4, <2>5 DEF FactorInv
<1>7. CASE n.op \notin {"setup", "shown", "enable"} /\ secrets' = secrets
  <2>1. SecretInv'
    BY <1>2, <1>3, <1>7 DEF FactorInv, SecretInv
  <2>2. SetupInv'
    BY <1>2, <1>3, <1>7 DEF FactorInv, SetupInv
  <2>3. EnableInv'
    BY <1>2, <1>3, <1>7, <1>9 DEF FactorInv, EnableInv
  <2>4. ShownInv'
    BY <1>2, <1>3, <1>7 DEF FactorInv, ShownInv
  <2> QED BY <1>10, <2>1, <2>2, <2>3, <2>4 DEF FactorInv
<1> QED BY <1>1, <1>5, <1>6, <1>7

\* The secret of a setup leaves before it is stored.
LEMMA ReplySetupStep ==
  ASSUME TypeOK, Bounds, FactorInv, NEW h \in Handler, ReplySetup(h)
  PROVE  FactorInv'
<1> DEFINE u == request[h].user
           s == request[h].secret
<1>1. /\ u \in User /\ s \in 1..MaxSecrets /\ secrets' = secrets /\ crossed \subseteq crossed'
      /\ \A v \in User \ {u} : account'[v] = account[v] /\ app'[v] = app[v]
      /\ ~CommitSetup(h) => ~CommitBeforeReply /\ ~Locked(u) /\ account' = account
      /\ CommitSetup(h) \/ app'[u] = s \/ (app' = app /\ (account[u].enabled => u \in crossed'))
  BY SetupFacts
<1>2. /\ request[h].op = "setup" /\ request'[h].op = "shown"
      /\ request'[h].user = u /\ request'[h].secret = s
  BY ShownFacts
<1>3. ~CommitSetup(h) /\ \A i \in Handler \ {h} : request'[i] = request[i]
  <2>1. \A i \in Handler \ {h} : request'[i] = request[i]
    BY DEF ReplySetup, Reply, TypeOK
  <2>2. request'[h] # Free
    BY <1>2 DEF Free
  <2> QED BY <2>1, <2>2 DEF CommitSetup, Finish, TypeOK
<1>4. /\ s <= secrets /\ \A v \in User : account[v].secret # s /\ app[v] # s
      /\ \A i \in Handler : request[i].op \in {"setup", "shown"} /\ i # h => request[i].secret # s
      /\ \A i \in Handler : request[i].op = "enable" => request[i].saw.secret # s
  BY <1>2 DEF FactorInv, SetupInv
<1>5. \A i \in Handler : request[i].op = "shown" => request[i].user # u
  BY <1>1, <1>3 DEF Locked
<1>6. \A v : v = u \/ Locked(v) => Locked(v)'
  BY <1>2, <1>3 DEF Locked
<1> HIDE DEF u, s
<1>7. /\ account' = account /\ ~CommitBeforeReply
      /\ \A v \in User : app'[v] = app[v] \/ (v = u /\ app'[v] = s)
      /\ account[u].enabled => app'[u] = s \/ u \in crossed'
  BY <1>1, <1>3
<1>8. SecretInv'
  BY <1>1, <1>2, <1>3, <1>4, <1>7 DEF FactorInv, SecretInv
<1>9. SetupInv'
  <2> SUFFICES ASSUME NEW i \in Handler, request'[i].op = "setup"
               PROVE  /\ request'[i].secret <= secrets'
                      /\ \A v \in User : account'[v].secret # request'[i].secret /\ app'[v] # request'[i].secret
                      /\ \A j \in Handler : request'[j].op \in {"setup", "shown"} /\ j # i =>
                             request'[j].secret # request'[i].secret
                      /\ \A j \in Handler : request'[j].op = "enable" =>
                             request'[j].saw.secret # request'[i].secret
    BY DEF SetupInv
  <2>1. i # h /\ request'[i] = request[i] /\ request[i].secret # s
    BY <1>2, <1>3, <1>4
  <2> QED BY <1>1, <1>2, <1>3, <1>7, <2>1 DEF FactorInv, SetupInv
<1>10. ShownInv'
  <2> SUFFICES ASSUME NEW i \in Handler, request'[i].op = "shown"
               PROVE  /\ ~CommitBeforeReply /\ request'[i].secret <= secrets'
                      /\ \A v \in User : /\ account'[v].secret # request'[i].secret
                                         /\ v # request'[i].user => app'[v] # request'[i].secret
                      /\ \A j \in Handler : request'[j].op = "shown" /\ j # i =>
                             request'[j].secret # request'[i].secret /\ request'[j].user # request'[i].user
                      /\ \A j \in Handler : request'[j].op = "enable" =>
                             request'[j].saw.secret # request'[i].secret
                      /\ account'[request'[i].user].enabled =>
                             app'[request'[i].user] = request'[i].secret \/ request'[i].user \in crossed'
    BY DEF ShownInv
  <2>1. CASE i = h
    BY <1>1, <1>2, <1>3, <1>4, <1>5, <1>7, <2>1
  <2>2. CASE i # h
    <3>1. /\ request'[i] = request[i] /\ request[i].op = "shown" /\ request[i].user # u
          /\ request[i].secret # s /\ request[i].user \in User
      BY <1>3, <1>4, <1>5, <2>2, FactorTypes
    <3> QED BY <1>1, <1>2, <1>3, <1>7, <2>2, <3>1 DEF FactorInv, ShownInv
  <2> QED BY <2>1, <2>2
<1>11. EnableInv'
  <2> SUFFICES ASSUME NEW i \in Handler, request'[i].op = "enable", NEW w, w = request'[i].user
               PROVE  LET r == request'[i].saw.secret
                      IN  r # 0 /\ (account'[w].secret = r => app'[w] = r \/ Locked(w)' \/ w \in crossed')
    BY DEF EnableInv
  <2>1. request'[i] = request[i] /\ request[i].user \in User
    BY <1>2, <1>3, FactorTypes
  <2> QED BY <1>1, <1>6, <1>7, <2>1 DEF FactorInv, EnableInv
<1>12. SecondFactorWorks'
  BY <1>1, <1>6, <1>7 DEF FactorInv, SecondFactorWorks, Verifies
<1> QED BY <1>8, <1>9, <1>10, <1>11, <1>12 DEF FactorInv

LEMMA CommitSetupStep ==
  ASSUME TypeOK, Bounds, FactorInv, NEW h \in Handler, CommitSetup(h)
  PROVE  FactorInv'
<1> DEFINE u == request[h].user
           s == request[h].secret
<1>1. /\ u \in User /\ s \in 1..MaxSecrets /\ secrets' = secrets /\ crossed \subseteq crossed'
      /\ request[h].op = (IF CommitBeforeReply THEN "setup" ELSE "shown")
      /\ account'[u].secret = s /\ account'[u].enabled = account[u].enabled
      /\ request' = [request EXCEPT ![h] = Free]
      /\ \A v \in User \ {u} : account'[v] = account[v] /\ app'[v] = app[v]
      /\ IF CommitBeforeReply THEN app'[u] = s \/ (app' = app /\ (account[u].enabled => u \in crossed'))
                              ELSE UNCHANGED <<app, crossed>>
  BY SetupFacts
<1>2. request'[h] = Free /\ \A i \in Handler \ {h} : request'[i] = request[i]
  BY <1>1 DEF TypeOK
<1>3. \A i \in Handler : request'[i].op # "none" => i # h /\ request'[i] = request[i]
  BY <1>2 DEF Free
<1>4. /\ s # 0 /\ s <= secrets
      /\ \A i \in Handler : /\ request[i].op = "setup" /\ i # h => request[i].secret # s
                            /\ request[i].op = "shown" /\ i # h => request[i].secret # s /\ request[i].user # u
                            /\ request[i].op = "enable" => request[i].saw.secret # s
      /\ app'[u] \in {app[u], s} /\ (account[u].enabled => app'[u] = s \/ u \in crossed')
  <2>1. CASE CommitBeforeReply
    BY <1>1, <2>1 DEF FactorInv, SetupInv, ShownInv
  <2>2. CASE ~CommitBeforeReply
    BY <1>1, <2>2 DEF FactorInv, SetupInv, ShownInv
  <2> QED BY <2>1, <2>2
<1>5. \A v : Locked(v) /\ v # u => Locked(v)'
  BY <1>2 DEF Locked
<1> HIDE DEF u, s
<1>6. \A v \in User : /\ account'[v].secret = account[v].secret \/ account'[v].secret = s
                      /\ app'[v] = app[v] \/ app'[v] = s
  BY <1>1, <1>4
<1>7. SecretInv'
  BY <1>1, <1>3, <1>4, <1>6 DEF FactorInv, SecretInv
<1>8. SetupInv'
  BY <1>1, <1>3, <1>4, <1>6 DEF FactorInv, SetupInv
<1>9. ShownInv'
  <2> SUFFICES ASSUME NEW i \in Handler, request'[i].op = "shown"
               PROVE  /\ ~CommitBeforeReply /\ request'[i].secret <= secrets'
                      /\ \A v \in User : /\ account'[v].secret # request'[i].secret
                                         /\ v # request'[i].user => app'[v] # request'[i].secret
                      /\ \A j \in Handler : request'[j].op = "shown" /\ j # i =>
                             request'[j].secret # request'[i].secret /\ request'[j].user # request'[i].user
                      /\ \A j \in Handler : request'[j].op = "enable" =>
                             request'[j].saw.secret # request'[i].secret
                      /\ account'[request'[i].user].enabled =>
                             app'[request'[i].user] = request'[i].secret \/ request'[i].user \in crossed'
    BY DEF ShownInv
  <2>1. /\ i # h /\ request'[i] = request[i] /\ request[i].op = "shown"
        /\ request[i].secret # s /\ request[i].user # u /\ request[i].user \in User
    BY <1>3, <1>4, FactorTypes
  <2> QED BY <1>1, <1>3, <1>6, <2>1 DEF FactorInv, ShownInv
<1>10. EnableInv'
  <2> SUFFICES ASSUME NEW i \in Handler, request'[i].op = "enable", NEW w, w = request'[i].user
               PROVE  LET r == request'[i].saw.secret
                      IN  r # 0 /\ (account'[w].secret = r => app'[w] = r \/ Locked(w)' \/ w \in crossed')
    BY DEF EnableInv
  <2>1. request'[i] = request[i] /\ request[i].op = "enable" /\ request[i].user \in User
        /\ request[i].saw.secret # s
    BY <1>3, <1>4, FactorTypes
  <2> QED BY <1>1, <1>5, <2>1 DEF FactorInv, EnableInv
<1>11. SecondFactorWorks'
  <2> SUFFICES ASSUME NEW v \in User, account'[v].enabled
               PROVE  (account'[v].secret # 0 /\ app'[v] = account'[v].secret) \/ Locked(v)' \/ v \in crossed'
    BY DEF SecondFactorWorks, Verifies
  <2>1. CASE v = u
    BY <1>1, <1>4, <2>1
  <2>2. CASE v # u
    BY <1>1, <1>5, <2>2 DEF FactorInv, SecondFactorWorks, Verifies
  <2> QED BY <2>1, <2>2
<1> QED BY <1>7, <1>8, <1>9, <1>10, <1>11 DEF FactorInv

\* A request that is given up takes its lock with it.
LEMMA FailStep ==
  ASSUME TypeOK, Bounds, FactorInv, NEW h \in Handler, RequestFails(h)
  PROVE  FactorInv'
<1>1. /\ UNCHANGED <<account, app, secrets>> /\ crossed \subseteq crossed'
      /\ request[h].op = "shown" => request[h].user \in crossed'
      /\ request' = [request EXCEPT ![h] = Free]
  BY DEF RequestFails, Abandon
<1>2. request'[h] = Free /\ \A i \in Handler \ {h} : request'[i] = request[i]
  BY <1>1 DEF TypeOK
<1>3. \A i \in Handler : request'[i].op # "none" => request'[i] = request[i]
  BY <1>2 DEF Free
<1>4. \A v : Locked(v) => Locked(v)' \/ v \in crossed'
  BY <1>1, <1>2 DEF Locked
<1>5. SetupInv' /\ SecretInv'
  BY <1>1, <1>3 DEF FactorInv, SetupInv, SecretInv
<1>6. ShownInv'
  BY <1>1, <1>3 DEF FactorInv, ShownInv
<1>7. EnableInv' /\ SecondFactorWorks'
  BY <1>1, <1>3, <1>4 DEF FactorInv, EnableInv, SecondFactorWorks, Verifies
<1> QED BY <1>5, <1>6, <1>7 DEF FactorInv

LEMMA EnableStep ==
  ASSUME TypeOK, Bounds, FactorInv, NEW h \in Handler, CommitEnable(h)
  PROVE  FactorInv'
<1> DEFINE q == request[h]
           u == request[h].user
<1>1. /\ q.op = "enable" /\ u \in User /\ q.saw \in Factor /\ ~Locked(u)
      /\ UNCHANGED <<app, secrets>> /\ request' = [request EXCEPT ![h] = Free]
      /\ \A v \in User : account'[v].secret = account[v].secret
      /\ crossed \subseteq crossed' /\ (account[u] # q.saw => u \in crossed')
      /\ \A v \in User \ {u} : account'[v] = account[v]
  BY EnableFacts
<1>2. request'[h] = Free /\ \A i \in Handler \ {h} : request'[i] = request[i]
  BY <1>1 DEF TypeOK
<1>3. \A i \in Handler : request'[i].op # "none" => request'[i] = request[i]
  BY <1>2 DEF Free
<1>4. \A v : Locked(v) => Locked(v)'
  BY <1>1, <1>2 DEF Locked
<1>5. SecretInv' /\ SetupInv'
  BY <1>1, <1>3 DEF FactorInv, SecretInv, SetupInv
<1>6. ShownInv'
  <2>1. \A i \in Handler : request[i].op = "shown" => request[i].user \in User \ {u}
    BY <1>1, FactorTypes DEF Locked
  <2> HIDE DEF u
  <2> QED BY <1>1, <1>3, <2>1 DEF FactorInv, ShownInv
<1>7. EnableInv'
  BY <1>1, <1>3, <1>4, FactorTypes DEF FactorInv, EnableInv
<1>8. SecondFactorWorks'
  <2> SUFFICES ASSUME NEW v \in User, account'[v].enabled
               PROVE  (account'[v].secret # 0 /\ app'[v] = account'[v].secret) \/ Locked(v)' \/ v \in crossed'
    BY DEF SecondFactorWorks, Verifies
  <2>1. CASE v = u /\ account[u] = q.saw
    BY <1>1, <2>1 DEF FactorInv, EnableInv
  <2>2. CASE v = u /\ account[u] # q.saw
    BY <1>1, <2>2
  <2>3. CASE v # u
    BY <1>1, <1>4, <2>3 DEF FactorInv, SecondFactorWorks, Verifies
  <2> QED BY <2>1, <2>2, <2>3
<1> QED BY <1>5, <1>6, <1>7, <1>8 DEF FactorInv

LEMMA DisableStep ==
  ASSUME TypeOK, Bounds, FactorInv, NEW h \in Handler, CommitDisable(h)
  PROVE  FactorInv'
<1> DEFINE u == request[h].user
<1>1. /\ request[h].op = "disable" /\ u \in User
      /\ UNCHANGED <<app, secrets>> /\ request' = [request EXCEPT ![h] = Free]
      /\ account'[u].secret = 0 /\ ~account'[u].enabled
      /\ crossed \subseteq crossed'
      /\ \A v \in User \ {u} : account'[v] = account[v]
  BY DisableFacts
<1>2. request'[h] = Free /\ \A i \in Handler \ {h} : request'[i] = request[i]
  BY <1>1 DEF TypeOK
<1>3. \A i \in Handler : request'[i].op # "none" => request'[i] = request[i]
  BY <1>2 DEF Free
<1>4. \A v : Locked(v) => Locked(v)'
  BY <1>1, <1>2 DEF Locked
<1> HIDE DEF u
<1>5. \A v \in User : account'[v].secret \in {account[v].secret, 0} /\ (account'[v].enabled => account'[v] = account[v])
  BY <1>1
<1>6. \A i \in Handler : request[i].op \in {"setup", "shown"} => request[i].secret # 0 /\ request[i].user \in User
  BY FactorTypes
<1>7. SecretInv'
  BY <1>1, <1>3, <1>5, FactorTypes DEF FactorInv, SecretInv
<1>8. SetupInv'
  BY <1>1, <1>3, <1>5, <1>6 DEF FactorInv, SetupInv
<1>9. ShownInv'
  BY <1>1, <1>3, <1>5, <1>6 DEF FactorInv, ShownInv
<1>10. EnableInv'
  BY <1>1, <1>3, <1>4, <1>5, FactorTypes DEF FactorInv, EnableInv
<1>11. SecondFactorWorks'
  BY <1>1, <1>4, <1>5 DEF FactorInv, SecondFactorWorks, Verifies
<1> QED BY <1>7, <1>8, <1>9, <1>10, <1>11 DEF FactorInv

\* The second factor through every step.
LEMMA FactorStep ==
  ASSUME TypeOK, Bounds, FactorInv, [Next]_vars
  PROVE  FactorInv'
<1>1. CASE \E h \in Handler : Admit(h)
  BY <1>1, AdmitStep
<1>2. CASE \E h \in Handler : ReplySetup(h) \/ CommitSetup(h)
  BY <1>2, ReplySetupStep, CommitSetupStep
<1>3. CASE \E h \in Handler : RequestFails(h)
  BY <1>3, FailStep
<1>4. CASE \E h \in Handler : CommitEnable(h) \/ CommitDisable(h)
  BY <1>4, EnableStep, DisableStep
<1>5. CASE /\ \A h \in Handler : ~(Admit(h) \/ ReplySetup(h) \/ CommitSetup(h) \/ RequestFails(h))
           /\ UNCHANGED <<app, crossed, secrets>>
           /\ \A v \in User : /\ account'[v].secret = account[v].secret
                              /\ account'[v].enabled = account[v].enabled
  <2>1. \A h \in Handler : request'[h].op \in {"setup", "shown", "enable"} => request'[h] = request[h]
    BY <1>5, Kept
  <2>2. \A h \in Handler : request[h].op = "shown" => request'[h] = request[h]
    BY <1>5, AnsweredKept
  <2>3. \A v : Locked(v) => Locked(v)'
    BY <2>2 DEF Locked
  <2>4. SetupInv' /\ SecretInv'
    BY <1>5, <2>1 DEF FactorInv, SetupInv, SecretInv
  <2>5. ShownInv'
    BY <1>5, <2>1, FactorTypes DEF FactorInv, ShownInv
  <2>6. EnableInv' /\ SecondFactorWorks'
    BY <1>5, <2>1, <2>3, FactorTypes DEF FactorInv, EnableInv, SecondFactorWorks, Verifies
  <2> QED BY <2>4, <2>5, <2>6 DEF FactorInv
<1> QED BY <1>1, <1>2, <1>3, <1>4, <1>5, FactorSteps, StatusFacts

--------------------------------------------------------------------------------
(* The theorems.                                                                *)

LEMMA InitIInv ==
  ASSUME Bounds, Init
  PROVE  IInv
<1>1. PICK s \in [1..Cardinality(User) -> User] :
             /\ \A u \in User : \E i \in DOMAIN s : s[i] = u
             /\ tokens = [i \in DOMAIN s |-> [user |-> s[i], kind |-> "access", from |-> 0]]
  BY DEF Init
<1>2. Cardinality(User) \in Nat /\ 0 \in 0..MaxTokens
  BY FS_CardinalityType DEF Bounds
<1>3. \A i \in DOMAIN s : [user |-> s[i], kind |-> "access", from |-> 0] \in TokenRec
  BY <1>1, <1>2 DEF TokenRec
<1>4. tokens \in [1..Cardinality(User) -> TokenRec] /\ \A i \in TokenId : tokens[i].from = 0
  BY <1>1, <1>3 DEF TokenId
<1>5. tokens \in Seq(TokenRec) /\ Len(tokens) = Cardinality(User)
  BY <1>2, <1>4, LenProperties, SeqDef
<1>6. resets \in Seq(ResetRec) /\ resetsBy \in Seq(Nat) /\ Len(resets) = 0 /\ Len(resetsBy) = 0
      /\ ResetId = {}
  BY EmptySeq DEF Init, ResetId
<1>7. request = [h \in Handler |-> Free] /\ begun = 0 /\ faults = 0
  BY DEF Init, HandlersInit
<1>8. \A h \in Handler : request[h].op = "none"
  BY <1>7 DEF Free
<1>9. /\ secrets \in {0, 1} /\ app = [u \in User |-> secrets]
      /\ account = [u \in User |-> [active |-> TRUE, secret |-> secrets, enabled |-> secrets = 1]]
      /\ blocklist = {} /\ cache = [p \in Process |-> {}] /\ crossed = {} /\ unrevoked = {} /\ doubled = {}
  BY DEF Init
<1>10. TypeOK
  <2>1. request \in [Handler -> Operation] /\ begun \in 0..MaxRequests /\ faults \in 0..MaxFaults
    BY <1>7, FreeType, HandlersAssumption
  <2>2. account \in [User -> Factor] /\ app \in [User -> 0..MaxSecrets] /\ secrets \in 0..MaxSecrets
    <3>1. secrets \in 0..MaxSecrets
      BY <1>9 DEF Bounds
    <3> QED BY <1>9, <3>1 DEF Factor
  <2>3. Len(tokens) <= MaxTokens
    BY <1>5 DEF Bounds
  <2> QED BY <1>5, <1>6, <1>9, <2>1, <2>2, <2>3 DEF TypeOK, TokenRec, ResetRec
<1>11. RoomInv
  <2>1. Validating = {}
    BY <1>8 DEF Validating
  <2> QED BY <1>2, <1>5, <2>1, FS_EmptySet DEF RoomInv, Bounds
<1>12. UseInv /\ SingleUse
  BY <1>4, <1>6, <1>8 DEF UseInv, SingleUse
<1>15. OnceInv
  BY <1>4 DEF OnceInv, PendingOnce
<1>13. CheckInv /\ SetupInv /\ ShownInv /\ EnableInv
  BY <1>8 DEF CheckInv, SetupInv, ShownInv, EnableInv
<1>14. SecretInv /\ SecondFactorWorks
  <2>1. \A u \in User : account[u].secret = secrets /\ app[u] = secrets /\ account[u].enabled = (secrets = 1)
    BY <1>9
  <2>2. secrets <= secrets /\ (secrets = 1 => secrets # 0)
    BY <1>9
  <2> QED BY <1>8, <2>1, <2>2 DEF SecretInv, SecondFactorWorks, Verifies
<1> QED BY <1>10, <1>11, <1>12, <1>13, <1>14, <1>15 DEF IInv

LEMMA Inductive ==
  ASSUME Bounds, IInv, [Next]_vars
  PROVE  IInv'
<1>1. TypeOK'
  BY TypeStep DEF IInv
<1>2. RoomInv' /\ UseInv' /\ OnceInv' /\ SingleUse' /\ CheckInv'
  BY RoomStep, UseStep, OnceStep, CheckStep DEF IInv
<1>3. SetupInv' /\ ShownInv' /\ SecretInv' /\ EnableInv' /\ SecondFactorWorks'
  BY FactorStep DEF IInv, FactorInv
<1> QED BY <1>1, <1>2, <1>3 DEF IInv

\* A token that enters a cache was looked up unrevoked.
LEMMA RevocationStep ==
  ASSUME Bounds, IInv, [Next]_vars, NEW p \in Process, NEW t \in TokenId, t \in blocklist, t \in cache'[p]
  PROVE  \/ t \in cache[p]
         \/ \E h \in Handler : /\ request[h].op = "check" /\ request[h].clean
                                /\ request[h].proc = p /\ request[h].token = t
<1>1. CASE \E h \in Handler : Admit(h)
  <2>1. PICK h \in Handler : Admit(h)
    BY <1>1
  <2> DEFINE q == request[h]
  <2>2. /\ q.op = "check" /\ q.proc \in Process
        /\ cache'[q.proc] \subseteq IF q.hit THEN cache[q.proc] ELSE cache[q.proc] \cup {q.token}
        /\ \A r \in Process \ {q.proc} : cache'[r] = cache[r]
    BY <2>1, AdmitFacts DEF IInv
  <2>3. q.hit \/ q.clean
    BY <2>2 DEF IInv, CheckInv
  <2> QED BY <2>2, <2>3
<1>2. CASE \E r \in Process : \E s \in cache[r] : CacheExpires(r, s)
  BY <1>2 DEF CacheExpires, IInv, TypeOK
<1>3. CASE cache' = cache
  BY <1>3
<1>4. CASE Arrivals
  BY <1>3, <1>4 DEF Arrivals, Login, SsoCallback, PortalCallback, ForgotPassword, SetStatus, LoadValidate,
                    LookUp, LoadReset, jwts
<1>5. CASE \E h \in Handler : \/ ReplyValidate(h) \/ ReplySetup(h)
                              \/ CommitValidate(h) \/ CommitLogout(h) \/ CommitReset(h) \/ CommitSetup(h)
                              \/ CommitEnable(h) \/ CommitDisable(h) \/ RequestFails(h)
  BY <1>3, <1>5 DEF ReplyValidate, ReplySetup, CommitValidate, CommitLogout, CommitReset, CommitSetup, CommitEnable, CommitDisable,
                    RequestFails, jwts
<1>6. CASE UNCHANGED vars
  BY <1>3, <1>6 DEF vars, jwts
<1> QED BY <1>1, <1>2, <1>4, <1>5, <1>6 DEF Next, Proceeds

\* The invariant holds in every reachable state.
THEOREM Invariance ==
  ASSUME Bounds
  PROVE  Spec => []IInv
<1>1. Init => IInv
  BY InitIInv
<1>2. IInv /\ [Next]_vars => IInv'
  BY Inductive
<1> QED BY <1>1, <1>2, PTL DEF Spec

\* Every variable has its type, in particular what a handler holds (get_current_user, auth.py).
THEOREM TypeCorrect ==
  ASSUME Bounds
  PROVE  Spec => []TypeOK
<1>1. IInv => TypeOK
  BY DEF IInv
<1> QED BY <1>1, Invariance, PTL

\* A pending token that gave an access token is revoked once its validation (auth.py)
\* ended, unless the commit failed after the answer; a reset link serves twice only in an
\* overlap.
THEOREM UsedOnce ==
  ASSUME Bounds
  PROVE  Spec => []SingleUse
<1>1. IInv => SingleUse
  BY DEF IInv
<1> QED BY <1>1, Invariance, PTL

\* Where answers wait for the commit, the unique jti makes a pending token give one access
\* token, whatever else was under way and whatever failed.
THEOREM PendingUsedOnce ==
  ASSUME Bounds, CommitBeforeReply
  PROVE  Spec => []PendingOnce
<1>1. IInv => PendingOnce
  BY DEF IInv, OnceInv
<1> QED BY <1>1, Invariance, PTL

\* An enabled second factor can be passed, but while a setup is being committed and after
\* requests about it overlapped, a secret was not scanned, or its commit failed.
THEOREM FactorHeld ==
  ASSUME Bounds
  PROVE  Spec => []SecondFactorWorks
<1>1. IInv => SecondFactorWorks
  BY DEF IInv
<1> QED BY <1>1, Invariance, PTL

\* A revoked token enters no cache but by a look-up that came before the revocation.
THEOREM Revoked ==
  ASSUME Bounds
  PROVE  Spec => RevocationSticks
<1> DEFINE Entry == \A p \in Process, t \in TokenId :
                        t \in blocklist /\ t \in cache'[p] =>
                            \/ t \in cache[p]
                            \/ \E h \in Handler : /\ request[h].op = "check" /\ request[h].clean
                                                   /\ request[h].proc = p /\ request[h].token = t
<1>1. IInv /\ [Next]_vars => [Entry]_vars
  BY RevocationStep
<1> QED BY <1>1, Invariance, PTL DEF Spec, RevocationSticks
================================================================================
