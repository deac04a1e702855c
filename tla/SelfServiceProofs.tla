--------------------------- MODULE SelfServiceProofs ---------------------------
(***************************************************************************)
(* Proofs about SelfService: what is proved of each part by itself holds   *)
(* of all of them together.  While one part acts, its own inductive        *)
(* invariant holds; the other parts rest, and so what is stated of them    *)
(* goes on holding, though the handlers they would share are busy.         *)
(***************************************************************************)
EXTENDS SelfService, TLAPS

SP == INSTANCE SessionsProofs WITH crossed <- overlapped, MaxRequests <- MaxVisits
RP == INSTANCE SoftwareRequestsProofs
IP == INSTANCE InventoryProofs WITH doubled <- twins, MaxRequests <- MaxAnswers

--------------------------------------------------------------------------------
(* A module and its proofs, instantiated alike, speak of the same things.       *)

LEMMA SessionsConstants == SP!HandlersAssumption /\ SP!Bounds
BY SessionsAssumption, HandlersAssumption
DEF SP!HandlersAssumption, S!Bounds, SP!Bounds, S!IsFiniteSet, SP!IsFiniteSet, S!Cardinality, SP!Cardinality

LEMMA SoftwareConstants == RP!HandlersAssumption /\ RP!Sorts
BY SoftwareAssumption, HandlersAssumption
DEF RP!HandlersAssumption, R!Sorts, RP!Sorts, R!IsFiniteSet, RP!IsFiniteSet

LEMMA InventoryConstants == IP!HandlersAssumption
BY InventoryAssumption, HandlersAssumption DEF IP!HandlersAssumption

LEMMA SessionsInit == S!Init => SP!Init
BY DEF S!Init, SP!Init, S!HandlersInit, SP!HandlersInit, S!Free, SP!Free, S!Cardinality,
       SP!Cardinality

LEMMA SoftwareInit == R!Init => RP!Init
BY DEF R!Init, RP!Init, R!HandlersInit, RP!HandlersInit, R!Free, RP!Free, R!SetToSeqs, RP!SetToSeqs,
       R!Cardinality, RP!Cardinality, R!Range, RP!Range

LEMMA InventoryInit == I!Init => IP!Init
BY DEF I!Init, IP!Init, I!HandlersInit, IP!HandlersInit, I!Free, IP!Free, I!Kind, IP!Kind

LEMMA SessionsNext == S!Next => SP!Next
BY DEF S!handlers, SP!handlers, S!Free, SP!Free, S!Fault, SP!Fault, S!Arrives, SP!Arrives, S!Hold,
       SP!Hold, S!Begin, SP!Begin, S!AtOnce, SP!AtOnce, S!Reply, SP!Reply, S!Due, SP!Due, S!Finish,
       SP!Finish, S!Abandon, SP!Abandon, S!ReplyValidate, SP!ReplyValidate, S!Locked, SP!Locked,
       S!Scan, SP!Scan, S!ReplySetup, SP!ReplySetup,
       S!Quiet, SP!Quiet, S!jwts, SP!jwts, S!factor, SP!factor, S!links, SP!links, S!vars, SP!vars,
       S!TokenId, SP!TokenId, S!ResetId, SP!ResetId, S!Issue, SP!Issue, S!Room, SP!Room, S!Login,
       SP!Login, S!SsoCallback, SP!SsoCallback, S!PortalCallback, SP!PortalCallback, S!Verifies,
       SP!Verifies, S!LoadValidate, SP!LoadValidate, S!CommitValidate, SP!CommitValidate, S!LookUp,
       SP!LookUp, S!Route, SP!Route, S!Admit, SP!Admit, S!CommitLogout, SP!CommitLogout,
       S!CacheExpires, SP!CacheExpires, S!CommitSetup, SP!CommitSetup, S!Crossing, SP!Crossing,
       S!CommitEnable, SP!CommitEnable, S!CommitDisable, SP!CommitDisable, S!ForgotPassword,
       SP!ForgotPassword, S!LoadReset, SP!LoadReset, S!CommitReset, SP!CommitReset, S!SetStatus,
       SP!SetStatus, S!RequestFails, SP!RequestFails, S!Goal, SP!Goal, S!Arrivals, SP!Arrivals,
       S!Proceeds, SP!Proceeds, S!Next, SP!Next, S!Cardinality, SP!Cardinality

LEMMA SoftwareNext == R!Next => RP!Next
BY DEF R!handlers, RP!handlers, R!Free, RP!Free, R!Fault, RP!Fault, R!Arrives, RP!Arrives, R!Hold,
       RP!Hold, R!Begin, RP!Begin, R!AtOnce, RP!AtOnce, R!Reply, RP!Reply, R!Due, RP!Due, R!Finish,
       RP!Finish, R!Abandon, RP!Abandon, R!Handing, RP!Handing, R!HandsOut, RP!HandsOut,
       R!ReplyBootstrap, RP!ReplyBootstrap,
       R!Quiet, RP!Quiet, R!agents, RP!agents, R!store, RP!store, R!queue, RP!queue, R!portal,
       RP!portal, R!vars, RP!vars, R!JobId, RP!JobId, R!Authorised, RP!Authorised, R!MostRecent,
       RP!MostRecent, R!PortalMac, RP!PortalMac, R!CreateRequest, RP!CreateRequest, R!Settled,
       RP!Settled, R!LoadListing, RP!LoadListing, R!CommitListing, RP!CommitListing, R!Source,
       RP!Source, R!LoadApproval, RP!LoadApproval, R!CommitApproval, RP!CommitApproval,
       R!LoadRejection, RP!LoadRejection, R!CommitRejection, RP!CommitRejection, R!UploadFile,
       RP!UploadFile, R!CommitUpload, RP!CommitUpload, R!DeleteFile, RP!DeleteFile, R!CommitDelete,
       RP!CommitDelete, R!LoadBootstrap, RP!LoadBootstrap, R!CommitBootstrap, RP!CommitBootstrap,
       R!RunScript, RP!RunScript, R!CheckIn, RP!CheckIn, R!ReportUsers, RP!ReportUsers, R!PollJobs,
       RP!PollJobs, R!Downloads, RP!Downloads, R!RunJob, RP!RunJob, R!PostResult, RP!PostResult,
       R!AgentFails, RP!AgentFails, R!ResultLost, RP!ResultLost, R!RequestFails, RP!RequestFails,
       R!Portal, RP!Portal, R!Admin, RP!Admin, R!Macs, RP!Macs, R!Next, RP!Next, R!RemoveAt,
       RP!RemoveAt, R!Last, RP!Last, R!Range, RP!Range

LEMMA InventoryNext == I!Next => IP!Next
BY DEF I!handlers, IP!handlers, I!Free, IP!Free, I!Fault, IP!Fault, I!Arrives, IP!Arrives, I!Hold,
       IP!Hold, I!Begin, IP!Begin, I!AtOnce, IP!AtOnce, I!Finish, IP!Finish, I!Abandon, IP!Abandon,
       I!Quiet, IP!Quiet, I!inventory, IP!inventory, I!accounts, IP!accounts, I!vars, IP!vars,
       I!Kind, IP!Kind, I!RowsFor, IP!RowsFor, I!Told, IP!Told, I!Scan, IP!Scan, I!Refresh,
       IP!Refresh, I!Answer, IP!Answer, I!RowFree, IP!RowFree, I!Replace, IP!Replace, I!Unlocked,
       IP!Unlocked, I!Rows, IP!Rows, I!CommitAnswer, IP!CommitAnswer, I!Report, IP!Report,
       I!CommitReport, IP!CommitReport, I!Ask, IP!Ask, I!AskPortal, IP!AskPortal, I!AskAdmin,
       IP!AskAdmin, I!CommitAsk, IP!CommitAsk, I!LoadInstall, IP!LoadInstall, I!CommitInstall,
       IP!CommitInstall, I!RequestFails, IP!RequestFails, I!Arrivals, IP!Arrivals, I!Next, IP!Next,
       I!Cardinality, IP!Cardinality

LEMMA SessionsTypes == SP!TypeOK => S!TypeOK
BY DEF S!TypeOK, SP!TypeOK, S!TokenId, SP!TokenId, S!ResetId, SP!ResetId, S!Operation, SP!Operation,
       S!Factor, SP!Factor, S!Free, SP!Free, S!Goal, SP!Goal

LEMMA SoftwareTypes == RP!TypeOK => R!TypeOK
BY DEF R!TypeOK, RP!TypeOK, R!JobId, RP!JobId, R!Operation, RP!Operation, R!Free, RP!Free

LEMMA InventoryTypes == IP!TypeOK => I!TypeOK
BY DEF I!TypeOK, IP!TypeOK, I!Kind, IP!Kind, I!By, IP!By, I!Users, IP!Users

LEMMA SessionsTold ==
  /\ SP!SingleUse /\ SP!SecondFactorWorks => SingleUse /\ SecondFactorWorks
  /\ SP!PendingOnce => PendingOnce
BY DEF SingleUse, SecondFactorWorks, PendingOnce, S!PendingOnce, SP!PendingOnce,
       S!SingleUse, SP!SingleUse, S!SecondFactorWorks, SP!SecondFactorWorks, S!Verifies,
       SP!Verifies, S!Locked, SP!Locked, S!TokenId, SP!TokenId, S!ResetId, SP!ResetId

LEMMA SoftwareTold ==
  RP!SettledTruly /\ RP!RefusalExplained /\ RP!AgentAuthorised =>
      SettledTruly /\ RefusalExplained /\ AgentAuthorised
BY DEF SettledTruly, RefusalExplained, AgentAuthorised,
       R!SettledTruly, RP!SettledTruly, R!RefusalExplained, RP!RefusalExplained, R!AgentAuthorised,
       RP!AgentAuthorised, R!JobId, RP!JobId, R!Handing, RP!Handing

LEMMA InventoryTold == IP!SnapshotWhole /\ IP!AccountOnce /\ IP!AccountStays => InventoryTrue
BY DEF InventoryTrue, I!SnapshotWhole, IP!SnapshotWhole, I!AccountOnce, IP!AccountOnce, I!AccountStays,
       IP!AccountStays, I!Kind, IP!Kind, I!Cardinality, IP!Cardinality

--------------------------------------------------------------------------------
(* The inductive invariant of the composition.                                  *)

\* The invariant of the part that acts.
Acting ==
    /\ focus = "sessions"  => SP!IInv
    /\ focus = "software"  => RP!IInv
    /\ focus = "inventory" => IP!IInv

\* Where answers wait for the commit, a pending token is good for one.
OnceIfCommitted == CommitBeforeReply => PendingOnce

\* What is stated of every part, whether it acts or rests.
Told ==
    /\ SingleUse /\ SecondFactorWorks /\ OnceIfCommitted
    /\ SettledTruly /\ RefusalExplained /\ AgentAuthorised
    /\ InventoryTrue

\* No token, factor or agent comes up in a part that rests.
Untouched ==
    /\ focus # "sessions" => /\ \A i \in S!TokenId : tokens[i].from = 0
                             /\ \A u \in User : ~account[u].enabled
    /\ focus # "software" => \A m \in Mac : config[m] = 0

IInv == focus \in {"sessions", "software", "inventory"} /\ Acting /\ Told /\ Untouched

\* What each part's invariant has among its conjuncts.
LEMMA SessionsParts == SP!IInv => S!TypeOK /\ SingleUse /\ SecondFactorWorks /\ OnceIfCommitted
<1>1. SP!IInv => /\ SP!TypeOK /\ SP!SingleUse /\ SP!SecondFactorWorks
                 /\ CommitBeforeReply => SP!PendingOnce
  BY DEF SP!IInv, SP!OnceInv
<1> QED BY <1>1, SessionsTypes, SessionsTold DEF OnceIfCommitted

LEMMA SoftwareParts == RP!IInv => R!TypeOK /\ SettledTruly /\ RefusalExplained /\ AgentAuthorised
<1>1. RP!IInv => RP!TypeOK /\ RP!SettledTruly /\ RP!RefusalExplained /\ RP!AgentAuthorised
  BY DEF RP!IInv
<1> QED BY <1>1, SoftwareTypes, SoftwareTold

LEMMA InventoryParts == IP!IInv => I!TypeOK /\ InventoryTrue
<1>1. IP!IInv => IP!TypeOK /\ IP!SnapshotWhole /\ IP!AccountOnce /\ IP!AccountStays
  BY DEF IP!IInv
<1> QED BY <1>1, InventoryTypes, InventoryTold

\* A part that rests keeps what is stated of it, though others use the handlers.
LEMMA SessionsRest ==
  ASSUME Untouched, focus # "sessions" \/ UNCHANGED request,
         SingleUse, SecondFactorWorks, OnceIfCommitted, UNCHANGED sessions
  PROVE  (SingleUse /\ SecondFactorWorks /\ OnceIfCommitted)'
<1>1. CASE UNCHANGED request
  BY <1>1 DEF SingleUse, SecondFactorWorks, OnceIfCommitted, PendingOnce, sessions,
              S!SingleUse, S!SecondFactorWorks, S!PendingOnce, S!Verifies, S!Locked, S!TokenId, S!ResetId
<1>2. CASE focus # "sessions"
  BY <1>2 DEF Untouched, SingleUse, SecondFactorWorks, OnceIfCommitted, PendingOnce, sessions,
              S!SingleUse, S!SecondFactorWorks, S!PendingOnce, S!TokenId, S!ResetId
<1> QED BY <1>1, <1>2

LEMMA SoftwareRest ==
  ASSUME Untouched, focus # "software" \/ UNCHANGED request,
         SettledTruly, RefusalExplained, AgentAuthorised, UNCHANGED software
  PROVE  (SettledTruly /\ RefusalExplained /\ AgentAuthorised)'
<1>1. (SettledTruly /\ RefusalExplained)'
  BY DEF SettledTruly, RefusalExplained, software, R!SettledTruly, R!RefusalExplained, R!JobId
<1>2. AgentAuthorised'
  BY DEF Untouched, AgentAuthorised, software, R!AgentAuthorised, R!Handing
<1> QED BY <1>1, <1>2

LEMMA InventoryRest == InventoryTrue /\ UNCHANGED inventory => InventoryTrue'
BY DEF InventoryTrue, inventory, I!SnapshotWhole, I!AccountOnce, I!AccountStays, I!Kind

LEMMA InitIInv == Init => IInv
<1> SUFFICES ASSUME Init
             PROVE  IInv
  OBVIOUS
<1>1. SP!IInv
  <2>1. SP!Init
    BY SessionsInit DEF Init
  <2> QED BY <2>1, SessionsConstants, SP!InitIInv
<1>2. RP!IInv
  <2>1. RP!Init
    BY SoftwareInit DEF Init
  <2> QED BY <2>1, SoftwareConstants, RP!InitIInv
<1>3. IP!IInv
  <2>1. IP!Init
    BY InventoryInit DEF Init
  <2> QED BY <2>1, InventoryConstants, IP!InitIInv
<1>4. focus \in {"sessions", "software", "inventory"}
  BY DEF Init
<1>5. Untouched
  <2>1. PICK s \in [1..S!Cardinality(User) -> User] :
           tokens = [i \in DOMAIN s |-> [user |-> s[i], kind |-> "access", from |-> 0]]
    BY DEF Init, S!Init
  <2>2. \A i \in S!TokenId : tokens[i].from = 0
    BY <2>1 DEF S!TokenId
  <2>3. focus # "sessions" => \A u \in User : ~account[u].enabled
    <3>1. account = [u \in User |-> [active |-> TRUE, secret |-> secrets, enabled |-> secrets = 1]]
      BY DEF Init, S!Init
    <3>2. focus # "sessions" => secrets = 0
      BY DEF Init
    <3>3. \A u \in User : account[u].enabled => secrets = 1
      BY <3>1, Zenon
    <3>4. secrets = 0 => ~(secrets = 1)
      OBVIOUS
    <3> QED BY <3>2, <3>3, <3>4
  <2>4. focus # "software" => \A m \in Mac : config[m] = 0
    BY DEF Init
  <2> QED BY <2>2, <2>3, <2>4 DEF Untouched
<1> QED BY <1>1, <1>2, <1>3, <1>4, <1>5, SessionsParts, SoftwareParts, InventoryParts
        DEF IInv, Acting, Told

LEMMA Inductive == IInv /\ [Next]_vars => IInv'
<1> SUFFICES ASSUME IInv, [Next]_vars
             PROVE  IInv'
  OBVIOUS
<1>0. Untouched'
  BY DEF IInv, Untouched, Next, SessionStep, SoftwareStep, InventoryStep, vars, sessions, software, S!TokenId
<1>1. CASE SessionStep /\ UNCHANGED focus
  <2>1. SP!IInv /\ SP!Next /\ UNCHANGED <<software, inventory, focus>> /\ focus = "sessions"
    BY <1>1, SessionsNext DEF SessionStep, IInv, Acting
  <2>2. SP!IInv'
    BY <2>1, SessionsConstants, SP!Inductive
  <2>3. (SingleUse /\ SecondFactorWorks /\ OnceIfCommitted)'
    BY <2>2, SessionsParts, PTL
  <2> QED BY <1>0, <2>1, <2>2, <2>3, SoftwareRest, InventoryRest DEF IInv, Acting, Told
<1>2. CASE SoftwareStep /\ UNCHANGED focus
  <2>1. RP!IInv /\ RP!Next /\ UNCHANGED <<sessions, inventory, focus>> /\ focus = "software"
    BY <1>2, SoftwareNext DEF SoftwareStep, IInv, Acting
  <2>2. RP!IInv'
    BY <2>1, SoftwareConstants, RP!Inductive
  <2>3. (SettledTruly /\ RefusalExplained /\ AgentAuthorised)'
    BY <2>2, SoftwareParts, PTL
  <2> QED BY <1>0, <2>1, <2>2, <2>3, SessionsRest, InventoryRest DEF IInv, Acting, Told
<1>3. CASE InventoryStep /\ UNCHANGED focus
  <2>1. IP!IInv /\ IP!Next /\ UNCHANGED <<sessions, software, focus>> /\ focus = "inventory"
    BY <1>3, InventoryNext DEF InventoryStep, IInv, Acting
  <2>2. IP!IInv'
    BY <2>1, InventoryConstants, IP!Inductive
  <2>3. InventoryTrue'
    BY <2>2, InventoryParts, PTL
  <2> QED BY <1>0, <2>1, <2>2, <2>3, SessionsRest, SoftwareRest DEF IInv, Acting, Told
<1>4. CASE UNCHANGED vars
  <2>1. UNCHANGED <<handlers, focus, sessions, software, inventory>>
    BY <1>4 DEF vars
  <2>2. Told'
    BY <2>1, SessionsRest, SoftwareRest, InventoryRest DEF IInv, Told, handlers
  <2>3. (focus = "sessions" => SP!IInv)'
    <3>1. focus = "sessions" => UNCHANGED SP!vars
      BY <2>1 DEF sessions, handlers, SP!vars, SP!handlers, SP!jwts, SP!factor, SP!links
    <3> QED BY <2>1, <3>1, SessionsConstants, SP!Inductive DEF IInv, Acting
  <2>4. (focus = "software" => RP!IInv)'
    <3>1. focus = "software" => UNCHANGED RP!vars
      BY <2>1 DEF software, handlers, RP!vars, RP!handlers, RP!agents, RP!store, RP!queue, RP!portal
    <3> QED BY <2>1, <3>1, SoftwareConstants, RP!Inductive DEF IInv, Acting
  <2>5. (focus = "inventory" => IP!IInv)'
    <3>1. focus = "inventory" => UNCHANGED IP!vars
      BY <2>1 DEF inventory, handlers, IP!vars, IP!handlers, IP!inventory, IP!accounts
    <3> QED BY <2>1, <3>1, InventoryConstants, IP!Inductive DEF IInv, Acting
  <2> QED BY <1>0, <2>1, <2>2, <2>3, <2>4, <2>5 DEF IInv, Acting
<1> QED BY <1>1, <1>2, <1>3, <1>4 DEF Next

--------------------------------------------------------------------------------
(* What holds in every behaviour.                                               *)

LEMMA Invariant == Spec => []IInv
<1> QED BY InitIInv, Inductive, PTL DEF Spec

\* Whatever part acts, its variables have their types, in particular what a request
\* under way has read (the routes hold it from their last read to the commit).
THEOREM TypeCorrect == Spec => []TypeOK
<1>1. IInv => TypeOK
  BY SessionsParts, SoftwareParts, InventoryParts DEF IInv, Acting, TypeOK
<1> QED BY <1>1, Invariant, PTL

\* validate_2fa and reset_password: a pending token that gave an access token is revoked
\* once its validation ended, unless the commit failed after the answer; a link serves
\* twice only when two requests overlapped.
THEOREM UsedOnce == Spec => []SingleUse
<1>1. IInv => SingleUse
  BY DEF IInv, Told
<1> QED BY <1>1, Invariant, PTL

\* Where answers wait for the commit, validate_2fa gives one access token for a pending one:
\* the jti it revokes is unique.
THEOREM PendingUsedOnce ==
  ASSUME CommitBeforeReply
  PROVE  Spec => []PendingOnce
<1>1. IInv => PendingOnce
  BY DEF IInv, Told, OnceIfCommitted
<1> QED BY <1>1, Invariant, PTL

\* The second factor that is asked for can be given, but while a setup is being committed,
\* and after its routes overlapped, a secret was not scanned, or its commit failed.
THEOREM FactorHeld == Spec => []SecondFactorWorks
<1>1. IInv => SecondFactorWorks
  BY DEF IInv, Told
<1> QED BY <1>1, Invariant, PTL

\* What the portal shows of an installation is what became of one of its jobs.
THEOREM ShownTruly == Spec => []SettledTruly
<1>1. IInv => SettledTruly
  BY DEF IInv, Told
<1> QED BY <1>1, Invariant, PTL

\* download_package refuses an approved installation for a reason somebody gave it.
THEOREM RefusalsExplained == Spec => []RefusalExplained
<1>1. IInv => RefusalExplained
  BY DEF IInv, Told
<1> QED BY <1>1, Invariant, PTL

\* Agents keep their access unless two first bootstraps of a Mac overlapped, or one failed
\* after its script had left.
THEOREM AgentsAuthorised == Spec => []AgentAuthorised
<1>1. IInv => AgentAuthorised
  BY DEF IInv, Told
<1> QED BY <1>1, Invariant, PTL

\* Inventories come from one answer, accounts are doubled by overlaps only and do not
\* go away under a request that is about them.
THEOREM InventoriesTrue == Spec => []InventoryTrue
<1>1. IInv => InventoryTrue
  BY DEF IInv, Told
<1> QED BY <1>1, Invariant, PTL

\* get_current_user puts no revoked token into its cache that it had not looked up before.
THEOREM Revoked == Spec => RevocationSticks
<1> DEFINE Entry == \A p \in Process, t \in S!TokenId :
                        t \in blocklist /\ t \in cache'[p] =>
                            \/ t \in cache[p]
                            \/ \E h \in Handler : /\ request[h].op = "check" /\ request[h].clean
                                                   /\ request[h].proc = p /\ request[h].token = t
<1>1. IInv /\ [Next]_vars => [Entry]_(S!vars)
  <2> SUFFICES ASSUME IInv, [Next]_vars, NEW p \in Process, NEW t \in S!TokenId,
                      t \in blocklist, t \in cache'[p], t \notin cache[p]
               PROVE  \E h \in Handler : /\ request[h].op = "check" /\ request[h].clean
                                          /\ request[h].proc = p /\ request[h].token = t
    OBVIOUS
  <2>1. SessionStep
    BY DEF Next, SoftwareStep, InventoryStep, vars, sessions
  <2>2. SP!IInv /\ SP!Next
    BY <2>1, SessionsNext DEF SessionStep, IInv, Acting
  <2>3. t \in SP!TokenId
    BY DEF S!TokenId, SP!TokenId
  <2> QED BY <2>2, <2>3, SessionsConstants, SP!RevocationStep
<1> QED BY <1>1, Invariant, PTL DEF Spec, RevocationSticks, S!RevocationSticks

\* reject_request is final for everything that had not read the request before.
THEOREM RejectionsFinal == Spec => RejectionFinal
<1> DEFINE Final == \A r \in Request :
                        req[r].status = "rejected" /\ R!Deciding(r) = {} => req'[r].status = "rejected"
<1>1. IInv /\ [Next]_vars => [Final]_(R!vars)
  <2> SUFFICES ASSUME IInv, [Next]_vars, NEW r \in Request,
                      req[r].status = "rejected", R!Deciding(r) = {}
               PROVE  req'[r].status = "rejected"
    OBVIOUS
  <2>1. CASE SoftwareStep
    <3>1. RP!IInv /\ RP!Next
      BY <2>1, SoftwareNext DEF SoftwareStep, IInv, Acting
    <3>2. RP!Deciding(r) = {}
      BY DEF R!Deciding, RP!Deciding
    <3> QED BY <3>1, <3>2, SoftwareConstants, RP!RejectionStep
  <2>2. CASE UNCHANGED software
    BY <2>2 DEF software
  <2> QED BY <2>1, <2>2 DEF Next, SessionStep, InventoryStep, vars
<1> QED BY <1>1, Invariant, PTL DEF Spec, RejectionFinal, R!RejectionFinal
================================================================================
