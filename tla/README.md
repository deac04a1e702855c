# MDM-SaaS: specifications, model checking and proofs

MDM-SaaS is a multi-tenant device-management server: a FastAPI application over
PostgreSQL that enrols Macs, queues MDM commands for them, wakes them through APNs,
runs scripts through an agent and grants temporary admin rights. This directory holds
TLA+ models of the parts of it where requests, transactions, devices and background
loops interleave, the TLC configurations that check them, and TLAPS proofs.

## 1. Inventory

All server state is in PostgreSQL (READ COMMITTED). A request is one transaction: `get_db`
commits after the route function has returned. The image starts `uvicorn --workers 2`, so
there are two processes, each with its own caches and its own background loops.
`pyproject.toml:13` asks for FastAPI `>=0.115.0` and nothing pins it: up to 0.117 the
commit comes before the response, from 0.118 on, which is what an image built today
installs, after it, and may then still fail. Every model takes that as the constant
`CommitBeforeReply`: `CommandDelivery`, `AdminAccess` and `DeviceLifecycle` have both
orders step by step, and `Handlers` gives the rest a step at which an answer leaves
(`Reply`). That step is modelled wherever somebody acts on what an answer holds: an access
token, a new second factor, a bootstrap script, an enrollment profile, and the 200 that
Stripe takes for an event. The other answers carry nothing anybody acts on, so that their
order does not matter.

| Component (src/app/...) | State | Operations | What is hard | What makes it correct |
|---|---|---|---|---|
| Command queue, `mdm/apple/connect.py` | `mdm_commands` | connect: store result, pick oldest queued, answer | overlapping and repeated connects, answers lost after or before the commit, unencodable payloads | a command is handed out once, in order, and its status is what the device said |
| Command routes, `api/routes/{devices,groups,profiles,patch}.py` | rows they insert | single, bulk, group and profile commands | push leaves before the commit | only committed commands reach a device |
| Check-in, `mdm/apple/checkin.py` | `devices` | Authenticate, TokenUpdate, CheckOut | read, then UPDATE; requests that overlap; no unique UDID | one row per Mac that shows its state |
| APNs, `mdm/apple/apns.py` | none | push | best effort | a push has no effect but a connect |
| JIT admin access, `api/routes/admin_access.py` | `admin_access_requests`, `script_jobs` | create, approve, deny, revoke | status checked at read, written at commit | an account is admin only under a grant |
| Auto-revoke, `services/auto_revoke.py` | same | end expired grants | one loop per process, races with manual decisions | every grant ends |
| Agent, `api/routes/agent.py`, `scripts/mdm_agent.sh` | `script_jobs`, `device_users` | poll, run, report result, report users | lost polls and results, unordered batches | a job runs once and its status is true |
| Portal and software requests, `api/routes/portal.py` | `software_requests` | request, approve, reject, list | reject without check, status synchronised while listing | a request's status follows its job |
| Packages, `api/routes/packages.py` | `software_packages`, files | upload, delete, download | file and row apart | no row without file |
| Auth, `api/routes/auth.py`, `core/deps.py` | users, `revoked_tokens`, reset tokens, cache per process | login, logout, reset, 2FA, SSO | cache refilled before a revocation commits | a revoked token enters a cache only by an earlier look-up |
| Enrollment, `api/routes/enrollment.py` | enrollment tokens, pre-staged devices | create, download, CSV import | single use without a lock | a token serves once unless downloads overlap or its mark is lost |
| Billing, `api/routes/billing.py`, `services/trial_reminder.py` | plan columns of `tenants` | checkout, webhooks, reminder loop | events late, twice, out of order; two loops | the plan follows the subscription that changed last |
| Compliance, `services/compliance.py` | policies, results, `compliance_status` | evaluate, seed | two writers, upsert without constraint | the status follows the results |
| Profiles and groups | profiles, versions, memberships | create, update, delete, push | version numbers, double membership | versions are dense, a member is listed once |
| SQS consumer, `services/command_queue.py` | `devices.push_token` | push on message | redelivery, 410 against a fresh token, unreadable bodies | a message goes when a push was accepted or nobody could be pushed to; the 410 of an old token clears a fresh one only if a check-in came in between |
| Inventories, `mdm/apple/connect.py`, `api/routes/patch.py` | `installed_apps`, `device_updates`, `device_users` | replace by an answer, add by the agent's report, refer to | answers and reports that overlap, foreign keys | an inventory comes from one answer, an account has one row |
| Windows OMA-DM, `mdm/windows/` | `mdm_commands` | session | routers disabled (`main.py:143-145`) | - |
| Users, tenant, platform, audit | one row each | CRUD | last owner | - |
| mTLS, certificate authority, profile builders, plist codec, command builders | none | parse and build | - | - |
| Dashboard, infrastructure | none on the server | - | - | - |

Components interact through the database only, with these exceptions: routes start push
tasks; connect runs compliance evaluation and stores inventories; approve, revoke and
auto-revoke leave a `ScriptJob` for the agent and a `UserList` command for the queue;
the agent's user report decides who may ask for admin rights. `PROJECT.json` lists every
component with its status, and under `hazards` what is hard to test, line by line.

## 2. Modules

| Module | Models | Checked by |
|---|---|---|
| `CommandLifecycle` | abstract: what the queue promises | refined by `CommandDelivery` |
| `CommandDelivery` | command routes, push, connect, the device's client | `MCCommandDelivery`, four runs |
| `CommandDeliveryProofs` | theorems of `CommandDelivery` | TLAPS |
| `AdminAccess` | requests, auto-revoke loops, job polling, the agent | `MCAdminAccess`, four runs |
| `AdminAccessProofs` | theorems of `AdminAccess` | TLAPS |
| `DeviceLifecycle` | the rows of one UDID through check-ins, erase, delete | `MCDeviceLifecycle`, two runs |
| `DeviceLifecycleProofs` | theorems of `DeviceLifecycle` | TLAPS |
| `Handlers` | what every API request has in common | extended by all modules below |
| `Sessions` | tokens, blocklist and its caches, second factor, password reset | `MCSelfService` |
| `SoftwareRequests` | portal requests, packages, bootstrap of agents, installation | `MCSelfService` |
| `Inventory` | apps, updates, local accounts of a Mac | `MCSelfService` |
| `SelfService` | composes the three | `MCSelfService`, one run |
| `SessionsProofs`, `SoftwareRequestsProofs`, `InventoryProofs` | the inductive invariant of each part | TLAPS |
| `SelfServiceProofs` | theorems of `SelfService`, from those of its parts | TLAPS |
| `Billing` | Stripe, checkout, webhook, reminder loops | `MCAdministration` |
| `Users` | users of a tenant | `MCAdministration` |
| `EnrollmentTokens` | tokens, device limit, downloads, CSV import | `MCAdministration` |
| `Groups` | memberships and bulk actions | `MCAdministration` |
| `Compliance` | policies and both evaluations | `MCAdministration` |
| `Profiles` | stored profiles, their history, what is queued | `MCAdministration` |
| `PushQueue` | the SQS consumer | `MCAdministration` |
| `Administration` | composes the seven | `MCAdministration`, one run |
| `AdministrationProofs` | theorems of `Administration`, part by part | TLAPS |

Common to the first three: a request is several steps, `received`, (`loaded`,) `open` (it
has written and holds its row locks), then `committed` and answered, or `replied` and
committed, depending on `CommitBeforeReply`. What it wrote becomes visible at the commit.
A crash at any step rolls back. `CommandLifecycle` says what the queue promises without
any of this: a command is handed out once before each answer and settled once; a `not_now`
is not final there, since the documentation has it queued again. Operators whose comment
calls them a mutant are not part of a model: each is a mistake that one of the properties
must detect.

### CommandDelivery

* `status`, `queuedAt`: the columns of `MdmCommand`. An uncommitted row is `open`, a
  rolled-back one `aborted`.
* `QueueCommands(B)` stands for every route that inserts the commands `B` in one
  transaction and starts pushes; `PushProfile(B)` for the stored-profile push, which sends
  none. `WakingApi` is all but the latter, for the question what a push achieves.
  `CommitCommands`, `RollbackCommands` end the transaction.
* `Wake`, `Poll`, `Report`, `Timeout`, `Resend`, `GiveUp`, `Receive` are the operating
  system's MDM client, as `connect.py` presupposes it: one request at a time, a result per
  received command, a retry or not when the connection is gone.
* `Handle` is connect up to its return: the `last_checkin` UPDATE (which takes the lock
  on the device row and so serialises the requests of one device), the unconditional
  result UPDATE, the pick of the oldest queued row. `HandleUnreadable` is the body that
  does not parse, `HandleFails` the payload that does not encode.
* Left out here: what else a result stores, which is in `Inventory` and `Compliance`. A
  failure there (a foreign key that refers to a `device_users` row) rolls the request
  back and is one of the cases of `Crash`.
* `handed`, `undone`, `verdict`, `before` are history variables; no guard reads them.

### AdminAccess

One Mac. `req`, `revokeAt` are the request's columns, `jobs` the `script_jobs` rows in
insertion order. `Load` reads and checks the status; `Approve`, `Deny`, `Revoke` write at
commit, by id, whatever the status then is. `FindExpired`, `RevokeExpired`, `RevokeFails`
are the loop of `auto_revoke.py`. `SelectJobs` takes any `BatchLimit` pending, unlocked
jobs, as `FOR UPDATE SKIP LOCKED LIMIT 10` without an order may. `AgentPoll`, `RunJob`,
`AgentTimeout`, `AgentCrash`, `ReportUsers` are `mdm_agent.sh`; it runs a batch in the
order of the response, which is the arbitrary order of the SELECT. `ReportUsers` is one
step (a report based on an older state of the Mac is not modelled). The `UserList`
commands are `QueueCommands` of the other module.

### DeviceLifecycle

One UDID. `rows` are its rows in `devices`; `referenced` says that some `mdm_commands` row
refers to it, which makes `DeleteDevice` fail. `Load`/`LoadFails` is the
`scalar_one_or_none` of the three handlers, `UpdateRows` the UPDATE that waits for the row
lock, `InsertRow` the first TokenUpdate, which also queues the PSSO profile, and
`SkipUnknownTopic` its silent return when no tenant has the topic. The acknowledgement of
an `EraseDevice` command (`connect.py:111-126`) has no SELECT of the device. The rows
pre-staged by the CSV import have the UDID `serial:<serial>`, which no check-in matches,
so they are not in the model. The status `token_expired` is written by the SQS consumer
alone and is in `PushQueue`.

### Handlers, and the modules that extend it

`request[h]` is a request the server holds: the operation and what it has read. `Begin` is
the part of a route up to its last read, `Finish` its commit, `Abandon` a rollback or a
process that dies. Between the two any other request may commit, which is all that READ
COMMITTED allows others to see. Where the answer matters, `Reply` is a step between them,
taken only when the commit follows it, and `Due` names the state the commit then starts
from; a request that fails after `Reply` has given something away that is rolled back, and
holds its row locks until then. Row locks and unique constraints that order two requests
are guards of the commit (`Inventory!Unlocked`, `Sessions!CommitValidate`,
`Compliance!Answer`, `Profiles!FlushUpdate`). A route whose reads and writes nothing can
come between is one step (`AtOnce`). Requests that end in an error or find nothing to do
are not kept: they change nothing.

* `Sessions`. A request with a token has three steps: `LookUp` (`get_current_user` asks
  the blocklist or the cache of its process), `Admit` (fills the cache, runs the route)
  and the commit. `logout` takes the token out of the cache of its own process before the
  revocation is committed. `app[u]` is the authenticator of the user: whether a code fits
  is whether it holds the stored secret. `validate_2fa` gives the access token away before
  the revocation of the pending one is written (`unrevoked` notes that it was lost), setup
  shows the new secret before it is committed; the user may scan it, or not.
* `SoftwareRequests`. From the portal request through approval, the job and its result to
  the listing that copies the result. A job's command holds the address of a package and
  the agent token of the time of the approval. Files and rows of packages change in
  separate steps. `LoadBootstrap` is both places that make an agent token lazily, and
  `ReplyBootstrap` the script that leaves with it before the commit. Which
  Mac a person stands for is the code's order of preference (`MostRecent`, `PortalMac`, a
  set of at most one Mac).
* `Inventory`. A row is told apart by the request that inserted it, so that `SnapshotWhole`
  can ask whether rows of one inventory come from two answers. `Replace` is the DELETE,
  `CommitAnswer` the INSERT with the commit; the agent's report and the requests that
  refer to an account come between.
* `Billing`. Stripe is external: `sub` is its state, `events` what it still delivers, in
  any order and again when it did not see the answer. The webhook fetches the subscription
  for a completed checkout only, and trusts the event otherwise. `AnswerWebhook` is the 200
  before the commit: an event that Stripe has seen answered does not come again, also when
  the commit fails (`RequestFails`). `applied` is the change the row reflects, until old or
  lost news spoils it and later news puts it right. `Remind` sends the mail,
  `CommitReminder` marks the tenant, `ReminderFails` is a loop that dies between.
* `Users`, `EnrollmentTokens`, `Groups`, `Profiles`: each route is its read and its
  commit. In `EnrollmentTokens` the plan's limit changes at will, as `Billing` may change
  it; `HandOut` is the profile that leaves, `CommitMark` the flag (`unmarked` notes a mark
  that was lost after the profile had left). A group member that is stored twice gets a
  bulk command twice. A profile update that changes a column writes it before it reads the
  highest version, because the session flushes before a query, and so holds the row's lock
  from then on.
* `Compliance`. One control stands for the rest. An answer evaluates every active policy
  before it stores what the Mac told, then `_evaluate_compliance` may write the same flag
  by its own rule. The two listings that seed the default policy are `ListPolicies` and
  `FleetSummary`.
* `PushQueue`. A delivery is `received`, then looks the row up, pushes, and clears the
  token or deletes the message. A message becomes visible again while its first delivery
  is still at work. `served` are the messages since which a push was accepted or there was
  nobody to push to, `missed` those given up for a Mac that could be pushed to
  (`Wakeable`), which takes a check-in between a delivery's read and its write (`GiveUp`).
  Nothing in the repository sends these messages: `Send` is external.

History variables (`crossed`, `doubled`, `raced`, `applied`, `served` and the like) record
an overlap; no guard reads them.

### SelfService, Administration

The parts share the server's handlers and no column they change, so every behaviour of
all of them is an interleaving of behaviours of each, and none of the properties relates
columns of two parts. It is therefore enough to let one part act at a time: `focus` is
chosen in the initial state and the other parts rest. The two compositions are what the
runs check. What their constants must satisfy is stated where they are declared: a part that
is instantiated states it as a definition (`Sessions!Bounds`, `SoftwareRequests!Sorts`),
which the composition assumes.

## 3. What the runs show

| Run | Bounds | Result |
|---|---|---|
| `CommandDelivery_main` | 1 device, 2 commands, one unencodable, 2 requests, 2 faults | all safety properties, the refinement of `CommandLifecycle`, and `LeavesQueue` under `FairSpec` |
| `CommandDelivery_lost` | 1 command, 1 fault | violated: a lost answer loses the command (finding) |
| `CommandDelivery_notnow` | 1 command, no fault, fair | violated: a NotNow is not queued again (finding) |
| `CommandDelivery_push` | 1 command, no fault, no polling, only routes that push | violated: the push may precede the commit (finding) |
| `AdminAccess_decisions` | 1 request, 2 handlers, 1 loop, 1 poll, no fault | `AdminAccounted`, `GrantInEffect` with racing decisions |
| `AdminAccess_dispatch` | 1 request, 2 polls, 1 loop, commit after reply, 2 faults, fair | jobs run once and tell the truth; accounts are accounted for under faults; grants end |
| `AdminAccess_shared` | 2 requests for one account, 2 loops, no fault | violated: the end of one grant ends the other (finding) |
| `AdminAccess_removed` | 1 request, batches of two, no fault, fair | violated: removal before elevation (finding) |
| `DeviceLifecycle_record` | 3 rows, 3 requests, 3 tokens, 2 faults, commit after reply | the record is right when requests do not overlap |
| `DeviceLifecycle_spare` | the same without faults | violated: a wiped Mac ends as unenrolled (finding) |
| `SelfService` | 2 handlers, 1 fault, 4 or 5 requests, commit after reply | nine properties of sessions, software requests and inventories |
| `Administration` | 2 handlers, 1 fault, 2 to 5 requests, commit after reply | seven properties of the seven parts |

`GrantInEffect` says that a grant in force whose elevation ran is in effect unless the very
job that changed the account last is a removal for another request, or one that ran out of
order. With the one request of `AdminAccess_decisions` the first of these cannot be;
`GrantHolds` denies it with two, and the code does it.

`EnrolledIsShown`, `GoneIsShown` and `SecondRow` hold of a Mac whose requests neither
overlapped nor failed; what an overlap may do is shown by `SpareAfterWipe`, for which
the very same handlers run without any fault.

What the two composed runs ask:

* `SettledTruly`, `RefusalExplained`, `AgentAuthorised`, `RejectionFinal`
  (`SoftwareRequests`): what a request says happened did happen to one of its jobs; a
  download is refused only for a package someone began to delete or a token that was
  replaced; an agent is locked out only when two first bootstraps overlapped or one failed
  after its script had left; a rejection is undone only by a request that had read the
  earlier status.
* `SingleUse`, `SecondFactorWorks`, `RevocationSticks` (`Sessions`): a pending token that
  gave an access token is revoked when its validation is over, unless that commit failed,
  and a reset link serves twice only in an overlap; a user with the factor enabled can pass
  it unless a setup is being committed, its routes overlapped, a new secret was not scanned
  or its commit failed; a revoked token enters a cache only through a look-up that preceded
  the revocation. That a pending token gives one access token (`PendingOnce`) is true only
  where the commit comes first, and proved for that order.
* `InventoryTrue` (`Inventory`): inventories are whole, accounts are single but for the
  known race, no account that a request refers to goes away.
* `Mirrors` (`Billing`): with every event processed the tenant row shows the subscription
  that changed last, until old news, or the loss of an event that was answered and rolled
  back, spoils it and no later news has come. `TokensHonoured` (`EnrollmentTokens`),
  `HistoryTrue` (`Profiles`), `UnencryptedFlagged` (`Compliance`), `PushesHonest`
  (`PushQueue`), and `DoubledByOverlap`, the places where a SELECT and an INSERT stand for a
  unique constraint (`Users`, `EnrollmentTokens`, `Compliance`, `Groups`). Each says in its
  comment what it excepts: those are races and failures of the code, all of them listed in
  section 5, with what a comment or document says to the contrary; everything else must not
  reach the bad state.

Why the bounds are enough. A run without faults asks what overlap alone can do. Two
requests of one device are the least that overlap, three let a late one meet a retry and a
new message. Two commands let one be reported while the other waits. Two faults allow a
time-out and a crash in one exchange; every fault (lost push, time-out, crash, failed
commit, lost result, failed job, a refused push, an answer that Stripe misses, an event
delivered twice at once) counts against `MaxFaults`. One device is enough in
`CommandDelivery` because connects of different devices share no rows; a bulk insert for
several devices is one transaction either way. A batch of two is the least that has an
order; with three jobs or more it is full, as `LIMIT 10` is with more than ten. That a job
is passed over for ever by others is beyond any bounded number of jobs, and not asked. One
loop beside the manual decisions is enough to end a grant twice; the theorems hold for any
number, and two run in `AdminAccess_shared`. `SelfService` has one user and two server
processes, since a cache is only stale where another process revokes the token. In the
composed runs two handlers hold two requests at a time, the least that overlap, and a race
of a SELECT and an INSERT needs two; the requests of a behaviour are bounded by
`MaxRequests` (users, tokens, groups, compliance, software), `MaxVisits` (sessions),
`MaxAnswers` (inventories), `MaxCheckouts` and `MaxChanges` (billing), `MaxUpdates`
(profiles) and `MaxDeliveries` (pushes): two to make the state, two that overlap, one that
meets the outcome. Three changes at Stripe are a subscription, its change and its end,
with each of their events late or repeated; two subscriptions let an old one's event meet
the new one. `MaxReceives` is 2, where the queue allows 3 (`infra/terraform/sqs.tf`): a
message that is delivered twice at once and one that is given up both occur. `MaxTokens`,
`MaxSecrets`, `MaxResets` and `MaxPushTokens` bound what is issued; a second secret, and a
second push token, are what makes the first stale. `AdminAccess_dispatch` checks a
liveness property and so has no symmetry. Interchangeable rows, commands, requests,
handlers, loops and polls are declared symmetric in the runs without liveness.

Deadlock is checked except in the runs of `DeviceLifecycle`: a Mac that has left
management may stay away for ever, and its tokens are bounded. Elsewhere a server at rest
is a step of its own (`Quiet`).

### Fairness

`CommandDelivery!Progress`: the event loop runs a request it has read to its end (weak
fairness of handling, commit and reply, per request), an API transaction commits, a woken
device connects, a device that executes a command reports, one that was cut off retries or
gives up. `Polling` adds that a device connects now and then by itself. `FairSpec` has
both, `PushSpec` only the first, and only the routes that send a push, to ask what the
push alone achieves. Faults have no fairness and are bounded, so they end.
`AdminAccess!FairSpec`: time reaches `revoke_at`, the loops wake up every minute, requests
are run to their end, the agent polls every 30 seconds and runs what it got. Nothing is
assumed about a user or administrator doing anything, nor about a result being stored. The
composed runs are safety only.

## 4. What is proved

`CommandDeliveryProofs` proves, for all finite or infinite sets of devices, commands and
requests, any number of faults and both commit orders, from the three assumptions named in
`CommandDelivery` (`OwnerAssumption`, `NoneAssumption`, `ModeAssumption`):

* `TypeCorrect`, `HandsOutOnce`, `HandsOutCommitted`, `StatusReported`, `ServedInOrder`:
  the invariants of the run `CommandDelivery_main`;
* `SettlesOnce`: the action property `SettledOnce`;
* `RefinesLifecycle`: with the commit before the reply, `CommandDelivery` implements
  `CommandLifecycle` under the mapping `CommittedTable`.

The properties are not inductive. The inductive invariant `IInv` adds what they silently
rest on: a request that holds a device's row lock is the only one of that device
(without it two requests could hold the same command), the command it marks is still
`queued` in the table and belongs to its caller, every open transaction's rows are its own
and unseen, a message in flight reports a command its device has received, and a
handed-out command is `sent` or settled unless its answer can still be rolled back. With
the commit first, no answer is ever rolled back (`ModeInv`), which is what the refinement
needs. The proof has one lemma per action and part of the invariant; the theorems combine
them by PTL.

`DeviceLifecycleProofs` proves, for every finite set of rows, any set of request slots, any
number of tokens and faults and both commit orders, from `ModeAssumption`,
`NoneAssumption` and `RowAssumption` of `DeviceLifecycle` (the table is finite):

* `TypeCorrect`, `ShownWhileEnrolled`, `ShownWhenGone`: the invariants of the run
  `DeviceLifecycle_record`;
* `OneRowUndisturbed`: the action property `SecondRow`.

`EnrolledIsShown` and `GoneIsShown` speak only of a server at rest. The inductive
invariant follows the one request that is under way in an undisturbed run through its
stages (`Stage`, one part per kind of message): what it has read is still what the rows
say, the rows it will write are the stored ones or, for a first TokenUpdate, the single
new one, and once committed the record is what the Mac's next state calls for. An erase
adds a rest of its own, between acknowledgement and CheckOut, in which the only row is
"wiped" (`ShownWiped`). The lemmas go action by action; a request that fails or overlaps
makes the run disturbed, and nothing is claimed until the next TokenUpdate sent to a
quiet server, which alone re-establishes the record, whatever state the row was in.

`AdminAccessProofs` proves, for any requests, accounts, handlers, loops and polls, any batch
limit of at least one, any number of faults and both commit orders, from
`AccountOfAssumption` and `PollAssumption`:

* `TypeCorrect`, `AdminsAccounted`, `RunsOnce`, `ResultsAreTrue`: the invariants of
  `AdminAccess_dispatch`, and `GrantsInEffect`, the other one of `AdminAccess_decisions`;
* `SettlesOnce`: the action property `JobSettledOnce`.

The inductive invariant counts: a run, a job in the agent's hands and a committed answer
under way are each paid for by one commit or one rollback (`DispatchInv`), which needs
that a job is in one batch at most and that a batch that can still be rolled back holds
pending jobs (`PollInv`). `AdminsAccounted` needs to know which job made an account
administrator (`AdminInv`) and that the status of a request tells which of its jobs was
queued last (`RequestInv`); `GrantsInEffect` is inductive with these, by the job that
changed each account last; `CreatedInv` keeps the requests finite, as a loop inserts one
job for each of those it found.

The three parts of `SelfService` have an inductive invariant each, proved in
`SessionsProofs` (from `Bounds`: finitely many users, with room for the token each begins
with), `SoftwareRequestsProofs` (from `Sorts`: finitely many Macs and packages, told apart
from the names of the other sources) and `InventoryProofs`:

* `Sessions`: room is kept for the token of every validation under way (`RoomInv`); a link
  that served is used (`UseInv`); where the answer waits for the commit, a token given for
  a pending one finds that one revoked, and no other was given for it (`OnceInv`); a request
  past its look-up had the token in the cache or saw it unrevoked (`CheckInv`); a secret
  not shown yet is nobody's (`SetupInv`, `SecretInv`), one shown and not committed is with
  its user at most, whose row is locked (`ShownInv`), and who is about to enable the factor
  has the secret unless it changed (`EnableInv`).
* `SoftwareRequests`: how far each job is (`JobInv`), that an installing request knows its
  job (`RequestInv`), that a package once there is there or withdrawn (`StoreInv`), where
  agent tokens come from and that scripts hold the stored one, or the one a bootstrap that
  was answered is about to store, until bootstraps cross or fail (`TokenInv`,
  `ScriptInv`), and that what a handler has read stays true until it commits (`HeldInv`,
  `FreshInv`).
* `Inventory`: answers that replace an inventory come one after the other, and what one is
  to delete is still all there is (`ReplaceInv`).

`SelfServiceProofs` proves from `SessionsAssumption`, `SoftwareAssumption` and
`InventoryAssumption` all nine properties of the run `SelfService`, in either commit
order, and `PendingUsedOnce` for the order with the commit first: there a pending token
gives one access token. Its invariant says that the part that acts keeps its own, and that
what is stated of the others goes on holding: the other parts' invariants as such would be
false, since the handlers they speak of are busy with something else. `RevocationSticks`
and `RejectionFinal` follow from a lemma about one step of the part.

`AdministrationProofs` proves all seven properties of the run `Administration` in the same
way, in either commit order, for any constants with `PlanAssumption` (plans with positive
limits, a plan of each subscription), `UserAssumption`, `ProfileAssumption` (stored
profiles are told apart from those the server builds), `QueueAssumption` and
`HandlersAssumption`. The invariants of its parts, and why the properties need them:

* `BillingInv`. `Mirrors` speaks of a moment when nothing is pending. Its invariant,
  `Reflects`, speaks of every moment: while the row is not spoilt, either the event of the
  last change that will write the plan is awaited, from Stripe or by a request that was
  answered and has not committed, or the row already shows that change. It needs that
  events, and what a webhook holds, tell changes that happened (`EventsTrue`,
  `WebhooksTrue`), and that each change has a number of its own (`Numbered`).
* `UsersInv`: an invitation had found its address free and makes a row nobody else makes
  (`Inviting`).
* `TokensInv`: without a plan there is no limit, no device and no token (`Unpaid`), a
  profile leaves under a token that was made (`Making`, `Downloaded`) and the first one of
  a single-use token marks it or is about to, unless the mark was lost (`Marked`), an
  import had found its serial number missing (`Imports`), and a serial number staged twice
  was raced for (`Staged`); from positions to cardinalities by a lemma.
* `GroupsInv`: a membership of more than one row is recorded as doubled (`Doubled`); an
  addition had found missing what it adds, and a bulk action had read which memberships
  were doubled (`Adding`).
* `ComplianceInv`: two results of one pair were raced for (`Raced`), results are inserted
  for the pairs that had none when they were read (`Inserting`), and the whole strict
  evaluation of a Mac without encryption has a "non_compliant" among its verdicts
  (`Answering`).
* `ProfilesInv`: versions without a gap (`Gapless`), one of which tells the stored payload
  (`Recorded`); the number an update holds continues them, and a command, queued or about
  to be, asks for a payload they tell, as long as the profile is stored (`RequestsFit`).
* `PushesInv`: a delivery is of a message that was sent, and what it deletes was served,
  missed or cannot be read (`Delivering`); a push's token came from the row, and one that is
  to be cleared is not the Mac's own and will not be again (`Pushing`), since tokens are
  given one after the other (`Given`).

Only model-checked: liveness (`LeavesQueue`, `GrantEnds`), which is out of the prover's
reach, and the six violations of section 5, which are no theorems.

## 5. Findings

Shown by a run, each with a trace of the code's own steps:

1. `NeverLost`: `TROUBLESHOOTING.md:136` promises that queued commands "won't be lost"; one
   whose answer is lost after the commit stays `sent` and is never handed out.
2. `NotNowRequeued`: `TROUBLESHOOTING.md:179` says of a NotNow "Retry — will re-queue
   automatically"; the row stays `not_now` however often the device connects.
3. `PushDelivers`: a route starts its push before its row is committed (`devices.py:208`).
   The woken device finds nothing, and no other push announces the command.
4. `AccessRemoved`: jobs of one poll have no order, so a removal can run before the
   elevation it undoes, and the account stays admin (`README.md:338`).
5. `GrantHolds`: two requests for one account are approved; the end of one removes the
   account while the other is in force (`README.md:336-338`). A removal that is queued
   twice, by two loops or by a loop and a manual revocation, does the same to a later
   grant.
6. `SpareAfterWipe`: the CheckOut after a wipe can read a status from before the erase
   acknowledgement and store `unenrolled` (`README.md:315`, `checkin.py:179-183`).

Met while modelling: what a passing property excepts, named with it, or a behaviour no
property forbids. Where a document or a comment says otherwise it is quoted; the models
have all of these.

* Queue. The three commands of a patch scan have the same `queued_at`, so their order is
  open. With more than ten jobs always pending, one may be passed over for ever, as the
  poll's `LIMIT 10` has no order (`agent.py:225`).
* Accounts of a Mac. A `UserList` answer for a Mac with an account that an admin request
  refers to breaks on the foreign key, every time (`connect.py:290`). macOS 15 does not
  send `IsAdmin`, such accounts are stored as not admin, and what the comment at
  `connect.py:299` speaks of is not done. An account that got two rows from an answer and a
  report that overlapped (`InventoryTrue`) makes the portal request of its owner fail.
* Software. A rejection does not look at the status: what is running, or finished, becomes
  rejected, and an approval or a listing that had read the old status undoes it
  (`RejectionFinal`). A package that goes between approval and download leaves a failed
  installation (`RefusalExplained`). Two first bootstraps leave one agent with a token the
  server does not know, and so does one whose commit fails after the script has left
  (`AgentAuthorised`).
* Sessions, `SingleUse`. `validate_2fa` adds the `RevokedToken` of the pending token to
  its session ("Revoke the temp token immediately", `auth.py:280`), answers, and does not
  ask the blocklist. With the answer before the commit one pending token gives several
  access tokens: the unique `jti` fails later. A failed commit leaves it unrevoked. Two
  resets with one link both find it unused.
* Sessions, `SecondFactorWorks`. Setup stores its secret over one that is in use
  (`auth.py:198`), against its docstring: "does not activate until /2fa/enable is called"
  (`auth.py:191`). A user who does not scan the new one, or scans one whose commit then
  fails, is locked out; so is one whose setup and enable overlap.
* Sessions, `RevocationSticks`. A look-up that came before a logout committed puts the
  revoked token into the cache after it, against "Revoked tokens are never added here"
  (`deps.py:20`), and it serves for another minute. Portal tokens are not compared with
  the blocklist, and the portal's logout only deletes the cookie. SSO asks for no second
  factor. The same e-mail address in two tenants breaks the login of both.
* Users. A user who has ever signed out, asked for a reset or decided a request cannot be
  deleted (foreign keys). The comment at `users.py:102` says "Prevent removing the last
  owner": the check is for demotion only, two demotions at once pass it, and deactivation
  and deletion have none. Two invitations at once make two users of one address
  (`DoubledByOverlap`).
* Enrollment, `TokensHonoured`. Two downloads that overlap both get a profile for a token
  that the dashboard calls "Single-use"
  (`dashboard/app/(dashboard)/enrollment/page.tsx:143`) and the route "already used"
  (`enrollment.py:170`); so do two in a row when the mark of the first is rolled back
  after its profile has left. "Raise 402 if the tenant has hit their plan's device limit"
  (`enrollment.py:38`) is for the making of a token: tokens made while there was room, or
  a reusable one, enroll past the limit, also after a cancellation, which "locks out
  enrollment (don't delete data) until they resubscribe" (`billing.py:307-308`). CSV rows
  are matched by nothing: check-ins look for the UDID only, against the docstring at
  `enrollment.py:92`; imports that overlap stage a serial number twice
  (`DoubledByOverlap`).
* Billing, `Mirrors`. The docstring says "cancel → downgrade to trial limits"
  (`billing.py:218`), the trial's being 5 (`billing.py:63`); the handler stores 0
  (`billing.py:314`), which is what the property asks for. No event is compared with the
  subscription the tenant has: a late `updated` revives a cancelled plan, the `deleted` of
  an old subscription locks out a tenant that has a new one, a completed checkout
  processed after the end reopens one. An event that was answered and rolled back is not
  sent again. Two checkouts before the first webhook make two customers.
* Reminder. "Each tenant is only ever reminded once per trial ... so restarts/re-runs never
  double-send" (`trial_reminder.py:6-7`). Two loops both send before either commits; a loop
  that fails after the mail sends it again in its next round; any later `updated` clears the
  mark. With these three excepted nothing is left to claim but the stored mark, so there is
  no property.
* Compliance. Two rules write `compliance_status`; the evaluation runs before the facts of
  the same answer are stored. Two results of one pair (`DoubledByOverlap`) stop every
  later evaluation of that Mac. A default policy that is deleted comes back with the next
  listing, two listings at once make two. The status "unknown" of a policy result is never
  reached.
* Groups, `DoubledByOverlap`. Two additions at once, or one that names a device twice, store
  a membership twice, and a bulk action then queues its command twice.
* Profiles, `HistoryTrue`. Updates that cross may write two versions of one number, and the
  newest may then tell a payload that is not stored.
* Pushes, `PushesHonest`. A 410 for the token of an earlier read clears the token a
  TokenUpdate has stored meanwhile ("Token is gone; no point retrying",
  `command_queue.py:115`) and the message is deleted; the Mac then waits for its next poll
  or TokenUpdate. A body that is not JSON is logged as "sending to DLQ"
  (`command_queue.py:64`) and deleted (`command_queue.py:66`): it never reaches the dead
  letters.

## 6. Not modelled

* Windows OMA-DM: its routers are commented out in `main.py:143-145`.
* Command and profile builders, mTLS certificates, the certificate authority: they compute
  a value from their arguments.
* Mails, notifications, the PSSO readiness view, platform and audit views: they send or
  read. The tenant's settings are one UPDATE of one row, a group's name and colour too.
* The dashboard and the page of the portal: clients of the routes above.
* Deployment scripts and Terraform, but for the redrive policy of the queue.
* Tenant isolation: every model is of one tenant; the queries' tenant conditions are not
  in question in any property.

## 7. Plan

Every safety property and action property of the passing runs has its theorem. Left are:

1. An abstract `GrantLifecycle` of administrator grants and where `AdminAccess` implements
   it, as `CommandLifecycle` is for the queue.
2. Abstract specifications of two parts that promise more than their invariants say:
   sessions (a revoked token) and the software requests (a request and its job).
3. The composition of `DeviceLifecycle` with the queue: commands that survive a
   re-enrollment, the one hazard without a property.
4. The Windows OMA-DM session, last, as its routers are disabled.
