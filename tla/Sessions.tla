------------------------------- MODULE Sessions --------------------------------
(***************************************************************************)
(* Signing in and out: access tokens and the blocklist of revoked ones,    *)
(* which every server process caches for a minute, the second factor, and  *)
(* password resets.  A server process checks a token before it serves any  *)
(* route, so a request has three steps: the look-up, the admission, and    *)
(* the commit of what the route changed.                                   *)
(*                                                                         *)
(* A validation and a setup give something away with their answer, so this *)
(* is a step of its own where it comes before the commit.                  *)
(***************************************************************************)
EXTENDS Handlers, Sequences, FiniteSets

CONSTANTS
    User,
    Process,     \* server processes, each with a cache of its own
    MaxTokens,   \* bound on JSON web tokens issued
    MaxSecrets,  \* bound on TOTP secrets made
    MaxResets    \* bound on password reset links

VARIABLES
    account,   \* account[u]: whether active, totp_secret (0 for NULL) and totp_enabled
    app,       \* app[u]: the secret in the authenticator of u, 0 for none
    secrets,   \* secrets made so far
    tokens,    \* the tokens issued: user, kind, and the pending token one was given for
    blocklist, \* RevokedToken rows
    cache,     \* cache[p]: tokens process p has confirmed within the last minute
    resets,    \* the PasswordResetToken rows
    resetsBy,  \* history: how many resets each of them made
    crossed,   \* history: users whose second-factor requests overlapped, who replaced a
               \* secret in use without scanning the new one, or were given one in vain
    unrevoked, \* history: pending tokens whose revocation failed after the answer
    doubled    \* history: reset links that two requests had found unused

jwts    == <<tokens, blocklist, cache, unrevoked>>
factor  == <<account, app, secrets, crossed>>
links   == <<resets, resetsBy, doubled>>
vars    == <<handlers, jwts, factor, links>>

\* Everybody has a token to begin with, and the bounds leave room for that.
Bounds ==
    /\ IsFiniteSet(User) /\ Cardinality(User) <= MaxTokens
    /\ MaxTokens \in Nat /\ MaxSecrets \in Nat \ {0} /\ MaxResets \in Nat

--------------------------------------------------------------------------------
TokenId == DOMAIN tokens
ResetId == DOMAIN resets

\* Everybody is signed in; all or none have a second factor.
Init ==
    /\ HandlersInit
    /\ secrets \in {0, 1}
    /\ account = [u \in User |-> [active |-> TRUE, secret |-> secrets, enabled |-> secrets = 1]]
    /\ app = [u \in User |-> secrets]
    /\ \E s \in [1..Cardinality(User) -> User] :
           /\ \A u \in User : \E i \in DOMAIN s : s[i] = u
           /\ tokens = [i \in DOMAIN s |-> [user |-> s[i], kind |-> "access", from |-> 0]]
    /\ blocklist = {}
    /\ cache = [p \in Process |-> {}]
    /\ resets = <<>> /\ resetsBy = <<>>
    /\ crossed = {} /\ unrevoked = {} /\ doubled = {}

Issue(u, kind, from) == tokens' = Append(tokens, [user |-> u, kind |-> kind, from |-> from])

\* The bound leaves room for the validations under way.
Room == Len(tokens) + Cardinality({h \in Handler : request[h].op = "validate"}) < MaxTokens

--------------------------------------------------------------------------------
(* Signing in.                                                                  *)

\* POST /auth/login: with a second factor the token is a pending one.
Login(u) ==
    /\ AtOnce
    /\ account[u].active /\ Room
    /\ Issue(u, IF account[u].enabled THEN "pending" ELSE "access", 0)
    /\ UNCHANGED <<blocklist, cache, unrevoked, factor, links>>

\* The callback of Entra asks for no second factor.
SsoCallback(u) ==
    /\ AtOnce
    /\ account[u].active /\ Room
    /\ Issue(u, "access", 0)
    /\ UNCHANGED <<blocklist, cache, unrevoked, factor, links>>

\* The callback for the portal looks the tenant up and no user; the token is for a cookie
\* and names nobody in the users table.
PortalCallback(u) ==
    /\ AtOnce
    /\ Room
    /\ Issue(u, "portal", 0)
    /\ UNCHANGED <<blocklist, cache, unrevoked, factor, links>>

\* A code of the authenticator fits the secret.
Verifies(u) == account[u].secret # 0 /\ app[u] = account[u].secret

\* POST /auth/2fa/validate; whether the token was used before is not asked for.
LoadValidate(h, t) ==
    /\ tokens[t].kind = "pending" /\ Room
    /\ account[tokens[t].user].active /\ account[tokens[t].user].enabled /\ Verifies(tokens[t].user)
    /\ Begin(h, [op |-> "validate", token |-> t])
    /\ UNCHANGED <<jwts, factor, links>>

\* From here on whoever waits has the access token; the blocklist was not asked and the
\* pending token is not in it yet.
ReplyValidate(h) ==
    LET t == request[h].token
    IN  /\ Reply(h, "validate", [op |-> "validated", token |-> t])
        /\ Issue(tokens[t].user, "access", t)
        /\ UNCHANGED <<blocklist, cache, unrevoked, factor, links>>

\* A mutant: the pending token is not revoked.
CommitUnrevoked(h) ==
    LET t == request[h].token
    IN  /\ Finish(h, Due("validate", "validated"))
        /\ IF CommitBeforeReply THEN Issue(tokens[t].user, "access", t) ELSE UNCHANGED tokens
        /\ UNCHANGED <<blocklist, cache, unrevoked, factor, links>>
\* The jti is unique: only one of several commits goes through, and no other changes
\* anything; it takes the answer with it that has not left.
CommitValidate(h) ==
    LET t == request[h].token
    IN  /\ Finish(h, Due("validate", "validated"))
        /\ IF CommitBeforeReply /\ t \notin blocklist
           THEN Issue(tokens[t].user, "access", t) ELSE UNCHANGED tokens
        /\ blocklist' = blocklist \cup {t}
        /\ UNCHANGED <<cache, unrevoked, factor, links>>

--------------------------------------------------------------------------------
(* Requests with a token; get_current_user.                                     *)

\* A mutant: the blocklist is never asked.
LookUpNothing(h, p, t, goal) ==
    /\ Begin(h, [op |-> "check", proc |-> p, token |-> t, goal |-> goal, hit |-> t \in cache[p],
                 clean |-> t \notin blocklist])
    /\ UNCHANGED <<jwts, factor, links>>
\* The blocklist is asked unless the cache has the token; its type is not looked at.
LookUp(h, p, t, goal) ==
    /\ t \in cache[p] \/ t \notin blocklist
    /\ Begin(h, [op |-> "check", proc |-> p, token |-> t, goal |-> goal, hit |-> t \in cache[p],
                 clean |-> t \notin blocklist])
    /\ UNCHANGED <<jwts, factor, links>>

\* What the route has read, or Free if it refuses or changes nothing.
Route(q, u) ==
    CASE q.goal = "logout" -> [op |-> "logout", token |-> q.token]
      [] q.goal = "setup" /\ secrets < MaxSecrets -> [op |-> "setup", user |-> u, secret |-> secrets + 1]
      [] q.goal = "enable" /\ Verifies(u) ->
             [op |-> "enable", user |-> u, saw |-> account[u]]
      [] q.goal = "disable" /\ account[u].enabled /\ Verifies(u) ->
             [op |-> "disable", user |-> u, saw |-> account[u]]
      [] OTHER -> Free

\* The answer of the blocklist goes to the cache; logout takes the token out again
\* before anything is committed.
Admit(h) ==
    LET q == request[h]
        u == tokens[q.token].user
        Known == tokens[q.token].kind # "portal" /\ account[u].active
        Confirmed == IF q.hit THEN cache[q.proc] ELSE cache[q.proc] \cup {q.token}
    IN  /\ request[h].op = "check"
        /\ request' = [request EXCEPT ![h] = IF Known THEN Route(q, u) ELSE Free]
        /\ cache' = [cache EXCEPT ![q.proc] =
                        IF q.goal = "logout" /\ Known THEN Confirmed \ {q.token} ELSE Confirmed]
        /\ secrets' = IF request'[h].op = "setup" THEN secrets + 1 ELSE secrets
        /\ UNCHANGED <<begun, faults, tokens, blocklist, unrevoked, account, app, crossed, links>>

\* A second logout of the same token breaks on the unique jti and changes nothing.
CommitLogout(h) ==
    /\ Finish(h, "logout")
    /\ blocklist' = blocklist \cup {request[h].token}
    /\ UNCHANGED <<tokens, cache, unrevoked, factor, links>>

\* A minute has passed since p asked for t; entries are not renewed.
CacheExpires(p, t) ==
    /\ t \in cache[p]
    /\ cache' = [cache EXCEPT ![p] = @ \ {t}]
    /\ UNCHANGED <<handlers, tokens, blocklist, unrevoked, factor, links>>

--------------------------------------------------------------------------------
(* The second factor.                                                           *)

\* A setup that was answered holds the lock of the user's row until its commit.
Locked(u) == \E i \in Handler : request[i].op = "shown" /\ request[i].user = u

\* The new secret replaces the old one also when that is in use; the user may scan it.
Scan(u, secret) ==
    \/ app' = [app EXCEPT ![u] = secret] /\ UNCHANGED crossed
    \/ /\ UNCHANGED app
       /\ crossed' = IF account[u].enabled THEN crossed \cup {u} ELSE crossed

ReplySetup(h) ==
    LET q == request[h]
    IN  /\ Reply(h, "setup", [q EXCEPT !.op = "shown"])
        /\ ~Locked(q.user) /\ Scan(q.user, q.secret)
        /\ UNCHANGED <<account, secrets, jwts, links>>

CommitSetup(h) ==
    LET q == request[h]
    IN  /\ Finish(h, Due("setup", "shown"))
        /\ account' = [account EXCEPT ![q.user].secret = q.secret]
        /\ IF CommitBeforeReply THEN Scan(q.user, q.secret) ELSE UNCHANGED <<app, crossed>>
        /\ UNCHANGED <<secrets, jwts, links>>

\* The columns a request found different from what it wants are written.
Crossing(q) == IF account[q.user] # q.saw THEN crossed \cup {q.user} ELSE crossed

CommitEnable(h) ==
    LET q == request[h]
    IN  /\ Finish(h, "enable") /\ ~Locked(q.user)
        /\ account' = IF q.saw.enabled THEN account ELSE [account EXCEPT ![q.user].enabled = TRUE]
        /\ crossed' = Crossing(q)
        /\ UNCHANGED <<app, secrets, jwts, links>>

\* A mutant: the secret goes, the flag stays.
CommitForget(h) ==
    LET q == request[h]
    IN  /\ Finish(h, "disable") /\ ~Locked(q.user)
        /\ account' = [account EXCEPT ![q.user].secret = 0]
        /\ crossed' = Crossing(q)
        /\ UNCHANGED <<app, secrets, jwts, links>>
CommitDisable(h) ==
    LET q == request[h]
    IN  /\ Finish(h, "disable") /\ ~Locked(q.user)
        /\ account' = [account EXCEPT ![q.user].enabled = FALSE, ![q.user].secret = 0]
        /\ crossed' = Crossing(q)
        /\ UNCHANGED <<app, secrets, jwts, links>>

--------------------------------------------------------------------------------
(* Passwords and accounts.                                                      *)

\* The mail leaves before the row is committed; a link that failed leads nowhere.
ForgotPassword(u) ==
    /\ AtOnce
    /\ account[u].active /\ Len(resets) < MaxResets
    /\ resets'   = Append(resets, [user |-> u, used |-> FALSE])
    /\ resetsBy' = Append(resetsBy, 0)
    /\ UNCHANGED <<jwts, factor, doubled>>

LoadReset(h, k) ==
    /\ ~resets[k].used /\ account[resets[k].user].active
    /\ Begin(h, [op |-> "reset", link |-> k, fresh |-> ~resets[k].used])
    /\ UNCHANGED <<jwts, factor, links>>

CommitReset(h) ==
    LET k == request[h].link
    IN  /\ Finish(h, "reset") /\ ~Locked(resets[k].user)
        /\ resets'   = [resets EXCEPT ![k].used = TRUE]
        /\ resetsBy' = [resetsBy EXCEPT ![k] = @ + 1]
        /\ doubled'  = IF request[h].fresh /\ resets[k].used THEN doubled \cup {k} ELSE doubled
        /\ UNCHANGED <<jwts, factor>>

\* An administrator changes the status of an account.
SetStatus(u) ==
    /\ AtOnce /\ ~Locked(u)
    /\ account' = [account EXCEPT ![u].active = ~@]
    /\ UNCHANGED <<app, secrets, crossed, jwts, links>>

--------------------------------------------------------------------------------
\* What was answered stays with whoever has it: an access token for a pending one that is
\* not revoked, a secret the server does not know.
RequestFails(h) ==
    LET q == request[h]
    IN  /\ Abandon(h)
        /\ unrevoked' = IF q.op = "validated" THEN unrevoked \cup {q.token} ELSE unrevoked
        /\ crossed'   = IF q.op = "shown" THEN crossed \cup {q.user} ELSE crossed
        /\ UNCHANGED <<tokens, blocklist, cache, account, app, secrets, links>>

Goal == {"browse", "logout", "setup", "enable", "disable"}

Arrivals ==
    \/ \E u \in User : Login(u) \/ SsoCallback(u) \/ PortalCallback(u) \/ ForgotPassword(u) \/ SetStatus(u)
    \/ \E h \in Handler :
          \/ \E t \in TokenId : LoadValidate(h, t)
          \/ \E p \in Process, t \in TokenId, goal \in Goal : LookUp(h, p, t, goal)
          \/ \E k \in ResetId : LoadReset(h, k)

Proceeds(h) ==
    \/ Admit(h)
    \/ ReplyValidate(h) \/ ReplySetup(h)
    \/ CommitValidate(h) \/ CommitLogout(h) \/ CommitReset(h)
    \/ CommitSetup(h) \/ CommitEnable(h) \/ CommitDisable(h)

Next ==
    \/ Arrivals
    \/ \E h \in Handler : Proceeds(h) \/ RequestFails(h)
    \/ \E p \in Process : \E t \in cache[p] : CacheExpires(p, t)
    \/ Quiet /\ UNCHANGED vars

Spec == Init /\ [][Next]_vars

--------------------------------------------------------------------------------
(* Properties.                                                                  *)

Factor == [active : BOOLEAN, secret : 0..MaxSecrets, enabled : BOOLEAN]

\* What a handler may have in its hands.
Operation ==
    {Free} \cup [op : {"validate", "validated", "logout"}, token : TokenId]
           \cup [op : {"check"}, proc : Process, token : TokenId, goal : Goal, hit : BOOLEAN, clean : BOOLEAN]
           \cup [op : {"setup", "shown"}, user : User, secret : 1..MaxSecrets]
           \cup [op : {"enable", "disable"}, user : User, saw : Factor]
           \cup [op : {"reset"}, link : ResetId, fresh : BOOLEAN]

\* Every variable has its type.
TypeOK ==
    /\ request \in [Handler -> Operation] /\ begun \in 0..MaxRequests /\ faults \in 0..MaxFaults
    /\ account \in [User -> Factor] /\ app \in [User -> 0..MaxSecrets] /\ secrets \in 0..MaxSecrets
    /\ tokens \in Seq([user : User, kind : {"access", "pending", "portal"}, from : 0..MaxTokens])
    /\ Len(tokens) <= MaxTokens /\ blocklist \subseteq TokenId
    /\ cache \in [Process -> SUBSET TokenId]
    /\ resets \in Seq([user : User, used : BOOLEAN]) /\ resetsBy \in Seq(Nat)
    /\ crossed \subseteq User /\ unrevoked \subseteq TokenId /\ doubled \subseteq ResetId

\* A pending token that gave an access token is revoked once its validation ended, unless
\* the commit failed after the answer; a reset link serves twice only when two requests
\* had found it unused.
SingleUse ==
    /\ \A i \in TokenId :
          LET t == tokens[i].from
          IN  t # 0 => \/ t \in blocklist \cup unrevoked
                       \/ \E h \in Handler : request[h].op = "validated" /\ request[h].token = t
    /\ \A k \in ResetId : resetsBy[k] > 1 => k \in doubled

\* validate revokes a pending token "immediately": it gives one access token.  True where
\* answers wait for the commit only.
PendingOnce ==
    \A i, j \in TokenId : tokens[i].from # 0 /\ tokens[i].from = tokens[j].from => i = j

\* Whoever has the second factor enabled holds the secret it is checked with, unless a
\* setup is being committed, requests overlapped, a new secret was not scanned, or its
\* commit failed after the answer: then no code fits any more.
SecondFactorWorks ==
    \A u \in User : account[u].enabled => Verifies(u) \/ Locked(u) \/ u \in crossed

\* A revoked token comes into a cache only by a look-up that had seen it unrevoked.
RevocationSticks ==
    [][\A p \in Process, t \in TokenId :
          t \in blocklist /\ t \in cache'[p] =>
              \/ t \in cache[p]
              \/ \E h \in Handler : /\ request[h].op = "check" /\ request[h].clean
                                     /\ request[h].proc = p /\ request[h].token = t]_vars
================================================================================
