------------------------------ MODULE SelfService ------------------------------
(***************************************************************************)
(* What people do for themselves: sign in and out, set up a second factor, *)
(* reset a password, ask for software, and ask for rights on the accounts  *)
(* of their Mac.  The parts share the server's handlers and no column they *)
(* change, so every behaviour of all of them is an interleaving of         *)
(* behaviours of each; focus names the part that acts.                     *)
(***************************************************************************)
EXTENDS Handlers, SequencesExt

CONSTANTS
    User, Process, MaxVisits, MaxTokens, MaxSecrets, MaxResets,  \* of Sessions
    Mac, Request, Package, Named, Packaged, Otherwise, None,     \* of SoftwareRequests
    Item, Account, MaxAnswers                                    \* of Inventory

VARIABLES
    focus,
    account, app, secrets, tokens, blocklist, cache, unrevoked, resets, resetsBy, overlapped, doubled,
    checkins, reported, token, minted, scripts, config, packages, files, req, jobs, todo,
    results, outcome, withdrawn, crossed,
    asked, shown, installs, users, on, referred, twins

S == INSTANCE Sessions WITH crossed <- overlapped, MaxRequests <- MaxVisits
R == INSTANCE SoftwareRequests
I == INSTANCE Inventory WITH doubled <- twins, MaxRequests <- MaxAnswers

\* What the modules ask of their constants; Inventory has only a bound.
ASSUME SessionsAssumption == MaxVisits \in Nat /\ S!Bounds

ASSUME SoftwareAssumption == R!Sorts

ASSUME InventoryAssumption == MaxAnswers \in Nat

sessions  == <<account, app, secrets, tokens, blocklist, cache, unrevoked, resets, resetsBy,
               overlapped, doubled>>
software  == <<checkins, reported, token, minted, scripts, config, packages, files, req, jobs, todo,
               results, outcome, withdrawn, crossed>>
inventory == <<asked, shown, installs, users, on, referred, twins>>

vars == <<handlers, focus, sessions, software, inventory>>

--------------------------------------------------------------------------------
\* The parts that rest stay in one initial state; which one shows nowhere.
Init ==
    /\ focus \in {"sessions", "software", "inventory"} /\ S!Init /\ R!Init /\ I!Init
    /\ focus # "software" => /\ packages = <<>> /\ config = [m \in Mac |-> 0]
                             /\ checkins = CHOOSE s \in SetToSeqs(Mac) : TRUE
    /\ focus # "sessions" => secrets = 0

SessionStep   == focus = "sessions"  /\ S!Next /\ UNCHANGED <<software, inventory>>
SoftwareStep  == focus = "software"  /\ R!Next /\ UNCHANGED <<sessions, inventory>>
InventoryStep == focus = "inventory" /\ I!Next /\ UNCHANGED <<sessions, software>>

Next == (SessionStep \/ SoftwareStep \/ InventoryStep) /\ UNCHANGED focus

Spec == Init /\ [][Next]_vars

--------------------------------------------------------------------------------
(* Properties, each of one part; the modules tell more of them.                 *)

\* Every variable of the acting part has its type.
TypeOK ==
    /\ focus = "sessions"  => S!TypeOK
    /\ focus = "software"  => R!TypeOK
    /\ focus = "inventory" => I!TypeOK

\* A pending token that gave an access token is revoked once its validation ended, unless
\* the commit failed after the answer; a reset link serves twice only when two requests
\* had found it unused.
SingleUse == S!SingleUse

\* validate revokes a pending token "immediately": it gives one access token.  True where
\* answers wait for the commit only.
PendingOnce == S!PendingOnce

\* Whoever has the second factor enabled holds the secret it is checked with, unless a
\* setup is being committed, requests overlapped, a new secret was not scanned, or its
\* commit failed after the answer: then no code fits any more.
SecondFactorWorks == S!SecondFactorWorks

\* A revoked token comes into a cache only by a look-up that had seen it unrevoked.
RevocationSticks == S!RevocationSticks

\* A request shown as completed was installed by one of its jobs, and one shown as
\* failed has a job that went wrong, however listings overlap decisions.
SettledTruly == R!SettledTruly

\* The server refuses the package of an approved installation only when somebody had
\* started to delete it, or when the token in the command is not the Mac's any more.
RefusalExplained == R!RefusalExplained

\* An agent has the token the server knows, or one that is being committed, unless two
\* bootstraps of a Mac without a token overlapped or one failed after its script had left:
\* then it may be locked out for good.
AgentAuthorised == R!AgentAuthorised

\* A rejection is final unless a request that overlapped it had read the old status:
\* approve checks the status and reject does not.
RejectionFinal == R!RejectionFinal

\* However answers, agent reports and requests overlap, the rows of an inventory come from
\* one answer, an account has two rows only when two writers had both found none, and
\* none that a request for administrator rights is about goes away.
InventoryTrue == I!SnapshotWhole /\ I!AccountOnce /\ I!AccountStays
================================================================================
