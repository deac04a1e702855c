----------------------------- MODULE Administration ----------------------------
(***************************************************************************)
(* What a tenant has beside the commands of its devices: the subscription, *)
(* users, enrollment tokens, groups, compliance policies, profiles and the *)
(* queue of pushes.                                                        *)
(* The parts share the server's handlers and no column: the limit a plan   *)
(* sets changes at will in EnrollmentTokens.  So every behaviour of all of *)
(* them is an interleaving of behaviours of each, and those in which one   *)
(* part acts show all that can happen to it.  focus names that part.       *)
(***************************************************************************)
EXTENDS Handlers

CONSTANTS
    Sub, Plan, PlanOf, Limit, Worker, MaxCheckouts, MaxChanges, None,  \* of Billing
    User, Mail,        \* of Users
    Token,             \* of EnrollmentTokens
    Group,             \* of Groups
    Policy,            \* of Compliance
    Profile, Payload, MaxUpdates,  \* of Profiles
    Message, MaxReceives, MaxPushTokens, MaxDeliveries,  \* of PushQueue
    Mac,               \* devices where several matter: tokens and groups
    Device             \* devices that are evaluated, or configured, each on its own

\* Bounds, and what a signup, a policy or a profile needs to exist at all.
ASSUME PlanAssumption ==
    /\ PlanOf \in [Sub -> Plan] /\ Limit \in [Plan -> Nat \ {0}] /\ Plan # {}
    /\ MaxCheckouts \in Nat /\ MaxChanges \in Nat /\ None \notin Sub \cup Plan

\* Signup makes a user with an address.
ASSUME UserAssumption == User # {} /\ Mail # {}

\* Stored profiles are told apart from those the server builds itself.
ASSUME ProfileAssumption ==
    /\ Payload # {} /\ MaxUpdates \in Nat
    /\ Profile \cap {"psso", "onedrive", "usb", "gatekeeper", "icloud"} = {}

\* The Mac has a push token to begin with.
ASSUME QueueAssumption ==
    MaxReceives \in Nat /\ MaxPushTokens \in Nat \ {0} /\ MaxDeliveries \in Nat

VARIABLES
    focus,
    tenant, sub, customers, events, changes, due, applied,
    user, referenced, invited,
    limit, tok, reusable, staged, enrolled, named, paid, profiles, shared, unmarked, crossed,
    groups, devices, member, bulk, doubled, excused,
    policy, result, encrypted, flag, lenient, raced, reseeded,
    profile, version, managed, queued, mixed,
    message, row, live, issued, told, served, missed, cut

B == INSTANCE Billing WITH MaxRequests <- MaxCheckouts
U == INSTANCE Users
T == INSTANCE EnrollmentTokens WITH Limits <- {Limit[p] : p \in Plan}
G == INSTANCE Groups WITH Device <- Mac
C == INSTANCE Compliance
P == INSTANCE Profiles WITH Mac <- Device, MaxRequests <- MaxUpdates
Q == INSTANCE PushQueue WITH crossed <- cut, MaxRequests <- MaxDeliveries

billing     == <<tenant, sub, customers, events, changes, due, applied>>
accounts    == <<user, referenced, invited>>
enrollment  == <<limit, tok, reusable, staged, enrolled, named, paid, profiles, shared, unmarked, crossed>>
memberships == <<groups, devices, member, bulk, doubled, excused>>
compliance  == <<policy, result, encrypted, flag, lenient, raced, reseeded>>
settings    == <<profile, version, managed, queued, mixed>>
pushes      == <<message, row, live, issued, told, served, missed, cut>>

vars == <<handlers, focus, billing, accounts, enrollment, memberships, compliance, settings, pushes>>

--------------------------------------------------------------------------------
Parts == {"billing", "users", "tokens", "groups", "compliance", "profiles", "pushes"}

Init ==
    /\ focus \in Parts
    /\ B!Init /\ U!Init /\ T!Init /\ G!Init /\ C!Init /\ P!Init /\ Q!Init

\* The parts that rest, by the one that acts.
BillingStep    == /\ focus = "billing" /\ B!Next
                  /\ UNCHANGED <<accounts, enrollment, memberships, compliance, settings, pushes>>
UserStep       == /\ focus = "users" /\ U!Next
                  /\ UNCHANGED <<billing, enrollment, memberships, compliance, settings, pushes>>
TokenStep      == /\ focus = "tokens" /\ T!Next
                  /\ UNCHANGED <<billing, accounts, memberships, compliance, settings, pushes>>
GroupStep      == /\ focus = "groups" /\ G!Next
                  /\ UNCHANGED <<billing, accounts, enrollment, compliance, settings, pushes>>
ComplianceStep == /\ focus = "compliance" /\ C!Next
                  /\ UNCHANGED <<billing, accounts, enrollment, memberships, settings, pushes>>
ProfileStep    == /\ focus = "profiles" /\ P!Next
                  /\ UNCHANGED <<billing, accounts, enrollment, memberships, compliance, pushes>>
PushStep       == /\ focus = "pushes" /\ Q!Next
                  /\ UNCHANGED <<billing, accounts, enrollment, memberships, compliance, settings>>

Next ==
    /\ \/ BillingStep \/ UserStep \/ TokenStep \/ GroupStep
       \/ ComplianceStep \/ ProfileStep \/ PushStep
    /\ UNCHANGED focus

Spec == Init /\ [][Next]_vars

--------------------------------------------------------------------------------
(* Properties, each of one part or several; the modules tell more of them.      *)

\* Every variable of the acting part has its type.
TypeOK ==
    /\ focus = "billing"    => B!TypeOK
    /\ focus = "users"      => U!TypeOK
    /\ focus = "tokens"     => T!TypeOK
    /\ focus = "groups"     => G!TypeOK
    /\ focus = "compliance" => C!TypeOK
    /\ focus = "profiles"   => P!TypeOK
    /\ focus = "pushes"     => Q!TypeOK

\* Where a SELECT and an INSERT stand for a unique constraint, there are two rows for one
\* e-mail address, serial number, result or default policy, and two commands of one bulk
\* action for one device, only when two requests had both found none (or one addition
\* named the device twice).
DoubledByOverlap == U!AddressUnique /\ T!StagedOnce /\ C!ResultOnce /\ C!SeedOnce /\ G!BulkOnce

\* A single-use token gives two profiles only when two downloads found it unused, or its
\* mark was lost after the first had left.  The device limit is asked for when a token is
\* made and never again; still, a tenant that has never had a plan enrolls no Mac.
TokensHonoured == T!SingleUse /\ T!NoPlanNoEnrollment

\* A Mac that told its disk is not encrypted is shown compliant only when the policies of
\* its last evaluation did not ask for it.
UnencryptedFlagged == C!UnencryptedFlagged

\* The versions of a profile are numbered without a gap and tell every payload of it that
\* a Mac is asked to install; the newest tells what is stored, unless the update that
\* wrote it crossed another.
HistoryTrue == P!HistoryComplete /\ P!LatestIsPayload

\* With every event processed, whatever failed and was repeated, the tenant row shows the
\* subscription that changed last: its plan and limit while it lives, nothing after its
\* end.  Old news, or the loss of an event that was answered and rolled back, spoils the
\* row until news of a later change, or the news of the last one, is committed.
Mirrors == focus = "billing" => B!Mirrors

\* A push token is expired only when the Mac has another or none, and a Mac that left is
\* shown so, unless a check-in came between a delivery's read and its write.  A message
\* that can be read goes only when, since it was sent, a push was accepted or there was
\* nobody to push to, but for a token that was cleared when a check-in came between.
PushesHonest == Q!TokenKept /\ Q!DeletedServed
================================================================================
