-------------------------------- MODULE Billing --------------------------------
(***************************************************************************)
(* The subscription of one tenant: Stripe Checkout, the webhook that       *)
(* copies what happens at Stripe to the tenant row, and the hourly trial   *)
(* reminder of every server process.  What the plan allows is in           *)
(* EnrollmentTokens.                                                       *)
(*                                                                         *)
(* Stripe is external: it delivers an event until it is answered with 2xx, *)
(* in any order, several at a time, and sometimes again.                   *)
(***************************************************************************)
EXTENDS Handlers

CONSTANTS
    Sub,         \* subscriptions Stripe may create
    Plan,        \* plans one can buy
    PlanOf,      \* PlanOf[s]: the plan in the metadata of s, chosen at its checkout
    Limit,       \* Limit[p]: device_limit of plan p, above 0
    Worker,      \* reminder loops, one per server process
    MaxChanges,  \* bound on what happens at Stripe
    None

VARIABLES
    tenant,    \* the billing columns of the tenant row
    sub,       \* Stripe: status, trial and customer of each subscription
    customers, \* Stripe: customers created for the tenant
    events,    \* Stripe: events not acknowledged yet
    changes,   \* Stripe: changes so far
    due,       \* due[w]: loop w has found the tenant due and sent the mail
    applied    \* history: the latest Stripe change the tenant row reflects, or None
               \* while it may be the worse for old or lost news, see CommitWebhook

stripe     == <<sub, customers, events, changes>>
vars       == <<handlers, tenant, stripe, due, applied>>

--------------------------------------------------------------------------------
\* A tenant as signup leaves it, with the plan it named: no device before the webhook.
SignedUp(p) ==
    [plan |-> p, billing |-> "pending", limit |-> 0, trial |-> None, reminded |-> FALSE,
     customer |-> 0, subscription |-> None]

Init ==
    /\ HandlersInit
    /\ tenant = SignedUp(CHOOSE p \in Plan : TRUE)
    /\ sub = [s \in Sub |-> [status |-> "none", trial |-> "none", customer |-> 0, at |-> 0]]
    /\ customers = 0
    /\ events = {}
    /\ changes = 0
    /\ due = [w \in Worker |-> FALSE]
    /\ applied = 0

--------------------------------------------------------------------------------
(* Stripe.                                                                      *)

\* A change of s at Stripe and the events it causes; each carries what it tells.
Change(s, status, trial, types) ==
    /\ changes < MaxChanges /\ changes' = changes + 1
    /\ sub' = [sub EXCEPT ![s].status = status, ![s].trial = trial, ![s].at = changes']
    /\ events' = events \cup {[type |-> t, sub |-> s, status |-> status, at |-> changes'] : t \in types}
    /\ UNCHANGED <<handlers, tenant, customers, due, applied>>

\* POST /billing/checkout: a customer is reused only once the webhook has stored it.
Checkout(s) ==
    /\ AtOnce
    /\ sub[s].status = "none"
    /\ customers' = IF tenant.customer = 0 THEN customers + 1 ELSE customers
    /\ sub' = [sub EXCEPT ![s] = [status |-> "session", trial |-> "none", at |-> 0,
                                  customer |-> IF tenant.customer = 0 THEN customers' ELSE tenant.customer]]
    /\ UNCHANGED <<tenant, events, changes, due, applied>>

Subscribe(s)   == sub[s].status = "session" /\ Change(s, "trialing", "far", {"completed"})
TrialEnds(s)   == sub[s].trial = "near" /\ sub[s].status = "trialing"
                  /\ Change(s, "active", "over", {"updated"})
PaymentFails(s) == /\ sub[s].status \in {"trialing", "active"} /\ sub[s].trial \in {"near", "over"}
                   /\ Change(s, "past_due", "over", {"updated", "failed"})
\* Any other change, a new card for one.
Amend(s)       == sub[s].status \in {"trialing", "active"}
                  /\ Change(s, sub[s].status, sub[s].trial, {"updated"})
Recovers(s)    == sub[s].status = "past_due" /\ Change(s, "active", "over", {"updated"})
\* The customer ends the subscription, in the billing portal for one.
Cancel(s)      == sub[s].status \in {"trialing", "active", "past_due"}
                  /\ Change(s, "canceled", sub[s].trial, {"deleted"})

\* The last day of the trial begins.
TrialNears(s) ==
    /\ sub[s].status = "trialing" /\ sub[s].trial = "far"
    /\ sub' = [sub EXCEPT ![s].trial = "near"]
    /\ UNCHANGED <<handlers, tenant, customers, events, changes, due, applied>>

--------------------------------------------------------------------------------
(* POST /billing/webhook.                                                       *)

\* What the handler knows when it writes: a completed checkout carries no status, so
\* the subscription is fetched from Stripe; the other events carry their own.  Stripe
\* sends an event again while it is processed only when it waited too long.
ReceiveEvent(h, e) ==
    /\ e \in events
    /\ Hold(h, [op |-> "webhook", event |-> e,
                status |-> IF e.type = "completed" THEN sub[e.sub].status ELSE e.status,
                asOf   |-> IF e.type = "completed" THEN sub[e.sub].at ELSE e.at])
    /\ IF \E i \in Handler : request[i].op = "webhook" /\ request[i].event = e
       THEN Fault ELSE UNCHANGED faults
    /\ UNCHANGED <<begun, tenant, stripe, due, applied>>

\* A failed invoice is looked up by customer, not by tenant.
Finds(e) == e.type = "failed" => tenant.customer = sub[e.sub].customer

EffectOfFailure(e) == IF Finds(e) THEN [tenant EXCEPT !.billing = "past_due"] ELSE tenant

\* _activate_plan, and the same columns but the customer for a changed subscription.
Activated(e, status) ==
    [tenant EXCEPT !.plan = PlanOf[e.sub], !.billing = status, !.limit = Limit[PlanOf[e.sub]],
                   !.trial = e.sub, !.reminded = FALSE, !.subscription = e.sub,
                   !.customer = IF e.type = "completed" THEN sub[e.sub].customer ELSE @]

\* A mutant: a cancelled tenant keeps its device limit.
EffectKeepingLimit(e, status) ==
    CASE e.type = "deleted" -> [tenant EXCEPT !.billing = "canceled", !.trial = None, !.subscription = None]
      [] e.type = "failed"  -> EffectOfFailure(e)
      [] OTHER -> Activated(e, status)
\* The UPDATE of each event; none looks at the subscription the tenant has.
Effect(e, status) ==
    CASE e.type = "deleted" -> [tenant EXCEPT !.billing = "canceled", !.limit = 0, !.trial = None,
                                              !.subscription = None]
      [] e.type = "failed"  -> EffectOfFailure(e)
      [] OTHER -> Activated(e, status)

\* Stripe takes the answer, or misses it and sends the event again.
Answer(e) == \/ events' = events \ {e} /\ UNCHANGED faults
             \/ Fault /\ UNCHANGED events

\* The row was updated and is locked, and the answer is out before the commit.
Locked == \E i \in Handler : request[i].op = "answered"

AnswerWebhook(h) ==
    LET q == request[h]
    IN  /\ ~CommitBeforeReply /\ q.op = "webhook"
        /\ Finds(q.event) => ~Locked
        /\ request' = [request EXCEPT ![h] = IF Finds(q.event) THEN [q EXCEPT !.op = "answered"] ELSE Free]
        /\ Answer(q.event)
        /\ UNCHANGED <<begun, tenant, sub, customers, changes, due, applied>>

\* News is old when the row reflects a later change, or for a checkout that is processed
\* after the end of its subscription.  News of the last change puts a spoilt row right,
\* unless it is only of a failed payment.
Spoils(q) ==
    \/ q.event.type = "completed" /\ q.status = "canceled"
    \/ IF applied = None THEN q.asOf < changes \/ q.event.type = "failed" ELSE q.asOf < applied

CommitWebhook(h) ==
    LET q == request[h]
        e == q.event
    IN  /\ q.op = Due("webhook", "answered")
        /\ request' = [request EXCEPT ![h] = Free]
        /\ tenant'  = Effect(e, q.status)
        /\ applied' = IF Spoils(q) THEN None ELSE q.asOf
        /\ IF CommitBeforeReply THEN Answer(e) ELSE UNCHANGED <<events, faults>>
        /\ UNCHANGED <<begun, sub, customers, changes, due>>

--------------------------------------------------------------------------------
(* The trial reminder.                                                          *)

TrialEnding ==
    /\ tenant.billing = "trialing" /\ tenant.trial # None /\ ~tenant.reminded
    /\ sub[tenant.trial].trial = "near"

\* The mail goes out before anything is written.
Remind(w) ==
    /\ ~due[w] /\ TrialEnding
    /\ due' = [due EXCEPT ![w] = TRUE]
    /\ UNCHANGED <<handlers, tenant, stripe, applied>>

CommitReminder(w) ==
    /\ due[w] /\ ~Locked
    /\ due'    = [due EXCEPT ![w] = FALSE]
    /\ tenant' = [tenant EXCEPT !.reminded = TRUE]
    /\ UNCHANGED <<handlers, stripe, applied>>

ReminderFails(w) ==
    /\ due[w] /\ Fault
    /\ due' = [due EXCEPT ![w] = FALSE]
    /\ UNCHANGED <<request, begun, tenant, stripe, applied>>

--------------------------------------------------------------------------------
\* Stripe does not send again what was answered and is rolled back.
RequestFails(h) ==
    LET q == request[h]
    IN  /\ Abandon(h)
        /\ applied' = IF q.op = "answered" /\ q.event \notin events /\ q.event.at = changes
                      THEN None ELSE applied
        /\ UNCHANGED <<tenant, stripe, due>>

Stripe == \E s \in Sub :
             \/ Checkout(s) \/ Subscribe(s) \/ TrialNears(s) \/ TrialEnds(s) \/ PaymentFails(s) \/ Recovers(s)
             \/ Amend(s) \/ Cancel(s)
Webhook == \E h \in Handler : \/ \E e \in events : ReceiveEvent(h, e)
                              \/ AnswerWebhook(h) \/ CommitWebhook(h)
Reminder == \E w \in Worker : Remind(w) \/ CommitReminder(w) \/ ReminderFails(w)

\* Nobody waits for anything.
Idle == events = {} /\ Quiet

Next ==
    \/ Stripe \/ Webhook \/ Reminder
    \/ \E h \in Handler : RequestFails(h)
    \/ Idle /\ UNCHANGED vars

Spec == Init /\ [][Next]_vars

--------------------------------------------------------------------------------
(* Properties.                                                                  *)

Event == [type : {"completed", "updated", "deleted", "failed"}, sub : Sub,
          status : {"trialing", "active", "past_due", "canceled"}, at : 1..MaxChanges]

\* What a handler may have in its hands.
Operation ==
    {Free} \cup [op : {"webhook", "answered"}, event : Event, asOf : 1..MaxChanges,
                 status : {"trialing", "active", "past_due", "canceled"}]

\* Every variable has its type.
TypeOK ==
    /\ request \in [Handler -> Operation] /\ begun \in 0..MaxRequests /\ faults \in 0..MaxFaults
    /\ tenant \in [plan : Plan, billing : {"pending", "trialing", "active", "past_due", "canceled"},
                    limit : {0} \cup {Limit[p] : p \in Plan}, trial : Sub \cup {None},
                    reminded : BOOLEAN, customer : Nat, subscription : Sub \cup {None}]
    /\ sub \in [Sub -> [status : {"none", "session", "trialing", "active", "past_due", "canceled"},
                        trial : {"none", "far", "near", "over"},
                        customer : Nat, at : 0..changes]]
    /\ customers \in Nat /\ events \subseteq Event /\ changes \in 0..MaxChanges
    /\ due \in [Worker -> BOOLEAN]
    /\ applied \in (0..MaxChanges) \cup {None}

\* With every event processed, whatever failed and was repeated, the tenant row shows the
\* subscription that changed last: its plan and limit while it lives, nothing after its
\* end.  Old news, or the loss of an event that was answered and rolled back, spoils the
\* row until news of a later change, or the news of the last one, is committed.
Mirrors ==
    LET settled == /\ events = {} /\ applied # None
                   /\ \A h \in Handler : request[h].op \notin {"webhook", "answered"}
    IN  settled =>
          \A s \in Sub : sub[s].at = changes /\ changes > 0 =>
              /\ tenant.billing = sub[s].status
              /\ IF sub[s].status = "canceled"
                 THEN tenant.limit = 0 /\ tenant.subscription = None
                 ELSE /\ tenant.plan = PlanOf[s] /\ tenant.limit = Limit[PlanOf[s]]
                      /\ tenant.subscription = s
================================================================================
