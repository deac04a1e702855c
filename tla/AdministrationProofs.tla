-------------------------- MODULE AdministrationProofs -------------------------
(***************************************************************************)
(* Proofs about Administration.  Every part has an inductive invariant of  *)
(* its own, which holds while that part acts; while another one does, the  *)
(* handlers are busy with other things, and what is stated of the part     *)
(* goes on holding because its variables rest.                             *)
(***************************************************************************)
EXTENDS Administration, FiniteSetTheorems, SequenceTheorems, TLAPS

--------------------------------------------------------------------------------
(* Billing.                                                                     *)

Living == {"trialing", "active", "past_due", "canceled"}

\* Each change at Stripe has a number of its own; a subscription that has changed is past
\* its checkout.
Numbered ==
    /\ \A s, r \in Sub : sub[s].at = sub[r].at /\ sub[s].at > 0 => s = r
    /\ \A s \in Sub : sub[s].at > 0 => sub[s].status \in Living

\* An event tells a change of its subscription; the latest one tells how it stands.
Reports(e) ==
    /\ e.at <= sub[e.sub].at
    /\ e.at = sub[e.sub].at => e.status = sub[e.sub].status
    /\ e.type = "deleted" <=> e.status = "canceled"
    /\ e.type = "failed" => e.status = "past_due"

EventsTrue == \A e \in events : Reports(e)

\* The webhook knows the state its event tells, or for a completed checkout a later one.
Knows(q) ==
    /\ Reports(q.event)
    /\ q.asOf <= sub[q.event.sub].at
    /\ q.asOf = sub[q.event.sub].at => q.status = sub[q.event.sub].status
    /\ q.event.type = "completed" => q.event.at <= q.asOf
    /\ q.event.type # "completed" => q.asOf = q.event.at /\ q.status = q.event.status

WebhooksTrue == \A h \in Handler : request[h].op \in {"webhook", "answered"} => Knows(request[h])

\* An event that has not been acknowledged, or has been and is not committed yet.
Awaited(e) == e \in events \/ \E h \in Handler : request[h].op = "answered" /\ request[h].event = e

\* The event of the last change that writes the plan is awaited.
Pending == \E e \in B!Event : Awaited(e) /\ e.at = changes /\ e.type # "failed"

\* The tenant row shows subscription s as it stands.
Shows(s) ==
    /\ tenant.billing = sub[s].status
    /\ IF sub[s].status = "canceled"
       THEN tenant.limit = 0 /\ tenant.subscription = None
       ELSE /\ tenant.plan = PlanOf[s] /\ tenant.limit = Limit[PlanOf[s]]
            /\ tenant.subscription = s

\* While the row is not spoilt, the last change is pending or shown.
Reflects ==
    applied # None /\ changes > 0 =>
        Pending \/ (applied = changes /\ \A s \in Sub : sub[s].at = changes => Shows(s))

BillingInv ==
    /\ B!TypeOK /\ Numbered /\ EventsTrue /\ WebhooksTrue /\ Reflects

\* Nothing has happened at Stripe when the tenant signs up.
LEMMA BillingInit == B!Init => BillingInv
<1> SUFFICES ASSUME B!Init
             PROVE  BillingInv
  OBVIOUS
<1>1. PICK p \in Plan : p = CHOOSE x \in Plan : TRUE
  BY PlanAssumption DEF PlanAssumption
<1>2. /\ request = [h \in Handler |-> B!Free] /\ begun = 0 /\ faults = 0
      /\ tenant = [plan |-> p, billing |-> "pending", limit |-> 0, trial |-> None, reminded |-> FALSE,
                   customer |-> 0, subscription |-> None]
      /\ sub = [s \in Sub |-> [status |-> "none", trial |-> "none", customer |-> 0, at |-> 0]]
      /\ customers = 0 /\ events = {} /\ changes = 0 /\ due = [w \in Worker |-> FALSE]
      /\ applied = 0
  BY <1>1 DEF B!Init, B!HandlersInit, B!SignedUp
<1>3. request \in [Handler -> B!Operation] /\ \A h \in Handler : request[h].op = "none"
  BY <1>2 DEF B!Operation, B!Free
<1>4. B!TypeOK
  <2>1. begun \in 0..MaxCheckouts /\ faults \in 0..MaxFaults /\ changes \in 0..MaxChanges
    BY <1>2, HandlersAssumption, PlanAssumption DEF HandlersAssumption, PlanAssumption
  <2>2. tenant \in [plan : Plan, billing : {"pending", "trialing", "active", "past_due", "canceled"},
                    limit : {0} \cup {Limit[i] : i \in Plan}, trial : Sub \cup {None},
                    reminded : BOOLEAN, customer : Nat, subscription : Sub \cup {None}]
    BY <1>2
  <2>3. sub \in [Sub -> [status : {"none", "session", "trialing", "active", "past_due", "canceled"},
                         trial : {"none", "far", "near", "over"}, customer : Nat, at : 0..changes]]
    BY <1>2
  <2>4. applied \in (0..MaxChanges) \cup {None}
    BY <1>2, PlanAssumption DEF PlanAssumption
  <2> QED BY <1>2, <1>3, <2>1, <2>2, <2>3, <2>4 DEF B!TypeOK
<1>5. Numbered /\ EventsTrue /\ Reflects
  BY <1>2 DEF Numbered, EventsTrue, Reflects
<1>6. WebhooksTrue
  BY <1>3 DEF WebhooksTrue
<1> QED BY <1>4, <1>5, <1>6 DEF BillingInv

\* An event in hand, or under way to the webhook, is one Stripe can send.
LEMMA EventIs ==
  ASSUME BillingInv, NEW e, e \in events \/ 
            \E h \in Handler : request[h].op \in {"webhook", "answered"} /\ request[h].event = e
  PROVE  e \in B!Event
BY DEF BillingInv, B!TypeOK, B!Operation, B!Free

\* What a webhook holds is typed.
LEMMA WebhookIs ==
  ASSUME BillingInv, NEW h \in Handler, request[h].op \in {"webhook", "answered"}
  PROVE  /\ request[h].event \in B!Event /\ request[h].asOf \in 1..MaxChanges
         /\ request[h].status \in {"trialing", "active", "past_due", "canceled"}
         /\ request[h] \in B!Operation
BY DEF BillingInv, B!TypeOK, B!Operation, B!Free

\* A change writes three columns of a subscription.
LEMMA Rewritten ==
  ASSUME NEW Status, NEW Trial, NEW Before, NEW After,
         NEW status \in Status, NEW trial \in Trial, NEW at \in After,
         NEW old \in [status : Status, trial : Trial, customer : Nat, at : Before]
  PROVE  [old EXCEPT !.status = status, !.trial = trial, !.at = at]
           \in [status : Status, trial : Trial, customer : Nat, at : After]
OBVIOUS

\* Something happens at Stripe: the event that tells it is pending.
LEMMA BillingChange ==
  ASSUME BillingInv, NEW s \in Sub, NEW status \in Living, NEW trial \in {"none", "far", "near", "over"},
         NEW types \in SUBSET {"completed", "updated", "deleted", "failed"},
         types # {}, types # {"failed"},
         \A t \in types : t = "deleted" <=> status = "canceled",
         "failed" \in types => status = "past_due",
         B!Change(s, status, trial, types)
  PROVE  BillingInv'
<1> USE DEF BillingInv, B!TypeOK
<1>1. changes \in Nat /\ changes < MaxChanges /\ changes' = changes + 1 /\ changes' \in 0..MaxChanges
  BY PlanAssumption DEF B!Change, PlanAssumption
<1> DEFINE new   == [sub[s] EXCEPT !.status = status, !.trial = trial, !.at = changes']
           fresh == {[type |-> t, sub |-> s, status |-> status, at |-> changes'] : t \in types}
<1>2. /\ sub' = [sub EXCEPT ![s] = new] /\ events' = events \cup fresh
      /\ UNCHANGED <<request, begun, faults, tenant, customers, due, applied>>
  BY DEF B!Change, B!handlers
<1>3. /\ new.status = status /\ new.at = changes'
      /\ new \in [status : {"none", "session", "trialing", "active", "past_due", "canceled"},
                  trial : {"none", "far", "near", "over"}, customer : Nat, at : 0..changes']
  <2>1. changes' \in 0..changes'
    BY <1>1
  <2>2. status \in {"none", "session", "trialing", "active", "past_due", "canceled"}
    BY DEF Living
  <2>3. sub[s] \in [status : {"none", "session", "trialing", "active", "past_due", "canceled"},
                    trial : {"none", "far", "near", "over"}, customer : Nat, at : 0..changes]
    OBVIOUS
  <2>4. new \in [status : {"none", "session", "trialing", "active", "past_due", "canceled"},
                  trial : {"none", "far", "near", "over"}, customer : Nat, at : 0..changes']
    BY <2>1, <2>2, <2>3, Rewritten
  <2>5. new.status = status /\ new.at = changes'
    BY <2>3
  <2> QED BY <2>4, <2>5
<1>4. fresh \subseteq B!Event
  BY <1>1 DEF B!Event, Living
<1>5. \A e \in fresh : e.sub = s /\ e.at = changes' /\ e.status = status /\ e.type \in types
  OBVIOUS
<1>6. \E e \in fresh : e.type # "failed"
  <2>1. PICK t \in types : t # "failed"
    OBVIOUS
  <2>2. [type |-> t, sub |-> s, status |-> status, at |-> changes'] \in fresh
    OBVIOUS
  <2> QED BY <2>1, <2>2
<1> HIDE DEF new, fresh
<1>7. sub'[s] = new /\ \A r \in Sub \ {s} : sub'[r] = sub[r]
  BY <1>2
<1>8. \A r \in Sub : sub[r].at \in 0..changes
  OBVIOUS
<1>9. B!TypeOK'
  <2>1. sub' \in [Sub -> [status : {"none", "session", "trialing", "active", "past_due", "canceled"},
                          trial : {"none", "far", "near", "over"}, customer : Nat, at : 0..changes']]
    <3>1. \A r \in Sub \ {s} : sub'[r] \in [status : {"none", "session", "trialing", "active", "past_due", "canceled"},
                          trial : {"none", "far", "near", "over"}, customer : Nat, at : 0..changes']
      BY <1>1, <1>7
    <3>2. DOMAIN sub' = Sub /\ sub' = [r \in Sub |-> sub'[r]]
      BY <1>2
    <3> QED BY <3>1, <3>2, <1>3, <1>7
  <2> QED BY <2>1, <1>1, <1>2, <1>4
<1>10. Numbered'
  BY <1>1, <1>3, <1>7, <1>8 DEF Numbered, Living
<1>11. ASSUME NEW e \in B!Event, Reports(e)
       PROVE  /\ e.at < changes' /\ sub'[e.sub].at <= changes'
              /\ e.at <= sub'[e.sub].at
              /\ e.at = sub'[e.sub].at => e.status = sub'[e.sub].status
  <2>1. e.sub \in Sub /\ e.at \in Nat /\ e.at <= sub[e.sub].at /\ sub[e.sub].at \in 0..changes
    BY <1>8, <1>11 DEF B!Event, Reports
  <2>2. CASE e.sub = s
    <3>1. sub'[e.sub].at = changes'
      BY <1>3, <1>7, <2>2
    <3> QED BY <3>1, <1>1, <2>1
  <2>3. CASE e.sub # s
    <3>1. sub'[e.sub] = sub[e.sub]
      BY <1>7, <2>1, <2>3
    <3> QED BY <3>1, <1>1, <1>11, <2>1 DEF Reports
  <2> QED BY <2>2, <2>3
<1>12. ASSUME NEW e \in B!Event, Reports(e)
       PROVE  Reports(e)'
  BY <1>11, <1>12 DEF Reports
<1>13. EventsTrue'
  <2> SUFFICES ASSUME NEW e \in events'
               PROVE  Reports(e)'
    BY DEF EventsTrue
  <2>1. CASE e \in events
    BY <2>1, <1>12 DEF EventsTrue
  <2>2. CASE e \in fresh
    <3>1. /\ e.sub = s /\ e.at = changes' /\ e.status = status /\ e.type \in types
          /\ sub'[e.sub].at = changes' /\ sub'[e.sub].status = status
      BY <2>2, <1>3, <1>5, <1>7
    <3>2. e.at <= sub'[e.sub].at
      BY <3>1, <1>1
    <3> QED BY <3>1, <3>2 DEF Reports
  <2> QED BY <2>1, <2>2, <1>2
<1>14. WebhooksTrue'
  <2> SUFFICES ASSUME NEW h \in Handler, request[h].op \in {"webhook", "answered"}
               PROVE  Knows(request[h])'
    BY <1>2 DEF WebhooksTrue
  <2>1. PICK q : q = request[h]
    OBVIOUS
  <2>2. Knows(q) /\ q.event \in B!Event /\ q.asOf \in Nat /\ q.event.sub \in Sub
    BY <2>1, WebhookIs DEF WebhooksTrue, B!Event
  <2>3. Reports(q.event)'
    BY <2>2, <1>12 DEF Knows
  <2>4. Knows(q)'
    <3>1. CASE q.event.sub = s
      <4>1. q.asOf < changes' /\ sub'[q.event.sub].at = changes'
        BY <1>1, <1>3, <1>7, <1>8, <2>2, <3>1 DEF Knows
      <4> QED BY <4>1, <1>1, <2>2, <2>3 DEF Knows
    <3>2. CASE q.event.sub # s
      <4>1. sub'[q.event.sub] = sub[q.event.sub]
        BY <1>7, <2>2, <3>2
      <4> QED BY <4>1, <2>2, <2>3 DEF Knows
    <3> QED BY <3>1, <3>2
  <2> QED BY <1>2, <2>1, <2>4
<1>15. Reflects'
  <2>1. PICK e \in fresh : e.type # "failed"
    BY <1>6
  <2>2. e \in B!Event /\ e \in events' /\ e.at = changes'
    BY <1>2, <1>4, <1>5
  <2> QED BY <2>1, <2>2 DEF Reflects, Pending, Awaited
<1> QED BY <1>9, <1>10, <1>13, <1>14, <1>15

\* Every change at Stripe is one of these.
LEMMA BillingAtStripe ==
  ASSUME BillingInv, NEW s \in Sub,
         \/ B!Subscribe(s) \/ B!TrialEnds(s) \/ B!PaymentFails(s) \/ B!Amend(s) \/ B!Recovers(s) \/ B!Cancel(s)
  PROVE  BillingInv'
<1>1. sub[s].trial \in {"none", "far", "near", "over"}
  BY DEF BillingInv, B!TypeOK
<1>2. CASE B!Subscribe(s)
  BY <1>2, BillingChange DEF B!Subscribe, Living
<1>3. CASE B!TrialEnds(s)
  BY <1>3, BillingChange DEF B!TrialEnds, Living
<1>4. CASE B!PaymentFails(s)
  <2>1. B!Change(s, "past_due", "over", {"updated", "failed"})
    BY <1>4 DEF B!PaymentFails
  <2>2. \A t \in {"updated", "failed"} : t = "deleted" <=> "past_due" = "canceled"
    OBVIOUS
  <2> QED BY <2>1, <2>2, BillingChange DEF Living
<1>5. CASE B!Amend(s)
  BY <1>1, <1>5, BillingChange DEF B!Amend, Living
<1>6. CASE B!Recovers(s)
  BY <1>6, BillingChange DEF B!Recovers, Living
<1>7. CASE B!Cancel(s)
  BY <1>1, <1>7, BillingChange DEF B!Cancel, Living
<1> QED BY <1>2, <1>3, <1>4, <1>5, <1>6, <1>7

\* What is said of the events, the webhooks and the row looks at the status of a
\* subscription and its last change only, and at no subscription that never changed.
LEMMA BillingSubKept ==
  ASSUME BillingInv, NEW s \in Sub,
         \A r \in Sub \ {s} : sub'[r] = sub[r],
         \/ sub'[s].status = sub[s].status /\ sub'[s].at = sub[s].at
         \/ sub[s].at = 0 /\ sub'[s].at = 0,
         UNCHANGED <<request, tenant, events, changes, applied>>
  PROVE  Numbered' /\ EventsTrue' /\ WebhooksTrue' /\ Reflects'
<1>1. changes \in Nat /\ \A r \in Sub : sub[r].at \in 0..changes
  BY DEF BillingInv, B!TypeOK
<1>2. \A r \in Sub : sub'[r].at = sub[r].at /\ (sub[r].at > 0 => sub'[r].status = sub[r].status)
  BY <1>1
<1>3. Numbered'
  BY <1>1, <1>2 DEF BillingInv, Numbered
<1>4. ASSUME NEW e \in B!Event, Reports(e)
      PROVE  Reports(e)'
  <2>1. e.sub \in Sub /\ e.at \in Nat /\ e.at > 0 /\ sub[e.sub].at \in Nat
    BY <1>1 DEF B!Event
  <2> QED BY <1>2, <1>4, <2>1 DEF Reports
<1>5. EventsTrue'
  <2> SUFFICES ASSUME NEW e \in events
               PROVE  Reports(e)'
    BY DEF EventsTrue
  <2> QED BY <1>4, EventIs DEF BillingInv, EventsTrue
<1>6. WebhooksTrue'
  <2> SUFFICES ASSUME NEW h \in Handler, request[h].op \in {"webhook", "answered"}
               PROVE  Knows(request[h])'
    BY DEF WebhooksTrue
  <2>1. PICK q : q = request[h]
    OBVIOUS
  <2>2. Knows(q) /\ q.event \in B!Event /\ q.asOf \in Nat /\ q.asOf > 0 /\ q.event.sub \in Sub
    BY <2>1, WebhookIs DEF BillingInv, WebhooksTrue, B!Event
  <2>3. Reports(q.event)'
    BY <2>2, <1>4 DEF Knows
  <2>4. sub[q.event.sub].at \in Nat
    BY <1>1, <2>2
  <2>5. Knows(q)'
    BY <1>2, <2>2, <2>3, <2>4 DEF Knows
  <2> QED BY <2>1, <2>5
<1>7. Reflects'
  <2>1. \A r \in Sub : sub[r].at = changes /\ changes > 0 => (Shows(r) <=> Shows(r)')
    BY <1>2 DEF Shows
  <2>2. \A r \in Sub : sub'[r].at = sub[r].at
    BY <1>2
  <2>3. Pending <=> Pending'
    BY DEF Pending, Awaited
  <2> QED BY <2>1, <2>2, <2>3 DEF BillingInv, Reflects
<1> QED BY <1>3, <1>5, <1>6, <1>7

\* A checkout prepares a subscription that never changed.
LEMMA BillingCheckout ==
  ASSUME BillingInv, NEW s \in Sub, B!Checkout(s)
  PROVE  BillingInv'
<1> DEFINE new == [status |-> "session", trial |-> "none", at |-> 0,
                   customer |-> IF tenant.customer = 0 THEN customers' ELSE tenant.customer]
<1>1. /\ sub' = [sub EXCEPT ![s] = new]
      /\ customers' = IF tenant.customer = 0 THEN customers + 1 ELSE customers
      /\ UNCHANGED <<request, faults, tenant, events, changes, due, applied>>
      /\ begun < MaxCheckouts /\ begun' = begun + 1
  BY DEF B!Checkout, B!AtOnce, B!Arrives
<1>2. tenant.customer \in Nat /\ customers' \in Nat /\ begun' \in 0..MaxCheckouts
  BY <1>1, PlanAssumption DEF BillingInv, B!TypeOK, PlanAssumption
<1>3. /\ new.status = "session" /\ new.at = 0
      /\ new \in [status : {"none", "session", "trialing", "active", "past_due", "canceled"},
                  trial : {"none", "far", "near", "over"}, customer : Nat, at : 0..changes]
  <2>1. 0 \in 0..changes
    BY DEF BillingInv, B!TypeOK
  <2> QED BY <1>2, <2>1
<1> HIDE DEF new
<1>4. sub'[s] = new /\ \A r \in Sub \ {s} : sub'[r] = sub[r]
  BY <1>1 DEF BillingInv, B!TypeOK
<1>5. B!TypeOK'
  BY <1>1, <1>2, <1>3 DEF BillingInv, B!TypeOK
<1>6. sub[s].at = 0
  BY DEF BillingInv, B!TypeOK, B!Checkout, Numbered, Living
<1>7. Numbered' /\ EventsTrue' /\ WebhooksTrue' /\ Reflects'
  BY <1>1, <1>3, <1>4, <1>6, BillingSubKept
<1> QED BY <1>5, <1>7 DEF BillingInv

\* A trial nears its end: no event, and no status changes.
LEMMA BillingTrialNears ==
  ASSUME BillingInv, NEW s \in Sub, B!TrialNears(s)
  PROVE  BillingInv'
<1>1. /\ sub' = [sub EXCEPT ![s].trial = "near"]
      /\ UNCHANGED <<request, begun, faults, tenant, customers, events, changes, due, applied>>
  BY DEF B!TrialNears, B!handlers
<1>2. B!TypeOK'
  BY <1>1 DEF BillingInv, B!TypeOK
<1>3. /\ sub'[s].status = sub[s].status /\ sub'[s].at = sub[s].at
      /\ \A r \in Sub \ {s} : sub'[r] = sub[r]
  BY <1>1 DEF BillingInv, B!TypeOK
<1>4. Numbered' /\ EventsTrue' /\ WebhooksTrue' /\ Reflects'
  BY <1>1, <1>3, BillingSubKept
<1> QED BY <1>2, <1>4 DEF BillingInv

\* Handlers go on with what they know; events are acknowledged and stay awaited, or the row
\* is spoilt.
LEMMA BillingHeld ==
  ASSUME BillingInv, UNCHANGED <<tenant, sub, customers, changes, due>>, events' \subseteq events,
         request' \in [Handler -> B!Operation], begun' \in 0..MaxCheckouts, faults' \in 0..MaxFaults,
         applied' \in {applied, None}, applied' # None /\ Pending => Pending',
         \A h \in Handler : request'[h].op \in {"webhook", "answered"} => Knows(request'[h])
  PROVE  BillingInv'
<1>1. B!TypeOK'
  BY DEF BillingInv, B!TypeOK
<1>2. Numbered' /\ EventsTrue'
  BY DEF BillingInv, Numbered, EventsTrue, Reports
<1>3. Reflects'
  <2> SUFFICES ASSUME applied' # None, changes > 0, ~Pending'
               PROVE  applied = changes /\ \A s \in Sub : sub[s].at = changes => Shows(s)'
    BY DEF Reflects
  <2>1. applied = changes /\ \A s \in Sub : sub[s].at = changes => Shows(s)
    BY DEF BillingInv, Reflects
  <2> QED BY <2>1 DEF Shows
<1>4. WebhooksTrue'
  BY DEF BillingInv, WebhooksTrue, Knows, Reports
<1> QED BY <1>1, <1>2, <1>3, <1>4 DEF BillingInv

\* The webhook has parsed its event, and fetched a completed subscription.
LEMMA BillingReceive ==
  ASSUME BillingInv, NEW h \in Handler, NEW e \in events, B!ReceiveEvent(h, e)
  PROVE  BillingInv'
<1> DEFINE known  == IF e.type = "completed" THEN sub[e.sub].status ELSE e.status
           latest == IF e.type = "completed" THEN sub[e.sub].at ELSE e.at
           q      == [op |-> "webhook", event |-> e, status |-> known, asOf |-> latest]
<1>1. /\ request' = [request EXCEPT ![h] = q]
      /\ UNCHANGED <<begun, tenant, sub, customers, events, changes, due, applied>>
      /\ faults' = faults \/ (faults' = faults + 1 /\ faults < MaxFaults)
  <2>1. request' = [request EXCEPT ![h] = q]
    BY DEF B!ReceiveEvent, B!Hold
  <2>2. UNCHANGED <<begun, tenant, sub, customers, events, changes, due, applied>>
    BY DEF B!ReceiveEvent, B!stripe
  <2>3. faults' = faults \/ (faults' = faults + 1 /\ faults < MaxFaults)
    BY DEF B!ReceiveEvent, B!Fault
  <2> QED BY <2>1, <2>2, <2>3
<1>2. e \in B!Event /\ Reports(e) /\ e.sub \in Sub /\ e.at \in 1..MaxChanges /\ e.at \in Nat /\ e.at > 0
  BY EventIs DEF BillingInv, EventsTrue, B!Event
<1>3. sub[e.sub].at \in 0..changes /\ changes \in 0..MaxChanges /\ MaxChanges \in Nat
  BY <1>2, PlanAssumption DEF BillingInv, B!TypeOK, PlanAssumption
<1>4. e.at <= sub[e.sub].at /\ sub[e.sub].at \in 1..MaxChanges
  BY <1>2, <1>3 DEF Reports
<1>5. sub[e.sub].status \in Living
  BY <1>2, <1>3, <1>4 DEF BillingInv, Numbered
<1>6. latest \in 1..MaxChanges /\ known \in {"trialing", "active", "past_due", "canceled"}
  BY <1>2, <1>4, <1>5 DEF Living, B!Event
<1>7. /\ latest <= sub[e.sub].at
      /\ latest = sub[e.sub].at => known = sub[e.sub].status
      /\ e.type = "completed" => e.at <= latest
      /\ e.type # "completed" => latest = e.at /\ known = e.status
  BY <1>2, <1>3, <1>4 DEF Reports
<1> HIDE DEF known, latest
<1>8. q \in B!Operation /\ Knows(q)
  BY <1>2, <1>6, <1>7 DEF B!Operation, Knows
<1> HIDE DEF q
<1>9. request' \in [Handler -> B!Operation] /\ \A i \in Handler : request'[i] = request[i] \/ request'[i] = q
  BY <1>1, <1>8 DEF BillingInv, B!TypeOK
<1>10. begun' \in 0..MaxCheckouts /\ faults' \in 0..MaxFaults
  BY <1>1, HandlersAssumption DEF BillingInv, B!TypeOK, HandlersAssumption
<1>11. \A i \in Handler : request[i].op = "answered" => request'[i] = request[i]
  BY <1>1 DEF B!ReceiveEvent, B!Hold
<1>12. Pending => Pending'
  BY <1>1, <1>11 DEF Pending, Awaited
<1>13. \A i \in Handler : request'[i].op \in {"webhook", "answered"} => Knows(request'[i])
  BY <1>8, <1>9 DEF BillingInv, WebhooksTrue
<1> QED BY <1>1, <1>9, <1>10, <1>12, <1>13, BillingHeld

\* The answer leaves: the event is awaited while the handler that has written it holds it,
\* and one that found nothing to write tells of a failed payment.
LEMMA BillingAnswer ==
  ASSUME BillingInv, NEW h \in Handler, B!AnswerWebhook(h)
  PROVE  BillingInv'
<1>1. PICK q, new : q = request[h] /\ new = IF B!Finds(q.event) THEN [q EXCEPT !.op = "answered"] ELSE B!Free
  OBVIOUS
<1>2. /\ q.op = "webhook" /\ request' = [request EXCEPT ![h] = new]
      /\ UNCHANGED <<begun, tenant, sub, customers, changes, due, applied>>
  BY <1>1 DEF B!AnswerWebhook
<1>3. \/ events' = events \ {q.event} /\ faults' = faults
      \/ events' = events /\ faults < MaxFaults /\ faults' = faults + 1
  BY <1>1 DEF B!AnswerWebhook, B!Answer, B!Fault
<1>4. /\ q.event \in B!Event /\ q.asOf \in 1..MaxChanges
      /\ q.status \in {"trialing", "active", "past_due", "canceled"} /\ Knows(q) /\ q \in B!Operation
  BY <1>1, <1>2, WebhookIs DEF BillingInv, WebhooksTrue
<1>5. /\ new \in B!Operation
      /\ new.op # "none" => new.op = "answered" /\ new.event = q.event /\ Knows(new)
      /\ new.op = "none" => q.event.type = "failed"
  <2>1. CASE B!Finds(q.event)
    <3>1. q \in [op : {"webhook", "answered"}, event : B!Event, asOf : 1..MaxChanges,
                  status : {"trialing", "active", "past_due", "canceled"}]
      BY <1>2, <1>4 DEF B!Operation, B!Free
    <3>2. /\ new \in B!Operation /\ new.op = "answered" /\ new.event = q.event
          /\ new.asOf = q.asOf /\ new.status = q.status
      BY <1>1, <2>1, <3>1 DEF B!Operation
    <3> QED BY <1>4, <3>2 DEF Knows
  <2>2. CASE ~B!Finds(q.event)
    BY <1>1, <2>2 DEF B!Finds, B!Operation, B!Free
  <2> QED BY <2>1, <2>2
<1>6. request' \in [Handler -> B!Operation] /\ request'[h] = new
      /\ \A i \in Handler \ {h} : request'[i] = request[i]
  BY <1>2, <1>5 DEF BillingInv, B!TypeOK
<1>7. begun' \in 0..MaxCheckouts /\ faults' \in 0..MaxFaults
  BY <1>2, <1>3, HandlersAssumption DEF BillingInv, B!TypeOK, HandlersAssumption
<1>8. Pending => Pending'
  <2> SUFFICES ASSUME NEW e \in B!Event, Awaited(e), e.at = changes, e.type # "failed"
               PROVE  Awaited(e)'
    BY <1>2 DEF Pending
  <2>1. CASE e = q.event
    <3>1. request'[h].op = "answered" /\ request'[h].event = e
      BY <1>5, <1>6, <2>1 DEF B!Operation, B!Free
    <3> QED BY <3>1 DEF Awaited
  <2>2. CASE e # q.event
    BY <1>1, <1>3, <1>6, <2>2 DEF Awaited
  <2> QED BY <2>1, <2>2
<1>9. \A i \in Handler : request'[i].op \in {"webhook", "answered"} => Knows(request'[i])
  BY <1>5, <1>6 DEF BillingInv, WebhooksTrue
<1> QED BY <1>2, <1>3, <1>6, <1>7, <1>8, <1>9, BillingHeld

\* A webhook that fails after its answer spoils the row when it held the last change.
LEMMA BillingFails ==
  ASSUME BillingInv, NEW h \in Handler, B!RequestFails(h)
  PROVE  BillingInv'
<1>1. PICK q : q = request[h]
  OBVIOUS
<1>2. /\ request' = [request EXCEPT ![h] = B!Free] /\ faults < MaxFaults /\ faults' = faults + 1
      /\ applied' = IF q.op = "answered" /\ q.event \notin events /\ q.event.at = changes THEN None ELSE applied
      /\ UNCHANGED <<begun, tenant, sub, customers, events, changes, due>>
  BY <1>1 DEF B!RequestFails, B!Abandon, B!Fault, B!stripe
<1>3. /\ request' \in [Handler -> B!Operation] /\ request'[h].op = "none"
      /\ \A i \in Handler \ {h} : request'[i] = request[i]
  BY <1>2 DEF BillingInv, B!TypeOK, B!Operation, B!Free
<1>4. begun' \in 0..MaxCheckouts /\ faults' \in 0..MaxFaults
  BY <1>2, HandlersAssumption DEF BillingInv, B!TypeOK, HandlersAssumption
<1>5. ASSUME applied' # None, Pending
      PROVE  Pending'
  <2>1. PICK e \in B!Event : Awaited(e) /\ e.at = changes /\ e.type # "failed"
    BY <1>5 DEF Pending
  <2>2. e \in events \/ \E i \in Handler \ {h} : request[i].op = "answered" /\ request[i].event = e
    BY <1>1, <1>2, <1>5, <2>1 DEF Awaited
  <2>3. Awaited(e)'
    BY <1>2, <1>3, <2>2 DEF Awaited
  <2> QED BY <1>2, <2>1, <2>3 DEF Pending
<1>6. \A i \in Handler : request'[i].op \in {"webhook", "answered"} => Knows(request'[i])
  BY <1>3 DEF BillingInv, WebhooksTrue
<1> QED BY <1>2, <1>3, <1>4, <1>5, <1>6, BillingHeld

\* The row has its type after any event.
LEMMA EffectTyped ==
  ASSUME BillingInv, NEW e \in B!Event, NEW status \in {"trialing", "active", "past_due", "canceled"}
  PROVE  B!Effect(e, status) \in
           [plan : Plan, billing : {"pending", "trialing", "active", "past_due", "canceled"},
            limit : {0} \cup {Limit[p] : p \in Plan}, trial : Sub \cup {None},
            reminded : BOOLEAN, customer : Nat, subscription : Sub \cup {None}]
<1> DEFINE Row == [plan : Plan, billing : {"pending", "trialing", "active", "past_due", "canceled"},
                   limit : {0} \cup {Limit[p] : p \in Plan}, trial : Sub \cup {None},
                   reminded : BOOLEAN, customer : Nat, subscription : Sub \cup {None}]
<1>1. tenant \in Row /\ e.sub \in Sub /\ sub[e.sub].customer \in Nat
  BY DEF BillingInv, B!TypeOK, B!Event
<1>2. PICK p \in Plan : p = PlanOf[e.sub]
  BY <1>1, PlanAssumption DEF PlanAssumption
<1>3. Limit[p] \in {0} \cup {Limit[i] : i \in Plan}
  OBVIOUS
<1>4. [tenant EXCEPT !.billing = "canceled", !.limit = 0, !.trial = None, !.subscription = None] \in Row
  BY <1>1
<1>5. B!EffectOfFailure(e) \in Row
  BY <1>1 DEF B!EffectOfFailure
<1>6. B!Activated(e, status) \in Row
  <2>1. PICK c \in Nat : B!Activated(e, status) =
            [tenant EXCEPT !.plan = p, !.billing = status, !.limit = Limit[p], !.trial = e.sub,
                           !.reminded = FALSE, !.subscription = e.sub, !.customer = c]
    BY <1>1, <1>2 DEF B!Activated
  <2> QED BY <1>1, <1>3, <2>1
<1> QED BY <1>4, <1>5, <1>6 DEF B!Effect

\* What an event writes, by its type.
LEMMA EffectWrites ==
  ASSUME BillingInv, NEW e \in B!Event, NEW status \in {"trialing", "active", "past_due", "canceled"},
         NEW new, new = B!Effect(e, status)
  PROVE  /\ e.type = "deleted" => new.billing = "canceled" /\ new.limit = 0 /\ new.subscription = None
         /\ e.type = "failed" => /\ new.billing = "past_due" \/ new.billing = tenant.billing
                                 /\ new.plan = tenant.plan /\ new.limit = tenant.limit
                                 /\ new.subscription = tenant.subscription
         /\ e.type \in {"completed", "updated"} =>
              /\ new.plan = PlanOf[e.sub] /\ new.billing = status
              /\ new.limit = Limit[PlanOf[e.sub]] /\ new.subscription = e.sub
<1>1. tenant \in [plan : Plan, billing : {"pending", "trialing", "active", "past_due", "canceled"},
                  limit : {0} \cup {Limit[p] : p \in Plan}, trial : Sub \cup {None},
                  reminded : BOOLEAN, customer : Nat, subscription : Sub \cup {None}]
  BY DEF BillingInv, B!TypeOK
<1>2. e.type \in {"completed", "updated", "deleted", "failed"}
  BY DEF B!Event
<1>3. CASE e.type = "deleted"
  BY <1>1, <1>3 DEF B!Effect
<1>4. CASE e.type = "failed"
  <2>1. new = B!EffectOfFailure(e)
    BY <1>4 DEF B!Effect
  <2> QED BY <1>1, <1>4, <2>1 DEF B!EffectOfFailure
<1>5. CASE e.type \in {"completed", "updated"}
  <2>1. new = B!Activated(e, status)
    BY <1>5 DEF B!Effect
  <2> QED BY <1>1, <1>5, <2>1 DEF B!Activated
<1> QED BY <1>2, <1>3, <1>4, <1>5

\* The webhook writes the row: when its event was the last one pending, the row shows
\* the subscription, or the news was old.
LEMMA BillingCommit ==
  ASSUME BillingInv, NEW h \in Handler, B!CommitWebhook(h)
  PROVE  BillingInv'
<1>1. PICK q : q = request[h]
  OBVIOUS
<1>2. PICK e : e = q.event
  OBVIOUS
<1>3. /\ q.op \in {"webhook", "answered"}
      /\ request' = [request EXCEPT ![h] = B!Free]
      /\ tenant' = B!Effect(e, q.status)
      /\ applied' = IF B!Spoils(q) THEN None ELSE q.asOf
      /\ UNCHANGED <<begun, sub, customers, changes, due>>
  BY <1>1, <1>2 DEF B!CommitWebhook, B!Due
<1>4. \/ events' \in {events, events \ {e}} /\ faults' = faults
      \/ events' = events /\ faults < MaxFaults /\ faults' = faults + 1
  BY <1>1, <1>2 DEF B!CommitWebhook, B!Answer, B!Fault
<1>5. /\ e \in B!Event /\ q.asOf \in 1..MaxChanges
      /\ q.status \in {"trialing", "active", "past_due", "canceled"} /\ Knows(q)
      /\ e.sub \in Sub /\ e.type \in {"completed", "updated", "deleted", "failed"} /\ e.at \in Nat
  BY <1>1, <1>2, <1>3, WebhookIs DEF BillingInv, WebhooksTrue, B!Event
<1>6. changes \in 0..MaxChanges /\ MaxChanges \in Nat /\ sub[e.sub].at \in 0..changes
  BY <1>5, PlanAssumption DEF BillingInv, B!TypeOK, PlanAssumption
<1>7. B!TypeOK'
  <2>1. request' \in [Handler -> B!Operation]
    BY <1>3 DEF BillingInv, B!TypeOK, B!Operation
  <2>2. begun' \in 0..MaxCheckouts /\ faults' \in 0..MaxFaults
    BY <1>3, <1>4, HandlersAssumption DEF BillingInv, B!TypeOK, HandlersAssumption
  <2>3. applied' \in (0..MaxChanges) \cup {None}
    BY <1>3, <1>5, <1>6 DEF BillingInv, B!TypeOK
  <2>4. events' \subseteq B!Event
    BY <1>4 DEF BillingInv, B!TypeOK
  <2>5. tenant' \in [plan : Plan, billing : {"pending", "trialing", "active", "past_due", "canceled"},
                     limit : {0} \cup {Limit[p] : p \in Plan}, trial : Sub \cup {None},
                     reminded : BOOLEAN, customer : Nat, subscription : Sub \cup {None}]
    BY <1>3, <1>5, EffectTyped
  <2> QED BY <1>3, <2>1, <2>2, <2>3, <2>4, <2>5 DEF BillingInv, B!TypeOK
<1>8. Numbered' /\ EventsTrue' /\ WebhooksTrue'
  <2>1. Numbered'
    BY <1>3 DEF BillingInv, Numbered
  <2>2. EventsTrue'
    BY <1>3, <1>4 DEF BillingInv, EventsTrue, Reports
  <2>3. \A i \in Handler : request'[i] = request[i] \/ request'[i].op = "none"
    BY <1>3 DEF BillingInv, B!TypeOK, B!Free
  <2>4. WebhooksTrue'
    BY <1>3, <2>3 DEF BillingInv, WebhooksTrue, Knows, Reports
  <2> QED BY <2>1, <2>2, <2>4
<1>9. /\ e.type = "deleted" => tenant'.billing = "canceled" /\ tenant'.limit = 0 /\ tenant'.subscription = None
      /\ e.type = "failed" => /\ tenant'.billing = "past_due" \/ tenant'.billing = tenant.billing
                              /\ tenant'.plan = tenant.plan /\ tenant'.limit = tenant.limit
                              /\ tenant'.subscription = tenant.subscription
      /\ e.type \in {"completed", "updated"} =>
           /\ tenant'.plan = PlanOf[e.sub] /\ tenant'.billing = q.status
           /\ tenant'.limit = Limit[PlanOf[e.sub]] /\ tenant'.subscription = e.sub
  BY <1>3, <1>5, EffectWrites
<1>10. Reflects'
  <2> SUFFICES ASSUME applied' # None, changes > 0
               PROVE  Pending' \/ (applied' = changes /\ \A s \in Sub : sub[s].at = changes => Shows(s)')
    BY <1>3 DEF Reflects
  <2>1. /\ ~(e.type = "completed" /\ q.status = "canceled") /\ applied' = q.asOf
        /\ IF applied = None THEN ~(q.asOf < changes \/ e.type = "failed") ELSE ~(q.asOf < applied)
    BY <1>2, <1>3 DEF B!Spoils
  <2>2. q.asOf <= changes /\ q.asOf \in Nat /\ changes \in Nat
    BY <1>2, <1>5, <1>6 DEF Knows
  <2>3. ASSUME q.asOf = changes, NEW s \in Sub, sub[s].at = changes, e.type # "failed" \/ Shows(s)
        PROVE  Shows(s)'
    <3>1. sub[e.sub].at = changes /\ q.status = sub[e.sub].status
      BY <1>2, <1>5, <1>6, <2>2, <2>3 DEF Knows
    <3>2. s = e.sub
      BY <1>5, <2>3, <3>1 DEF BillingInv, Numbered
    <3>3. CASE e.type = "deleted"
      <4>1. q.status = "canceled"
        BY <1>2, <1>5, <3>3 DEF Knows, Reports
      <4> QED BY <1>3, <1>9, <3>1, <3>2, <3>3, <4>1 DEF Shows
    <3>4. CASE e.type = "failed"
      <4>1. q.status = "past_due"
        BY <1>2, <1>5, <3>4 DEF Knows, Reports
      <4> QED BY <1>3, <1>9, <2>3, <3>1, <3>2, <3>4, <4>1 DEF Shows
    <3>5. CASE e.type \in {"completed", "updated"}
      <4>1. q.status # "canceled"
        BY <1>2, <1>5, <2>1, <3>5 DEF Knows, Reports
      <4> QED BY <1>3, <1>9, <3>1, <3>2, <3>5, <4>1 DEF Shows
    <3> QED BY <1>5, <3>3, <3>4, <3>5
  <2>4. CASE applied = None
    <3>1. q.asOf = changes /\ e.type # "failed"
      BY <2>1, <2>2, <2>4
    <3> QED BY <2>1, <2>3, <3>1
  <2>5. CASE applied # None /\ Pending
    <3>1. PICK p \in B!Event : Awaited(p) /\ p.at = changes /\ p.type # "failed"
      BY <2>5 DEF Pending
    <3>2. CASE p = e
      <4>1. q.asOf = changes
        BY <1>2, <1>5, <2>2, <3>1, <3>2 DEF Knows
      <4> QED BY <2>1, <2>3, <3>1, <3>2, <4>1
    <3>3. CASE p # e
      <4>1. p \in events => p \in events'
        BY <1>4, <3>3
      <4>2. \A i \in Handler : request[i].op = "answered" /\ request[i].event = p => request'[i] = request[i]
        BY <1>1, <1>2, <1>3, <3>3
      <4>3. Awaited(p)'
        BY <3>1, <4>1, <4>2 DEF Awaited
      <4> QED BY <1>3, <3>1, <4>3 DEF Pending
    <3> QED BY <3>2, <3>3
  <2>6. CASE applied # None /\ ~Pending
    <3>1. applied = changes /\ \A s \in Sub : sub[s].at = changes => Shows(s)
      BY <2>6 DEF BillingInv, Reflects
    <3>2. q.asOf = changes
      BY <2>1, <2>2, <2>6, <3>1
    <3> QED BY <2>1, <2>3, <3>1, <3>2
  <2> QED BY <2>4, <2>5, <2>6
<1> QED BY <1>7, <1>8, <1>10 DEF BillingInv

\* A reminder loop sends the mail, marks the row or fails between.
LEMMA BillingRemind ==
  ASSUME BillingInv, NEW w \in Worker,
         B!Remind(w) \/ B!CommitReminder(w) \/ B!ReminderFails(w)
  PROVE  BillingInv'
<1>1. /\ UNCHANGED <<request, begun, sub, customers, events, changes, applied>>
      /\ tenant' = tenant \/ tenant' = [tenant EXCEPT !.reminded = TRUE]
      /\ faults' = faults \/ (faults < MaxFaults /\ faults' = faults + 1)
      /\ \E b \in BOOLEAN : due' = [due EXCEPT ![w] = b]
  <2>1. CASE B!Remind(w)
    BY <2>1 DEF B!Remind, B!handlers, B!stripe
  <2>2. CASE B!CommitReminder(w)
    BY <2>2 DEF B!CommitReminder, B!handlers, B!stripe
  <2>3. CASE B!ReminderFails(w)
    BY <2>3 DEF B!ReminderFails, B!Fault, B!stripe
  <2> QED BY <2>1, <2>2, <2>3
<1>3. tenant' \in [plan : Plan, billing : {"pending", "trialing", "active", "past_due", "canceled"},
                   limit : {0} \cup {Limit[p] : p \in Plan}, trial : Sub \cup {None},
                   reminded : BOOLEAN, customer : Nat, subscription : Sub \cup {None}]
  BY <1>1 DEF BillingInv, B!TypeOK
<1>4. due' \in [Worker -> BOOLEAN] /\ faults' \in 0..MaxFaults
  BY <1>1, HandlersAssumption DEF BillingInv, B!TypeOK, HandlersAssumption
<1>5. B!TypeOK'
  BY <1>1, <1>3, <1>4 DEF BillingInv, B!TypeOK
<1>6. Numbered' /\ EventsTrue' /\ WebhooksTrue'
  BY <1>1 DEF BillingInv, Numbered, EventsTrue, WebhooksTrue, Knows, Reports
<1>7. /\ tenant'.billing = tenant.billing /\ tenant'.limit = tenant.limit
      /\ tenant'.subscription = tenant.subscription /\ tenant'.plan = tenant.plan
  BY <1>1 DEF BillingInv, B!TypeOK
<1>8. Reflects'
  BY <1>1, <1>7 DEF BillingInv, Reflects, Pending, Awaited, Shows
<1> QED BY <1>5, <1>6, <1>8 DEF BillingInv

\* Every step of Billing, or none.
LEMMA BillingInductive ==
  ASSUME BillingInv, B!Next \/ UNCHANGED B!vars
  PROVE  BillingInv'
<1>1. ASSUME NEW s \in Sub, B!Checkout(s) PROVE BillingInv'
  BY <1>1, BillingCheckout
<1>2. ASSUME NEW s \in Sub, B!TrialNears(s) PROVE BillingInv'
  BY <1>2, BillingTrialNears
<1>3. ASSUME NEW s \in Sub,
             \/ B!Subscribe(s) \/ B!TrialEnds(s) \/ B!PaymentFails(s) \/ B!Amend(s) \/ B!Recovers(s) \/ B!Cancel(s)
      PROVE  BillingInv'
  BY <1>3, BillingAtStripe
<1>4. ASSUME NEW h \in Handler, NEW e \in events, B!ReceiveEvent(h, e) PROVE BillingInv'
  BY <1>4, BillingReceive
<1>5. ASSUME NEW h \in Handler, B!CommitWebhook(h) PROVE BillingInv'
  BY <1>5, BillingCommit
<1>6. ASSUME NEW w \in Worker, B!Remind(w) \/ B!CommitReminder(w) \/ B!ReminderFails(w) PROVE BillingInv'
  BY <1>6, BillingRemind
<1>7. ASSUME NEW h \in Handler, B!AnswerWebhook(h) \/ B!RequestFails(h) PROVE BillingInv'
  BY <1>7, BillingAnswer, BillingFails
<1>8. ASSUME UNCHANGED B!vars PROVE BillingInv'
  <2>1. UNCHANGED <<request, begun, faults, tenant, sub, customers, events, changes, due, applied>>
    BY <1>8 DEF B!vars, B!handlers, B!stripe
  <2>2. request' \in [Handler -> B!Operation] /\ begun' \in 0..MaxCheckouts /\ faults' \in 0..MaxFaults
    BY <2>1 DEF BillingInv, B!TypeOK
  <2>3. (Pending => Pending') /\ \A h \in Handler : request[h].op \in {"webhook", "answered"} => Knows(request[h])
    BY <2>1 DEF Pending, Awaited, BillingInv, WebhooksTrue
  <2> QED BY <2>1, <2>2, <2>3, BillingHeld
<1> QED BY <1>1, <1>2, <1>3, <1>4, <1>5, <1>6, <1>7, <1>8 DEF B!Next, B!Stripe, B!Webhook, B!Reminder

\* With nothing awaited, the row shows the last change.
LEMMA BillingTold == BillingInv => B!Mirrors
BY DEF BillingInv, Reflects, Pending, Awaited, Shows, B!Mirrors

--------------------------------------------------------------------------------
(* Users.                                                                       *)

\* An invitation had found its address free, and makes a row that is not there, as no
\* other does.
Inviting ==
    /\ \A h \in Handler : request[h].op = "create" => request[h].free /\ request[h].user \notin U!Present
    /\ \A h, i \in Handler : request[h].op = "create" /\ request[i].op = "create"
                              /\ request[h].user = request[i].user => h = i

UsersInv == U!TypeOK /\ Inviting /\ IsFiniteSet(U!Present) /\ U!AddressUnique

\* There is one owner, and no request.
LEMMA UsersInit == U!Init => UsersInv
<1> SUFFICES ASSUME U!Init
             PROVE  UsersInv
  OBVIOUS
<1>1. PICK u \in User : u = CHOOSE v \in User : TRUE
  BY UserAssumption DEF UserAssumption
<1>2. PICK m \in Mail : m = CHOOSE e \in Mail : TRUE
  BY UserAssumption DEF UserAssumption
<1>3. /\ request = [h \in Handler |-> [op |-> "none"]] /\ begun = 0 /\ faults = 0
      /\ user = [v \in User |-> [role |-> "owner", mail |-> m, status |-> IF v = u THEN "active" ELSE "absent"]]
      /\ referenced = {} /\ invited = {}
  BY <1>1, <1>2 DEF U!Init, U!HandlersInit, U!Free
<1>4. U!TypeOK
  <2>1. request \in [Handler -> U!Operation] /\ begun \in 0..MaxRequests /\ faults \in 0..MaxFaults
    BY <1>3, HandlersAssumption DEF U!Operation, U!Free, HandlersAssumption
  <2>2. user \in [User -> U!Row]
    BY <1>3 DEF U!Row
  <2> QED BY <2>1, <2>2, <1>3 DEF U!TypeOK
<1>5. U!Present = {u}
  BY <1>3 DEF U!Present
<1>6. IsFiniteSet(U!Present)
  BY <1>5, FS_Singleton
<1>7. U!AddressUnique
  BY <1>5 DEF U!AddressUnique
<1>8. Inviting
  BY <1>3 DEF Inviting
<1> QED BY <1>4, <1>6, <1>7, <1>8 DEF UsersInv

\* A request goes; no user comes and nobody's address changes.
LEMMA UsersFree ==
  ASSUME UsersInv, NEW h \in Handler, request' = [request EXCEPT ![h] = U!Free],
         UNCHANGED begun, faults' \in 0..MaxFaults, user' \in [User -> U!Row],
         \A u \in User : user'[u].mail = user[u].mail /\ (user'[u].status # "absent" => user[u].status # "absent"),
         referenced \subseteq U!Present', UNCHANGED <<referenced, invited>>
  PROVE  UsersInv'
<1> USE DEF UsersInv, U!TypeOK
<1>1. U!TypeOK'
  BY DEF U!Operation
<1>2. \A i \in Handler : request'[i] = request[i] \/ request'[i].op = "none"
  BY DEF U!Free
<1>3. U!Present' \subseteq U!Present
  BY DEF U!Present
<1>4. IsFiniteSet(U!Present')
  BY <1>3, FS_Subset
<1>5. Inviting'
  BY <1>2, <1>3 DEF Inviting
<1>6. U!AddressUnique'
  <2> SUFFICES ASSUME NEW u \in U!Present', NEW v \in U!Present', u # v, user'[u].mail = user'[v].mail
               PROVE  user'[u].mail \in invited
    BY DEF U!AddressUnique
  <2>1. u \in U!Present /\ v \in U!Present /\ u \in User /\ v \in User
    BY <1>3 DEF U!Present
  <2> QED BY <2>1 DEF U!AddressUnique
<1> QED BY <1>1, <1>4, <1>5, <1>6

\* A request is taken up.
LEMMA UsersHold ==
  ASSUME UsersInv, NEW h \in Handler, NEW q \in U!Operation, U!Begin(h, q),
         q.op = "create" => /\ q.free /\ q.user \notin U!Present
                            /\ \A i \in Handler : request[i].op = "create" => request[i].user # q.user,
         UNCHANGED <<user, referenced, invited>>
  PROVE  UsersInv'
<1> USE DEF UsersInv, U!TypeOK
<1>1. request' = [request EXCEPT ![h] = q] /\ begun' \in 0..MaxRequests /\ UNCHANGED faults
  BY HandlersAssumption DEF U!Begin, U!Hold, U!Arrives, HandlersAssumption
<1>2. request'[h] = q /\ \A i \in Handler \ {h} : request'[i] = request[i]
  BY <1>1
<1>3. U!Present' = U!Present
  BY DEF U!Present
<1>4. U!TypeOK'
  BY <1>1, <1>3
<1>5. Inviting'
  BY <1>2, <1>3 DEF Inviting
<1>6. U!AddressUnique' /\ IsFiniteSet(U!Present')
  BY <1>3 DEF U!AddressUnique
<1> QED BY <1>4, <1>5, <1>6

\* create_user, update_user and delete_user up to their last read.
LEMMA UsersLoad ==
  ASSUME UsersInv, NEW h \in Handler, NEW u \in User,
         \/ \E m \in Mail, role \in {"owner", "admin"} : U!LoadCreate(h, u, m, role)
         \/ \E change \in U!Change : U!LoadUpdate(h, u, change)
         \/ \E actor \in User : U!LoadDelete(h, actor, u)
  PROVE  UsersInv'
<1>1. ASSUME NEW m \in Mail, NEW role \in {"owner", "admin"}, U!LoadCreate(h, u, m, role)
      PROVE  UsersInv'
  <2> DEFINE q == [op |-> "create", user |-> u, mail |-> m, role |-> role, free |-> TRUE]
  <2>1. q \in U!Operation
    BY DEF U!Operation
  <2>2. /\ U!Begin(h, q) /\ u \notin U!Present /\ UNCHANGED <<user, referenced, invited>>
        /\ \A i \in Handler : request[i].op = "create" => request[i].user # u
    BY <1>1 DEF U!LoadCreate
  <2> QED BY <2>1, <2>2, UsersHold
<1>2. ASSUME NEW change \in U!Change, U!LoadUpdate(h, u, change)
      PROVE  UsersInv'
  <2> DEFINE q == [op |-> "update", user |-> u, saw |-> user[u], change |-> change]
  <2>1. q \in U!Operation
    BY DEF U!Operation, UsersInv, U!TypeOK
  <2>2. U!Begin(h, q) /\ UNCHANGED <<user, referenced, invited>>
    BY <1>2 DEF U!LoadUpdate
  <2> QED BY <2>1, <2>2, UsersHold
<1>3. ASSUME NEW actor \in User, U!LoadDelete(h, actor, u)
      PROVE  UsersInv'
  <2> DEFINE q == [op |-> "delete", user |-> u]
  <2>1. q \in U!Operation
    BY DEF U!Operation
  <2>2. U!Begin(h, q) /\ UNCHANGED <<user, referenced, invited>>
    BY <1>3 DEF U!LoadDelete
  <2> QED BY <2>1, <2>2, UsersHold
<1> QED BY <1>1, <1>2, <1>3

\* The address of a user who is there by now had been free before.
LEMMA UsersCommitCreate ==
  ASSUME UsersInv, NEW h \in Handler, U!CommitCreate(h)
  PROVE  UsersInv'
<1> USE DEF UsersInv, U!TypeOK
<1>1. PICK u, m : u = request[h].user /\ m = request[h].mail
  OBVIOUS
<1>2. /\ request[h].op = "create" /\ request' = [request EXCEPT ![h] = U!Free]
      /\ user' = [user EXCEPT ![u] = [role |-> request[h].role, status |-> "active", mail |-> m]]
      /\ (\E v \in U!Present : user[v].mail = m) => m \in invited'
      /\ invited' = invited \/ invited' = invited \cup {m}
      /\ UNCHANGED <<begun, faults, referenced>>
  BY <1>1 DEF U!CommitCreate, U!Finish, Inviting
<1>3. u \in User /\ m \in Mail /\ request[h].role \in {"owner", "admin"}
  BY <1>1, <1>2 DEF U!Operation, U!Free
<1>4. u \notin U!Present /\ \A i \in Handler : request[i].op = "create" /\ request[i].user = u => i = h
  BY <1>1, <1>2 DEF Inviting
<1>5. user'[u].mail = m /\ user'[u].status = "active" /\ \A v \in User \ {u} : user'[v] = user[v]
  BY <1>2, <1>3
<1>6. U!Present' = U!Present \cup {u}
  BY <1>3, <1>5 DEF U!Present
<1>7. IsFiniteSet(U!Present')
  BY <1>6, FS_AddElement
<1>8. U!TypeOK'
  <2>1. request' \in [Handler -> U!Operation]
    BY <1>2 DEF U!Operation
  <2>2. user' \in [User -> U!Row]
    BY <1>2, <1>3 DEF U!Row
  <2> QED BY <2>1, <2>2, <1>2, <1>3, <1>6
<1>9. request'[h].op = "none" /\ \A i \in Handler \ {h} : request'[i] = request[i]
  BY <1>2 DEF U!Free
<1>10. Inviting'
  BY <1>4, <1>6, <1>9 DEF Inviting
<1>11. U!AddressUnique'
  <2> SUFFICES ASSUME NEW v \in U!Present', NEW w \in U!Present', v # w, user'[v].mail = user'[w].mail
               PROVE  user'[v].mail \in invited'
    BY DEF U!AddressUnique
  <2>1. CASE v # u /\ w # u
    BY <2>1, <1>2, <1>5, <1>6 DEF U!AddressUnique, U!Present
  <2>2. CASE v = u
    BY <2>2, <1>2, <1>5, <1>6 DEF U!Present
  <2>3. CASE w = u
    BY <2>3, <1>2, <1>5, <1>6 DEF U!Present
  <2> QED BY <2>1, <2>2, <2>3
<1> QED BY <1>7, <1>8, <1>10, <1>11

\* An update writes a row that is there; its address stays.
LEMMA UsersCommitUpdate ==
  ASSUME UsersInv, NEW h \in Handler, U!CommitUpdate(h)
  PROVE  UsersInv'
<1> USE DEF UsersInv, U!TypeOK
<1>1. PICK u, saw, change : u = request[h].user /\ saw = request[h].saw /\ change = request[h].change
  OBVIOUS
<1>2. /\ request[h].op = "update" /\ request' = [request EXCEPT ![h] = U!Free]
      /\ user' = IF u \in U!Present THEN [user EXCEPT ![u] = U!Written(user[u], saw, change)] ELSE user
      /\ UNCHANGED <<begun, faults, referenced, invited>>
  BY <1>1 DEF U!CommitUpdate, U!Finish
<1>3. u \in User /\ saw \in U!Row /\ change \in U!Change
  BY <1>1, <1>2 DEF U!Operation, U!Free
<1>4. u \in U!Present =>
          LET w == U!Written(user[u], saw, change)
          IN  w \in U!Row /\ w.mail = user[u].mail /\ w.status # "absent"
  <2>1. u \in U!Present => user[u] \in U!Row /\ user[u].status # "absent"
    BY DEF U!Present
  <2> QED BY <1>3, <2>1 DEF U!Written, U!Row, U!Change
<1>5. user' \in [User -> U!Row]
  BY <1>2, <1>3, <1>4
<1>6. \A v \in User : user'[v].mail = user[v].mail /\ (user'[v].status # "absent" <=> user[v].status # "absent")
  BY <1>2, <1>3, <1>4 DEF U!Present
<1>7. referenced \subseteq U!Present'
  BY <1>6 DEF U!Present
<1> QED BY <1>2, <1>5, <1>6, <1>7, UsersFree

\* A deletion takes an address away.
LEMMA UsersCommitDelete ==
  ASSUME UsersInv, NEW h \in Handler, U!CommitDelete(h)
  PROVE  UsersInv'
<1> USE DEF UsersInv, U!TypeOK
<1>1. PICK u : u = request[h].user
  OBVIOUS
<1>2. /\ request[h].op = "delete" /\ request' = [request EXCEPT ![h] = U!Free]
      /\ user' = IF u \in referenced THEN user ELSE [user EXCEPT ![u].status = "absent"]
      /\ UNCHANGED <<begun, faults, referenced, invited>>
  BY <1>1 DEF U!CommitDelete, U!Finish
<1>3. u \in User
  BY <1>1, <1>2 DEF U!Operation, U!Free
<1>4. user' \in [User -> U!Row]
  BY <1>2, <1>3 DEF U!Row
<1>5. \A v \in User : user'[v].mail = user[v].mail /\ (user'[v].status # "absent" => user[v].status # "absent")
  BY <1>2, <1>3 DEF U!Row
<1>6. referenced \subseteq U!Present'
  BY <1>2, <1>3 DEF U!Present
<1> QED BY <1>2, <1>4, <1>5, <1>6, UsersFree

\* Every step of Users, or none.
LEMMA UsersInductive ==
  ASSUME UsersInv, U!Next \/ UNCHANGED U!vars
  PROVE  UsersInv'
<1> USE DEF UsersInv, U!TypeOK
<1>1. ASSUME NEW h \in Handler, U!RequestFails(h)
      PROVE  UsersInv'
  <2>1. /\ request' = [request EXCEPT ![h] = U!Free] /\ UNCHANGED <<begun, user, referenced, invited>>
        /\ faults' \in 0..MaxFaults
    BY <1>1, HandlersAssumption DEF U!RequestFails, U!Abandon, U!Fault, HandlersAssumption
  <2>2. U!Present' = U!Present
    BY <2>1 DEF U!Present
  <2> QED BY <2>1, <2>2, UsersFree
<1>2. ASSUME NEW u \in User, U!LeavesTrace(u)
      PROVE  UsersInv'
  <2>1. /\ UNCHANGED <<request, faults, user, invited>> /\ begun' \in 0..MaxRequests
        /\ referenced' = referenced \cup {u} /\ u \in U!Present
    BY <1>2, HandlersAssumption
    DEF U!LeavesTrace, U!AtOnce, U!Arrives, U!Active, U!Present, HandlersAssumption
  <2>2. U!Present' = U!Present
    BY <2>1 DEF U!Present
  <2> QED BY <2>1, <2>2 DEF Inviting, U!AddressUnique
<1>3. CASE UNCHANGED U!vars
  <2>1. UNCHANGED <<request, begun, faults, user, referenced, invited>>
    BY <1>3 DEF U!vars, U!handlers
  <2>2. U!Present' = U!Present
    BY <2>1 DEF U!Present
  <2> QED BY <2>1, <2>2 DEF Inviting, U!AddressUnique
<1>4. ASSUME NEW h \in Handler, NEW u \in User,
             \/ \E m \in Mail : U!LoadCreate(h, u, m, "admin") \/ U!LoadCreate(h, u, m, "owner")
             \/ \E change \in U!Change : U!LoadUpdate(h, u, change)
             \/ \E actor \in User : U!LoadDelete(h, actor, u)
      PROVE  UsersInv'
  BY <1>4, UsersLoad
<1> QED BY <1>1, <1>2, <1>3, <1>4, UsersCommitCreate, UsersCommitUpdate, UsersCommitDelete DEF U!Next

--------------------------------------------------------------------------------
(* Enrollment tokens and imported rows.                                         *)

\* A request that makes a token does so for a row that is not there, once the tenant has
\* had a plan, and no other makes the same.
Making ==
    /\ \A h \in Handler : request[h].op = "token" => paid /\ tok[request[h].token] = "absent"
    /\ \A h, i \in Handler : request[h].op = "token" /\ request[i].op = "token"
                              /\ request[h].token = request[i].token => h = i

\* A profile leaves under a token that was made.
Downloaded ==
    /\ \A h \in Handler : request[h].op \in {"profile", "mark"} => tok[request[h].token] # "absent"
    /\ \A t \in Token : profiles[t] > 0 => tok[t] # "absent"

\* Without a plan there is no limit to be under.
Unpaid == ~paid => limit = 0 /\ enrolled = {} /\ \A t \in Token : tok[t] = "absent"

\* A profile of a single-use token has left, and its mark is still to be committed.
ToMark(t) == \E h \in Handler : request[h] = [op |-> "mark", token |-> t]

\* The first profile of a single-use token marks it or will, unless the mark was lost; no
\* step takes it away.
Marked ==
    \A t \in Token : profiles[t] > 0 => t \in reusable \/ tok[t] = "used" \/ t \in unmarked \/ ToMark(t)

\* A request to import a serial number had found it missing.
Imports == \A h \in Handler : request[h].op = "import" => request[h].fresh

\* Rows with one serial number, told apart by their places.
Staged == \A i, j \in DOMAIN staged : i # j /\ staged[i] = staged[j] => staged[i] \in crossed

TokensInv == T!TypeOK /\ Making /\ Downloaded /\ Unpaid /\ Marked /\ T!SingleUse /\ Imports /\ Staged

\* A tenant begins without a plan.
LEMMA TokensInit == T!Init => TokensInv
<1> SUFFICES ASSUME T!Init
             PROVE  TokensInv
  OBVIOUS
<1> USE DEF T!Init, T!HandlersInit, T!Free
<1>1. T!TypeOK
  <2>1. request \in [Handler -> T!Operation] /\ begun \in 0..MaxRequests /\ faults \in 0..MaxFaults
    BY HandlersAssumption DEF T!Operation, HandlersAssumption
  <2>2. staged \in Seq(Mac) /\ profiles \in [Token -> Nat]
    BY EmptySeq
  <2> QED BY <2>1, <2>2 DEF T!TypeOK
<1>2. Making /\ Downloaded /\ Unpaid /\ Marked /\ T!SingleUse /\ Imports /\ Staged
  BY DEF Making, Downloaded, Unpaid, Marked, ToMark, T!SingleUse, Imports, Staged
<1> QED BY <1>1, <1>2 DEF TokensInv

\* A request goes, perhaps with a mark that is lost.
LEMMA TokensFree ==
  ASSUME TokensInv, NEW h \in Handler, request' = [request EXCEPT ![h] = T!Free],
         begun' \in 0..MaxRequests, faults' \in 0..MaxFaults,
         unmarked \subseteq unmarked', unmarked' \subseteq Token,
         request[h].op = "mark" => request[h].token \in unmarked',
         UNCHANGED <<limit, tok, reusable, staged, enrolled, named, paid, profiles, shared, crossed>>
  PROVE  TokensInv'
<1>1. T!TypeOK'
  BY DEF TokensInv, T!TypeOK, T!Operation, T!Free
<1>2. \A i \in Handler : request'[i] = request[i] \/ request'[i].op = "none"
  BY DEF TokensInv, T!TypeOK, T!Free
<1>3. Making' /\ Downloaded' /\ Imports'
  BY <1>2 DEF TokensInv, Making, Downloaded, Imports
<1>4. Unpaid' /\ T!SingleUse' /\ Staged'
  BY DEF TokensInv, Unpaid, T!SingleUse, Staged
<1>5. \A t \in Token : ToMark(t) => t \in unmarked' \/ ToMark(t)'
  BY DEF TokensInv, T!TypeOK, ToMark
<1>6. Marked'
  BY <1>5 DEF TokensInv, Marked
<1> QED BY <1>1, <1>3, <1>4, <1>6 DEF TokensInv

\* A request is taken up, and nothing else of the part changes.
LEMMA TokensHold ==
  ASSUME TokensInv, NEW h \in Handler, NEW q \in T!Operation, T!Begin(h, q),
         q.op = "token" => /\ paid /\ tok[q.token] = "absent"
                           /\ \A i \in Handler : request[i].op = "token" => request[i].token # q.token,
         q.op \in {"profile", "mark"} => tok[q.token] # "absent",
         q.op = "import" => q.fresh,
         UNCHANGED <<limit, tok, reusable, staged, enrolled, named, paid, profiles, shared, unmarked, crossed>>
  PROVE  TokensInv'
<1>1. /\ request' = [request EXCEPT ![h] = q] /\ begun' \in 0..MaxRequests /\ UNCHANGED faults
  BY HandlersAssumption DEF TokensInv, T!TypeOK, T!Begin, T!Hold, T!Arrives, HandlersAssumption
<1>2. T!TypeOK'
  BY <1>1 DEF TokensInv, T!TypeOK
<1>3. request \in [Handler -> T!Operation]
  BY DEF TokensInv, T!TypeOK
<1>4. request'[h] = q /\ \A i \in Handler \ {h} : request'[i] = request[i]
  BY <1>1, <1>3
<1>5. Making'
  BY <1>4 DEF TokensInv, Making
<1>6. Downloaded' /\ Imports'
  BY <1>4 DEF TokensInv, Downloaded, Imports
<1>7. Unpaid' /\ T!SingleUse' /\ Staged'
  BY DEF TokensInv, Unpaid, T!SingleUse, Staged
<1>8. request[h].op = "none"
  BY DEF T!Begin, T!Hold
<1>9. \A t \in Token : ToMark(t) => ToMark(t)'
  BY <1>4, <1>8 DEF ToMark
<1>10. Marked'
  BY <1>9 DEF TokensInv, Marked
<1> QED BY <1>2, <1>5, <1>6, <1>7, <1>10 DEF TokensInv

\* A step that leaves every request as it is.
LEMMA TokensKeep ==
  ASSUME TokensInv,
         \/ \E n \in {Limit[p] : p \in Plan} \cup {0} : T!PlanChanges(n)
         \/ \E t \in Token : T!TokenExpires(t)
         \/ \E m \in Mac : T!Enroll(m) \/ T!TellSerial(m)
  PROVE  TokensInv'
<1> USE DEF TokensInv, T!TypeOK
<1>1. ASSUME NEW n \in {Limit[p] : p \in Plan} \cup {0}, T!PlanChanges(n)
      PROVE  TokensInv'
  <2>1. /\ UNCHANGED <<request, faults, tok, reusable, profiles, shared, unmarked, staged, enrolled, named, crossed>>
        /\ begun' \in 0..MaxRequests /\ limit' = n /\ paid'
    BY <1>1, HandlersAssumption
    DEF T!PlanChanges, T!AtOnce, T!Arrives, T!tokens, T!rows, HandlersAssumption
  <2> QED BY <2>1 DEF Making, Downloaded, Unpaid, Marked, ToMark, T!SingleUse, Imports, Staged
<1>2. ASSUME NEW t \in Token, T!TokenExpires(t)
      PROVE  TokensInv'
  <2>1. /\ UNCHANGED <<request, begun, faults, limit, paid, reusable, profiles, shared, unmarked, staged, enrolled,
                       named, crossed>>
        /\ tok[t] = "valid" /\ tok' = [tok EXCEPT ![t] = "expired"]
    BY <1>2 DEF T!TokenExpires, T!handlers, T!plan, T!rows
  <2>2. T!TypeOK'
    BY <2>1
  <2>3. \A u \in Token : \/ tok'[u] = tok[u]
                         \/ tok[u] = "valid" /\ tok'[u] = "expired"
    BY <2>1
  <2>4. \A h \in Handler : request[h].op \in {"token", "profile", "mark"} => request[h].token \in Token
    BY DEF T!Operation, T!Free
  <2>5. Making' /\ Downloaded'
    BY <2>1, <2>3, <2>4 DEF Making, Downloaded
  <2>6. Unpaid' /\ Marked' /\ T!SingleUse' /\ Imports' /\ Staged'
    BY <2>1, <2>3 DEF Unpaid, Marked, ToMark, T!SingleUse, Imports, Staged
  <2> QED BY <2>2, <2>5, <2>6
<1>3. ASSUME NEW m \in Mac, T!Enroll(m)
      PROVE  TokensInv'
  <2>1. /\ UNCHANGED <<request, begun, faults, limit, paid, tok, reusable, profiles, shared, unmarked, staged, named,
                       crossed>>
        /\ enrolled' = enrolled \cup {m}
    BY <1>3 DEF T!Enroll, T!handlers, T!plan, T!tokens
  <2>2. paid
    BY <1>3 DEF T!Enroll, Downloaded, Unpaid
  <2> QED BY <2>1, <2>2 DEF Making, Downloaded, Unpaid, Marked, ToMark, T!SingleUse, Imports, Staged
<1>4. ASSUME NEW m \in Mac, T!TellSerial(m)
      PROVE  TokensInv'
  <2>1. /\ UNCHANGED <<request, begun, faults, limit, paid, tok, reusable, profiles, shared, unmarked, staged, enrolled,
                       crossed>>
        /\ named' = named \cup {m} /\ m \in enrolled
    BY <1>4 DEF T!TellSerial, T!handlers, T!plan, T!tokens
  <2> QED BY <2>1 DEF Making, Downloaded, Unpaid, Marked, ToMark, T!SingleUse, Imports, Staged
<1> QED BY <1>1, <1>2, <1>3, <1>4

\* create_enrollment_token, the download and the import up to their last read.  The limit
\* that is asked for is above 0 only once the tenant has had a plan.
LEMMA TokensLoad ==
  ASSUME TokensInv, NEW h \in Handler,
         \/ \E t \in Token, many \in BOOLEAN : T!CreateToken(h, t, many)
         \/ \E t \in Token : T!Download(h, t)
         \/ \E m \in Mac : T!ReadCsv(h, m)
  PROVE  TokensInv'
<1>1. ASSUME NEW t \in Token, NEW many \in BOOLEAN, T!CreateToken(h, t, many)
      PROVE  TokensInv'
  <2> DEFINE q == [op |-> "token", token |-> t, reusable |-> many]
  <2>1. q \in T!Operation
    BY DEF T!Operation
  <2>2. paid
    <3> SUFFICES ASSUME ~paid
                 PROVE  FALSE
      BY DEF TokensInv, T!TypeOK
    <3>1. limit = 0 /\ enrolled = {}
      BY DEF TokensInv, Unpaid
    <3>2. T!Cardinality(enrolled) = 0
      BY <3>1, FS_EmptySet DEF T!Cardinality, Cardinality
    <3>3. Len(staged) \in Nat
      BY LenProperties DEF TokensInv, T!TypeOK
    <3> QED BY <1>1, <3>1, <3>2, <3>3 DEF T!CreateToken, T!UnderLimit, T!Devices
  <2>3. /\ T!Begin(h, q) /\ tok[t] = "absent"
        /\ \A i \in Handler : request[i].op = "token" => request[i].token # t
        /\ UNCHANGED <<limit, tok, reusable, staged, enrolled, named, paid, profiles, shared, unmarked, crossed>>
    BY <1>1 DEF T!CreateToken, T!plan, T!tokens, T!rows
  <2> QED BY <2>1, <2>2, <2>3, TokensHold
<1>2. ASSUME NEW t \in Token, T!Download(h, t)
      PROVE  TokensInv'
  <2> DEFINE q == [op |-> "profile", token |-> t]
  <2>1. q \in T!Operation
    BY DEF T!Operation
  <2>2. /\ T!Begin(h, q) /\ tok[t] # "absent"
        /\ UNCHANGED <<limit, tok, reusable, staged, enrolled, named, paid, profiles, shared, unmarked, crossed>>
    BY <1>2 DEF T!Download, T!plan, T!tokens, T!rows
  <2> QED BY <2>1, <2>2, TokensHold
<1>3. ASSUME NEW m \in Mac, T!ReadCsv(h, m)
      PROVE  TokensInv'
  <2> DEFINE q == [op |-> "import", mac |-> m, fresh |-> TRUE]
  <2>1. q \in T!Operation
    BY DEF T!Operation
  <2>2. /\ T!Begin(h, q)
        /\ UNCHANGED <<limit, tok, reusable, staged, enrolled, named, paid, profiles, shared, unmarked, crossed>>
    BY <1>3 DEF T!ReadCsv, T!plan, T!tokens, T!rows
  <2> QED BY <2>1, <2>2, TokensHold
<1> QED BY <1>1, <1>2, <1>3

\* A token is made: a row nobody else makes.
LEMMA TokensCommitToken ==
  ASSUME TokensInv, NEW h \in Handler, T!CommitToken(h)
  PROVE  TokensInv'
<1> USE DEF TokensInv, T!TypeOK
<1>1. PICK t : t = request[h].token
  OBVIOUS
<1>2. /\ request[h].op = "token" /\ request' = [request EXCEPT ![h] = T!Free]
      /\ tok' = [tok EXCEPT ![t] = "valid"]
      /\ reusable' = reusable \/ reusable' = reusable \cup {t}
      /\ UNCHANGED <<begun, faults, limit, paid, profiles, shared, unmarked, staged, enrolled, named, crossed>>
  BY <1>1 DEF T!CommitToken, T!Finish, T!plan, T!rows
<1>3. t \in Token
  BY <1>1, <1>2 DEF T!Operation, T!Free
<1>4. paid /\ tok[t] = "absent" /\ \A i \in Handler : request[i].op = "token" /\ request[i].token = t => i = h
  BY <1>1, <1>2 DEF Making
<1>5. T!TypeOK'
  <2>1. request' \in [Handler -> T!Operation]
    BY <1>2 DEF T!Operation
  <2> QED BY <2>1, <1>2, <1>3
<1>6. tok'[t] = "valid" /\ \A u \in Token \ {t} : tok'[u] = tok[u]
  BY <1>2, <1>3
<1>7. \A i \in Handler \ {h} : request'[i] = request[i]
  BY <1>2
<1>8. request'[h].op = "none"
  BY <1>2 DEF T!Free
<1>9. \A i \in Handler : request[i].op \in {"token", "profile", "mark"} => request[i].token \in Token
  BY DEF T!Operation, T!Free
<1>10. Making'
  BY <1>2, <1>4, <1>6, <1>7, <1>8, <1>9 DEF Making
<1>11. Downloaded' /\ Imports'
  BY <1>2, <1>6, <1>7, <1>8, <1>9 DEF Downloaded, Imports
<1>12. profiles[t] = 0
  BY <1>3, <1>4 DEF Downloaded
<1>13. Marked' /\ T!SingleUse'
  <2>1. \A u \in Token : ToMark(u) => ToMark(u)'
    BY <1>2, <1>7 DEF ToMark
  <2> QED BY <2>1, <1>2, <1>6, <1>12 DEF Marked, T!SingleUse
<1>14. Unpaid' /\ Staged'
  BY <1>2, <1>4 DEF Unpaid, Staged
<1> QED BY <1>5, <1>10, <1>11, <1>13, <1>14

\* A profile that leaves under a token that another has marked, or is about to, was asked
\* for before that one left.
LEMMA TokensLeave ==
  ASSUME TokensInv, NEW h \in Handler, NEW t \in Token, T!Leaves(h, t),
         request[h] = [op |-> "profile", token |-> t],
         UNCHANGED <<reusable, unmarked>>
  PROVE  /\ profiles' \in [Token -> Nat] /\ shared' \subseteq Token /\ T!SingleUse'
         /\ \A u \in Token : profiles'[u] > 0 => u = t \/ profiles[u] > 0
<1> USE DEF TokensInv, T!TypeOK
<1>1. /\ profiles' = [profiles EXCEPT ![t] = profiles[t] + 1]
      /\ shared' = IF tok[t] = "used" \/ \E i \in Handler \ {h} : request[i] = [op |-> "mark", token |-> t]
                   THEN shared \cup {t} ELSE shared
  BY DEF T!Leaves
<1>2. profiles'[t] = profiles[t] + 1 /\ profiles[t] \in Nat /\ \A u \in Token \ {t} : profiles'[u] = profiles[u]
  BY <1>1
<1>3. T!SingleUse'
  <2> SUFFICES ASSUME NEW u \in Token, profiles'[u] > 1, u \notin reusable, u \notin unmarked
               PROVE  u \in shared'
    BY DEF T!SingleUse
  <2>1. CASE u = t
    <3>1. tok[t] = "used" \/ ToMark(t)
      BY <2>1, <1>2 DEF Marked
    <3>2. ToMark(t) => \E i \in Handler \ {h} : request[i] = [op |-> "mark", token |-> t]
      BY DEF ToMark
    <3> QED BY <3>1, <3>2, <2>1, <1>1
  <2>2. CASE u # t
    BY <2>2, <1>1, <1>2 DEF T!SingleUse
  <2> QED BY <2>1, <2>2
<1> QED BY <1>1, <1>2, <1>3

\* What a download holds.
LEMMA DownloadIs ==
  ASSUME TokensInv, NEW h \in Handler, request[h].op \in {"profile", "mark"}
  PROVE  /\ request[h].token \in Token
         /\ request[h] = [op |-> request[h].op, token |-> request[h].token]
BY DEF TokensInv, T!TypeOK, T!Operation, T!Free

\* A profile leaves with the answer; its mark is to be committed.
LEMMA TokensHandOut ==
  ASSUME TokensInv, NEW h \in Handler, T!HandOut(h)
  PROVE  TokensInv'
<1> USE DEF TokensInv, T!TypeOK
<1>1. PICK t : t = request[h].token
  OBVIOUS
<1>2. /\ request[h].op = "profile" /\ request' = [request EXCEPT ![h] = [op |-> "mark", token |-> t]]
      /\ T!Leaves(h, t)
      /\ UNCHANGED <<begun, faults, limit, paid, tok, reusable, unmarked, staged, enrolled, named, crossed>>
  BY <1>1 DEF T!HandOut, T!Reply, T!plan, T!rows
<1>3. t \in Token /\ request[h] = [op |-> "profile", token |-> t]
  BY <1>1, <1>2, DownloadIs
<1>4. tok[t] # "absent"
  BY <1>1, <1>2 DEF Downloaded
<1>5. /\ profiles' \in [Token -> Nat] /\ shared' \subseteq Token /\ T!SingleUse'
      /\ \A u \in Token : profiles'[u] > 0 => u = t \/ profiles[u] > 0
  BY <1>2, <1>3, TokensLeave
<1>6. T!TypeOK'
  <2>1. request' \in [Handler -> T!Operation]
    BY <1>2, <1>3 DEF T!Operation
  <2> QED BY <2>1, <1>2, <1>5
<1>7. request'[h] = [op |-> "mark", token |-> t] /\ \A i \in Handler \ {h} : request'[i] = request[i]
  BY <1>2
<1>8. Making' /\ Imports'
  BY <1>2, <1>7 DEF Making, Imports
<1>9. Downloaded'
  BY <1>2, <1>3, <1>4, <1>5, <1>7 DEF Downloaded
<1>10. Marked'
  <2>1. ToMark(t)' /\ \A u \in Token : ToMark(u) => ToMark(u)'
    BY <1>3, <1>7 DEF ToMark
  <2> QED BY <2>1, <1>2, <1>5 DEF Marked
<1>11. Unpaid' /\ Staged'
  BY <1>2 DEF Unpaid, Staged
<1> QED BY <1>5, <1>6, <1>8, <1>9, <1>10, <1>11

\* The mark is committed, and when the answer waited for that, the profile leaves.
LEMMA TokensCommitMark ==
  ASSUME TokensInv, NEW h \in Handler, T!CommitMark(h)
  PROVE  TokensInv'
<1> USE DEF TokensInv, T!TypeOK
<1>1. PICK t : t = request[h].token
  OBVIOUS
<1>2. /\ request[h].op \in {"profile", "mark"} /\ request' = [request EXCEPT ![h] = T!Free]
      /\ tok' = IF t \in reusable THEN tok ELSE [tok EXCEPT ![t] = "used"]
      /\ \/ request[h].op = "profile" /\ T!Leaves(h, t)
         \/ UNCHANGED <<profiles, shared>>
      /\ UNCHANGED <<begun, faults, limit, paid, reusable, unmarked, staged, enrolled, named, crossed>>
  BY <1>1 DEF T!CommitMark, T!Finish, T!Due, T!plan, T!rows
<1>3. t \in Token /\ request[h] = [op |-> request[h].op, token |-> t]
  BY <1>1, <1>2, DownloadIs
<1>4. tok[t] # "absent" /\ paid
  BY <1>1, <1>2, <1>3 DEF Downloaded, Unpaid
<1>5. /\ profiles' \in [Token -> Nat] /\ shared' \subseteq Token /\ T!SingleUse'
      /\ \A u \in Token : profiles'[u] > 0 => u = t \/ profiles[u] > 0
  <2>1. CASE request[h].op = "profile" /\ T!Leaves(h, t)
    BY <1>2, <1>3, <2>1, TokensLeave
  <2>2. CASE UNCHANGED <<profiles, shared>>
    BY <1>2, <2>2 DEF T!SingleUse
  <2> QED BY <1>2, <2>1, <2>2
<1>6. /\ \A u \in Token \ {t} : tok'[u] = tok[u]
      /\ IF t \in reusable THEN tok'[t] = tok[t] ELSE tok'[t] = "used"
  BY <1>2, <1>3
<1>7. T!TypeOK'
  <2>1. request' \in [Handler -> T!Operation]
    BY <1>2 DEF T!Operation
  <2>2. tok' \in [Token -> {"absent", "valid", "used", "expired"}]
    BY <1>2, <1>3
  <2> QED BY <2>1, <2>2, <1>2, <1>5
<1>8. request'[h].op = "none" /\ \A i \in Handler \ {h} : request'[i] = request[i]
  BY <1>2 DEF T!Free
<1>9. \A i \in Handler : request[i].op \in {"token", "profile", "mark"} => request[i].token \in Token
  BY DEF T!Operation, T!Free
<1>10. \A u \in Token : tok'[u] = "absent" <=> tok[u] = "absent"
  BY <1>4, <1>6
<1>11. Making' /\ Imports'
  BY <1>2, <1>8, <1>9, <1>10 DEF Making, Imports
<1>12. Downloaded'
  BY <1>4, <1>5, <1>8, <1>9, <1>10 DEF Downloaded
<1>13. Marked'
  <2> SUFFICES ASSUME NEW u \in Token, profiles'[u] > 0, u \notin reusable, tok'[u] # "used", u \notin unmarked
               PROVE  ToMark(u)'
    BY <1>2 DEF Marked
  <2>1. u # t /\ tok'[u] = tok[u] /\ profiles[u] > 0
    BY <1>5, <1>6
  <2>2. PICK i \in Handler : request[i] = [op |-> "mark", token |-> u]
    BY <2>1 DEF Marked, ToMark
  <2>3. i # h
    BY <1>1, <2>1, <2>2
  <2> QED BY <1>8, <2>2, <2>3 DEF ToMark
<1>14. Unpaid' /\ Staged'
  BY <1>2, <1>4 DEF Unpaid, Staged
<1> QED BY <1>5, <1>7, <1>11, <1>12, <1>13, <1>14

\* A serial number that is staged by now was found missing before.
LEMMA TokensCommitImport ==
  ASSUME TokensInv, NEW h \in Handler, T!CommitImport(h)
  PROVE  TokensInv'
<1> USE DEF TokensInv, T!TypeOK
<1>1. PICK m : m = request[h].mac
  OBVIOUS
<1>2. /\ request[h].op = "import" /\ request' = [request EXCEPT ![h] = T!Free]
      /\ staged' = Append(staged, m)
      /\ m \in T!Range(staged) => m \in crossed'
      /\ crossed' = crossed \/ crossed' = crossed \cup {m}
      /\ UNCHANGED <<begun, faults, limit, paid, tok, reusable, profiles, shared, unmarked, enrolled, named>>
  BY <1>1 DEF T!CommitImport, T!Finish, T!plan, T!tokens, T!Serials, Imports
<1>3. m \in Mac
  <2>1. request[h] \in T!Operation
    OBVIOUS
  <2> QED BY <1>1, <1>2, <2>1 DEF T!Operation, T!Free
<1>4. T!TypeOK'
  <2>1. request' \in [Handler -> T!Operation]
    BY <1>2 DEF T!Operation
  <2>2. staged' \in Seq(Mac)
    BY <1>2, <1>3, AppendProperties
  <2> QED BY <2>1, <2>2, <1>2, <1>3
<1>5. \A i \in Handler : request'[i] = request[i] \/ request'[i].op = "none"
  BY <1>2 DEF T!Free
<1>6. Making' /\ Downloaded' /\ Imports'
  BY <1>2, <1>5 DEF Making, Downloaded, Imports
<1>7. Unpaid' /\ Marked' /\ T!SingleUse'
  <2>1. \A u \in Token : ToMark(u) => ToMark(u)'
    BY <1>2 DEF ToMark
  <2> QED BY <2>1, <1>2 DEF Unpaid, Marked, T!SingleUse
<1>8. Staged'
  <2>1. /\ Len(staged) \in Nat /\ DOMAIN staged = 1..Len(staged) /\ DOMAIN staged' = 1..(Len(staged) + 1)
        /\ staged'[Len(staged) + 1] = m /\ \A i \in DOMAIN staged : staged'[i] = staged[i]
    BY <1>2, <1>3, AppendProperties, LenProperties
  <2>2. \A i \in DOMAIN staged : staged[i] = m => m \in crossed'
    BY <1>2 DEF T!Range
  <2>3. ASSUME NEW i \in DOMAIN staged', NEW j \in DOMAIN staged', i # j, staged'[i] = staged'[j]
        PROVE  staged'[i] \in crossed'
    <3>1. CASE i \in DOMAIN staged /\ j \in DOMAIN staged
      BY <3>1, <2>1, <2>3, <1>2 DEF Staged
    <3>2. CASE i \notin DOMAIN staged \/ j \notin DOMAIN staged
      <4>1. \/ i = Len(staged) + 1 /\ j \in DOMAIN staged
            \/ j = Len(staged) + 1 /\ i \in DOMAIN staged
        BY <3>2, <2>1, <2>3
      <4>2. CASE i = Len(staged) + 1 /\ j \in DOMAIN staged
        <5>1. staged'[i] = m /\ staged[j] = m
          BY <4>2, <2>1, <2>3
        <5> QED BY <4>2, <5>1, <2>2
      <4>3. CASE j = Len(staged) + 1 /\ i \in DOMAIN staged
        <5>1. staged'[i] = m /\ staged[i] = m
          BY <4>3, <2>1, <2>3
        <5> QED BY <4>3, <5>1, <2>2
      <4> QED BY <4>1, <4>2, <4>3
    <3> QED BY <3>1, <3>2
  <2> QED BY <2>3 DEF Staged
<1> QED BY <1>4, <1>6, <1>7, <1>8

\* Every step of EnrollmentTokens, or none.
LEMMA TokensInductive ==
  ASSUME TokensInv, T!Next \/ UNCHANGED T!vars
  PROVE  TokensInv'
<1>1. ASSUME NEW h \in Handler, T!RequestFails(h)
      PROVE  TokensInv'
  <2>1. /\ request' = [request EXCEPT ![h] = T!Free] /\ begun' = begun /\ faults' \in 0..MaxFaults
        /\ unmarked' = IF request[h].op = "mark" THEN unmarked \cup {request[h].token} ELSE unmarked
        /\ UNCHANGED <<limit, tok, reusable, staged, enrolled, named, paid, profiles, shared, crossed>>
    BY <1>1, HandlersAssumption
    DEF T!RequestFails, T!Abandon, T!Fault, T!plan, T!rows, TokensInv, T!TypeOK, HandlersAssumption
  <2>2. request[h].op = "mark" => request[h].token \in Token
    BY DownloadIs
  <2>3. begun \in 0..MaxRequests /\ unmarked \subseteq Token
    BY DEF TokensInv, T!TypeOK
  <2> QED BY <2>1, <2>2, <2>3, TokensFree
<1>2. CASE UNCHANGED T!vars
  <2>1. UNCHANGED <<request, begun, faults, limit, tok, reusable, staged, enrolled, named, paid, profiles,
                    shared, unmarked, crossed>>
    BY <1>2 DEF T!vars, T!handlers, T!plan, T!tokens, T!rows
  <2> QED BY <2>1 DEF TokensInv, T!TypeOK, Making, Downloaded, Unpaid, Marked, ToMark, T!SingleUse, Imports, Staged
<1> QED BY <1>1, <1>2, TokensKeep, TokensLoad, TokensCommitToken, TokensHandOut, TokensCommitMark,
           TokensCommitImport
        DEF T!Next, T!Admin, T!Arrivals

\* Two places that say the same are what makes the count exceed 1.
LEMMA TokensTold == TokensInv => T!NoPlanNoEnrollment /\ T!StagedOnce
<1> SUFFICES ASSUME TokensInv
             PROVE  T!NoPlanNoEnrollment /\ T!StagedOnce
  OBVIOUS
<1>1. T!NoPlanNoEnrollment
  BY DEF TokensInv, Unpaid, T!NoPlanNoEnrollment
<1>2. ASSUME NEW m \in Mac, m \notin crossed
      PROVE  ~(T!Cardinality({i \in DOMAIN staged : staged[i] = m}) > 1)
  <2> DEFINE Places == {i \in DOMAIN staged : staged[i] = m}
  <2>1. \A i, j \in Places : i = j
    BY <1>2 DEF TokensInv, Staged
  <2>2. Places = {} \/ \E i : Places = {i}
    BY <2>1
  <2> HIDE DEF Places
  <2>3. Cardinality(Places) \in {0, 1}
    BY <2>2, FS_EmptySet, FS_Singleton
  <2>4. T!Cardinality(Places) = Cardinality(Places)
    BY DEF T!Cardinality, Cardinality
  <2>5. ~(T!Cardinality(Places) > 1)
    BY <2>3, <2>4
  <2> QED BY <2>5 DEF Places
<1> QED BY <1>1, <1>2 DEF T!StagedOnce

--------------------------------------------------------------------------------
(* Groups.                                                                      *)

\* A device is twice in a group when two additions, or one, had found it missing.
Doubled == \A g \in Group, d \in Mac : member[g][d] > 1 => <<g, d>> \in doubled

\* An addition had found missing what it adds; a bulk action has read which memberships
\* were doubled.
Adding ==
    \A h \in Handler :
        /\ request[h].op = "add" => request[h].bare = request[h].new
        /\ request[h].op = "bulk" => \A d \in Mac : request[h].rows[d] > 1 => d \in request[h].excused

GroupsInv == G!TypeOK /\ Doubled /\ Adding /\ G!BulkOnce

\* No group, no device.
LEMMA GroupsInit == G!Init => GroupsInv
<1> SUFFICES ASSUME G!Init
             PROVE  GroupsInv
  OBVIOUS
<1> USE DEF G!Init, G!HandlersInit
<1>1. request \in [Handler -> G!Operation] /\ \A h \in Handler : request[h].op = "none"
  BY DEF G!Operation, G!Free
<1>2. \A x \in G!Memberships : member[x[1]][x[2]] = 0
  BY DEF G!Memberships
<1>3. G!TypeOK
  BY <1>1, <1>2, HandlersAssumption DEF G!TypeOK, G!Memberships, HandlersAssumption
<1>4. Doubled /\ Adding /\ G!BulkOnce
  BY <1>1 DEF Doubled, Adding, G!BulkOnce
<1> QED BY <1>3, <1>4 DEF GroupsInv

\* A request goes, and the memberships and what was queued change together with what
\* excuses them.
LEMMA GroupsGone ==
  ASSUME GroupsInv, NEW h \in Handler, request' = [request EXCEPT ![h] = G!Free],
         UNCHANGED <<begun, groups, devices>>, faults' \in 0..MaxFaults,
         member' \in [Group -> [Mac -> Nat]],
         \A g \in Group, d \in Mac : member'[g][d] > 0 => g \in groups /\ d \in devices,
         doubled' \subseteq G!Memberships, Doubled',
         bulk' \in [Mac -> Nat], excused' \subseteq Mac, G!BulkOnce'
  PROVE  GroupsInv'
<1> USE DEF GroupsInv, G!TypeOK
<1>1. request' \in [Handler -> G!Operation]
  BY DEF G!Operation
<1>2. \A x \in G!Memberships : member'[x[1]][x[2]] > 0 => x[1] \in groups' /\ x[2] \in devices'
  BY DEF G!Memberships
<1>3. \A i \in Handler : request'[i] = request[i] \/ request'[i].op = "none"
  BY DEF G!Free
<1>4. Adding'
  BY <1>3 DEF Adding
<1> QED BY <1>1, <1>2, <1>4

\* A request is taken up.
LEMMA GroupsHold ==
  ASSUME GroupsInv, NEW h \in Handler, NEW q \in G!Operation, G!Begin(h, q),
         q.op = "add" => q.bare = q.new,
         q.op = "bulk" => \A d \in Mac : q.rows[d] > 1 => d \in q.excused,
         UNCHANGED <<groups, devices, member, bulk, doubled, excused>>
  PROVE  GroupsInv'
<1> USE DEF GroupsInv, G!TypeOK
<1>1. request' = [request EXCEPT ![h] = q] /\ begun' \in 0..MaxRequests /\ UNCHANGED faults
  BY HandlersAssumption DEF G!Begin, G!Hold, G!Arrives, HandlersAssumption
<1>2. request'[h] = q /\ \A i \in Handler \ {h} : request'[i] = request[i]
  BY <1>1
<1>3. Adding'
  BY <1>2 DEF Adding
<1> QED BY <1>1, <1>3 DEF Doubled, G!BulkOnce

\* A step that leaves every request as it is, and takes memberships away.
LEMMA GroupsKeep ==
  ASSUME GroupsInv, UNCHANGED <<request, faults, bulk, excused>>, begun' \in 0..MaxRequests,
         groups' \subseteq Group, devices' \subseteq Mac, member' \in [Group -> [Mac -> Nat]],
         doubled' \subseteq doubled,
         \A g \in Group, d \in Mac :
             \/ member'[g][d] = 0
             \/ /\ member'[g][d] = member[g][d]
                /\ g \in groups => g \in groups'
                /\ d \in devices => d \in devices'
                /\ <<g, d>> \in doubled => <<g, d>> \in doubled'
  PROVE  GroupsInv'
<1> USE DEF GroupsInv, G!TypeOK
<1>1. \A g \in Group, d \in Mac : member[g][d] > 0 => g \in groups /\ d \in devices
  <2> TAKE g \in Group, d \in Mac
  <2>1. <<g, d>> \in G!Memberships
    BY DEF G!Memberships
  <2> QED BY <2>1
<1>2. \A x \in G!Memberships : member'[x[1]][x[2]] > 0 => x[1] \in groups' /\ x[2] \in devices'
  BY <1>1 DEF G!Memberships
<1>3. Doubled'
  BY DEF Doubled
<1> QED BY <1>2, <1>3 DEF Adding, G!BulkOnce

\* Groups made, deleted and emptied: rows only go.
LEMMA GroupsEdit ==
  ASSUME GroupsInv, NEW g \in Group,
         G!CreateGroup(g) \/ G!DeleteGroup(g) \/ \E d \in Mac : G!RemoveDevice(g, d)
  PROVE  GroupsInv'
<1> USE DEF GroupsInv, G!TypeOK
<1>1. CASE G!CreateGroup(g)
  <2>1. /\ UNCHANGED <<request, faults, devices, member, bulk, doubled, excused>>
        /\ begun' \in 0..MaxRequests /\ groups' = groups \cup {g}
    BY <1>1, HandlersAssumption DEF G!CreateGroup, G!AtOnce, G!Arrives, HandlersAssumption
  <2> QED BY <2>1, GroupsKeep
<1>2. CASE G!DeleteGroup(g)
  <2>1. /\ UNCHANGED <<request, faults, devices, bulk, excused>>
        /\ begun' \in 0..MaxRequests /\ groups' = groups \ {g}
        /\ member' = [f \in Group |-> [d \in Mac |-> IF f \in {g} \/ d \in {} THEN 0 ELSE member[f][d]]]
        /\ doubled' = {x \in doubled : x[1] \notin {g} /\ x[2] \notin {}}
    BY <1>2, HandlersAssumption
    DEF G!DeleteGroup, G!AtOnce, G!Arrives, G!Without, G!Forget, HandlersAssumption
  <2>2. \A f \in Group, d \in Mac : member'[f][d] = IF f = g THEN 0 ELSE member[f][d]
    BY <2>1
  <2>3. member' \in [Group -> [Mac -> Nat]]
    BY <2>1
  <2>4. \A f \in Group, d \in Mac : f # g /\ <<f, d>> \in doubled => <<f, d>> \in doubled'
    BY <2>1
  <2> QED BY <2>1, <2>2, <2>3, <2>4, GroupsKeep
<1>3. ASSUME NEW d \in Mac, G!RemoveDevice(g, d)
      PROVE  GroupsInv'
  <2>1. /\ UNCHANGED <<request, faults, groups, devices, bulk, excused>>
        /\ begun' \in 0..MaxRequests
        /\ member' = [member EXCEPT ![g][d] = 0]
        /\ doubled' = doubled \ {<<g, d>>}
    BY <1>3, HandlersAssumption DEF G!RemoveDevice, G!AtOnce, G!Arrives, HandlersAssumption
  <2>2. \A f \in Group, e \in Mac : member'[f][e] = IF f = g /\ e = d THEN 0 ELSE member[f][e]
    BY <2>1
  <2>3. member' \in [Group -> [Mac -> Nat]]
    BY <2>1
  <2>4. \A f \in Group, e \in Mac : <<f, e>> \in doubled => (f = g /\ e = d) \/ <<f, e>> \in doubled'
    BY <2>1
  <2> QED BY <2>1, <2>2, <2>3, <2>4, GroupsKeep
<1> QED BY <1>1, <1>2, <1>3

\* A device goes with its memberships.
LEMMA GroupsDeleteDevice ==
  ASSUME GroupsInv, NEW d \in Mac, G!DeleteDevice(d)
  PROVE  GroupsInv'
<1> USE DEF GroupsInv, G!TypeOK
<1>1. /\ UNCHANGED <<request, faults, groups, bulk, excused>>
      /\ begun' \in 0..MaxRequests /\ devices' = devices \ {d}
      /\ member' = [g \in Group |-> [e \in Mac |-> IF g \in {} \/ e \in {d} THEN 0 ELSE member[g][e]]]
      /\ doubled' = {x \in doubled : x[1] \notin {} /\ x[2] \notin {d}}
  BY HandlersAssumption
  DEF G!DeleteDevice, G!AtOnce, G!Arrives, G!Without, G!Forget, HandlersAssumption
<1>2. \A g \in Group, e \in Mac : member'[g][e] = IF e = d THEN 0 ELSE member[g][e]
  BY <1>1
<1>3. member' \in [Group -> [Mac -> Nat]]
  BY <1>1
<1>4. \A g \in Group, e \in Mac : e # d /\ <<g, e>> \in doubled => <<g, e>> \in doubled'
  BY <1>1
<1> QED BY <1>1, <1>2, <1>3, <1>4, GroupsKeep

\* What an addition and a bulk action read fits what is there.
LEMMA GroupsLoad ==
  ASSUME GroupsInv, NEW h \in Handler, NEW g \in Group,
         \/ G!BulkAction(h, g)
         \/ \E body \in SUBSET Mac, times \in 1..2 : G!AddDevices(h, g, body, times)
  PROVE  GroupsInv'
<1>1. CASE G!BulkAction(h, g)
  <2> DEFINE q == [op |-> "bulk", group |-> g, rows |-> member[g], excused |-> {d \in Mac : <<g, d>> \in doubled}]
  <2>1. q \in G!Operation
    <3>1. member[g] \in [Mac -> Nat] /\ {d \in Mac : <<g, d>> \in doubled} \subseteq Mac
      BY DEF GroupsInv, G!TypeOK
    <3> QED BY <3>1 DEF G!Operation
  <2>2. G!Begin(h, q) /\ UNCHANGED <<groups, devices, member, bulk, doubled, excused>>
    BY <1>1 DEF G!BulkAction
  <2>3. \A d \in Mac : q.rows[d] > 1 => d \in q.excused
    BY DEF GroupsInv, Doubled
  <2>4. q.op = "bulk"
    OBVIOUS
  <2> HIDE DEF q
  <2> QED BY <2>1, <2>2, <2>3, <2>4, GroupsHold
<1>2. ASSUME NEW body \in SUBSET Mac, NEW times \in 1..2, G!AddDevices(h, g, body, times)
      PROVE  GroupsInv'
  <2> DEFINE new == {d \in body \cap devices : member[g][d] = 0}
             q   == [op |-> "add", group |-> g, new |-> new, times |-> times, bare |-> new]
  <2>1. q \in G!Operation
    BY DEF G!Operation
  <2>2. G!Begin(h, q) /\ UNCHANGED <<groups, devices, member, bulk, doubled, excused>>
    BY <1>2 DEF G!AddDevices
  <2>3. q.op = "add" /\ q.bare = q.new
    OBVIOUS
  <2> HIDE DEF q
  <2> QED BY <2>1, <2>2, <2>3, GroupsHold
<1> QED BY <1>1, <1>2

\* A membership becomes double in an addition that names it twice, or that had found
\* missing what is there by now.
LEMMA GroupsCommitAdd ==
  ASSUME GroupsInv, NEW h \in Handler, G!CommitAdd(h)
  PROVE  GroupsInv'
<1> USE DEF GroupsInv, G!TypeOK
<1>1. PICK q : q = request[h]
  OBVIOUS
<1>2. /\ q.op = "add" /\ request' = [request EXCEPT ![h] = G!Free]
      /\ UNCHANGED <<begun, faults, groups, devices, bulk, excused>>
      /\ IF q.group \in groups /\ q.new \subseteq devices
         THEN /\ member' = [member EXCEPT ![q.group] =
                              [d \in Mac |-> IF d \in q.new THEN member[q.group][d] + q.times ELSE member[q.group][d]]]
              /\ doubled' = doubled \cup {<<q.group, d>> : d \in
                              {e \in q.bare : q.times > 1 \/ member[q.group][e] > 0}}
         ELSE UNCHANGED <<member, doubled>>
  BY <1>1 DEF G!CommitAdd, G!Finish
<1>3. q.group \in Group /\ q.new \subseteq Mac /\ q.times \in 1..2 /\ q.bare = q.new
  <2>1. q.group \in Group /\ q.new \subseteq Mac /\ q.times \in 1..2
    BY <1>1, <1>2 DEF G!Operation, G!Free
  <2> QED BY <2>1, <1>1, <1>2 DEF Adding
<1>4. \A g \in Group, d \in Mac : member[g][d] > 0 => g \in groups /\ d \in devices
  <2> TAKE g \in Group, d \in Mac
  <2>1. <<g, d>> \in G!Memberships
    BY DEF G!Memberships
  <2> QED BY <2>1
<1>5. G!BulkOnce'
  BY <1>2 DEF G!BulkOnce
<1>6. CASE UNCHANGED <<member, doubled>>
  <2>1. Doubled'
    BY <1>6 DEF Doubled
  <2> QED BY <2>1, <1>2, <1>4, <1>5, <1>6, GroupsGone
<1>7. CASE ~UNCHANGED <<member, doubled>>
  <2>1. /\ q.group \in groups /\ q.new \subseteq devices
        /\ member' = [member EXCEPT ![q.group] =
                        [d \in Mac |-> IF d \in q.new THEN member[q.group][d] + q.times ELSE member[q.group][d]]]
        /\ doubled' = doubled \cup {<<q.group, d>> : d \in
                        {e \in q.bare : q.times > 1 \/ member[q.group][e] > 0}}
    BY <1>2, <1>7
  <2>2. \A g \in Group, d \in Mac :
            member'[g][d] = IF g = q.group /\ d \in q.new THEN member[g][d] + q.times ELSE member[g][d]
    BY <2>1, <1>3
  <2>3. member' \in [Group -> [Mac -> Nat]]
    <3> DEFINE new == [d \in Mac |-> IF d \in q.new THEN member[q.group][d] + q.times ELSE member[q.group][d]]
    <3>1. new \in [Mac -> Nat]
      BY <1>3
    <3> HIDE DEF new
    <3>2. member' = [member EXCEPT ![q.group] = new]
      BY <2>1 DEF new
    <3> QED BY <3>1, <3>2, <1>3
  <2>4. \A g \in Group, d \in Mac : member'[g][d] > 0 => g \in groups /\ d \in devices
    BY <1>4, <2>1, <2>2
  <2>5. doubled' \subseteq G!Memberships
    BY <2>1, <1>3 DEF G!Memberships
  <2>6. Doubled'
    <3> SUFFICES ASSUME NEW g \in Group, NEW d \in Mac, member'[g][d] > 1
                 PROVE  <<g, d>> \in doubled'
      BY DEF Doubled
    <3>1. CASE g = q.group /\ d \in q.new
      <4>1. member[g][d] \in Nat /\ member'[g][d] = member[g][d] + q.times
        BY <2>2, <3>1
      <4>2. q.times > 1 \/ member[q.group][d] > 0
        BY <4>1, <3>1, <1>3
      <4> QED BY <4>2, <3>1, <2>1, <1>3
    <3>2. CASE ~(g = q.group /\ d \in q.new)
      BY <3>2, <2>1, <2>2 DEF Doubled
    <3> QED BY <3>1, <3>2
  <2> QED BY <1>2, <1>5, <2>3, <2>4, <2>5, <2>6, GroupsGone
<1> QED BY <1>6, <1>7

\* A bulk action queues as many commands as it had found rows.
LEMMA GroupsCommitBulk ==
  ASSUME GroupsInv, NEW h \in Handler, G!CommitBulk(h)
  PROVE  GroupsInv'
<1> USE DEF GroupsInv, G!TypeOK
<1>1. PICK q : q = request[h]
  OBVIOUS
<1>2. /\ q.op = "bulk" /\ request' = [request EXCEPT ![h] = G!Free]
      /\ UNCHANGED <<begun, faults, groups, devices, member, doubled>>
      /\ \/ /\ bulk' = [d \in Mac |-> IF q.rows[d] > bulk[d] THEN q.rows[d] ELSE bulk[d]]
            /\ excused' = excused \cup q.excused
         \/ UNCHANGED <<bulk, excused>>
  BY <1>1 DEF G!CommitBulk, G!Finish
<1>3. q.rows \in [Mac -> Nat] /\ q.excused \subseteq Mac
  BY <1>1, <1>2 DEF G!Operation, G!Free
<1>4. \A d \in Mac : q.rows[d] > 1 => d \in q.excused
  BY <1>1, <1>2 DEF Adding
<1>5. bulk' \in [Mac -> Nat] /\ excused' \subseteq Mac
  BY <1>2, <1>3
<1>6. G!BulkOnce'
  BY <1>2, <1>3, <1>4 DEF G!BulkOnce
<1>7. \A g \in Group, d \in Mac : member[g][d] > 0 => g \in groups /\ d \in devices
  <2> TAKE g \in Group, d \in Mac
  <2>1. <<g, d>> \in G!Memberships
    BY DEF G!Memberships
  <2> QED BY <2>1
<1>8. Doubled'
  BY <1>2 DEF Doubled
<1> QED BY <1>2, <1>5, <1>6, <1>7, <1>8, GroupsGone

\* Every step of Groups, or none.
LEMMA GroupsInductive ==
  ASSUME GroupsInv, G!Next \/ UNCHANGED G!vars
  PROVE  GroupsInv'
<1> USE DEF GroupsInv, G!TypeOK
<1>1. ASSUME NEW h \in Handler, G!RequestFails(h)
      PROVE  GroupsInv'
  <2>1. /\ request' = [request EXCEPT ![h] = G!Free] /\ faults' \in 0..MaxFaults
        /\ UNCHANGED <<begun, groups, devices, member, bulk, doubled, excused>>
    BY <1>1, HandlersAssumption DEF G!RequestFails, G!Abandon, G!Fault, HandlersAssumption
  <2>2. \A g \in Group, d \in Mac : member[g][d] > 0 => g \in groups /\ d \in devices
    <3> TAKE g \in Group, d \in Mac
    <3>1. <<g, d>> \in G!Memberships
      BY DEF G!Memberships
    <3> QED BY <3>1
  <2>3. Doubled' /\ G!BulkOnce'
    BY <2>1 DEF Doubled, G!BulkOnce
  <2> QED BY <2>1, <2>2, <2>3, GroupsGone
<1>2. CASE UNCHANGED G!vars
  <2>1. UNCHANGED <<request, begun, faults, groups, devices, member, bulk, doubled, excused>>
    BY <1>2 DEF G!vars, G!handlers
  <2> QED BY <2>1 DEF Doubled, Adding, G!BulkOnce
<1>3. ASSUME NEW g \in Group, G!CreateGroup(g) \/ G!DeleteGroup(g) \/ \E d \in Mac : G!RemoveDevice(g, d)
      PROVE  GroupsInv'
  BY <1>3, GroupsEdit
<1>4. ASSUME NEW h \in Handler, NEW g \in Group,
             \/ G!BulkAction(h, g)
             \/ \E body \in SUBSET Mac, times \in 1..2 : G!AddDevices(h, g, body, times)
      PROVE  GroupsInv'
  BY <1>4, GroupsLoad
<1> QED BY <1>1, <1>2, <1>3, <1>4, GroupsDeleteDevice, GroupsCommitAdd, GroupsCommitBulk DEF G!Next

--------------------------------------------------------------------------------
(* Compliance.                                                                  *)

Pairs    == Device \X Policy
Verdicts == UNION {[S -> C!Status] : S \in SUBSET Pairs}

\* What a handler may have in its hands.
Evaluation ==
    {C!Free} \cup [op : {"seed"}, policy : Policy, found : {FALSE}]
             \cup [op : {"answer"}, device : Device, told : {"nothing", "inventory", "yes", "no"},
                   verdict : Verdicts, missing : SUBSET Pairs, bare : SUBSET Pairs,
                   whole : BOOLEAN, strict : BOOLEAN]
             \cup [op : {"evaluate"}, verdict : Verdicts, missing : SUBSET Pairs, bare : SUBSET Pairs]

\* Results are inserted for the pairs that had none.
Inserting ==
    \A h \in Handler : request[h].op \in {"answer", "evaluate"} =>
        request[h].missing = request[h].bare /\ request[h].bare \subseteq DOMAIN request[h].verdict

\* A Mac gives one answer at a time, so that what it has told of its disk is what its
\* answer was evaluated by.
Answering ==
    /\ \A h, i \in Handler : request[h].op = "answer" /\ request[i].op = "answer"
                              /\ request[h].device = request[i].device => h = i
    /\ \A h \in Handler :
          LET q == request[h]
          IN  q.op = "answer" /\ q.whole /\ q.strict /\ encrypted[q.device] = "no" =>
                  \E x \in DOMAIN q.verdict : q.verdict[x] = "non_compliant"

\* Two results of a pair, when two evaluations had found none.
Raced == \A d \in Device, p \in Policy : Len(result[d][p]) > 1 => <<d, p>> \in raced

ComplianceInv ==
    /\ C!TypeOK /\ request \in [Handler -> Evaluation]
    /\ Inserting /\ Answering /\ Raced /\ C!SeedOnce /\ C!UnencryptedFlagged

\* A set of verdicts is a function from some of the pairs.
LEMMA VerdictsAre ==
  ASSUME NEW v \in Verdicts
  PROVE  DOMAIN v \subseteq Pairs /\ \A x \in DOMAIN v : v[x] \in C!Status
<1>1. PICK S \in SUBSET Pairs : v \in [S -> C!Status]
  BY DEF Verdicts
<1> QED BY <1>1

\* And such a function is one.
LEMMA AreVerdicts ==
  ASSUME NEW S \in SUBSET Pairs, NEW v \in [S -> C!Status]
  PROVE  v \in Verdicts
BY DEF Verdicts

\* What each kind of request has read.
LEMMA EvaluationIs ==
  ASSUME NEW q \in Evaluation
  PROVE  /\ q.op \in {"none", "seed", "answer", "evaluate"}
         /\ q.op = "seed" => q.policy \in Policy /\ q.found = FALSE
         /\ q.op \in {"answer", "evaluate"} => q.verdict \in Verdicts /\ q.bare \subseteq Pairs
         /\ q.op = "answer" => /\ q.device \in Device /\ q.told \in {"nothing", "inventory", "yes", "no"}
                               /\ q.whole \in BOOLEAN /\ q.strict \in BOOLEAN
<1>1. CASE q = C!Free
  BY <1>1 DEF C!Free
<1>2. CASE q \in [op : {"seed"}, policy : Policy, found : {FALSE}]
  BY <1>2
<1>3. CASE q \in [op : {"answer"}, device : Device, told : {"nothing", "inventory", "yes", "no"},
                  verdict : Verdicts, missing : SUBSET Pairs, bare : SUBSET Pairs,
                  whole : BOOLEAN, strict : BOOLEAN]
  BY <1>3
<1>4. CASE q \in [op : {"evaluate"}, verdict : Verdicts, missing : SUBSET Pairs, bare : SUBSET Pairs]
  BY <1>4
<1> QED BY <1>1, <1>2, <1>3, <1>4 DEF Evaluation

\* No policy, no result.
LEMMA ComplianceInit == C!Init => ComplianceInv
<1> SUFFICES ASSUME C!Init
             PROVE  ComplianceInv
  OBVIOUS
<1>1. /\ request = [h \in Handler |-> C!Free] /\ begun = 0 /\ faults = 0
      /\ policy = [p \in Policy |-> [origin |-> "absent", active |-> FALSE, strict |-> FALSE]]
      /\ result = [d \in Device |-> [p \in Policy |-> <<>>]]
      /\ encrypted = [d \in Device |-> "unknown"] /\ flag = [d \in Device |-> "unknown"]
      /\ lenient = {} /\ raced = {} /\ reseeded = FALSE
  BY DEF C!Init, C!HandlersInit
<1>2. request \in [Handler -> Evaluation] /\ \A h \in Handler : request[h].op = "none"
  BY <1>1 DEF Evaluation, C!Free
<1>3. <<>> \in Seq(C!Status) /\ Len(<<>>) = 0
  BY EmptySeq
<1>4. C!TypeOK
  <2>1. begun \in 0..MaxRequests /\ faults \in 0..MaxFaults
    BY <1>1, HandlersAssumption DEF HandlersAssumption
  <2>2. policy \in [Policy -> [origin : C!Default \cup {"absent", "custom"}, active : BOOLEAN, strict : BOOLEAN]]
    BY <1>1
  <2>3. result \in [Device -> [Policy -> Seq(C!Status)]] /\ \A d \in Device, p \in Policy : result[d][p] = <<>>
    BY <1>1, <1>3
  <2> QED BY <1>1, <2>1, <2>2, <2>3 DEF C!TypeOK, C!Status
<1>5. Raced
  BY <1>1, <1>3 DEF Raced
<1>6. C!SeedOnce /\ C!UnencryptedFlagged
  BY <1>1 DEF C!SeedOnce, C!UnencryptedFlagged, C!Stored
<1>7. Inserting /\ Answering
  BY <1>2 DEF Inserting, Answering
<1> QED BY <1>2, <1>4, <1>5, <1>6, <1>7 DEF ComplianceInv

\* A request goes; only the Mac whose answer it was may have told of its disk.
LEMMA ComplianceGone ==
  ASSUME ComplianceInv, NEW h \in Handler, request' = [request EXCEPT ![h] = C!Free],
         encrypted' = encrypted
         \/ (request[h].op = "answer" /\ \A d \in Device \ {request[h].device} : encrypted'[d] = encrypted[d])
  PROVE  request' \in [Handler -> Evaluation] /\ Inserting' /\ Answering'
<1>1. request \in [Handler -> Evaluation]
  BY DEF ComplianceInv
<1>2. request'[h].op = "none" /\ \A i \in Handler \ {h} : request'[i] = request[i]
  BY <1>1 DEF C!Free
<1>3. request' \in [Handler -> Evaluation]
  BY <1>1 DEF Evaluation
<1>4. Inserting'
  BY <1>2 DEF ComplianceInv, Inserting
<1>5. ASSUME NEW i \in Handler \ {h}, request[i].op = "answer"
      PROVE  encrypted'[request[i].device] = encrypted[request[i].device]
  <2>1. request[i].device \in Device
    <3>1. request[i] \in Evaluation /\ request[i].op = "answer"
      BY <1>1, <1>5
    <3> QED BY <3>1, EvaluationIs
  <2>2. request[h].op = "answer" => request[i].device # request[h].device
    BY <1>5 DEF ComplianceInv, Answering
  <2> QED BY <2>1, <2>2
<1>6. Answering'
  BY <1>2, <1>5 DEF ComplianceInv, Answering
<1> QED BY <1>3, <1>4, <1>6

\* A request is taken up.
LEMMA ComplianceHold ==
  ASSUME ComplianceInv, NEW h \in Handler, NEW q \in Evaluation, C!Begin(h, q),
         q.op \in {"answer", "evaluate"} => q.missing = q.bare /\ q.bare \subseteq DOMAIN q.verdict,
         q.op = "answer" => \A i \in Handler : request[i].op = "answer" => request[i].device # q.device,
         q.op = "answer" /\ q.whole /\ q.strict /\ encrypted[q.device] = "no" =>
             \E x \in DOMAIN q.verdict : q.verdict[x] = "non_compliant",
         UNCHANGED <<policy, reseeded, result, encrypted, flag, lenient, raced>>
  PROVE  ComplianceInv'
<1>1. request' = [request EXCEPT ![h] = q] /\ begun' \in 0..MaxRequests /\ UNCHANGED faults
  BY HandlersAssumption DEF ComplianceInv, C!TypeOK, C!Begin, C!Hold, C!Arrives, HandlersAssumption
<1>2. request \in [Handler -> Evaluation]
  BY DEF ComplianceInv
<1>3. request'[h] = q /\ \A i \in Handler \ {h} : request'[i] = request[i]
  BY <1>1, <1>2
<1>4. request' \in [Handler -> Evaluation]
  BY <1>1, <1>2
<1>5. C!TypeOK'
  BY <1>1 DEF ComplianceInv, C!TypeOK, C!Stored
<1>6. Inserting' /\ Answering'
  BY <1>3 DEF ComplianceInv, Inserting, Answering
<1>7. Raced' /\ C!SeedOnce' /\ C!UnencryptedFlagged'
  BY DEF ComplianceInv, Raced, C!SeedOnce, C!UnencryptedFlagged, C!Stored
<1> QED BY <1>4, <1>5, <1>6, <1>7 DEF ComplianceInv

\* A listing of the policies is about to seed the default one.
LEMMA ComplianceSeed ==
  ASSUME ComplianceInv, NEW h \in Handler, NEW p \in Policy, C!Seed(h, p)
  PROVE  ComplianceInv'
<1> DEFINE q == [op |-> "seed", policy |-> p, found |-> FALSE]
<1>1. q \in Evaluation
  BY DEF Evaluation
<1>2. C!Begin(h, q) /\ UNCHANGED <<policy, reseeded, result, encrypted, flag, lenient, raced>>
  BY DEF C!Seed, C!policies, C!verdicts
<1> QED BY <1>1, <1>2, ComplianceHold

\* A verdict is a status.
LEMMA VerdictIs ==
  ASSUME NEW d, NEW p, NEW late
  PROVE  C!Verdict(d, p, late) \in C!Status
BY DEF C!Verdict, C!Status

\* A whole evaluation under a policy that asks for encryption fails a Mac that told it is not.
LEMMA ComplianceAnswer ==
  ASSUME ComplianceInv, NEW h \in Handler, NEW d \in Device, NEW told0 \in {"nothing", "inventory", "yes", "no"},
         C!Answer(h, d, told0)
  PROVE  ComplianceInv'
<1>1. PICK done \in SUBSET C!Active :
        LET pairs  == {d} \X done
            broken == {p \in C!Active : <<d, p>> \in C!Twice}
        IN  /\ \A i \in Handler : request[i].op = "answer" => request[i].device # d
            /\ IF broken = {} THEN done = C!Active ELSE done \cap broken = {}
            /\ C!Begin(h, [op |-> "answer", device |-> d, told |-> told0,
                           verdict |-> [x \in pairs |-> C!Verdict(d, x[2], FALSE)],
                           missing |-> C!Missing(pairs),
                           bare |-> {x \in pairs : result[x[1]][x[2]] = <<>>},
                           whole |-> broken = {} /\ C!Active # {},
                           strict |-> \E p \in C!Active : policy[p].strict])
            /\ UNCHANGED <<C!policies, C!verdicts>>
  BY DEF C!Answer
<1> DEFINE pairs  == {d} \X done
           broken == {p \in C!Active : <<d, p>> \in C!Twice}
           v      == [x \in pairs |-> C!Verdict(d, x[2], FALSE)]
           bare   == {x \in pairs : result[x[1]][x[2]] = <<>>}
           whole  == broken = {} /\ C!Active # {}
           strict == \E p \in C!Active : policy[p].strict
           q == [op |-> "answer", device |-> d, told |-> told0, verdict |-> v, missing |-> bare,
                 bare |-> bare, whole |-> whole, strict |-> strict]
<1>2. pairs \subseteq Pairs
  BY DEF C!Active, C!Stored, Pairs
<1>3. v \in Verdicts
  <2>1. v \in [pairs -> C!Status]
    BY VerdictIs
  <2> QED BY <1>2, <2>1, AreVerdicts
<1>4. bare \subseteq Pairs /\ whole \in BOOLEAN /\ strict \in BOOLEAN
  BY <1>2
<1>5. q \in Evaluation
  <2> HIDE DEF v, bare, whole, strict
  <2> QED BY <1>3, <1>4 DEF Evaluation
<1>6. C!Begin(h, q)
  BY <1>1 DEF C!Missing
<1>7. \A i \in Handler : request[i].op = "answer" => request[i].device # d
  BY <1>1
<1>8. UNCHANGED <<policy, reseeded, result, encrypted, flag, lenient, raced>>
  BY <1>1 DEF C!policies, C!verdicts
<1>9. ASSUME whole, strict, encrypted[d] = "no"
      PROVE  \E x \in DOMAIN v : v[x] = "non_compliant"
  <2>1. PICK p \in C!Active : policy[p].strict
    BY <1>9
  <2>2. <<d, p>> \in pairs
    BY <1>1, <1>9, <2>1
  <2>3. v[<<d, p>>] = "non_compliant"
    BY <1>9, <2>1, <2>2 DEF C!Verdict
  <2> QED BY <2>2, <2>3
<1>10. q.op = "answer" /\ q.missing = q.bare /\ q.bare \subseteq DOMAIN q.verdict /\ q.device = d /\ q.whole = whole /\ q.strict = strict /\ q.verdict = v
  OBVIOUS
<1> HIDE DEF q, v, whole, strict
<1> QED BY <1>5, <1>6, <1>7, <1>8, <1>9, <1>10, ComplianceHold

\* An evaluation has read the policies and the results there are.
LEMMA ComplianceEvaluate ==
  ASSUME ComplianceInv, NEW h \in Handler, NEW p \in Policy, NEW late \in SUBSET Device, C!Evaluate(h, p, late)
  PROVE  ComplianceInv'
<1> DEFINE pairs == Device \X {p}
           v     == [x \in pairs |-> C!Verdict(x[1], p, x[1] \in late)]
           bare  == {x \in pairs : result[x[1]][x[2]] = <<>>}
           q == [op |-> "evaluate", verdict |-> v, missing |-> bare, bare |-> bare]
<1>1. pairs \subseteq Pairs
  BY DEF Pairs
<1>2. v \in Verdicts
  <2>1. v \in [pairs -> C!Status]
    BY VerdictIs
  <2> QED BY <1>1, <2>1, AreVerdicts
<1>3. q \in Evaluation
  <2>1. bare \subseteq Pairs
    BY <1>1
  <2> HIDE DEF v, bare
  <2> QED BY <1>2, <2>1 DEF Evaluation
<1>4. C!Begin(h, q) /\ UNCHANGED <<policy, reseeded, result, encrypted, flag, lenient, raced>>
  BY DEF C!Evaluate, C!Missing, C!policies, C!verdicts
<1>5. q.op = "evaluate" /\ q.missing = q.bare /\ q.bare \subseteq DOMAIN q.verdict
  OBVIOUS
<1> HIDE DEF q
<1> QED BY <1>3, <1>4, <1>5, ComplianceHold

\* A CASE for each pair: what it had, with a result added or the first one replaced.
LEMMA SeqReplaced ==
  ASSUME NEW s \in Seq(C!Status), NEW e \in C!Status
  PROVE  /\ [s EXCEPT ![1] = e] \in Seq(C!Status)
         /\ Len([s EXCEPT ![1] = e]) = Len(s)
<1>1. CASE Len(s) = 0
  <2>1. s = <<>>
    BY <1>1, EmptySeq
  <2>2. [s EXCEPT ![1] = e] = s
    BY <2>1
  <2> QED BY <2>2
<1>2. CASE Len(s) # 0
  <2>1. 1 \in 1..Len(s)
    BY <1>2, LenProperties
  <2> QED BY <2>1, ExceptSeq
<1> QED BY <1>1, <1>2

\* A second result is inserted only for a pair that got its first one meanwhile.
LEMMA ComplianceUpsert ==
  ASSUME ComplianceInv, NEW q, q.verdict \in Verdicts, q.missing = q.bare, q.bare \subseteq DOMAIN q.verdict, q.bare \subseteq Pairs,
         \A x \in DOMAIN q.verdict : x[2] \in C!Stored, UNCHANGED policy, C!Upsert(q)
  PROVE  /\ result' \in [Device -> [Policy -> Seq(C!Status)]]
         /\ \A d \in Device, p \in Policy \ C!Stored : result'[d][p] = <<>>
         /\ raced' \subseteq Pairs /\ Raced'
<1> DEFINE pairs == DOMAIN q.verdict
           New(d, p) == CASE <<d, p>> \notin pairs  -> result[d][p]
                          [] <<d, p>> \in q.missing -> Append(result[d][p], q.verdict[<<d, p>>])
                          [] OTHER -> [result[d][p] EXCEPT ![1] = q.verdict[<<d, p>>]]
<1>1. /\ result' = [d \in Device |-> [p \in Policy |-> New(d, p)]]
      /\ raced' = raced \cup {x \in q.bare : result[x[1]][x[2]] # <<>>}
  BY DEF C!Upsert
<1>2. \A d \in Device, p \in Policy : result[d][p] \in Seq(C!Status)
  BY DEF ComplianceInv, C!TypeOK
<1>3. \A x \in pairs : q.verdict[x] \in C!Status
  BY VerdictsAre
<1>4. ASSUME NEW d \in Device, NEW p \in Policy
      PROVE  /\ New(d, p) \in Seq(C!Status)
             /\ p \notin C!Stored => New(d, p) = result[d][p]
             /\ Len(New(d, p)) > 1 => Len(result[d][p]) > 1 \/ (<<d, p>> \in q.bare /\ result[d][p] # <<>>)
  <2>1. CASE <<d, p>> \notin pairs
    <3>1. <<d, p>> \notin q.missing
      BY <2>1
    <3>2. New(d, p) = result[d][p]
      BY <2>1, <3>1
    <3> HIDE DEF New
    <3> QED BY <3>2, <1>2
  <2>2. CASE <<d, p>> \in pairs /\ <<d, p>> \in q.missing
    <3>1. New(d, p) = Append(result[d][p], q.verdict[<<d, p>>]) /\ p \in C!Stored
      BY <2>2
    <3>2. /\ Append(result[d][p], q.verdict[<<d, p>>]) \in Seq(C!Status)
          /\ Len(Append(result[d][p], q.verdict[<<d, p>>])) = Len(result[d][p]) + 1
      BY <2>2, <1>2, <1>3, AppendProperties
    <3>3. result[d][p] = <<>> => Len(result[d][p]) = 0
      BY EmptySeq
    <3> HIDE DEF New
    <3> QED BY <3>1, <3>2, <3>3, <2>2
  <2>3. CASE <<d, p>> \in pairs /\ <<d, p>> \notin q.missing
    <3>1. New(d, p) = [result[d][p] EXCEPT ![1] = q.verdict[<<d, p>>]] /\ p \in C!Stored
      BY <2>3
    <3>2. q.verdict[<<d, p>>] \in C!Status
      BY <2>3, <1>3
    <3>3. /\ [result[d][p] EXCEPT ![1] = q.verdict[<<d, p>>]] \in Seq(C!Status)
          /\ Len([result[d][p] EXCEPT ![1] = q.verdict[<<d, p>>]]) = Len(result[d][p])
      BY <3>2, <1>2, SeqReplaced
    <3> HIDE DEF New
    <3> QED BY <3>1, <3>3
  <2> QED BY <2>1, <2>2, <2>3
<1> HIDE DEF New
<1>5. \A d \in Device, p \in Policy : result'[d][p] = New(d, p)
  BY <1>1
<1>6. result' \in [Device -> [Policy -> Seq(C!Status)]]
  BY <1>1, <1>4
<1>7. ASSUME NEW d \in Device, NEW p \in Policy \ C!Stored
      PROVE  result'[d][p] = <<>>
  <2>1. result[d][p] = <<>>
    BY DEF ComplianceInv, C!TypeOK
  <2> QED BY <2>1, <1>4, <1>5
<1>8. raced' \subseteq Pairs
  BY <1>1 DEF ComplianceInv, C!TypeOK, Pairs
<1>9. Raced'
  <2> SUFFICES ASSUME NEW d \in Device, NEW p \in Policy, Len(result'[d][p]) > 1
               PROVE  <<d, p>> \in raced'
    BY DEF Raced
  <2>1. CASE Len(result[d][p]) > 1
    BY <2>1, <1>1 DEF ComplianceInv, Raced
  <2>2. CASE <<d, p>> \in q.bare /\ result[d][p] # <<>>
    BY <2>2, <1>1
  <2> QED BY <2>1, <2>2, <1>4, <1>5
<1> QED BY <1>6, <1>7, <1>8, <1>9

\* What an answer or an evaluation has read.
LEMMA EvaluationHas ==
  ASSUME ComplianceInv, NEW h \in Handler, request[h].op \in {"answer", "evaluate"}
  PROVE  /\ request[h].verdict \in Verdicts /\ request[h].bare \subseteq Pairs
         /\ request[h].missing = request[h].bare /\ request[h].bare \subseteq DOMAIN request[h].verdict
         /\ request[h].op = "answer" => /\ request[h].device \in Device
                                        /\ request[h].told \in {"nothing", "inventory", "yes", "no"}
                                        /\ request[h].whole \in BOOLEAN /\ request[h].strict \in BOOLEAN
<1>1. request[h] \in Evaluation
  BY DEF ComplianceInv
<1>2. request[h].missing = request[h].bare /\ request[h].bare \subseteq DOMAIN request[h].verdict
  BY DEF ComplianceInv, Inserting
<1> QED BY <1>1, <1>2, EvaluationIs

\* An evaluation is written.
LEMMA ComplianceCommitEvaluate ==
  ASSUME ComplianceInv, NEW h \in Handler, C!CommitEvaluate(h)
  PROVE  ComplianceInv'
<1>1. PICK q : q = request[h]
  OBVIOUS
<1>2. /\ q.op = "evaluate" /\ request' = [request EXCEPT ![h] = C!Free]
      /\ UNCHANGED <<begun, faults, policy, reseeded, encrypted, flag, lenient>>
      /\ \/ UNCHANGED <<result, raced>>
         \/ (\A x \in DOMAIN q.verdict : x[2] \in C!Stored) /\ C!Upsert(q)
  BY <1>1 DEF C!CommitEvaluate, C!Finish, C!policies, C!verdicts
<1>3. /\ q.verdict \in Verdicts /\ q.bare \subseteq Pairs
      /\ q.missing = q.bare /\ q.bare \subseteq DOMAIN q.verdict
  BY <1>1, <1>2, EvaluationHas
<1>4. /\ result' \in [Device -> [Policy -> Seq(C!Status)]]
      /\ \A d \in Device, p \in Policy \ C!Stored : result'[d][p] = <<>>
      /\ raced' \subseteq Pairs /\ Raced'
  <2>1. CASE UNCHANGED <<result, raced>>
    BY <2>1 DEF ComplianceInv, C!TypeOK, Raced, Pairs
  <2>2. CASE (\A x \in DOMAIN q.verdict : x[2] \in C!Stored) /\ C!Upsert(q)
    BY <2>2, <1>2, <1>3, ComplianceUpsert
  <2> QED BY <1>2, <2>1, <2>2
<1>5. request' \in [Handler -> Evaluation] /\ Inserting' /\ Answering'
  BY <1>2, ComplianceGone
<1>6. C!TypeOK'
  BY <1>2, <1>4 DEF ComplianceInv, C!TypeOK, C!Stored, Pairs
<1>7. C!SeedOnce' /\ C!UnencryptedFlagged'
  BY <1>2 DEF ComplianceInv, C!SeedOnce, C!UnencryptedFlagged, C!Stored
<1> QED BY <1>4, <1>5, <1>6, <1>7 DEF ComplianceInv

\* A Mac whose disk is not encrypted is flagged by its answer, by what it tells or by the
\* evaluation, whose verdict rests on what the Mac had told and still tells.
LEMMA ComplianceCommitAnswer ==
  ASSUME ComplianceInv, NEW h \in Handler, C!CommitAnswer(h)
  PROVE  ComplianceInv'
<1>1. PICK q : q = request[h]
  OBVIOUS
<1>2. /\ q.op = "answer" /\ request' = [request EXCEPT ![h] = C!Free]
      /\ UNCHANGED <<begun, faults, policy, reseeded>>
      /\ \/ UNCHANGED <<result, raced, encrypted, flag, lenient>>
         \/ /\ \A x \in DOMAIN q.verdict : x[2] \in C!Stored
            /\ C!Upsert(q)
            /\ encrypted' = IF q.told \in {"yes", "no"} THEN [encrypted EXCEPT ![q.device] = q.told] ELSE encrypted
            /\ flag' = [flag EXCEPT ![q.device] = C!Flag(q)]
            /\ lenient' = CASE q.told # "nothing" -> lenient \ {q.device}
                            [] q.told = "nothing" /\ q.whole ->
                                 IF q.strict THEN lenient \ {q.device} ELSE lenient \cup {q.device}
                            [] OTHER -> lenient
  BY <1>1 DEF C!CommitAnswer, C!Finish, C!policies, C!verdicts
<1>3. /\ q.verdict \in Verdicts /\ q.bare \subseteq Pairs /\ q.missing = q.bare /\ q.device \in Device
      /\ q.bare \subseteq DOMAIN q.verdict
      /\ q.told \in {"nothing", "inventory", "yes", "no"} /\ q.whole \in BOOLEAN /\ q.strict \in BOOLEAN
  BY <1>1, <1>2, EvaluationHas
<1>4. C!SeedOnce'
  BY <1>2 DEF ComplianceInv, C!SeedOnce, C!Stored
<1>5. CASE UNCHANGED <<result, raced, encrypted, flag, lenient>>
  <2>1. request' \in [Handler -> Evaluation] /\ Inserting' /\ Answering'
    BY <1>2, <1>5, ComplianceGone
  <2>2. C!TypeOK'
    BY <1>2, <1>5 DEF ComplianceInv, C!TypeOK, C!Stored
  <2>3. Raced' /\ C!UnencryptedFlagged'
    BY <1>5 DEF ComplianceInv, Raced, C!UnencryptedFlagged
  <2> QED BY <2>1, <2>2, <2>3, <1>4 DEF ComplianceInv
<1>6. CASE ~UNCHANGED <<result, raced, encrypted, flag, lenient>>
  <2>1. /\ \A x \in DOMAIN q.verdict : x[2] \in C!Stored
        /\ C!Upsert(q)
        /\ encrypted' = IF q.told \in {"yes", "no"} THEN [encrypted EXCEPT ![q.device] = q.told] ELSE encrypted
        /\ flag' = [flag EXCEPT ![q.device] = C!Flag(q)]
        /\ lenient' = CASE q.told # "nothing" -> lenient \ {q.device}
                        [] q.told = "nothing" /\ q.whole ->
                             IF q.strict THEN lenient \ {q.device} ELSE lenient \cup {q.device}
                        [] OTHER -> lenient
    BY <1>2, <1>6
  <2>2. /\ result' \in [Device -> [Policy -> Seq(C!Status)]]
        /\ \A d \in Device, p \in Policy \ C!Stored : result'[d][p] = <<>>
        /\ raced' \subseteq Pairs /\ Raced'
    BY <2>1, <1>2, <1>3, ComplianceUpsert
  <2>3. \A d \in Device \ {q.device} : encrypted'[d] = encrypted[d] /\ flag'[d] = flag[d]
                                       /\ (d \in lenient' <=> d \in lenient)
    BY <2>1, <1>3 DEF ComplianceInv, C!TypeOK
  <2>4. request' \in [Handler -> Evaluation] /\ Inserting' /\ Answering'
    BY <1>1, <1>2, <2>3, ComplianceGone
  <2>5. encrypted' \in [Device -> {"unknown", "yes", "no"}] /\ lenient' \subseteq Device
    BY <2>1, <1>3 DEF ComplianceInv, C!TypeOK
  <2>6. C!Flag(q) \in C!Status \cup {"unknown"}
    BY <1>3 DEF C!Flag, ComplianceInv, C!TypeOK, C!Status
  <2>7. flag' \in [Device -> C!Status \cup {"unknown"}] /\ flag'[q.device] = C!Flag(q)
    BY <2>1, <2>6, <1>3 DEF ComplianceInv, C!TypeOK
  <2>8. C!TypeOK'
    BY <1>2, <2>2, <2>5, <2>7 DEF ComplianceInv, C!TypeOK, C!Stored, Pairs
  <2>9. encrypted'[q.device] = "no" /\ C!Flag(q) = "compliant" => q.device \in lenient'
    <3> SUFFICES ASSUME encrypted'[q.device] = "no", C!Flag(q) = "compliant"
                 PROVE  q.device \in lenient'
      OBVIOUS
    <3>1. q.told = "nothing"
      BY DEF C!Flag
    <3>2. encrypted' = encrypted
      BY <3>1, <2>1
    <3>3. CASE q.whole /\ q.strict
      <4>1. \E x \in DOMAIN q.verdict : q.verdict[x] = "non_compliant"
        BY <1>1, <1>2, <3>2, <3>3 DEF ComplianceInv, Answering
      <4> QED BY <3>1, <3>3, <4>1 DEF C!Flag
    <3>4. CASE q.whole /\ ~q.strict
      BY <2>1, <3>1, <3>4
    <3>5. CASE ~q.whole
      <4>1. flag[q.device] = "compliant"
        BY <3>1, <3>5 DEF C!Flag
      <4>2. q.device \in lenient
        BY <4>1, <3>2, <1>3 DEF ComplianceInv, C!UnencryptedFlagged
      <4> QED BY <4>2, <2>1, <3>1, <3>5
    <3> QED BY <3>3, <3>4, <3>5, <1>3
  <2>10. C!UnencryptedFlagged'
    BY <2>3, <2>7, <2>9 DEF ComplianceInv, C!UnencryptedFlagged
  <2> QED BY <1>4, <2>2, <2>4, <2>8, <2>10 DEF ComplianceInv
<1> QED BY <1>5, <1>6

\* A second default policy is there only when one came after the look for it.
LEMMA ComplianceCommitSeed ==
  ASSUME ComplianceInv, NEW h \in Handler, C!CommitSeed(h)
  PROVE  ComplianceInv'
<1>1. PICK p : p = request[h].policy
  OBVIOUS
<1>2. /\ request[h].op = "seed" /\ request' = [request EXCEPT ![h] = C!Free]
      /\ policy' = [policy EXCEPT ![p] = [origin |-> "seeded", active |-> TRUE, strict |-> TRUE]]
      /\ reseeded' = (reseeded \/ (~request[h].found /\ \E i \in C!Stored : policy[i].origin \in C!Default))
      /\ UNCHANGED <<begun, faults, result, encrypted, flag, lenient, raced>>
  BY <1>1 DEF C!CommitSeed, C!Finish, C!verdicts
<1>3. p \in Policy /\ request[h].found = FALSE
  <2>1. request[h] \in Evaluation
    BY DEF ComplianceInv
  <2> QED BY <2>1, <1>1, <1>2, EvaluationIs
<1>4. policy'[p].origin = "seeded" /\ \A i \in Policy \ {p} : policy'[i] = policy[i]
  BY <1>2, <1>3 DEF ComplianceInv, C!TypeOK
<1>5. C!Stored' = C!Stored \cup {p}
  BY <1>3, <1>4 DEF C!Stored
<1>6. C!TypeOK'
  <2>1. policy' \in [Policy -> [origin : C!Default \cup {"absent", "custom"}, active : BOOLEAN, strict : BOOLEAN]]
    BY <1>2, <1>3 DEF ComplianceInv, C!TypeOK, C!Default
  <2>2. reseeded' \in BOOLEAN
    BY <1>2 DEF ComplianceInv, C!TypeOK
  <2> QED BY <1>2, <1>5, <2>1, <2>2 DEF ComplianceInv, C!TypeOK
<1>7. C!SeedOnce'
  <2> SUFFICES ASSUME NEW i \in C!Stored', NEW j \in C!Stored', i # j,
                      policy'[i].origin = "seeded", policy'[j].origin = "seeded"
               PROVE  reseeded'
    BY DEF C!SeedOnce
  <2>1. ASSUME NEW k \in C!Stored, k # p, policy'[k].origin = "seeded"
        PROVE  reseeded'
    <3>1. policy[k].origin = "seeded"
      BY <1>4, <2>1 DEF C!Stored
    <3>2. \E l \in C!Stored : policy[l].origin \in C!Default
      BY <3>1 DEF C!Default
    <3> QED BY <3>2, <1>2, <1>3
  <2>2. i # p => i \in C!Stored
    BY <1>5
  <2>3. j # p => j \in C!Stored
    BY <1>5
  <2>4. CASE i # p
    BY <2>1, <2>2, <2>4
  <2>5. CASE j # p
    BY <2>1, <2>3, <2>5
  <2> QED BY <2>4, <2>5
<1>8. request' \in [Handler -> Evaluation] /\ Inserting' /\ Answering'
  BY <1>2, ComplianceGone
<1>9. Raced' /\ C!UnencryptedFlagged'
  BY <1>2 DEF ComplianceInv, Raced, C!UnencryptedFlagged
<1> QED BY <1>6, <1>7, <1>8, <1>9 DEF ComplianceInv

\* The routes of one statement each.
LEMMA CompliancePolicies ==
  ASSUME ComplianceInv, NEW p \in Policy,
         \/ \E origin \in {"named", "custom"}, strict \in BOOLEAN : C!CreatePolicy(p, origin, strict)
         \/ \E active, strict \in BOOLEAN : C!UpdatePolicy(p, active, strict)
         \/ C!DeletePolicy(p)
  PROVE  ComplianceInv'
<1>1. UNCHANGED <<request, faults, reseeded, encrypted, flag, lenient, raced>> /\ begun' \in 0..MaxRequests
  <2>1. C!AtOnce => UNCHANGED <<request, faults>> /\ begun' \in 0..MaxRequests
    BY HandlersAssumption DEF C!AtOnce, C!Arrives, ComplianceInv, C!TypeOK, HandlersAssumption
  <2>2. ASSUME NEW origin, NEW strict, C!CreatePolicy(p, origin, strict)
        PROVE  C!AtOnce /\ UNCHANGED <<reseeded, encrypted, flag, lenient, raced>>
    BY <2>2 DEF C!CreatePolicy, C!verdicts
  <2>3. ASSUME NEW active, NEW strict, C!UpdatePolicy(p, active, strict)
        PROVE  C!AtOnce /\ UNCHANGED <<reseeded, encrypted, flag, lenient, raced>>
    BY <2>3 DEF C!UpdatePolicy, C!verdicts
  <2>4. ASSUME C!DeletePolicy(p)
        PROVE  C!AtOnce /\ UNCHANGED <<reseeded, encrypted, flag, lenient, raced>>
    BY <2>4 DEF C!DeletePolicy
  <2> QED BY <2>1, <2>2, <2>3, <2>4
<1>2. ASSUME NEW new \in [origin : C!Default \cup {"absent", "custom"}, active : BOOLEAN, strict : BOOLEAN],
             policy' = [policy EXCEPT ![p] = new], new.origin = "seeded" => policy[p].origin = "seeded",
             \/ result' = result /\ new.origin # "absent"
             \/ result' = [d \in Device |-> [result[d] EXCEPT ![p] = <<>>]]
      PROVE  ComplianceInv'
  <2>1. policy'[p] = new /\ \A i \in Policy \ {p} : policy'[i] = policy[i]
    BY <1>2 DEF ComplianceInv, C!TypeOK
  <2>2. policy' \in [Policy -> [origin : C!Default \cup {"absent", "custom"}, active : BOOLEAN, strict : BOOLEAN]]
    BY <1>2 DEF ComplianceInv, C!TypeOK
  <2>3. <<>> \in Seq(C!Status) /\ Len(<<>>) = 0
    BY EmptySeq
  <2>4. /\ result' \in [Device -> [Policy -> Seq(C!Status)]]
        /\ \A d \in Device, i \in Policy : result'[d][i] = result[d][i] \/ result'[d][i] = <<>>
        /\ \A d \in Device : new.origin = "absent" => result'[d][p] = <<>>
    <3>1. result \in [Device -> [Policy -> Seq(C!Status)]]
      BY DEF ComplianceInv, C!TypeOK
    <3>2. CASE result' = result /\ new.origin # "absent"
      BY <3>1, <3>2
    <3>3. CASE result' = [d \in Device |-> [result[d] EXCEPT ![p] = <<>>]]
      <4>1. ASSUME NEW d \in Device
            PROVE  /\ result'[d] \in [Policy -> Seq(C!Status)] /\ result'[d][p] = <<>>
                   /\ \A i \in Policy : result'[d][i] = result[d][i] \/ result'[d][i] = <<>>
        <5>1. result'[d] = [result[d] EXCEPT ![p] = <<>>] /\ result[d] \in [Policy -> Seq(C!Status)]
          BY <3>1, <3>3
        <5> QED BY <5>1, <2>3
      <4>2. result' \in [Device -> [Policy -> Seq(C!Status)]]
        BY <3>3, <4>1
      <4> QED BY <4>1, <4>2
    <3> QED BY <1>2, <3>2, <3>3
  <2>5. ASSUME NEW d \in Device, NEW i \in Policy \ C!Stored'
        PROVE  result'[d][i] = <<>>
    <3>1. CASE i = p
      BY <3>1, <2>1, <2>4 DEF C!Stored
    <3>2. CASE i # p
      <4>1. i \notin C!Stored
        BY <3>2, <2>1 DEF C!Stored
      <4>2. result[d][i] = <<>>
        BY <4>1 DEF ComplianceInv, C!TypeOK
      <4> QED BY <4>2, <2>4
    <3> QED BY <3>1, <3>2
  <2>6. C!TypeOK'
    BY <1>1, <2>2, <2>4, <2>5 DEF ComplianceInv, C!TypeOK
  <2>7. Raced'
    <3> SUFFICES ASSUME NEW d \in Device, NEW i \in Policy, Len(result'[d][i]) > 1
                 PROVE  <<d, i>> \in raced
      BY <1>1 DEF Raced
    <3>1. result'[d][i] = result[d][i]
      BY <2>3, <2>4
    <3> QED BY <3>1 DEF ComplianceInv, Raced
  <2>8. \A i \in Policy : policy'[i].origin = "seeded" => policy[i].origin = "seeded"
    BY <1>2, <2>1
  <2>9. C!SeedOnce'
    BY <1>1, <2>8 DEF ComplianceInv, C!SeedOnce, C!Stored
  <2>10. Inserting' /\ Answering' /\ C!UnencryptedFlagged' /\ request' \in [Handler -> Evaluation]
    BY <1>1 DEF ComplianceInv, Inserting, Answering, C!UnencryptedFlagged
  <2> QED BY <2>6, <2>7, <2>9, <2>10 DEF ComplianceInv
<1>3. ASSUME NEW origin \in {"named", "custom"}, NEW strict \in BOOLEAN, C!CreatePolicy(p, origin, strict)
      PROVE  ComplianceInv'
  <2> DEFINE new == [origin |-> origin, active |-> TRUE, strict |-> strict]
  <2>1. policy' = [policy EXCEPT ![p] = new] /\ result' = result
    BY <1>3 DEF C!CreatePolicy, C!verdicts
  <2>2. /\ new \in [origin : C!Default \cup {"absent", "custom"}, active : BOOLEAN, strict : BOOLEAN]
        /\ new.origin # "seeded" /\ new.origin # "absent"
    BY DEF C!Default
  <2> HIDE DEF new
  <2> QED BY <2>1, <2>2, <1>2
<1>4. ASSUME NEW active \in BOOLEAN, NEW strict \in BOOLEAN, C!UpdatePolicy(p, active, strict)
      PROVE  ComplianceInv'
  <2> DEFINE new == [policy[p] EXCEPT !.active = active, !.strict = strict]
  <2>1. policy \in [Policy -> [origin : C!Default \cup {"absent", "custom"}, active : BOOLEAN, strict : BOOLEAN]]
    BY DEF ComplianceInv, C!TypeOK
  <2>2. policy' = [policy EXCEPT ![p] = new] /\ result' = result
    <3>1. policy' = [policy EXCEPT ![p].active = active, ![p].strict = strict] /\ result' = result
      BY <1>4 DEF C!UpdatePolicy, C!verdicts
    <3> QED BY <3>1, <2>1
  <2>3. /\ new \in [origin : C!Default \cup {"absent", "custom"}, active : BOOLEAN, strict : BOOLEAN]
        /\ new.origin = policy[p].origin
    BY <2>1
  <2>4. policy[p].origin # "absent"
    BY <1>4 DEF C!UpdatePolicy, C!Stored
  <2> HIDE DEF new
  <2> QED BY <2>2, <2>3, <2>4, <1>2
<1>5. ASSUME C!DeletePolicy(p)
      PROVE  ComplianceInv'
  <2> DEFINE new == [origin |-> "absent", active |-> FALSE, strict |-> FALSE]
  <2>1. policy' = [policy EXCEPT ![p] = new] /\ result' = [d \in Device |-> [result[d] EXCEPT ![p] = <<>>]]
    BY <1>5 DEF C!DeletePolicy
  <2>2. /\ new \in [origin : C!Default \cup {"absent", "custom"}, active : BOOLEAN, strict : BOOLEAN]
        /\ new.origin # "seeded"
    OBVIOUS
  <2> HIDE DEF new
  <2> QED BY <2>1, <2>2, <1>2
<1> QED BY <1>3, <1>4, <1>5

\* Every step of Compliance, or none.
LEMMA ComplianceInductive ==
  ASSUME ComplianceInv, C!Next \/ UNCHANGED C!vars
  PROVE  ComplianceInv'
<1>1. ASSUME NEW h \in Handler, C!RequestFails(h)
      PROVE  ComplianceInv'
  <2>1. /\ request' = [request EXCEPT ![h] = C!Free] /\ faults' \in 0..MaxFaults
        /\ UNCHANGED <<begun, policy, reseeded, result, encrypted, flag, lenient, raced>>
    BY <1>1, HandlersAssumption
    DEF C!RequestFails, C!Abandon, C!Fault, C!policies, C!verdicts, ComplianceInv, C!TypeOK, HandlersAssumption
  <2>2. request' \in [Handler -> Evaluation] /\ Inserting' /\ Answering'
    BY <2>1, ComplianceGone
  <2>3. C!TypeOK' /\ Raced' /\ C!SeedOnce' /\ C!UnencryptedFlagged'
    BY <2>1 DEF ComplianceInv, C!TypeOK, Raced, C!SeedOnce, C!UnencryptedFlagged, C!Stored
  <2> QED BY <2>2, <2>3 DEF ComplianceInv
<1>2. CASE UNCHANGED C!vars
  <2>1. UNCHANGED <<request, begun, faults, policy, reseeded, result, encrypted, flag, lenient, raced>>
    BY <1>2 DEF C!vars, C!handlers, C!policies, C!verdicts
  <2> QED BY <2>1 DEF ComplianceInv, C!TypeOK, Inserting, Answering, Raced, C!SeedOnce, C!UnencryptedFlagged, C!Stored
<1> QED BY <1>1, <1>2, ComplianceSeed, ComplianceEvaluate, ComplianceAnswer, ComplianceCommitSeed,
           ComplianceCommitAnswer, ComplianceCommitEvaluate, CompliancePolicies
        DEF C!Next, C!ListPolicies, C!FleetSummary

\* Two results of one pair were raced for.
LEMMA ComplianceTold == ComplianceInv => C!ResultOnce
<1> SUFFICES ASSUME ComplianceInv, NEW x \in C!Twice
             PROVE  x \in raced
  BY DEF C!ResultOnce
<1>1. PICK d \in Device, p \in Policy : x = <<d, p>> /\ Len(result[d][p]) > 1
  BY DEF C!Twice
<1> QED BY <1>1 DEF ComplianceInv, Raced

--------------------------------------------------------------------------------
(* Profiles.                                                                    *)

\* The payloads the versions of a profile tell.
Kept(f) == {version[f][i].payload : i \in DOMAIN version[f]}

\* The versions are numbered without a gap and tell the stored payload.
Gapless == \A f \in Profile : \E n \in Nat : P!Numbers(f) = 1..n
Recorded == \A f \in P!Stored : profile[f].payload \in Kept(f)

\* An update is of a profile that was created, and its number leaves no gap.
UpdateFits(q) ==
    /\ q \in [op : {"update"}, profile : Profile, saw : Payload, payload : Payload, locks : BOOLEAN, number : Nat]
    /\ profile[q.profile].status # "unborn"
    /\ q.profile \in P!Stored /\ q.number > 0 => q.number <= P!Highest(q.profile) + 1

\* A command that asks for a stored profile asks for a payload its versions tell.
CommandFits(c) ==
    \A f \in Profile : c.what = f =>
        profile[f].status # "unborn" /\ (f \in P!Stored => c.payload \in Kept(f))

RequestsFit ==
    /\ DOMAIN request = Handler
    /\ \A h \in Handler : request[h].op = "update" => UpdateFits(request[h])
    /\ \A h \in Handler : request[h].op = "push" => CommandFits(request[h].command)
    /\ \A m \in Device : \A c \in queued[m] : CommandFits(c)

ProfilesInv ==
    /\ P!TypeOK /\ Gapless /\ Recorded /\ RequestsFit /\ P!LatestIsPayload

\* The greatest of a range from 1, and so the highest number of versions without a gap.
LEMMA MaxOfRange ==
  ASSUME NEW n \in Nat
  PROVE  P!Max({0} \cup 1..n) = n
<1>1. n \in {0} \cup 1..n /\ \A y \in {0} \cup 1..n : n >= y
  OBVIOUS
<1>2. PICK x \in {0} \cup 1..n : /\ x = CHOOSE z \in {0} \cup 1..n : \A y \in {0} \cup 1..n : z >= y
                              /\ \A y \in {0} \cup 1..n : x >= y
  BY <1>1
<1>3. x = n
  BY <1>1, <1>2
<1> QED BY <1>2, <1>3 DEF P!Max

\* So the highest number of versions without a gap is how many numbers there are.
LEMMA HighestIs ==
  ASSUME NEW f \in Profile, NEW n \in Nat, P!Numbers(f) = 1..n
  PROVE  P!Highest(f) = n
<1>1. P!Highest(f) = P!Max({0} \cup 1..n)
  BY DEF P!Highest, P!Numbers
<1> QED BY <1>1, MaxOfRange

\* No profile is born, and none has a version.
LEMMA ProfilesInit == P!Init => ProfilesInv
<1> SUFFICES ASSUME P!Init
             PROVE  ProfilesInv
  OBVIOUS
<1>1. PICK p \in Payload : p = CHOOSE x \in Payload : TRUE
  BY ProfileAssumption DEF ProfileAssumption
<1>2. /\ request = [h \in Handler |-> P!Free] /\ begun = 0 /\ faults = 0
      /\ profile = [f \in Profile |-> [status |-> "unborn", payload |-> p]]
      /\ version = [f \in Profile |-> <<>>]
      /\ managed = {} /\ queued = [m \in Device |-> {}] /\ mixed = {}
  BY <1>1 DEF P!Init, P!HandlersInit
<1>3. \A f \in Profile : version[f] = <<>> /\ profile[f].status = "unborn" /\ f \notin P!Stored
  BY <1>2 DEF P!Stored
<1>4. P!TypeOK
  <2>1. begun \in 0..MaxUpdates /\ faults \in 0..MaxFaults
    BY <1>2, HandlersAssumption, ProfileAssumption DEF HandlersAssumption, ProfileAssumption
  <2>2. version \in [Profile -> Seq([number : Nat \ {0}, payload : Payload])]
    BY <1>2, EmptySeq
  <2>3. \A f \in Profile : f \in P!Stored <=> version[f] # <<>>
    BY <1>3
  <2> QED BY <1>2, <2>1, <2>2, <2>3 DEF P!TypeOK
<1>5. Gapless
  <2> SUFFICES ASSUME NEW f \in Profile
               PROVE  P!Numbers(f) = 1..0
    BY DEF Gapless
  <2>1. DOMAIN version[f] = {}
    BY <1>3, EmptySeq
  <2>2. P!Numbers(f) = {}
    BY <2>1 DEF P!Numbers
  <2> QED BY <2>2
<1>6. Recorded /\ P!LatestIsPayload
  BY <1>3 DEF Recorded, P!LatestIsPayload, P!Stored
<1>7. RequestsFit
  BY <1>2 DEF RequestsFit, P!Free
<1> QED BY <1>4, <1>5, <1>6, <1>7 DEF ProfilesInv

\* The history rests: what the handlers and the Macs hold fits, as before.
LEMMA ProfilesHeld ==
  ASSUME ProfilesInv, UNCHANGED <<profile, version, mixed>>,
         begun' \in 0..MaxUpdates, faults' \in 0..MaxFaults, managed' \subseteq Device,
         DOMAIN request' = Handler, DOMAIN queued' = Device,
         \A h \in Handler :
            \/ request'[h] = request[h] \/ request'[h].op = "none"
            \/ request'[h].op = "update" /\ UpdateFits(request'[h])
            \/ request'[h].op = "push" /\ CommandFits(request'[h].command),
         \A m \in Device : \A c \in queued'[m] : CommandFits(c)
  PROVE  ProfilesInv'
<1>1. P!TypeOK'
  BY DEF ProfilesInv, P!TypeOK, P!Stored
<1>2. Gapless' /\ Recorded' /\ P!LatestIsPayload'
  <2>1. Gapless'
    BY DEF ProfilesInv, Gapless, P!Numbers
  <2>2. Recorded'
    BY DEF ProfilesInv, Recorded, Kept, P!Stored
  <2>3. P!LatestIsPayload'
    <3>1. P!Stored' = P!Stored /\ \A f \in Profile : P!Highest(f)' = P!Highest(f)
      BY DEF P!Stored, P!Highest
    <3> QED BY <3>1 DEF ProfilesInv, P!LatestIsPayload, P!Stored
  <2> QED BY <2>1, <2>2, <2>3
<1>3. \A q : UpdateFits(q)' <=> UpdateFits(q)
  BY DEF UpdateFits, P!Stored, P!Highest
<1>4. \A c : CommandFits(c)' <=> CommandFits(c)
  BY DEF CommandFits, P!Stored, Kept
<1>5. RequestsFit'
  <2>1. ASSUME NEW h \in Handler, request'[h].op = "update"
        PROVE  UpdateFits(request[h])'
    <3>1. PICK q : q = request'[h]
      OBVIOUS
    <3>2. UpdateFits(q)
      BY <2>1, <3>1 DEF ProfilesInv, RequestsFit
    <3>3. UpdateFits(q)'
      BY <1>3, <3>2
    <3> QED BY <3>1, <3>3
  <2>2. ASSUME NEW h \in Handler, request'[h].op = "push"
        PROVE  CommandFits(request[h].command)'
    <3>1. PICK q : q = request'[h]
      OBVIOUS
    <3>2. CommandFits(q.command)
      BY <2>2, <3>1 DEF ProfilesInv, RequestsFit
    <3>3. CommandFits(q.command)'
      BY <1>4, <3>2
    <3> QED BY <3>1, <3>3
  <2>3. ASSUME NEW m \in Device, NEW c \in queued'[m]
        PROVE  CommandFits(c)'
    BY <1>4
  <2> QED BY <2>1, <2>2, <2>3 DEF RequestsFit
<1> QED BY <1>1, <1>2, <1>5 DEF ProfilesInv

\* The history of one profile changes: what is held of others, and of this one when its
\* versions only grow, still fits.
LEMMA ProfilesFit ==
  ASSUME ProfilesInv, NEW f \in Profile,
         \A g \in Profile \ {f} : profile'[g] = profile[g] /\ version'[g] = version[g],
         profile[f].status = "unborn" \/ profile'[f].status # "unborn",
         \/ profile[f].status = "unborn" \/ profile'[f].status # "stored"
         \/ f \in P!Stored /\ Kept(f) \subseteq Kept(f)' /\ P!Highest(f)' \in {P!Highest(f), P!Highest(f) + 1},
         P!Highest(f) \in Nat
  PROVE  /\ \A q : UpdateFits(q) => UpdateFits(q)'
         /\ \A c : CommandFits(c) => CommandFits(c)'
<1>1. ASSUME NEW q, UpdateFits(q)
      PROVE  UpdateFits(q)'
  <2>1. CASE q.profile = f
    BY <1>1, <2>1 DEF UpdateFits, P!Stored
  <2>2. CASE q.profile # f
    <3>1. q.profile \in Profile \ {f}
      BY <1>1, <2>2 DEF UpdateFits
    <3>2. profile'[q.profile] = profile[q.profile] /\ P!Highest(q.profile)' = P!Highest(q.profile)
      BY <3>1 DEF P!Highest
    <3> QED BY <1>1, <3>1, <3>2 DEF UpdateFits, P!Stored
  <2> QED BY <2>1, <2>2
<1>2. ASSUME NEW c, CommandFits(c)
      PROVE  CommandFits(c)'
  <2> SUFFICES ASSUME NEW g \in Profile, c.what = g
               PROVE  profile'[g].status # "unborn" /\ (g \in P!Stored' => c.payload \in Kept(g)')
    BY DEF CommandFits
  <2>1. profile[g].status # "unborn" /\ (g \in P!Stored => c.payload \in Kept(g))
    BY <1>2 DEF CommandFits
  <2>2. CASE g = f
    BY <2>1, <2>2 DEF P!Stored
  <2>3. CASE g # f
    BY <2>1, <2>3 DEF P!Stored, Kept
  <2> QED BY <2>2, <2>3
<1> QED BY <1>1, <1>2

\* The rest of the invariant, when one profile's history changes and the handlers hold
\* what they held, or less.
LEMMA ProfilesChange ==
  ASSUME ProfilesInv, NEW f \in Profile, P!TypeOK',
         \A g \in Profile \ {f} : profile'[g] = profile[g] /\ version'[g] = version[g] /\ (g \in mixed <=> g \in mixed'),
         profile[f].status = "unborn" \/ profile'[f].status # "unborn",
         \/ profile[f].status = "unborn" \/ profile'[f].status # "stored"
         \/ f \in P!Stored /\ Kept(f) \subseteq Kept(f)' /\ P!Highest(f)' \in {P!Highest(f), P!Highest(f) + 1},
         P!Highest(f) \in Nat,
         \E n \in Nat : P!Numbers(f)' = 1..n,
         f \in P!Stored' => /\ profile'[f].payload \in Kept(f)'
                            /\ f \notin mixed' => \A i \in DOMAIN version'[f] :
                                  version'[f][i].number = P!Highest(f)' => version'[f][i].payload = profile'[f].payload,
         DOMAIN request' = Handler, queued' = queued,
         \A h \in Handler : request'[h] = request[h] \/ request'[h].op = "none"
  PROVE  ProfilesInv'
<1>1. Gapless'
  <2> SUFFICES ASSUME NEW g \in Profile
               PROVE  \E n \in Nat : P!Numbers(g)' = 1..n
    BY DEF Gapless
  <2>1. CASE g # f
    <3>1. PICK n \in Nat : P!Numbers(g) = 1..n
      BY DEF ProfilesInv, Gapless
    <3>2. P!Numbers(g)' = P!Numbers(g)
      BY <2>1 DEF P!Numbers
    <3> QED BY <3>1, <3>2
  <2> QED BY <2>1
<1>2. Recorded'
  BY DEF ProfilesInv, Recorded, Kept, P!Stored
<1>3. P!LatestIsPayload'
  <2> SUFFICES ASSUME NEW g \in P!Stored' \ mixed', NEW i \in DOMAIN version'[g],
                      version'[g][i].number = P!Highest(g)'
               PROVE  version'[g][i].payload = profile'[g].payload
    BY DEF P!LatestIsPayload
  <2>1. CASE g = f
    BY <2>1
  <2>2. CASE g # f
    <3>1. g \in Profile \ {f} /\ g \in P!Stored \ mixed
      BY <2>2 DEF P!Stored
    <3>2. version'[g] = version[g] /\ profile'[g] = profile[g]
      BY <3>1
    <3>3. P!Highest(g)' = P!Highest(g)
      BY <3>2 DEF P!Highest
    <3> QED BY <3>1, <3>2, <3>3 DEF ProfilesInv, P!LatestIsPayload
  <2> QED BY <2>1, <2>2
<1>4. /\ \A q : UpdateFits(q) => UpdateFits(q)'
      /\ \A c : CommandFits(c) => CommandFits(c)'
  BY ProfilesFit
<1>5. RequestsFit'
  <2>1. ASSUME NEW h \in Handler, request'[h].op = "update"
        PROVE  UpdateFits(request[h])'
    <3>1. PICK q : q = request'[h] /\ q = request[h]
      BY <2>1
    <3>2. UpdateFits(q)'
      BY <1>4, <2>1, <3>1 DEF ProfilesInv, RequestsFit
    <3> QED BY <3>1, <3>2
  <2>2. ASSUME NEW h \in Handler, request'[h].op = "push"
        PROVE  CommandFits(request[h].command)'
    <3>1. PICK q : q = request'[h] /\ q = request[h]
      BY <2>2
    <3>2. CommandFits(q.command)'
      BY <1>4, <2>2, <3>1 DEF ProfilesInv, RequestsFit
    <3> QED BY <3>1, <3>2
  <2>3. ASSUME NEW m \in Device, NEW c \in queued'[m]
        PROVE  CommandFits(c)'
    BY <1>4 DEF ProfilesInv, RequestsFit
  <2> QED BY <2>1, <2>2, <2>3 DEF RequestsFit
<1> QED BY <1>1, <1>2, <1>3, <1>5 DEF ProfilesInv

\* The highest number is a number.
LEMMA HighestTyped ==
  ASSUME ProfilesInv, NEW f \in Profile
  PROVE  P!Highest(f) \in Nat /\ P!Numbers(f) = 1..P!Highest(f)
<1>1. PICK n \in Nat : P!Numbers(f) = 1..n
  BY DEF ProfilesInv, Gapless
<1> QED BY <1>1, HighestIs

\* A profile is created with its first version.
LEMMA ProfilesCreate ==
  ASSUME ProfilesInv, NEW f \in Profile, NEW p \in Payload, P!CreateProfile(f, p)
  PROVE  ProfilesInv'
<1>1. /\ profile[f].status = "unborn"
      /\ profile' = [profile EXCEPT ![f] = [status |-> "stored", payload |-> p]]
      /\ version' = [version EXCEPT ![f] = <<[number |-> 1, payload |-> p]>>]
      /\ begun < MaxUpdates /\ begun' = begun + 1
      /\ UNCHANGED <<request, faults, mixed, managed, queued>>
  BY DEF P!CreateProfile, P!AtOnce, P!Arrives, P!macs
<1> DEFINE first == <<[number |-> 1, payload |-> p]>>
<1>2. /\ first \in Seq([number : Nat \ {0}, payload : Payload]) /\ first # <<>>
      /\ DOMAIN first = 1..1 /\ first[1] = [number |-> 1, payload |-> p]
  OBVIOUS
<1>3. version'[f] = first /\ profile'[f].status = "stored" /\ profile'[f].payload = p
  BY <1>1 DEF ProfilesInv, P!TypeOK
<1>4. \A g \in Profile \ {f} : profile'[g] = profile[g] /\ version'[g] = version[g]
  BY <1>1 DEF ProfilesInv, P!TypeOK
<1> HIDE DEF first
<1>5. P!Numbers(f)' = 1..1
  <2>1. P!Numbers(f)' = {1}
    BY <1>2, <1>3 DEF P!Numbers
  <2> QED BY <2>1
<1>6. Kept(f)' = {p}
  BY <1>2, <1>3 DEF Kept
<1>7. P!TypeOK'
  <2>1. begun' \in 0..MaxUpdates
    BY <1>1, ProfileAssumption DEF ProfilesInv, P!TypeOK, ProfileAssumption
  <2>2. profile' \in [Profile -> [status : {"unborn", "stored", "deleted"}, payload : Payload]]
    BY <1>1 DEF ProfilesInv, P!TypeOK
  <2>3. version' \in [Profile -> Seq([number : Nat \ {0}, payload : Payload])]
    BY <1>1, <1>2 DEF ProfilesInv, P!TypeOK, first
  <2>4. \A g \in Profile : g \in P!Stored' <=> version'[g] # <<>>
    BY <1>2, <1>3, <1>4 DEF ProfilesInv, P!TypeOK, P!Stored
  <2> QED BY <1>1, <2>1, <2>2, <2>3, <2>4 DEF ProfilesInv, P!TypeOK
<1>8. \A i \in DOMAIN version'[f] : version'[f][i].payload = profile'[f].payload
  BY <1>2, <1>3
<1> QED BY <1>1, <1>3, <1>4, <1>5, <1>6, <1>7, <1>8, HighestTyped, ProfilesChange DEF ProfilesInv, RequestsFit

\* A profile goes with its versions; what is held of it no longer matters.
LEMMA ProfilesDelete ==
  ASSUME ProfilesInv, NEW f \in Profile, P!DeleteProfile(f)
  PROVE  ProfilesInv'
<1>1. /\ f \in P!Stored
      /\ profile' = [profile EXCEPT ![f].status = "deleted"]
      /\ version' = [version EXCEPT ![f] = <<>>]
      /\ begun < MaxUpdates /\ begun' = begun + 1
      /\ UNCHANGED <<request, faults, mixed, managed, queued>>
  BY DEF P!DeleteProfile, P!AtOnce, P!Arrives, P!macs
<1>2. version'[f] = <<>> /\ profile'[f].status = "deleted"
  BY <1>1 DEF ProfilesInv, P!TypeOK
<1>3. \A g \in Profile \ {f} : profile'[g] = profile[g] /\ version'[g] = version[g]
  BY <1>1 DEF ProfilesInv, P!TypeOK
<1>4. P!Numbers(f)' = 1..0
  <2>1. DOMAIN version'[f] = {}
    BY <1>2, EmptySeq
  <2>2. P!Numbers(f)' = {}
    BY <2>1 DEF P!Numbers
  <2> QED BY <2>2
<1>5. P!TypeOK'
  <2>1. begun' \in 0..MaxUpdates
    BY <1>1, ProfileAssumption DEF ProfilesInv, P!TypeOK, ProfileAssumption
  <2>2. profile' \in [Profile -> [status : {"unborn", "stored", "deleted"}, payload : Payload]]
    BY <1>1 DEF ProfilesInv, P!TypeOK
  <2>3. version' \in [Profile -> Seq([number : Nat \ {0}, payload : Payload])]
    BY <1>1, EmptySeq DEF ProfilesInv, P!TypeOK
  <2>4. \A g \in Profile : g \in P!Stored' <=> version'[g] # <<>>
    BY <1>2, <1>3 DEF ProfilesInv, P!TypeOK, P!Stored
  <2> QED BY <1>1, <2>1, <2>2, <2>3, <2>4 DEF ProfilesInv, P!TypeOK
<1>6. f \notin P!Stored'
  BY <1>2 DEF P!Stored
<1> QED BY <1>1, <1>2, <1>3, <1>4, <1>5, <1>6, HighestTyped, ProfilesChange DEF ProfilesInv, RequestsFit

\* The update writes its row and appends a version: the number may repeat one, never skip one.
LEMMA ProfilesCommit ==
  ASSUME ProfilesInv, NEW h \in Handler, P!CommitUpdate(h), request[h].profile \in P!Stored
  PROVE  ProfilesInv'
<1>1. PICK q : q = request[h]
  OBVIOUS
<1>2. PICK f : f = q.profile
  OBVIOUS
<1>3. /\ q.op = "update" /\ q.number > 0
      /\ request' = [request EXCEPT ![h] = P!Free]
      /\ profile' = IF q.payload # q.saw THEN [profile EXCEPT ![f].payload = q.payload] ELSE profile
      /\ version' = [version EXCEPT ![f] = Append(@, [number |-> q.number, payload |-> q.payload])]
      /\ mixed' = IF q.saw # profile[f].payload \/ q.number <= P!Highest(f)
                  THEN mixed \cup {f} ELSE mixed \ {f}
      /\ UNCHANGED <<begun, faults, managed, queued>>
  BY <1>1, <1>2 DEF P!CommitUpdate, P!Finish, P!Snapshot, P!macs
<1>4. /\ f \in Profile /\ f \in P!Stored /\ q.payload \in Payload /\ q.number \in Nat \ {0}
      /\ q.number <= P!Highest(f) + 1
  BY <1>1, <1>2, <1>3 DEF ProfilesInv, RequestsFit, UpdateFits
<1>5. PICK n \in Nat : n = P!Highest(f) /\ P!Numbers(f) = 1..n
  BY <1>4, HighestTyped
<1> DEFINE before == version[f]
           last   == [number |-> q.number, payload |-> q.payload]
           after  == Append(before, last)
<1>6. before \in Seq([number : Nat \ {0}, payload : Payload]) /\ last \in [number : Nat \ {0}, payload : Payload]
  BY <1>4 DEF ProfilesInv, P!TypeOK
<1>7. last.number = q.number /\ last.payload = q.payload
  OBVIOUS
<1> HIDE DEF last
<1>8. /\ after \in Seq([number : Nat \ {0}, payload : Payload]) /\ after # <<>>
      /\ Len(before) \in Nat /\ DOMAIN before = 1..Len(before) /\ DOMAIN after = 1..Len(before) + 1
      /\ \A i \in 1..Len(before) : after[i] = before[i]
      /\ after[Len(before) + 1] = last
  BY <1>6, AppendProperties, LenProperties
<1>9. version' = [version EXCEPT ![f] = after]
  BY <1>3 DEF last
<1> HIDE DEF after
<1>10. version'[f] = after /\ \A g \in Profile \ {f} : profile'[g] = profile[g] /\ version'[g] = version[g]
  BY <1>3, <1>4, <1>9 DEF ProfilesInv, P!TypeOK
<1>11. /\ profile'[f].status = profile[f].status
       /\ profile'[f].payload = IF q.payload # q.saw THEN q.payload ELSE profile[f].payload
       /\ profile' \in [Profile -> [status : {"unborn", "stored", "deleted"}, payload : Payload]]
  BY <1>3, <1>4 DEF ProfilesInv, P!TypeOK
<1>12. profile[f].status = "stored" /\ f \in P!Stored'
  BY <1>4, <1>11 DEF P!Stored
<1>13. P!Numbers(f)' = P!Numbers(f) \cup {q.number}
  <2>1. P!Numbers(f)' = {after[i].number : i \in 1..Len(before) + 1}
    BY <1>8, <1>10 DEF P!Numbers
  <2>2. P!Numbers(f) = {before[i].number : i \in 1..Len(before)}
    BY <1>8 DEF P!Numbers
  <2>3. {after[i].number : i \in 1..Len(before) + 1} = {before[i].number : i \in 1..Len(before)} \cup {q.number}
    <3>1. \A i \in 1..Len(before) + 1 : i \in 1..Len(before) \/ i = Len(before) + 1
      BY <1>8
    <3>2. \A i \in 1..Len(before) : i \in 1..Len(before) + 1
      BY <1>8
    <3>3. Len(before) + 1 \in 1..Len(before) + 1
      BY <1>8
    <3> HIDE DEF before
    <3> QED BY <1>7, <1>8, <3>1, <3>2, <3>3
  <2> QED BY <2>1, <2>2, <2>3
<1>14. PICK k \in Nat : k \in {n, n + 1} /\ P!Numbers(f)' = 1..k /\ (k = n + 1 <=> q.number = n + 1)
  <2>1. CASE q.number = n + 1
    <3>1. P!Numbers(f)' = 1..n + 1
      BY <1>5, <1>13, <2>1
    <3> QED BY <2>1, <3>1
  <2>2. CASE q.number # n + 1
    <3>1. q.number \in 1..n
      BY <1>4, <1>5, <2>2
    <3>2. P!Numbers(f)' = 1..n
      BY <1>5, <1>13, <3>1
    <3> QED BY <2>2, <3>2
  <2> QED BY <2>1, <2>2
<1>15. P!Highest(f)' = k
  <2>1. P!Highest(f)' = P!Max({0} \cup 1..k)
    BY <1>14 DEF P!Highest, P!Numbers
  <2>2. P!Max({0} \cup 1..k) = k
    BY MaxOfRange
  <2> QED BY <2>1, <2>2
<1>16. Kept(f) \subseteq Kept(f)' /\ q.payload \in Kept(f)'
  <2>1. ASSUME NEW i \in DOMAIN version[f]
        PROVE  version[f][i].payload \in Kept(f)'
    <3>1. i \in 1..Len(before) /\ i \in 1..Len(before) + 1
      BY <1>8
    <3> QED BY <1>8, <1>10, <3>1 DEF Kept
  <2>2. q.payload \in Kept(f)'
    <3>1. Len(before) + 1 \in 1..Len(before) + 1
      BY <1>8
    <3> QED BY <1>7, <1>8, <1>10, <3>1 DEF Kept
  <2> QED BY <2>1, <2>2 DEF Kept
<1>17. profile'[f].payload \in Kept(f)'
  BY <1>4, <1>11, <1>16 DEF ProfilesInv, Recorded
<1>18. ASSUME f \notin mixed', NEW i \in DOMAIN version'[f], version'[f][i].number = P!Highest(f)'
       PROVE  version'[f][i].payload = profile'[f].payload
  <2>1. q.saw = profile[f].payload /\ ~(q.number <= n)
    BY <1>3, <1>5, <1>18
  <2>2. q.number = n + 1 /\ k = n + 1
    BY <1>4, <1>5, <1>14, <2>1
  <2>3. profile'[f].payload = q.payload
    BY <1>11, <2>1
  <2>4. i \in 1..Len(before) + 1 /\ after[i].number = n + 1
    BY <1>8, <1>10, <1>15, <1>18, <2>2
  <2>5. CASE i \in 1..Len(before)
    <3>1. after[i].number \in P!Numbers(f)
      BY <1>8, <2>5 DEF P!Numbers
    <3> QED BY <1>5, <2>4, <3>1
  <2>6. CASE i = Len(before) + 1
    BY <1>7, <1>8, <1>10, <2>3, <2>6
  <2> QED BY <1>8, <2>4, <2>5, <2>6
<1>19. P!TypeOK'
  <2>1. version' \in [Profile -> Seq([number : Nat \ {0}, payload : Payload])]
    BY <1>8, <1>9 DEF ProfilesInv, P!TypeOK
  <2>2. \A g \in Profile : g \in P!Stored' <=> version'[g] # <<>>
    <3>1. CASE TRUE
      BY <1>8, <1>10, <1>12 DEF ProfilesInv, P!TypeOK, P!Stored
    <3> QED BY <3>1
  <2>3. mixed' \subseteq Profile
    BY <1>3, <1>4 DEF ProfilesInv, P!TypeOK
  <2> QED BY <1>3, <1>11, <2>1, <2>2, <2>3 DEF ProfilesInv, P!TypeOK
<1>20. DOMAIN request' = Handler /\ \A i \in Handler : request'[i] = request[i] \/ request'[i].op = "none"
  BY <1>3 DEF ProfilesInv, RequestsFit, P!Free
<1>21. \A g \in Profile \ {f} : g \in mixed <=> g \in mixed'
  BY <1>3
<1>22. P!Highest(f)' \in {P!Highest(f), P!Highest(f) + 1} /\ P!Highest(f) \in Nat
  BY <1>5, <1>14, <1>15
<1> QED BY <1>3, <1>4, <1>10, <1>11, <1>12, <1>14, <1>16, <1>17, <1>18, <1>19, <1>20, <1>21, <1>22, ProfilesChange

\* A request that queues a command holds one that fits.
LEMMA ProfilesPush ==
  ASSUME ProfilesInv, NEW h \in Handler, NEW c, NEW targets, P!Push(h, c, targets), CommandFits(c)
  PROVE  ProfilesInv'
<1>1. /\ request' = [request EXCEPT ![h] = [op |-> "push", command |-> c, targets |-> targets]]
      /\ begun < MaxUpdates /\ begun' = begun + 1
      /\ UNCHANGED <<faults, profile, version, mixed, managed, queued>>
  BY DEF P!Push, P!Begin, P!Hold, P!Arrives, P!history, P!macs
<1>2. begun' \in 0..MaxUpdates
  BY <1>1, ProfileAssumption DEF ProfilesInv, P!TypeOK, ProfileAssumption
<1>3. /\ DOMAIN request' = Handler
      /\ \A i \in Handler : request'[i] = request[i] \/ (request'[i].op = "push" /\ request'[i].command = c)
  BY <1>1 DEF ProfilesInv, RequestsFit
<1> QED BY <1>1, <1>2, <1>3, ProfilesHeld DEF ProfilesInv, RequestsFit, P!TypeOK

\* What the server builds itself is no stored profile.
LEMMA BuiltFits ==
  ASSUME NEW c, c.what \in {"psso", "onedrive", "usb", "gatekeeper", "icloud"}
  PROVE  CommandFits(c)
BY ProfileAssumption DEF CommandFits, ProfileAssumption

\* Whatever a route pushes, the command fits.
LEMMA ProfilesPushes ==
  ASSUME ProfilesInv, NEW h \in Handler,
         \/ \E f \in Profile : P!PushStored(h, f)
         \/ \E targets \in P!Targets : \/ P!PushPsso(h, targets) \/ P!PushOneDrive(h, targets)
                                       \/ \E c \in P!Restriction : P!PushRestriction(h, c, targets)
         \/ \E m \in Device : P!PushUsbDevice(h, m) \/ \E c \in P!Removable : P!RemoveRestriction(h, c, m)
  PROVE  ProfilesInv'
<1>1. ASSUME NEW f \in Profile, P!PushStored(h, f) PROVE ProfilesInv'
  <2>1. PICK c : c = [ask |-> "install", what |-> f, payload |-> profile[f].payload]
    OBVIOUS
  <2>2. f \in P!Stored /\ P!Push(h, c, managed)
    BY <1>1, <2>1 DEF P!PushStored
  <2>3. CommandFits(c)
    BY <2>1, <2>2 DEF ProfilesInv, Recorded, CommandFits, P!Stored
  <2> QED BY <2>2, <2>3, ProfilesPush
<1>2. ASSUME NEW targets, P!PushPsso(h, targets) PROVE ProfilesInv'
  <2>1. CommandFits([ask |-> "install", what |-> "psso"])
    BY BuiltFits
  <2> QED BY <1>2, <2>1, ProfilesPush DEF P!PushPsso
<1>3. ASSUME NEW targets, P!PushOneDrive(h, targets) PROVE ProfilesInv'
  <2>1. CommandFits([ask |-> "install", what |-> "onedrive"])
    BY BuiltFits
  <2> QED BY <1>3, <2>1, ProfilesPush DEF P!PushOneDrive
<1>4. ASSUME NEW targets, NEW c \in P!Restriction, P!PushRestriction(h, c, targets) PROVE ProfilesInv'
  <2>1. CommandFits([ask |-> "install", what |-> c])
    BY BuiltFits DEF P!Restriction
  <2> QED BY <1>4, <2>1, ProfilesPush DEF P!PushRestriction
<1>5. ASSUME NEW m \in Device, P!PushUsbDevice(h, m) PROVE ProfilesInv'
  BY <1>4, <1>5 DEF P!PushUsbDevice, P!Restriction
<1>6. ASSUME NEW m \in Device, NEW c \in P!Removable, P!RemoveRestriction(h, c, m) PROVE ProfilesInv'
  <2>1. CommandFits([ask |-> "remove", what |-> c])
    BY BuiltFits DEF P!Removable
  <2> QED BY <1>6, <2>1, ProfilesPush DEF P!RemoveRestriction
<1> QED BY <1>1, <1>2, <1>3, <1>4, <1>5, <1>6

\* An update is loaded, or flushed: its number follows the highest there is.
LEMMA ProfilesUpdate ==
  ASSUME ProfilesInv, NEW h \in Handler,
         \/ \E f \in Profile, p \in Payload, renamed \in BOOLEAN : P!LoadUpdate(h, f, p, renamed)
         \/ P!FlushUpdate(h)
  PROVE  ProfilesInv'
<1>1. ASSUME NEW f \in Profile, NEW p \in Payload, NEW renamed \in BOOLEAN, P!LoadUpdate(h, f, p, renamed)
      PROVE  ProfilesInv'
  <2> DEFINE locks  == p # profile[f].payload \/ renamed
             number == IF locks THEN 0 ELSE P!Highest(f) + 1
             q      == [op |-> "update", profile |-> f, saw |-> profile[f].payload, payload |-> p, locks |-> locks,
                        number |-> number]
  <2>1. /\ f \in P!Stored /\ request' = [request EXCEPT ![h] = q]
        /\ begun < MaxUpdates /\ begun' = begun + 1
        /\ UNCHANGED <<faults, profile, version, mixed, managed, queued>>
    BY <1>1 DEF P!LoadUpdate, P!Begin, P!Hold, P!Arrives, P!history, P!macs
  <2>2. P!Highest(f) \in Nat
    BY HighestTyped
  <2>3. /\ q.op = "update" /\ q.profile = f /\ q.payload = p
        /\ q.number = 0 \/ q.number = P!Highest(f) + 1
        /\ q \in [op : {"update"}, profile : Profile, saw : Payload, payload : Payload, locks : BOOLEAN, number : Nat]
    <3>1. locks \in BOOLEAN
      BY Zenon
    <3>2. number \in Nat /\ (number = 0 \/ number = P!Highest(f) + 1)
      BY <2>2
    <3>3. profile[f].payload \in Payload
      BY DEF ProfilesInv, P!TypeOK
    <3> HIDE DEF locks, number
    <3> QED BY <3>1, <3>2, <3>3
  <2> HIDE DEF q
  <2>4. UpdateFits(q)
    <3>1. profile[f].status # "unborn"
      BY <2>1 DEF P!Stored
    <3> QED BY <2>2, <2>3, <3>1 DEF UpdateFits
  <2>5. begun' \in 0..MaxUpdates
    BY <2>1, ProfileAssumption DEF ProfilesInv, P!TypeOK, ProfileAssumption
  <2>6. DOMAIN request' = Handler /\ \A i \in Handler : request'[i] = request[i] \/ request'[i] = q
    BY <2>1 DEF ProfilesInv, RequestsFit
  <2> QED BY <2>1, <2>3, <2>4, <2>5, <2>6, ProfilesHeld DEF ProfilesInv, RequestsFit, P!TypeOK
<1>2. ASSUME P!FlushUpdate(h)
      PROVE  ProfilesInv'
  <2>1. PICK q : q = request[h]
    OBVIOUS
  <2> DEFINE new == [q EXCEPT !.number = P!Highest(q.profile) + 1]
  <2>2. /\ q.op = "update" /\ q.number = 0
        /\ request' = [request EXCEPT ![h] = IF q.profile \in P!Stored THEN new ELSE P!Free]
        /\ UNCHANGED <<begun, faults, profile, version, mixed, managed, queued>>
    BY <1>2, <2>1 DEF P!FlushUpdate, P!history, P!macs
  <2>3. UpdateFits(q)
    BY <2>1, <2>2 DEF ProfilesInv, RequestsFit
  <2>4. q.profile \in Profile /\ P!Highest(q.profile) \in Nat
    BY <2>3, HighestTyped DEF UpdateFits
  <2>5. /\ new \in [op : {"update"}, profile : Profile, saw : Payload, payload : Payload, locks : BOOLEAN, number : Nat]
        /\ new.profile = q.profile /\ new.number = P!Highest(q.profile) + 1 /\ new.op = "update"
    BY <2>3, <2>4 DEF UpdateFits
  <2> HIDE DEF new
  <2>6. UpdateFits(new)
    BY <2>3, <2>4, <2>5 DEF UpdateFits
  <2>7. /\ DOMAIN request' = Handler
        /\ \A i \in Handler : request'[i] = request[i] \/ request'[i].op = "none" \/ request'[i] = new
    BY <2>2 DEF ProfilesInv, RequestsFit, P!Free
  <2>8. begun' \in 0..MaxUpdates /\ faults' \in 0..MaxFaults /\ managed' \subseteq Device
    BY <2>2 DEF ProfilesInv, P!TypeOK
  <2>9. DOMAIN queued' = Device /\ \A m \in Device : \A c \in queued'[m] : CommandFits(c)
    BY <2>2 DEF ProfilesInv, P!TypeOK, RequestsFit
  <2> QED BY <2>2, <2>5, <2>6, <2>7, <2>8, <2>9, ProfilesHeld
<1> QED BY <1>1, <1>2

\* The rest: a push is queued, a Mac comes or goes, a request gives up, or nothing happens.
LEMMA ProfilesRest ==
  ASSUME ProfilesInv,
         \/ \E h \in Handler : P!CommitPush(h) \/ P!RequestFails(h)
         \/ \E h \in Handler : P!CommitUpdate(h) /\ request[h].profile \notin P!Stored
         \/ \E m \in Device : P!Enroll(m) \/ P!Leave(m)
         \/ UNCHANGED P!vars
  PROVE  ProfilesInv'
<1>1. /\ begun \in 0..MaxUpdates /\ faults \in 0..MaxFaults /\ managed \subseteq Device
      /\ DOMAIN request = Handler /\ DOMAIN queued = Device
      /\ \A m \in Device : \A c \in queued[m] : CommandFits(c)
  BY DEF ProfilesInv, P!TypeOK, RequestsFit
<1>2. ASSUME NEW h \in Handler, P!CommitPush(h) PROVE ProfilesInv'
  <2>1. PICK q : q = request[h]
    OBVIOUS
  <2>2. /\ q.op = "push" /\ request' = [request EXCEPT ![h] = P!Free]
        /\ queued' = [m \in Device |-> IF m \in q.targets THEN queued[m] \cup {q.command} ELSE queued[m]]
        /\ UNCHANGED <<begun, faults, profile, version, mixed, managed>>
    BY <1>2, <2>1 DEF P!CommitPush, P!Finish, P!history
  <2>3. CommandFits(q.command)
    BY <2>1, <2>2 DEF ProfilesInv, RequestsFit
  <2>4. DOMAIN queued' = Device /\ \A m \in Device : \A c \in queued'[m] : CommandFits(c)
    BY <1>1, <2>2, <2>3
  <2>5. DOMAIN request' = Handler /\ \A i \in Handler : request'[i] = request[i] \/ request'[i].op = "none"
    BY <1>1, <2>2 DEF P!Free
  <2> QED BY <1>1, <2>2, <2>4, <2>5, ProfilesHeld
<1>3. ASSUME NEW h \in Handler, P!RequestFails(h) \/ (P!CommitUpdate(h) /\ request[h].profile \notin P!Stored)
      PROVE  ProfilesInv'
  <2>1. /\ request' = [request EXCEPT ![h] = P!Free]
        /\ faults' = faults \/ (faults < MaxFaults /\ faults' = faults + 1)
        /\ UNCHANGED <<begun, profile, version, mixed, managed, queued>>
    <3>1. CASE P!RequestFails(h)
      BY <3>1 DEF P!RequestFails, P!Abandon, P!Fault, P!history, P!macs
    <3>2. CASE P!CommitUpdate(h) /\ request[h].profile \notin P!Stored
      BY <3>2 DEF P!CommitUpdate, P!Finish, P!history, P!macs
    <3> QED BY <1>3, <3>1, <3>2
  <2>2. faults' \in 0..MaxFaults
    BY <1>1, <2>1, HandlersAssumption DEF HandlersAssumption
  <2>3. DOMAIN request' = Handler /\ \A i \in Handler : request'[i] = request[i] \/ request'[i].op = "none"
    BY <1>1, <2>1 DEF P!Free
  <2> QED BY <1>1, <2>1, <2>2, <2>3, ProfilesHeld
<1>4. ASSUME NEW m \in Device, P!Enroll(m) \/ P!Leave(m) PROVE ProfilesInv'
  <2>1. /\ UNCHANGED <<request, begun, faults, profile, version, mixed, queued>>
        /\ managed' \subseteq Device
    BY <1>1, <1>4 DEF P!Enroll, P!Leave, P!handlers, P!history
  <2> QED BY <1>1, <2>1, ProfilesHeld
<1>5. ASSUME UNCHANGED P!vars PROVE ProfilesInv'
  <2>1. UNCHANGED <<request, begun, faults, profile, version, mixed, managed, queued>>
    BY <1>5 DEF P!vars, P!handlers, P!history, P!macs
  <2> QED BY <1>1, <2>1, ProfilesHeld
<1> QED BY <1>2, <1>3, <1>4, <1>5

\* Every step of Profiles, or none.
LEMMA ProfilesInductive ==
  ASSUME ProfilesInv, P!Next \/ UNCHANGED P!vars
  PROVE  ProfilesInv'
<1>1. ASSUME NEW f \in Profile, NEW p \in Payload, P!CreateProfile(f, p) PROVE ProfilesInv'
  BY <1>1, ProfilesCreate
<1>2. ASSUME NEW f \in Profile, P!DeleteProfile(f) PROVE ProfilesInv'
  BY <1>2, ProfilesDelete
<1>3. ASSUME NEW h \in Handler,
             \/ \E f \in Profile : P!PushStored(h, f)
             \/ \E targets \in P!Targets : \/ P!PushPsso(h, targets) \/ P!PushOneDrive(h, targets)
                                           \/ \E c \in P!Restriction : P!PushRestriction(h, c, targets)
             \/ \E m \in Device : P!PushUsbDevice(h, m) \/ \E c \in P!Removable : P!RemoveRestriction(h, c, m)
      PROVE  ProfilesInv'
  BY <1>3, ProfilesPushes
<1>4. ASSUME NEW h \in Handler,
             \/ \E f \in Profile, p \in Payload, renamed \in BOOLEAN : P!LoadUpdate(h, f, p, renamed)
             \/ P!FlushUpdate(h)
      PROVE  ProfilesInv'
  BY <1>4, ProfilesUpdate
<1>5. ASSUME NEW h \in Handler, P!CommitUpdate(h) PROVE ProfilesInv'
  BY <1>5, ProfilesCommit, ProfilesRest
<1>6. ASSUME NEW h \in Handler, P!CommitPush(h) \/ P!RequestFails(h) PROVE ProfilesInv'
  BY <1>6, ProfilesRest
<1>7. ASSUME NEW m \in Device, P!Enroll(m) \/ P!Leave(m) PROVE ProfilesInv'
  BY <1>7, ProfilesRest
<1>8. ASSUME UNCHANGED P!vars PROVE ProfilesInv'
  BY <1>8, ProfilesRest
<1> QED BY <1>1, <1>2, <1>3, <1>4, <1>5, <1>6, <1>7, <1>8 DEF P!Next

\* Versions without a gap that tell what was queued.
LEMMA ProfilesTold == ProfilesInv => P!HistoryComplete /\ P!LatestIsPayload
<1> SUFFICES ASSUME ProfilesInv
             PROVE  P!HistoryComplete /\ P!LatestIsPayload
  OBVIOUS
<1> SUFFICES ASSUME NEW f \in P!Stored
             PROVE  /\ P!Numbers(f) = 1..P!Highest(f)
                    /\ \A m \in Device : \A c \in queued[m] :
                          c.what = f => \E i \in DOMAIN version[f] : version[f][i].payload = c.payload
  BY DEF P!HistoryComplete, ProfilesInv
<1>1. f \in Profile
  BY DEF P!Stored
<1>2. P!Numbers(f) = 1..P!Highest(f)
  BY <1>1, HighestTyped
<1>3. ASSUME NEW m \in Device, NEW c \in queued[m], c.what = f
      PROVE  \E i \in DOMAIN version[f] : version[f][i].payload = c.payload
  BY <1>1, <1>3 DEF ProfilesInv, RequestsFit, CommandFits, Kept
<1> QED BY <1>2, <1>3

--------------------------------------------------------------------------------
(* The queue of pushes.                                                         *)

RowOf == [token : Q!PushToken, status : {"enrolled", "token_expired", "gone", "deleted"}]

\* What a delivery may have in its hands.
Delivery ==
    {Q!Free} \cup [op : {"received"}, msg : Message, receipt : Nat]
             \cup [op : {"push", "clear", "delete"}, msg : Message, receipt : Nat, saw : RowOf]

\* What may be deleted, whether a push went out or not.
Done == served \cup missed \cup {m \in Message : ~message[m].readable}

\* A delivery is of a message that was sent; what it deletes is done with.
Delivering ==
    \A h \in Handler : request[h].op # "none" =>
        /\ message[request[h].msg].state # "absent"
        /\ request[h].op = "delete" => request[h].msg \in Done

\* The token of a push came from the row; one that is cleared is not the Mac's, and never
\* will be.
Pushing ==
    \A h \in Handler : request[h].op \in {"push", "clear"} =>
        /\ request[h].saw.token \in 1..issued
        /\ request[h].op = "clear" => request[h].saw.token # live

\* Tokens are given one after the other; a row that has one shows an enrolled Mac by its
\* last check-in.
Given ==
    /\ live <= issued /\ told <= issued
    /\ row.token # 0 => row.status = "enrolled" /\ row.token = told
    /\ row.token = 0 => row.status # "enrolled"
    /\ row.status = "gone" => told = 0

PushesInv ==
    /\ Q!TypeOK /\ request \in [Handler -> Delivery]
    /\ Delivering /\ Pushing /\ Given /\ Q!TokenKept /\ Q!DeletedServed

\* The queue is empty, and the Mac has its first push token.
LEMMA PushesInit == Q!Init => PushesInv
<1> SUFFICES ASSUME Q!Init
             PROVE  PushesInv
  OBVIOUS
<1> USE QueueAssumption DEF Q!Init, Q!HandlersInit, Q!Free, QueueAssumption
<1>1. request \in [Handler -> Delivery] /\ \A h \in Handler : request[h].op = "none"
  BY DEF Delivery
<1>2. Q!TypeOK
  <2>1. begun \in 0..MaxDeliveries /\ faults \in 0..MaxFaults
    BY HandlersAssumption DEF HandlersAssumption
  <2>2. message \in [Message -> [state : {"absent", "visible", "hidden", "deleted", "dead"},
                                readable : BOOLEAN, received : 0..MaxReceives]]
    OBVIOUS
  <2>3. 0 \in Q!PushToken /\ 1 \in Q!PushToken
    BY DEF Q!PushToken
  <2> QED BY <1>1, <2>1, <2>2, <2>3 DEF Q!TypeOK
<1>3. Delivering /\ Pushing /\ Given /\ Q!TokenKept /\ Q!DeletedServed
  BY <1>1 DEF Delivering, Pushing, Given, Q!TokenKept, Q!DeletedServed
<1> QED BY <1>1, <1>2, <1>3 DEF PushesInv

\* One request goes on, perhaps with the row, and messages are served or move on.
LEMMA PushesGo ==
  ASSUME PushesInv, NEW h \in Handler, NEW q \in Delivery, request' = [request EXCEPT ![h] = q],
         begun' \in 0..MaxDeliveries, faults' \in 0..MaxFaults,
         message' \in [Message -> [state : {"absent", "visible", "hidden", "deleted", "dead"},
                                   readable : BOOLEAN, received : 0..MaxReceives]],
         \A m \in Message : message'[m].state = "absent" => message[m].state = "absent",
         \A m \in Message : message'[m].readable => message[m].readable,
         \A m \in Message : message'[m].state = "deleted" => m \in Done',
         served \subseteq served', served' \subseteq Message,
         missed \subseteq missed', missed' \subseteq Message,
         q.op # "none" => message[q.msg].state # "absent",
         q.op = "delete" => q.msg \in Done',
         q.op \in {"push", "clear"} => q.saw.token \in 1..issued,
         q.op = "clear" => q.saw.token # live,
         UNCHANGED <<live, issued, told>>, row' \in RowOf, cut' \in BOOLEAN, Given', Q!TokenKept'
  PROVE  PushesInv'
<1> USE DEF PushesInv
<1>1. request'[h] = q /\ \A i \in Handler \ {h} : request'[i] = request[i]
  OBVIOUS
<1>2. request' \in [Handler -> Delivery]
  OBVIOUS
<1>3. \A i \in Handler : request'[i].op \in {"none", "received", "push", "clear", "delete"}
  BY <1>2 DEF Delivery, Q!Free
<1>4. Q!TypeOK'
  BY <1>3 DEF Q!TypeOK, RowOf, Q!PushToken
<1>5. q.op # "none" => q.msg \in Message
  BY DEF Delivery, Q!Free
<1>6. \A i \in Handler : request[i].op # "none" => request[i].msg \in Message
  BY DEF Delivery, Q!Free
<1>7. Delivering'
  <2>1. \A i \in Handler : request[i].op = "delete" => request[i].msg \in Done'
    BY <1>6 DEF Delivering, Done
  <2> QED BY <1>1, <1>5, <1>6, <2>1 DEF Delivering
<1>8. Pushing'
  BY <1>1 DEF Pushing
<1>9. Q!DeletedServed'
  BY DEF Q!DeletedServed, Done
<1> QED BY <1>2, <1>4, <1>7, <1>8, <1>9

\* What is said of the row and the token goes on holding while they rest.
LEMMA PushesRow ==
  ASSUME PushesInv, UNCHANGED <<row, live, issued, told, cut>>
  PROVE  row' \in RowOf /\ cut' \in BOOLEAN /\ Given' /\ Q!TokenKept'
BY DEF PushesInv, Q!TypeOK, RowOf, Q!PushToken, Given, Q!TokenKept

\* A consumer receives a message.
LEMMA PushesReceive ==
  ASSUME PushesInv, NEW h \in Handler, NEW m \in Message, Q!Receive(h, m)
  PROVE  PushesInv'
<1> DEFINE q == [op |-> "received", msg |-> m, receipt |-> message[m].received + 1]
<1>1. /\ message[m].state = "visible" /\ message[m].received < MaxReceives
      /\ request' = [request EXCEPT ![h] = q] /\ begun' = begun + 1 /\ begun < MaxDeliveries
      /\ message' = [message EXCEPT ![m].state = "hidden", ![m].received = message[m].received + 1]
      /\ UNCHANGED <<faults, served, missed, row, told, cut, live, issued>>
  BY DEF Q!Receive, Q!Begin, Q!Hold, Q!Arrives, Q!device, Q!apns
<1>2. message[m].received \in Nat /\ q \in Delivery
  BY DEF PushesInv, Q!TypeOK, Delivery
<1>3. message' \in [Message -> [state : {"absent", "visible", "hidden", "deleted", "dead"},
                                readable : BOOLEAN, received : 0..MaxReceives]]
  BY <1>1, <1>2, QueueAssumption DEF PushesInv, Q!TypeOK, QueueAssumption
<1>4. message'[m].state = "hidden" /\ \A n \in Message \ {m} : message'[n] = message[n]
  BY <1>1 DEF PushesInv, Q!TypeOK
<1>5. \A n \in Message : message'[n].state \in {"absent", "deleted"} => message'[n].state = message[n].state
  BY <1>4
<1>6. \A n \in Message : /\ message'[n].readable = message[n].readable
                         /\ message'[n].state = "deleted" => n \in Done'
  <2>1. \A n \in Message : message'[n].readable = message[n].readable
    BY <1>1 DEF PushesInv, Q!TypeOK
  <2> QED BY <2>1, <1>1, <1>5 DEF PushesInv, Q!DeletedServed, Done
<1>7. /\ begun' \in 0..MaxDeliveries /\ faults' \in 0..MaxFaults
      /\ served' \subseteq Message /\ missed' \subseteq Message
  BY <1>1, QueueAssumption DEF PushesInv, Q!TypeOK, QueueAssumption
<1>8. \A n \in Message : message'[n].state = "absent" => message[n].state = "absent"
  BY <1>5
<1>9. message[q.msg].state # "absent" /\ q.op = "received"
  BY <1>1
<1> HIDE DEF q
<1> QED BY <1>1, <1>2, <1>3, <1>6, <1>7, <1>8, <1>9, PushesGo, PushesRow

\* A message that is given up for a Mac one could push to is missed.
LEMMA GivenUp ==
  ASSUME PushesInv, NEW m \in Message, Q!GiveUp(m), Q!Wakeable => cut'
  PROVE  /\ served \subseteq served' /\ served' \subseteq Message
         /\ missed \subseteq missed' /\ missed' \subseteq Message
         /\ m \in served' \cup missed'
BY DEF PushesInv, Q!TypeOK, Q!GiveUp

\* A delivery looks the row up, and pushes when there is something to push to.  The row of
\* a Mac one could push to has a token unless a check-in crossed a delivery.
LEMMA PushesLook ==
  ASSUME PushesInv, NEW h \in Handler, Q!Look(h)
  PROVE  PushesInv'
<1>1. PICK r : r = request[h]
  OBVIOUS
<1> DEFINE idle == ~message[r.msg].readable \/ row.token = 0
           q == [op |-> IF idle THEN "delete" ELSE "push", msg |-> r.msg, receipt |-> r.receipt, saw |-> row]
<1>2. /\ r.op = "received" /\ request' = [request EXCEPT ![h] = q]
      /\ IF idle THEN Q!GiveUp(r.msg) ELSE UNCHANGED <<served, missed>>
      /\ UNCHANGED <<begun, faults, message, row, told, cut, live, issued>>
  BY <1>1 DEF Q!Look, Q!Goes, Q!device, Q!apns
<1>3. r.msg \in Message /\ r.receipt \in Nat
  BY <1>1, <1>2 DEF PushesInv, Delivery, Q!Free
<1>4. row \in RowOf
  BY DEF PushesInv, Q!TypeOK, RowOf
<1>5. q \in Delivery
  BY <1>3, <1>4 DEF Delivery
<1>6. q.op # "delete" => row.token \in 1..issued
  BY DEF PushesInv, Q!TypeOK, Q!PushToken, Given
<1>7. message[r.msg].state # "absent"
  BY <1>1, <1>2 DEF PushesInv, Delivering
<1>8. row.token = 0 /\ Q!Wakeable => cut
  BY <1>4 DEF PushesInv, Given, Q!Wakeable, Q!TokenKept, RowOf
<1>9. /\ served \subseteq served' /\ served' \subseteq Message
      /\ missed \subseteq missed' /\ missed' \subseteq Message
      /\ idle => r.msg \in Done'
  <2>1. CASE ~idle
    BY <1>2, <2>1 DEF PushesInv, Q!TypeOK
  <2>2. CASE ~message[r.msg].readable
    BY <1>2, <1>3, <2>2 DEF PushesInv, Q!TypeOK, Q!GiveUp, Done
  <2>3. CASE row.token = 0
    BY <1>2, <1>3, <1>8, <2>3, GivenUp DEF Done
  <2> QED BY <2>1, <2>2, <2>3
<1>10. \A n \in Message : message'[n].state = "deleted" => n \in Done'
  BY <1>2, <1>9 DEF PushesInv, Q!DeletedServed, Done
<1>11. q.msg = r.msg /\ q.saw = row /\ q.op \in {"push", "delete"} /\ (q.op = "delete" => q.msg \in Done')
  BY <1>9
<1> HIDE DEF q, idle
<1> QED BY <1>2, <1>5, <1>6, <1>7, <1>9, <1>10, <1>11, PushesGo, PushesRow DEF PushesInv, Q!TypeOK

\* APNs takes a push.
LEMMA PushesAccepted ==
  ASSUME PushesInv, NEW h \in Handler, Q!Accepted(h)
  PROVE  PushesInv'
<1>1. PICK r : r = request[h]
  OBVIOUS
<1> DEFINE q == [r EXCEPT !.op = "delete"]
<1>2. /\ r.op = "push" /\ request' = [request EXCEPT ![h] = q]
      /\ served' = served \cup {m \in Message : message[m].state # "absent"}
      /\ UNCHANGED <<begun, faults, message, missed, row, told, cut, live, issued>>
  BY <1>1 DEF Q!Accepted, Q!Goes, Q!device, Q!apns
<1>3. r \in Delivery
  BY <1>1 DEF PushesInv
<1>4. q \in Delivery /\ q.op = "delete" /\ q.msg = r.msg /\ r.msg \in Message
  BY <1>2, <1>3 DEF Delivery, Q!Free
<1>5. message[r.msg].state # "absent"
  BY <1>1, <1>2 DEF PushesInv, Delivering
<1>6. served \subseteq served' /\ served' \subseteq Message /\ missed' \subseteq Message /\ r.msg \in Done'
  BY <1>2, <1>4, <1>5 DEF PushesInv, Q!TypeOK, Done
<1>7. \A n \in Message : message'[n].state = "deleted" => n \in Done'
  BY <1>2, <1>6 DEF PushesInv, Q!DeletedServed, Done
<1> HIDE DEF q
<1> QED BY <1>2, <1>4, <1>5, <1>6, <1>7, PushesGo, PushesRow DEF PushesInv, Q!TypeOK

\* Only the answer that a token is not the Mac's lets a delivery clear it.
LEMMA PushesFail ==
  ASSUME PushesInv, NEW h \in Handler, Q!PushFails(h)
  PROVE  PushesInv'
<1>1. PICK r : r = request[h]
  OBVIOUS
<1>2. /\ r.op = "push" /\ UNCHANGED <<begun, message, served, missed, row, told, cut, live, issued>>
      /\ faults' \in 0..MaxFaults
      /\ \/ request' = [request EXCEPT ![h] = Q!Free]
         \/ request' = [request EXCEPT ![h] = [r EXCEPT !.op = "clear"]] /\ r.saw.token # live
  <2>1. PICK code \in {410, 503} :
            /\ IF code = 410 THEN request[h].saw.token # live /\ UNCHANGED faults ELSE Q!Fault
            /\ request' = [request EXCEPT ![h] = IF Q!Unregistered(code) THEN [request[h] EXCEPT !.op = "clear"]
                                                 ELSE Q!Free]
    BY DEF Q!PushFails
  <2>2. r.op = "push" /\ UNCHANGED <<begun, message, served, missed, row, told, cut, live, issued>>
    BY <1>1 DEF Q!PushFails, Q!queue, Q!device, Q!apns
  <2>3. faults' \in 0..MaxFaults
    BY <2>1, HandlersAssumption DEF Q!Fault, PushesInv, Q!TypeOK, HandlersAssumption
  <2>4. CASE code = 410
    BY <1>1, <2>1, <2>2, <2>3, <2>4 DEF Q!Unregistered
  <2>5. CASE code # 410
    BY <2>1, <2>2, <2>3, <2>5 DEF Q!Unregistered
  <2> QED BY <2>4, <2>5
<1> DEFINE q == IF request' = [request EXCEPT ![h] = Q!Free] THEN Q!Free ELSE [r EXCEPT !.op = "clear"]
<1>3. r \in Delivery
  BY <1>1 DEF PushesInv
<1>4. /\ q \in Delivery /\ q.op \in {"none", "clear"}
      /\ q.op # "none" => q.msg = r.msg /\ q.saw = r.saw /\ r.saw.token # live
  <2>1. q = Q!Free \/ (q = [r EXCEPT !.op = "clear"] /\ r.saw.token # live)
    BY <1>2
  <2> HIDE DEF q
  <2>2. CASE q = Q!Free
    BY <2>2 DEF Delivery, Q!Free
  <2>3. CASE q = [r EXCEPT !.op = "clear"] /\ r.saw.token # live
    BY <2>3, <1>2, <1>3 DEF Delivery, Q!Free
  <2> QED BY <2>1, <2>2, <2>3
<1>5. message[r.msg].state # "absent" /\ r.saw.token \in 1..issued
  BY <1>1, <1>2 DEF PushesInv, Delivering, Pushing
<1>6. \A n \in Message : message'[n].state = "deleted" => n \in Done'
  BY <1>2 DEF PushesInv, Q!DeletedServed, Done
<1>7. request' = [request EXCEPT ![h] = q]
  BY <1>2
<1> HIDE DEF q
<1> QED BY <1>2, <1>4, <1>5, <1>6, <1>7, PushesGo, PushesRow DEF PushesInv, Q!TypeOK

\* When no check-in came between, the row that is written shows the token that was refused.
LEMMA PushesClear ==
  ASSUME PushesInv, NEW h \in Handler, Q!ClearToken(h)
  PROVE  PushesInv'
<1>1. PICK r : r = request[h]
  OBVIOUS
<1> DEFINE q == [r EXCEPT !.op = "delete"]
<1>2. /\ r.op = "clear" /\ request' = [request EXCEPT ![h] = q]
      /\ row' = IF row.status = "deleted" THEN row ELSE [token |-> 0, status |-> "token_expired"]
      /\ cut' = (cut \/ row # r.saw)
      /\ Q!GiveUp(r.msg)
      /\ UNCHANGED <<begun, faults, message, told, live, issued>>
  BY <1>1 DEF Q!ClearToken, Q!Goes, Q!apns
<1>3. r \in Delivery
  BY <1>1 DEF PushesInv
<1>4. q \in Delivery /\ q.op = "delete" /\ q.msg = r.msg /\ r.msg \in Message
  BY <1>2, <1>3 DEF Delivery, Q!Free
<1>5. message[r.msg].state # "absent" /\ r.saw.token \in 1..issued /\ r.saw.token # live
  BY <1>1, <1>2 DEF PushesInv, Delivering, Pushing
<1>6. ~cut' => row.status = "enrolled" /\ row.token = told /\ told # 0 /\ told # live
  <2>1. ~cut' => row = r.saw
    BY <1>2
  <2>2. issued \in Nat
    BY DEF PushesInv, Q!TypeOK, Q!PushToken
  <2> QED BY <2>1, <2>2, <1>5 DEF PushesInv, Given
<1>7. /\ served \subseteq served' /\ served' \subseteq Message
      /\ missed \subseteq missed' /\ missed' \subseteq Message
      /\ r.msg \in Done'
      /\ \A n \in Message : message'[n].state = "deleted" => n \in Done'
  <2>1. Q!Wakeable => cut'
    BY <1>2, <1>6 DEF Q!Wakeable, PushesInv, Q!TypeOK
  <2>2. /\ served \subseteq served' /\ served' \subseteq Message
        /\ missed \subseteq missed' /\ missed' \subseteq Message
        /\ r.msg \in served' \cup missed'
    BY <1>2, <1>4, <2>1, GivenUp
  <2> QED BY <1>2, <2>2 DEF PushesInv, Q!DeletedServed, Done
<1>8. row' \in RowOf /\ cut' \in BOOLEAN
  BY <1>2, QueueAssumption DEF PushesInv, Q!TypeOK, RowOf, Q!PushToken, QueueAssumption
<1>9. Given'
  BY <1>2 DEF PushesInv, Given
<1>10. Q!TokenKept'
  BY <1>2, <1>6 DEF Q!TokenKept
<1> HIDE DEF q
<1> QED BY <1>2, <1>4, <1>5, <1>7, <1>8, <1>9, <1>10, PushesGo DEF PushesInv, Q!TypeOK

\* A message is deleted once it is done with.
LEMMA PushesDelete ==
  ASSUME PushesInv, NEW h \in Handler, Q!DeleteMessage(h)
  PROVE  PushesInv'
<1>1. PICK r : r = request[h]
  OBVIOUS
<1>2. /\ r.op = "delete" /\ request' = [request EXCEPT ![h] = Q!Free]
      /\ \/ message' = [message EXCEPT ![r.msg].state = IF message[r.msg].state = "dead" THEN "dead" ELSE "deleted"]
         \/ UNCHANGED message
      /\ UNCHANGED <<begun, faults, served, missed, row, told, cut, live, issued>>
  BY <1>1 DEF Q!DeleteMessage, Q!Finish, Q!device, Q!apns
<1>3. r.msg \in Message /\ r.msg \in Done
  BY <1>1, <1>2 DEF PushesInv, Delivery, Delivering, Q!Free
<1>4. message' \in [Message -> [state : {"absent", "visible", "hidden", "deleted", "dead"},
                                readable : BOOLEAN, received : 0..MaxReceives]]
  BY <1>2, <1>3 DEF PushesInv, Q!TypeOK
<1>5. \A n \in Message : \/ message'[n] = message[n]
                         \/ n = r.msg /\ message'[n].state \in {"dead", "deleted"}
  BY <1>2, <1>3 DEF PushesInv, Q!TypeOK
<1>6. \A n \in Message : /\ message'[n].readable = message[n].readable
                         /\ message'[n].state = "deleted" => n \in Done'
  <2>1. \A n \in Message : message'[n].readable = message[n].readable
    BY <1>2, <1>3 DEF PushesInv, Q!TypeOK
  <2> QED BY <2>1, <1>2, <1>3, <1>5 DEF PushesInv, Q!DeletedServed, Done
<1>7. \A n \in Message : message'[n].state = "absent" => message[n].state = "absent"
  BY <1>5
<1>8. Q!Free \in Delivery /\ Q!Free.op = "none"
  BY DEF Delivery, Q!Free
<1> QED BY <1>2, <1>4, <1>6, <1>7, <1>8, PushesGo, PushesRow DEF PushesInv, Q!TypeOK

\* A message is sent, becomes visible again, or is moved away.
LEMMA PushesMove ==
  ASSUME PushesInv, NEW m \in Message,
         (\E readable \in BOOLEAN : Q!Send(m, readable)) \/ Q!ToDeadLetters(m) \/ Q!VisibilityExpires(m)
  PROVE  PushesInv'
<1>1. PICK new \in [state : {"visible", "dead"}, readable : BOOLEAN, received : 0..MaxReceives] :
        /\ message' = [message EXCEPT ![m] = new]
        /\ message[m].state = "absent" \/ new.readable = message[m].readable
        /\ UNCHANGED <<request, begun, faults, served, missed, row, told, cut, live, issued>>
  <2>1. ASSUME NEW readable \in BOOLEAN, Q!Send(m, readable)
        PROVE  /\ message' = [message EXCEPT ![m] = [state |-> "visible", readable |-> readable, received |-> 0]]
               /\ message[m].state = "absent"
               /\ UNCHANGED <<request, begun, faults, served, missed, row, told, cut, live, issued>>
    BY <2>1 DEF Q!Send, Q!handlers, Q!device, Q!apns
  <2>2. ASSUME Q!ToDeadLetters(m) \/ Q!VisibilityExpires(m)
        PROVE  \E s \in {"visible", "dead"} :
                  /\ message' = [message EXCEPT ![m] = [state |-> s, readable |-> message[m].readable,
                                                        received |-> message[m].received]]
                  /\ UNCHANGED <<request, begun, faults, served, missed, row, told, cut, live, issued>>
    BY <2>2 DEF Q!ToDeadLetters, Q!VisibilityExpires, Q!handlers, Q!device, Q!apns, PushesInv, Q!TypeOK
  <2>3. 0 \in 0..MaxReceives /\ message[m].readable \in BOOLEAN /\ message[m].received \in 0..MaxReceives
    BY QueueAssumption DEF PushesInv, Q!TypeOK, QueueAssumption
  <2> QED BY <2>1, <2>2, <2>3
<1>2. message'[m].state \in {"visible", "dead"} /\ \A n \in Message \ {m} : message'[n] = message[n]
  BY <1>1 DEF PushesInv, Q!TypeOK
<1>3. \A i \in Handler : request[i].op # "none" => request[i].msg \in Message
  BY DEF PushesInv, Delivery, Q!Free
<1>4. Q!TypeOK'
  BY <1>1 DEF PushesInv, Q!TypeOK, Q!PushToken
<1>5. Delivering'
  <2>1. \A n \in Message : message[n].state # "absent" /\ n \in Done => n \in Done'
    BY <1>1 DEF PushesInv, Q!TypeOK, Done
  <2> QED BY <1>1, <1>2, <1>3, <2>1 DEF PushesInv, Delivering
<1>6. Q!DeletedServed'
  BY <1>1, <1>2 DEF PushesInv, Q!DeletedServed
<1>7. Pushing' /\ Given' /\ Q!TokenKept'
  BY <1>1 DEF PushesInv, Pushing, Given, Q!TokenKept
<1> QED BY <1>1, <1>4, <1>5, <1>6, <1>7 DEF PushesInv

\* Apple gives or takes the token, the Mac checks in, or its row goes.
LEMMA PushesMac ==
  ASSUME PushesInv,
         Q!NewToken \/ Q!Leave \/ Q!TokenUpdate \/ Q!CheckOut \/ Q!DeleteDevice
  PROVE  PushesInv'
<1> USE QueueAssumption DEF PushesInv, Q!TypeOK, Q!PushToken, QueueAssumption
<1>1. CASE Q!NewToken
  <2>1. /\ issued' = issued + 1 /\ live' = issued + 1 /\ issued < MaxPushTokens
        /\ UNCHANGED <<request, begun, faults, message, served, missed, row, told, cut>>
    BY <1>1 DEF Q!NewToken, Q!handlers, Q!queue, Q!device
  <2>2. Q!TypeOK'
    BY <2>1
  <2>3. Pushing' /\ Given' /\ Q!TokenKept'
    BY <2>1 DEF Pushing, Given, Q!TokenKept
  <2>4. Delivering' /\ Q!DeletedServed'
    BY <2>1 DEF Delivering, Done, Q!DeletedServed
  <2> QED BY <2>1, <2>2, <2>3, <2>4
<1>2. CASE Q!Leave
  <2>1. live' = 0 /\ UNCHANGED <<request, begun, faults, message, served, missed, row, told, cut, issued>>
    BY <1>2 DEF Q!Leave, Q!handlers, Q!queue, Q!device
  <2>2. Pushing' /\ Given' /\ Q!TokenKept'
    BY <2>1 DEF Pushing, Given, Q!TokenKept
  <2>3. Delivering' /\ Q!DeletedServed'
    BY <2>1 DEF Delivering, Done, Q!DeletedServed
  <2> QED BY <2>1, <2>2, <2>3
<1>3. ASSUME Q!TokenUpdate \/ Q!CheckOut \/ Q!DeleteDevice
      PROVE  PushesInv'
  <2>1. begun' \in 0..MaxDeliveries /\ UNCHANGED <<request, faults, message, served, missed, live, issued>>
    BY <1>3 DEF Q!TokenUpdate, Q!CheckOut, Q!DeleteDevice, Q!AtOnce, Q!Arrives, Q!queue, Q!apns
  <2>2. row' \in RowOf /\ told' \in Q!PushToken /\ cut' \in BOOLEAN /\ Given' /\ Q!TokenKept'
    <3>1. CASE Q!TokenUpdate
      <4>1. row' = [token |-> live, status |-> "enrolled"] /\ told' = live /\ cut' = FALSE /\ live # 0
        BY <3>1 DEF Q!TokenUpdate
      <4> QED BY <4>1, <2>1 DEF RowOf, Given, Q!TokenKept
    <3>2. CASE Q!CheckOut
      <4>1. row' = [token |-> 0, status |-> "gone"] /\ told' = 0 /\ cut' = FALSE
        BY <3>2 DEF Q!CheckOut
      <4>2. row' \in RowOf /\ told' \in Q!PushToken
        BY <4>1 DEF RowOf
      <4>3. Given' /\ Q!TokenKept'
        BY <4>1, <2>1 DEF Given, Q!TokenKept
      <4> QED BY <4>1, <4>2, <4>3
    <3>3. CASE Q!DeleteDevice
      <4>1. row' = [token |-> 0, status |-> "deleted"] /\ UNCHANGED <<told, cut>>
        BY <3>3 DEF Q!DeleteDevice
      <4> QED BY <4>1, <2>1 DEF RowOf, Given, Q!TokenKept
    <3> QED BY <1>3, <3>1, <3>2, <3>3
  <2>3. Q!TypeOK'
    BY <2>1, <2>2 DEF RowOf
  <2>4. Delivering' /\ Pushing' /\ Q!DeletedServed'
    BY <2>1 DEF Delivering, Done, Pushing, Q!DeletedServed
  <2> QED BY <2>1, <2>2, <2>3, <2>4
<1> QED BY <1>1, <1>2, <1>3

\* Every step of PushQueue, or none.
LEMMA PushesInductive ==
  ASSUME PushesInv, Q!Next \/ UNCHANGED Q!vars
  PROVE  PushesInv'
<1>1. ASSUME NEW h \in Handler, Q!RequestFails(h)
      PROVE  PushesInv'
  <2>1. /\ request' = [request EXCEPT ![h] = Q!Free] /\ faults' \in 0..MaxFaults
        /\ UNCHANGED <<begun, message, served, missed, row, told, cut, live, issued>>
    BY <1>1, HandlersAssumption
    DEF Q!RequestFails, Q!Abandon, Q!Fault, Q!queue, Q!device, Q!apns, PushesInv, Q!TypeOK, HandlersAssumption
  <2>2. Q!Free \in Delivery /\ Q!Free.op = "none"
    BY DEF Delivery, Q!Free
  <2>3. \A n \in Message : message'[n].state = "deleted" => n \in Done'
    BY <2>1 DEF PushesInv, Q!DeletedServed, Done
  <2> QED BY <2>1, <2>2, <2>3, PushesGo, PushesRow DEF PushesInv, Q!TypeOK
<1>2. CASE UNCHANGED Q!vars
  <2>1. UNCHANGED <<request, begun, faults, message, served, missed, row, told, cut, live, issued>>
    BY <1>2 DEF Q!vars, Q!handlers, Q!queue, Q!device, Q!apns
  <2> QED BY <2>1 DEF PushesInv, Q!TypeOK, Delivering, Done, Pushing, Given, Q!TokenKept, Q!DeletedServed
<1> QED BY <1>1, <1>2, PushesReceive, PushesLook, PushesAccepted, PushesFail, PushesClear, PushesDelete,
           PushesMove, PushesMac
        DEF Q!Next, Q!Deliver

--------------------------------------------------------------------------------
(* All of them.                                                                 *)

\* The part that acts keeps its invariant.
Acting ==
    /\ focus = "billing"    => BillingInv
    /\ focus = "users"      => UsersInv
    /\ focus = "tokens"     => TokensInv
    /\ focus = "groups"     => GroupsInv
    /\ focus = "compliance" => ComplianceInv
    /\ focus = "profiles"   => ProfilesInv
    /\ focus = "pushes"     => PushesInv

\* What is told of each part, acting or not: it speaks of no handler.
UsersTell       == U!AddressUnique
TokensTell      == T!SingleUse /\ T!NoPlanNoEnrollment /\ T!StagedOnce
GroupsTell      == G!BulkOnce
ComplianceTells == C!ResultOnce /\ C!SeedOnce /\ C!UnencryptedFlagged
ProfilesTell    == P!HistoryComplete /\ P!LatestIsPayload
PushesTell      == Q!TokenKept /\ Q!DeletedServed

Told == /\ UsersTell /\ TokensTell /\ GroupsTell
        /\ ComplianceTells /\ ProfilesTell /\ PushesTell

IInv == focus \in Parts /\ Acting /\ Told

\* A part's invariant implies what is told of it.
LEMMA Tells ==
    /\ BillingInv => B!Mirrors
    /\ UsersInv => UsersTell
    /\ TokensInv => TokensTell
    /\ GroupsInv => GroupsTell
    /\ ComplianceInv => ComplianceTells
    /\ ProfilesInv => ProfilesTell
    /\ PushesInv => PushesTell
<1>1. BillingInv => B!Mirrors
  BY BillingTold
<1>2. UsersInv => UsersTell
  BY DEF UsersInv, UsersTell
<1>3. TokensInv => TokensTell
  BY TokensTold DEF TokensInv, TokensTell
<1>4. GroupsInv => GroupsTell
  BY DEF GroupsInv, GroupsTell
<1>5. ComplianceInv => ComplianceTells
  BY ComplianceTold DEF ComplianceInv, ComplianceTells
<1>6. ProfilesInv => ProfilesTell
  BY ProfilesTold DEF ProfilesTell
<1>7. PushesInv => PushesTell
  BY DEF PushesInv, PushesTell
<1> QED BY <1>1, <1>2, <1>3, <1>4, <1>5, <1>6, <1>7

\* And goes on being true while the part rests.
LEMMA TellsAtRest ==
    /\ UsersTell /\ UNCHANGED accounts => UsersTell'
    /\ TokensTell /\ UNCHANGED enrollment => TokensTell'
    /\ GroupsTell /\ UNCHANGED memberships => GroupsTell'
    /\ ComplianceTells /\ UNCHANGED compliance => ComplianceTells'
    /\ ProfilesTell /\ UNCHANGED settings => ProfilesTell'
    /\ PushesTell /\ UNCHANGED pushes => PushesTell'
<1>1. UsersTell /\ UNCHANGED accounts => UsersTell'
  BY DEF UsersTell, accounts, U!AddressUnique, U!Present
<1>2. TokensTell /\ UNCHANGED enrollment => TokensTell'
  BY DEF TokensTell, enrollment, T!SingleUse, T!NoPlanNoEnrollment, T!StagedOnce
<1>3. GroupsTell /\ UNCHANGED memberships => GroupsTell'
  BY DEF GroupsTell, memberships, G!BulkOnce
<1>4. ComplianceTells /\ UNCHANGED compliance => ComplianceTells'
  <2> SUFFICES ASSUME ComplianceTells, UNCHANGED compliance
               PROVE  ComplianceTells'
    OBVIOUS
  <2>1. UNCHANGED <<policy, result, encrypted, flag, lenient, raced, reseeded>>
    BY DEF compliance
  <2>2. C!ResultOnce'
    BY <2>1 DEF ComplianceTells, C!ResultOnce, C!Twice
  <2>3. C!SeedOnce' /\ C!UnencryptedFlagged'
    BY <2>1 DEF ComplianceTells, C!SeedOnce, C!Stored, C!UnencryptedFlagged
  <2> QED BY <2>2, <2>3 DEF ComplianceTells
<1>5. ProfilesTell /\ UNCHANGED settings => ProfilesTell'
  <2> SUFFICES ASSUME ProfilesTell, UNCHANGED settings
               PROVE  ProfilesTell'
    OBVIOUS
  <2>1. UNCHANGED <<profile, version, managed, queued, mixed>>
    BY DEF settings
  <2>2. /\ P!Stored' = P!Stored
        /\ \A f \in P!Stored : P!Numbers(f)' = P!Numbers(f) /\ P!Highest(f)' = P!Highest(f)
    BY <2>1 DEF P!Stored, P!Numbers, P!Highest
  <2>3. P!HistoryComplete'
    BY <2>1, <2>2 DEF ProfilesTell, P!HistoryComplete
  <2>4. P!LatestIsPayload'
    BY <2>1, <2>2 DEF ProfilesTell, P!LatestIsPayload
  <2> QED BY <2>3, <2>4 DEF ProfilesTell
<1>6. PushesTell /\ UNCHANGED pushes => PushesTell'
  BY DEF PushesTell, pushes, Q!TokenKept, Q!DeletedServed
<1> QED BY <1>1, <1>2, <1>3, <1>4, <1>5, <1>6

\* Each part starts where its own specification does.
LEMMA InitIInv == Init => IInv
<1> SUFFICES ASSUME Init
             PROVE  IInv
  OBVIOUS
<1>1. BillingInv /\ UsersInv /\ TokensInv /\ GroupsInv /\ ComplianceInv /\ ProfilesInv /\ PushesInv
  BY BillingInit, UsersInit, TokensInit, GroupsInit, ComplianceInit, ProfilesInit, PushesInit DEF Init
<1>2. Told
  BY <1>1, Tells DEF Told
<1> QED BY <1>1, <1>2 DEF Init, IInv, Acting

\* The acting part steps, or nothing does; the invariant of no other is asked for.
LEMMA ActingKept ==
  ASSUME IInv, [Next]_vars
  PROVE  Acting' /\ focus' = focus
<1>1. focus' = focus
  BY DEF Next, vars
<1>2. ASSUME focus = "billing" PROVE BillingInv'
  <2>1. B!Next \/ UNCHANGED B!vars
    BY <1>2 DEF Next, BillingStep, UserStep, TokenStep, GroupStep, ComplianceStep, ProfileStep, PushStep,
                vars, handlers, billing, B!vars, B!handlers, B!stripe
  <2> QED BY <1>2, <2>1, BillingInductive DEF IInv, Acting
<1>3. ASSUME focus = "users" PROVE UsersInv'
  <2>1. U!Next \/ UNCHANGED U!vars
    BY <1>3 DEF Next, BillingStep, UserStep, TokenStep, GroupStep, ComplianceStep, ProfileStep, PushStep,
                vars, handlers, accounts, U!vars, U!handlers
  <2> QED BY <1>3, <2>1, UsersInductive DEF IInv, Acting
<1>4. ASSUME focus = "tokens" PROVE TokensInv'
  <2>1. T!Next \/ UNCHANGED T!vars
    BY <1>4 DEF Next, BillingStep, UserStep, TokenStep, GroupStep, ComplianceStep, ProfileStep, PushStep,
                vars, handlers, enrollment, T!vars, T!handlers, T!plan, T!tokens, T!rows
  <2> QED BY <1>4, <2>1, TokensInductive DEF IInv, Acting
<1>5. ASSUME focus = "groups" PROVE GroupsInv'
  <2>1. G!Next \/ UNCHANGED G!vars
    BY <1>5 DEF Next, BillingStep, UserStep, TokenStep, GroupStep, ComplianceStep, ProfileStep, PushStep,
                vars, handlers, memberships, G!vars, G!handlers
  <2> QED BY <1>5, <2>1, GroupsInductive DEF IInv, Acting
<1>6. ASSUME focus = "compliance" PROVE ComplianceInv'
  <2>1. C!Next \/ UNCHANGED C!vars
    BY <1>6 DEF Next, BillingStep, UserStep, TokenStep, GroupStep, ComplianceStep, ProfileStep, PushStep,
                vars, handlers, compliance, C!vars, C!handlers, C!policies, C!verdicts
  <2> QED BY <1>6, <2>1, ComplianceInductive DEF IInv, Acting
<1>7. ASSUME focus = "profiles" PROVE ProfilesInv'
  <2>1. P!Next \/ UNCHANGED P!vars
    BY <1>7 DEF Next, BillingStep, UserStep, TokenStep, GroupStep, ComplianceStep, ProfileStep, PushStep,
                vars, handlers, settings, P!vars, P!handlers, P!history, P!macs
  <2> QED BY <1>7, <2>1, ProfilesInductive DEF IInv, Acting
<1>8. ASSUME focus = "pushes" PROVE PushesInv'
  <2>1. Q!Next \/ UNCHANGED Q!vars
    BY <1>8 DEF Next, BillingStep, UserStep, TokenStep, GroupStep, ComplianceStep, ProfileStep, PushStep,
                vars, handlers, pushes, Q!vars, Q!handlers, Q!queue, Q!device, Q!apns
  <2> QED BY <1>8, <2>1, PushesInductive DEF IInv, Acting
<1> QED BY <1>1, <1>2, <1>3, <1>4, <1>5, <1>6, <1>7, <1>8 DEF Acting

\* A part acts, or its variables rest.
LEMMA Resting ==
  ASSUME [Next]_vars
  PROVE  /\ focus = "billing" \/ UNCHANGED billing
         /\ focus = "users" \/ UNCHANGED accounts
         /\ focus = "tokens" \/ UNCHANGED enrollment
         /\ focus = "groups" \/ UNCHANGED memberships
         /\ focus = "compliance" \/ UNCHANGED compliance
         /\ focus = "profiles" \/ UNCHANGED settings
         /\ focus = "pushes" \/ UNCHANGED pushes
<1> HIDE DEF billing, accounts, enrollment, memberships, compliance, settings, pushes
<1> QED BY DEF Next, BillingStep, UserStep, TokenStep, GroupStep, ComplianceStep, ProfileStep, PushStep, vars

\* So the whole is inductive: the part that acts keeps its invariant and what it tells,
\* the others rest.
LEMMA Inductive == IInv /\ [Next]_vars => IInv'
<1> SUFFICES ASSUME IInv, [Next]_vars
             PROVE  IInv'
  OBVIOUS
<1>1. Acting' /\ focus' = focus
  BY ActingKept
<1>2. Told'
  <2>1. /\ UsersInv' => UsersTell'
        /\ TokensInv' => TokensTell'
        /\ GroupsInv' => GroupsTell'
        /\ ComplianceInv' => ComplianceTells'
        /\ ProfilesInv' => ProfilesTell'
        /\ PushesInv' => PushesTell'
    BY Tells, PTL
  <2> HIDE DEF billing, accounts, enrollment, memberships, compliance, settings, pushes
  <2>2. UsersTell'
    BY <1>1, <2>1, Resting, TellsAtRest DEF IInv, Told, Acting
  <2>3. TokensTell' /\ GroupsTell' /\ ComplianceTells'
    BY <1>1, <2>1, Resting, TellsAtRest DEF IInv, Told, Acting
  <2>4. ProfilesTell' /\ PushesTell'
    BY <1>1, <2>1, Resting, TellsAtRest DEF IInv, Told, Acting
  <2> QED BY <2>2, <2>3, <2>4 DEF Told
<1> QED BY <1>1, <1>2 DEF IInv

--------------------------------------------------------------------------------
(* What holds in every behaviour.                                               *)

\* The invariant holds throughout.
LEMMA Invariant == Spec => []IInv
<1> QED BY InitIInv, Inductive, PTL DEF Spec

\* Whatever part acts, its variables have their types, what a request under way has read
\* among them.
THEOREM TypeCorrect == Spec => []TypeOK
<1>1. IInv => TypeOK
  BY DEF IInv, Acting, TypeOK, BillingInv, UsersInv, TokensInv, GroupsInv, ComplianceInv, ProfilesInv, PushesInv
<1> QED BY <1>1, Invariant, PTL

\* stripe_webhook: once every event is processed, the tenant row shows the subscription
\* that changed last, whatever was repeated or overtaken, unless the row is spoilt by old
\* news, or by the loss of news that was answered, and later news has not healed it.
THEOREM RowMirrors == Spec => []Mirrors
<1>1. IInv => Mirrors
  BY Tells DEF IInv, Acting, Mirrors
<1> QED BY <1>1, Invariant, PTL

\* The SELECT before the INSERT serves as a unique constraint for all requests that do
\* not overlap.
THEOREM DoublesExplained == Spec => []DoubledByOverlap
<1>1. IInv => DoubledByOverlap
  BY DEF IInv, Told, UsersTell, TokensTell, ComplianceTells, GroupsTell, DoubledByOverlap
<1> QED BY <1>1, Invariant, PTL

\* A single-use token gives one profile unless two downloads overlapped or the mark was
\* lost after the answer, and nobody enrolls before the first plan.
THEOREM TokensServeOnce == Spec => []TokensHonoured
<1>1. IInv => TokensHonoured
  BY DEF IInv, Told, TokensTell, TokensHonoured
<1> QED BY <1>1, Invariant, PTL

\* evaluate_device does not show an unencrypted Mac compliant under a policy that asks for
\* encryption.
THEOREM UnencryptedShown == Spec => []UnencryptedFlagged
<1>1. IInv => UnencryptedFlagged
  BY DEF IInv, Told, ComplianceTells, UnencryptedFlagged
<1> QED BY <1>1, Invariant, PTL

\* The versions of a profile leave no number out and tell all that was pushed of it.
THEOREM HistoryKept == Spec => []HistoryTrue
<1>1. IInv => HistoryTrue
  BY DEF IInv, Told, ProfilesTell, HistoryTrue
<1> QED BY <1>1, Invariant, PTL

\* Deliveries of a push, however many and in whatever order, expire no token that works and
\* give up no readable message that could be served, but where a check-in crossed one.
THEOREM PushesServed == Spec => []PushesHonest
<1>1. IInv => PushesHonest
  BY DEF IInv, Told, PushesTell, PushesHonest
<1> QED BY <1>1, Invariant, PTL
================================================================================
