------------------------------- MODULE Compliance ------------------------------
(***************************************************************************)
(* Compliance policies of one tenant and the evaluation of its enrolled    *)
(* Macs: by the answer of a Mac to a command, and by an administrator.     *)
(* One control stands for the rest: that the disk is encrypted.            *)
(***************************************************************************)
EXTENDS Handlers, Sequences

CONSTANTS
    Policy,  \* CompliancePolicy ids
    Device   \* the enrolled Macs

VARIABLES
    policy,    \* policy[p]: its origin ("absent": no row), whether active, whether strict
    result,    \* result[d][p]: the ComplianceResult rows of Mac d under policy p
    encrypted, \* encrypted[d]: what d has told of its disk
    flag,      \* flag[d]: compliance_status of d
    lenient,   \* history: Macs whose last flag came from policies that ask for no encryption
    raced,   \* history: pairs for which two evaluations had found no result
    reseeded   \* history: two accesses had found no default policy

policies == <<policy, reseeded>>
verdicts == <<result, encrypted, flag, lenient, raced>>
vars     == <<handlers, policies, verdicts>>

--------------------------------------------------------------------------------
Default == {"seeded", "named"}   \* origins that carry the framework of the template
Stored  == {p \in Policy : policy[p].origin # "absent"}
Active  == {p \in Stored : policy[p].active}
\* A new row gets an id that neither a row nor a request has.
Held(q) == CASE q.op = "seed" -> {q.policy} [] q.op = "none" -> {} [] OTHER -> {x[2] : x \in DOMAIN q.verdict}
Absent  == Policy \ (Stored \cup UNION {Held(request[i]) : i \in Handler})
Twice   == {x \in Device \X Policy : Len(result[x[1]][x[2]]) > 1}

Init ==
    /\ HandlersInit
    /\ policy = [p \in Policy |-> [origin |-> "absent", active |-> FALSE, strict |-> FALSE]]
    /\ result = [d \in Device |-> [p \in Policy |-> <<>>]]
    /\ encrypted = [d \in Device |-> "unknown"]
    /\ flag = [d \in Device |-> "unknown"]
    /\ lenient = {} /\ raced = {} /\ reseeded = FALSE

--------------------------------------------------------------------------------
(* Policies.                                                                    *)

\* seed_default_policies: the default one is made where none has its framework.
Seed(h, p) ==
    /\ p \in Absent
    /\ \A i \in Stored : policy[i].origin \notin Default
    /\ Begin(h, [op |-> "seed", policy |-> p, found |-> FALSE])
    /\ UNCHANGED <<policies, verdicts>>

\* Both accesses seed before they read.
ListPolicies(h, p) == Seed(h, p)
FleetSummary(h, p) == Seed(h, p)

CommitSeed(h) ==
    LET q == request[h]
    IN  /\ Finish(h, "seed")
        /\ policy' = [policy EXCEPT ![q.policy] = [origin |-> "seeded", active |-> TRUE, strict |-> TRUE]]
        /\ reseeded' = (reseeded \/ (~q.found /\ \E i \in Stored : policy[i].origin \in Default))
        /\ UNCHANGED verdicts

CreatePolicy(p, origin, strict) ==
    /\ p \in Absent /\ AtOnce
    /\ policy' = [policy EXCEPT ![p] = [origin |-> origin, active |-> TRUE, strict |-> strict]]
    /\ UNCHANGED <<reseeded, verdicts>>

\* Rules and activity change; nothing is evaluated again.
UpdatePolicy(p, active, strict) ==
    /\ p \in Stored /\ AtOnce
    /\ policy' = [policy EXCEPT ![p].active = active, ![p].strict = strict]
    /\ UNCHANGED <<reseeded, verdicts>>

\* The results go with the policy; a deleted default comes back with the next Seed.
DeletePolicy(p) ==
    /\ p \in Stored /\ AtOnce
    /\ policy' = [policy EXCEPT ![p] = [origin |-> "absent", active |-> FALSE, strict |-> FALSE]]
    /\ result' = [d \in Device |-> [result[d] EXCEPT ![p] = <<>>]]
    /\ UNCHANGED <<reseeded, encrypted, flag, lenient, raced>>

--------------------------------------------------------------------------------
(* Evaluation.                                                                  *)

\* Any failing control counts; the age of a check-in always passes or fails, so that the
\* status "unknown" does not come up.
Verdict(d, p, late) ==
    IF (policy[p].strict /\ encrypted[d] = "no") \/ late THEN "non_compliant" ELSE "compliant"

\* A mutant: the result is inserted without looking for one.
MissingAll(pairs) == pairs
\* The pairs that have no result yet.
Missing(pairs) == {x \in pairs : result[x[1]][x[2]] = <<>>}

\* An upsert of what q found: rows it read are updated, the others inserted.
Upsert(q) ==
    LET pairs == DOMAIN q.verdict
    IN  /\ result' = [d \in Device |-> [p \in Policy |->
                        CASE <<d, p>> \notin pairs     -> result[d][p]
                          [] <<d, p>> \in q.missing    -> Append(result[d][p], q.verdict[<<d, p>>])
                          [] OTHER -> [result[d][p] EXCEPT ![1] = q.verdict[<<d, p>>]]]]
        /\ raced' = raced \cup {x \in q.bare : result[x[1]][x[2]] # <<>>}

\* An acknowledged result of Mac d, whose row stays locked.  The policies are evaluated
\* before what it tells is stored; two results of a pair end the loop and are logged.
Answer(h, d, told) ==
    \E done \in SUBSET Active :
        LET pairs  == {d} \X done
            broken == {p \in Active : <<d, p>> \in Twice}
        IN  /\ \A i \in Handler : request[i].op = "answer" => request[i].device # d
            /\ IF broken = {} THEN done = Active ELSE done \cap broken = {}
            /\ Begin(h, [op |-> "answer", device |-> d, told |-> told,
                         verdict |-> [x \in pairs |-> Verdict(d, x[2], FALSE)],
                         missing |-> Missing(pairs), bare |-> {x \in pairs : result[x[1]][x[2]] = <<>>},
                         whole |-> broken = {} /\ Active # {},
                         strict |-> \E p \in Active : policy[p].strict])
            /\ UNCHANGED <<policies, verdicts>>

\* A mutant: the flag is written although the evaluation broke off.
FlagRegardless(q) ==
    CASE q.told = "nothing" ->
           (IF \E x \in DOMAIN q.verdict : q.verdict[x] = "non_compliant" THEN "non_compliant" ELSE "compliant")
      [] OTHER -> IF encrypted'[q.device] = "no" THEN "non_compliant" ELSE "compliant"
\* A whole evaluation flags the Mac; an inventory, or what it tells of itself, does so by
\* a rule of its own that has the last word.
Flag(q) ==
    CASE q.told # "nothing" -> IF encrypted'[q.device] = "no" THEN "non_compliant" ELSE "compliant"
      [] q.told = "nothing" /\ q.whole ->
           (IF \E x \in DOMAIN q.verdict : q.verdict[x] = "non_compliant" THEN "non_compliant" ELSE "compliant")
      [] OTHER -> flag[q.device]

\* With a policy deleted meanwhile the statement fails, and the answer with it.
CommitAnswer(h) ==
    LET q    == request[h]
        lost == \E x \in DOMAIN q.verdict : x[2] \notin Stored
    IN  /\ Finish(h, "answer")
        /\ IF lost THEN UNCHANGED verdicts
           ELSE /\ Upsert(q)
                /\ encrypted' = IF q.told \in {"yes", "no"} THEN [encrypted EXCEPT ![q.device] = q.told]
                                ELSE encrypted
                /\ flag' = [flag EXCEPT ![q.device] = Flag(q)]
                /\ lenient' = CASE q.told # "nothing" -> lenient \ {q.device}
                                [] q.told = "nothing" /\ q.whole ->
                                     IF q.strict THEN lenient \ {q.device} ELSE lenient \cup {q.device}
                                [] OTHER -> lenient
        /\ UNCHANGED policies

\* An administrator evaluates a policy, active or not, for every Mac; late ones fail.
\* Two results of any Mac fail the request.
Evaluate(h, p, late) ==
    LET pairs == Device \X {p}
    IN  /\ p \in Stored /\ pairs \cap Twice = {}
        /\ Begin(h, [op |-> "evaluate", verdict |-> [x \in pairs |-> Verdict(x[1], p, x[1] \in late)],
                     missing |-> Missing(pairs), bare |-> {x \in pairs : result[x[1]][x[2]] = <<>>}])
        /\ UNCHANGED <<policies, verdicts>>

\* compliance_status stays as it was.
CommitEvaluate(h) ==
    LET q == request[h]
    IN  /\ Finish(h, "evaluate")
        /\ IF \E x \in DOMAIN q.verdict : x[2] \notin Stored THEN UNCHANGED verdicts
           ELSE Upsert(q) /\ UNCHANGED <<encrypted, flag, lenient>>
        /\ UNCHANGED policies

--------------------------------------------------------------------------------
RequestFails(h) == Abandon(h) /\ UNCHANGED <<policies, verdicts>>

Next ==
    \/ \E h \in Handler, p \in Policy :
          ListPolicies(h, p) \/ FleetSummary(h, p) \/ \E late \in SUBSET Device : Evaluate(h, p, late)
    \/ \E p \in Policy :
          \/ \E origin \in {"named", "custom"}, strict \in BOOLEAN : CreatePolicy(p, origin, strict)
          \/ \E active, strict \in BOOLEAN : UpdatePolicy(p, active, strict)
          \/ DeletePolicy(p)
    \/ \E h \in Handler, d \in Device, told \in {"nothing", "inventory", "yes", "no"} : Answer(h, d, told)
    \/ \E h \in Handler : CommitSeed(h) \/ CommitAnswer(h) \/ CommitEvaluate(h) \/ RequestFails(h)
    \/ Quiet /\ UNCHANGED vars

Spec == Init /\ [][Next]_vars

--------------------------------------------------------------------------------
(* Properties.                                                                  *)

Status == {"compliant", "non_compliant"}

\* Every variable has its type.
TypeOK ==
    /\ begun \in 0..MaxRequests /\ faults \in 0..MaxFaults
    /\ policy \in [Policy -> [origin : Default \cup {"absent", "custom"}, active : BOOLEAN, strict : BOOLEAN]]
    /\ result \in [Device -> [Policy -> Seq(Status)]]
    /\ \A d \in Device, p \in Policy \ Stored : result[d][p] = <<>>
    /\ encrypted \in [Device -> {"unknown", "yes", "no"}] /\ flag \in [Device -> Status \cup {"unknown"}]
    /\ lenient \subseteq Device /\ raced \subseteq Device \X Policy /\ reseeded \in BOOLEAN

\* A Mac has two results under a policy, which no evaluation gets past, only when two
\* evaluations had both found none.
ResultOnce == Twice \subseteq raced

\* The default policy is seeded twice only by two accesses that had both found none.
SeedOnce ==
    (\E p, q \in Stored : p # q /\ policy[p].origin = "seeded" /\ policy[q].origin = "seeded") => reseeded

\* A Mac that told its disk is not encrypted is shown compliant only when the policies of
\* its last evaluation did not ask for it.
UnencryptedFlagged ==
    \A d \in Device : encrypted[d] = "no" /\ flag[d] = "compliant" => d \in lenient
================================================================================
