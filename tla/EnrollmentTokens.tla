--------------------------- MODULE EnrollmentTokens ----------------------------
(***************************************************************************)
(* How devices come to a tenant: enrollment tokens made under the plan's   *)
(* device limit, the profiles downloaded with them, the Macs that install  *)
(* these, and the rows a CSV import stages.  The limit changes meanwhile,  *)
(* as the webhook of Billing changes it.                                   *)
(***************************************************************************)
EXTENDS Handlers, SequencesExt

CONSTANTS
    Token,   \* EnrollmentToken rows
    Mac,     \* the Macs of the tenant, and their serial numbers
    Limits   \* device limits of the plans

VARIABLES
    limit,    \* plan_device_limit of the tenant
    tok,      \* tok[t]: the row: "absent", "valid", "used" or "expired"
    reusable, \* tokens that may be used repeatedly
    staged,   \* serial numbers of the rows CSV imports made, in their order
    enrolled, \* Macs with a row of their own
    named,    \* those whose row has the serial number by now
    paid,     \* history: the limit was above 0 once
    profiles, \* history: profiles handed out with each token
    shared,   \* history: single-use tokens that two downloads had found unused
    unmarked, \* history: tokens whose mark was lost after their profile had left
    crossed   \* history: serial numbers that two imports had found missing

tokens == <<tok, reusable, profiles, shared, unmarked>>
plan   == <<limit, paid>>
rows   == <<staged, enrolled, named, crossed>>
vars   == <<handlers, plan, tokens, rows>>

--------------------------------------------------------------------------------
\* Signup leaves a limit of 0.
Init ==
    /\ HandlersInit
    /\ limit = 0 /\ paid = FALSE
    /\ tok = [t \in Token |-> "absent"] /\ reusable = {}
    /\ staged = <<>> /\ enrolled = {} /\ named = {}
    /\ profiles = [t \in Token |-> 0] /\ shared = {} /\ unmarked = {} /\ crossed = {}

\* The webhook opens, changes or ends the plan.
PlanChanges(n) ==
    /\ n \in Limits \cup {0} /\ n # limit
    /\ AtOnce
    /\ limit' = n
    /\ paid'  = TRUE
    /\ UNCHANGED <<tokens, rows>>

--------------------------------------------------------------------------------
(* Tokens.                                                                      *)

\* The Device rows of the tenant: a staged row and the Mac's own count as two.
Devices == Len(staged) + Cardinality(enrolled)

\* _check_device_limit, asked for when a token is made and never again.
UnderLimit == Devices < limit

CreateToken(h, t, many) ==
    /\ UnderLimit
    /\ tok[t] = "absent" /\ \A i \in Handler : request[i].op = "token" => request[i].token # t
    /\ Begin(h, [op |-> "token", token |-> t, reusable |-> many])
    /\ UNCHANGED <<plan, tokens, rows>>

CommitToken(h) ==
    /\ Finish(h, "token")
    /\ tok' = [tok EXCEPT ![request[h].token] = "valid"]
    /\ reusable' = IF request[h].reusable THEN reusable \cup {request[h].token} ELSE reusable
    /\ UNCHANGED <<plan, rows, profiles, shared, unmarked>>

TokenExpires(t) ==
    /\ tok[t] = "valid"
    /\ tok' = [tok EXCEPT ![t] = "expired"]
    /\ UNCHANGED <<handlers, plan, rows, reusable, profiles, shared, unmarked>>

\* GET /enrollment/{token}; the landing page for browsers changes nothing.
Download(h, t) ==
    /\ tok[t] = "valid"
    /\ Begin(h, [op |-> "profile", token |-> t])
    /\ UNCHANGED <<plan, tokens, rows>>

\* A profile leaves; whether another download has found its token unused is noted.
Leaves(h, t) ==
    /\ profiles' = [profiles EXCEPT ![t] = @ + 1]
    /\ shared' = IF tok[t] = "used" \/ \E i \in Handler \ {h} : request[i] = [op |-> "mark", token |-> t]
                 THEN shared \cup {t} ELSE shared

HandOut(h) ==
    LET t == request[h].token
    IN  /\ Reply(h, "profile", [op |-> "mark", token |-> t])
        /\ Leaves(h, t)
        /\ UNCHANGED <<plan, rows, tok, reusable, unmarked>>

\* A mutant: the flag is not written.
CommitUnmarked(h) ==
    /\ Finish(h, Due("profile", "mark"))
    /\ IF CommitBeforeReply THEN Leaves(h, request[h].token) ELSE UNCHANGED <<profiles, shared>>
    /\ UNCHANGED <<plan, rows, tok, reusable, unmarked>>
\* A single-use token is marked; there is no condition on the flag.
CommitMark(h) ==
    LET t == request[h].token
    IN  /\ Finish(h, Due("profile", "mark"))
        /\ tok' = IF t \in reusable THEN tok ELSE [tok EXCEPT ![t] = "used"]
        /\ IF CommitBeforeReply THEN Leaves(h, t) ELSE UNCHANGED <<profiles, shared>>
        /\ UNCHANGED <<plan, rows, reusable, unmarked>>

--------------------------------------------------------------------------------
(* Rows.                                                                        *)

\* A Mac installs a profile; its first TokenUpdate inserts a row, found by UDID and
\* without a serial number.
Enroll(m) ==
    /\ m \notin enrolled /\ \E t \in Token : profiles[t] > 0
    /\ enrolled' = enrolled \cup {m}
    /\ UNCHANGED <<handlers, plan, tokens, staged, named, crossed>>

\* The answer to DeviceInformation tells the serial number.
TellSerial(m) ==
    /\ m \in enrolled \ named
    /\ named' = named \cup {m}
    /\ UNCHANGED <<handlers, plan, tokens, staged, enrolled, crossed>>

Serials == Range(staged) \cup named

\* A CSV with the serial number of m; a known one is skipped, the limit not asked for.
ReadCsv(h, m) ==
    /\ m \notin Serials
    /\ Begin(h, [op |-> "import", mac |-> m, fresh |-> m \notin Serials])
    /\ UNCHANGED <<plan, tokens, rows>>

\* No constraint keeps two imports from staging one serial number twice.
CommitImport(h) ==
    LET m == request[h].mac
    IN  /\ Finish(h, "import")
        /\ staged'  = Append(staged, m)
        /\ crossed' = IF request[h].fresh /\ m \in Serials THEN crossed \cup {m} ELSE crossed
        /\ UNCHANGED <<plan, tokens, enrolled, named>>

--------------------------------------------------------------------------------
\* The mark of a profile that has left is rolled back.
RequestFails(h) ==
    /\ Abandon(h)
    /\ unmarked' = IF request[h].op = "mark" THEN unmarked \cup {request[h].token} ELSE unmarked
    /\ UNCHANGED <<plan, tok, reusable, profiles, shared, rows>>

Admin == \/ \E n \in Limits \cup {0} : PlanChanges(n)
         \/ \E h \in Handler, t \in Token : CreateToken(h, t, TRUE) \/ CreateToken(h, t, FALSE)
         \/ \E h \in Handler, m \in Mac : ReadCsv(h, m)
         \/ \E h \in Handler : CommitToken(h) \/ CommitImport(h) \/ RequestFails(h)
Arrivals == \/ \E h \in Handler, t \in Token : Download(h, t)
            \/ \E h \in Handler : HandOut(h) \/ CommitMark(h)
            \/ \E m \in Mac : Enroll(m) \/ TellSerial(m)

Next == Admin \/ Arrivals \/ (\E t \in Token : TokenExpires(t)) \/ (Quiet /\ UNCHANGED vars)

Spec == Init /\ [][Next]_vars

--------------------------------------------------------------------------------
(* Properties.                                                                  *)

\* What a handler may have in its hands.
Operation ==
    {Free} \cup [op : {"token"}, token : Token, reusable : BOOLEAN]
           \cup [op : {"profile", "mark"}, token : Token]
           \cup [op : {"import"}, mac : Mac, fresh : BOOLEAN]

\* Every variable has its type.
TypeOK ==
    /\ request \in [Handler -> Operation] /\ begun \in 0..MaxRequests /\ faults \in 0..MaxFaults
    /\ limit \in Limits \cup {0} /\ paid \in BOOLEAN
    /\ tok \in [Token -> {"absent", "valid", "used", "expired"}] /\ reusable \subseteq Token
    /\ staged \in Seq(Mac) /\ enrolled \subseteq Mac /\ named \subseteq enrolled
    /\ profiles \in [Token -> Nat] /\ shared \cup unmarked \subseteq Token /\ crossed \subseteq Mac

\* A tenant that has never had a plan gets no device but staged rows: the limit, asked for
\* when a token is made, is 0 until then.
NoPlanNoEnrollment == ~paid => enrolled = {} /\ \A t \in Token : tok[t] = "absent"

\* A single-use token gives two profiles only when two downloads found it unused, or its
\* mark was lost after the first had left.
SingleUse == \A t \in Token : profiles[t] > 1 => t \in reusable \/ t \in shared \/ t \in unmarked

\* A serial number is staged once unless two imports overlapped.
StagedOnce ==
    \A m \in Mac : Cardinality({i \in DOMAIN staged : staged[i] = m}) > 1 => m \in crossed
================================================================================
