-------------------------------- MODULE Profiles -------------------------------
(***************************************************************************)
(* The stored configuration profiles of one tenant with their version      *)
(* history, and the routes that queue profiles for its Macs.               *)
(*                                                                         *)
(* An update that changes a column writes it before it reads the highest   *)
(* version number, because the session flushes first: it then holds the    *)
(* lock of the profile's row.  One that changes nothing takes no lock.     *)
(***************************************************************************)
EXTENDS Handlers, Sequences, FiniteSetsExt

CONSTANTS
    Profile,  \* Profile ids
    Payload,  \* what a stored profile can say
    Mac       \* the Macs of the tenant

VARIABLES
    profile,  \* profile[f]: the status of the row ("unborn", "stored", "deleted"), its payload
    version,  \* version[f]: the ProfileVersion rows of f in the order of their commits
    managed, \* Macs that are managed
    queued,   \* queued[m]: what the commands queued for m ask for
    mixed     \* history: profiles whose last update had crossed another

history == <<profile, version, mixed>>
macs    == <<managed, queued>>
vars    == <<handlers, history, macs>>

--------------------------------------------------------------------------------
Stored == {f \in Profile : profile[f].status = "stored"}

\* Profiles the server builds itself, and those it can remove again.
Restriction == {"usb", "gatekeeper", "icloud"}
Removable   == {"usb", "icloud"}

Init ==
    /\ HandlersInit
    /\ profile = [f \in Profile |-> [status |-> "unborn", payload |-> CHOOSE p \in Payload : TRUE]]
    /\ version = [f \in Profile |-> <<>>]
    /\ managed = {} /\ queued = [m \in Mac |-> {}]
    /\ mixed = {}

--------------------------------------------------------------------------------
(* The history.                                                                 *)

Highest(f) == Max({0} \cup {version[f][i].number : i \in DOMAIN version[f]})

Locked(f) == \E i \in Handler : request[i].op = "update" /\ request[i].profile = f
                                   /\ request[i].locks /\ request[i].number > 0

CreateProfile(f, p) ==
    /\ profile[f].status = "unborn" /\ AtOnce
    /\ profile' = [profile EXCEPT ![f] = [status |-> "stored", payload |-> p]]
    /\ version' = [version EXCEPT ![f] = <<[number |-> 1, payload |-> p]>>]
    /\ UNCHANGED <<mixed, macs>>

\* A new payload p, a new name, or neither: p is then what is stored.  Without a write the
\* number is read at once.
LoadUpdate(h, f, p, renamed) ==
    LET saw   == profile[f].payload
        locks == p # saw \/ renamed
    IN  /\ f \in Stored
        /\ Begin(h, [op |-> "update", profile |-> f, saw |-> saw, payload |-> p, locks |-> locks,
                     number |-> IF locks THEN 0 ELSE Highest(f) + 1])
        /\ UNCHANGED <<history, macs>>

\* The flush writes the row and waits for its lock; a row that is gone fails the request.
FlushUpdate(h) ==
    LET q == request[h]
    IN  /\ q.op = "update" /\ q.number = 0 /\ ~Locked(q.profile)
        /\ request' = [request EXCEPT ![h] = IF q.profile \in Stored
                          THEN [q EXCEPT !.number = Highest(q.profile) + 1] ELSE Free]
        /\ UNCHANGED <<begun, faults, history, macs>>

\* A mutant: the snapshot is taken before the change.
SnapshotBefore(q) == [number |-> q.number, payload |-> q.saw]
Snapshot(q)       == [number |-> q.number, payload |-> q.payload]

\* The payload is written when it differs from what was read.  No constraint keeps two
\* rows from having one number.
CommitUpdate(h) ==
    LET q == request[h]
        f == q.profile
    IN  /\ q.op = "update" /\ q.number > 0 /\ Finish(h, "update")
        /\ IF f \in Stored
           THEN /\ profile' = IF q.payload # q.saw THEN [profile EXCEPT ![f].payload = q.payload] ELSE profile
                /\ version' = [version EXCEPT ![f] = Append(@, Snapshot(q))]
                /\ mixed' = IF q.saw # profile[f].payload \/ q.number <= Highest(f)
                            THEN mixed \cup {f} ELSE mixed \ {f}
           ELSE UNCHANGED history
        /\ UNCHANGED macs

\* The versions go with the profile; commands that were queued stay.
DeleteProfile(f) ==
    /\ f \in Stored /\ ~Locked(f) /\ AtOnce
    /\ profile' = [profile EXCEPT ![f].status = "deleted"]
    /\ version' = [version EXCEPT ![f] = <<>>]
    /\ UNCHANGED <<mixed, macs>>

--------------------------------------------------------------------------------
(* Commands.                                                                    *)

\* A request that will queue a command for each Mac of T.
Push(h, command, T) ==
    /\ T # {}
    /\ Begin(h, [op |-> "push", command |-> command, targets |-> T])
    /\ UNCHANGED <<history, macs>>

\* All enrolled Macs, or one of them.
Targets == {managed} \cup {{m} : m \in managed}

\* The server builds these from the tenant: no payload to tell apart.
PushPsso(h, T)           == Push(h, [ask |-> "install", what |-> "psso"], T)
PushRestriction(h, c, T) == Push(h, [ask |-> "install", what |-> c], T)
PushOneDrive(h, T)       == Push(h, [ask |-> "install", what |-> "onedrive"], T)

\* One Mac is given the USB restriction, or loses one, whatever its status.
PushUsbDevice(h, m)        == PushRestriction(h, "usb", {m})
RemoveRestriction(h, c, m) == Push(h, [ask |-> "remove", what |-> c], {m})

\* A stored profile, as it is when it is read, for all.
PushStored(h, f) ==
    f \in Stored /\ Push(h, [ask |-> "install", what |-> f, payload |-> profile[f].payload], managed)

CommitPush(h) ==
    LET q == request[h]
    IN  /\ Finish(h, "push")
        /\ queued' = [m \in Mac |-> IF m \in q.targets THEN queued[m] \cup {q.command} ELSE queued[m]]
        /\ UNCHANGED <<history, managed>>

\* A Mac enrolls, or leaves; its commands stay queued.
Enroll(m) == m \notin managed /\ managed' = managed \cup {m} /\ UNCHANGED <<handlers, history, queued>>
Leave(m)  == m \in managed /\ managed' = managed \ {m} /\ UNCHANGED <<handlers, history, queued>>

--------------------------------------------------------------------------------
RequestFails(h) == Abandon(h) /\ UNCHANGED <<history, macs>>

Next ==
    \/ \E f \in Profile :
          \/ \E p \in Payload : CreateProfile(f, p)
          \/ DeleteProfile(f)
          \/ \E h \in Handler :
                PushStored(h, f) \/ \E p \in Payload, renamed \in BOOLEAN : LoadUpdate(h, f, p, renamed)
    \/ \E h \in Handler, T \in Targets :
          PushPsso(h, T) \/ PushOneDrive(h, T) \/ \E c \in Restriction : PushRestriction(h, c, T)
    \/ \E h \in Handler, m \in Mac :
          PushUsbDevice(h, m) \/ \E c \in Removable : RemoveRestriction(h, c, m)
    \/ \E h \in Handler : FlushUpdate(h) \/ CommitUpdate(h) \/ CommitPush(h) \/ RequestFails(h)
    \/ \E m \in Mac : Enroll(m) \/ Leave(m)
    \/ Quiet /\ UNCHANGED vars

Spec == Init /\ [][Next]_vars

--------------------------------------------------------------------------------
(* Properties.                                                                  *)

Numbers(f) == {version[f][i].number : i \in DOMAIN version[f]}

\* Every variable has its type.
TypeOK ==
    /\ begun \in 0..MaxRequests /\ faults \in 0..MaxFaults
    /\ profile \in [Profile -> [status : {"unborn", "stored", "deleted"}, payload : Payload]]
    /\ version \in [Profile -> Seq([number : Nat \ {0}, payload : Payload])]
    /\ \A f \in Profile : f \in Stored <=> version[f] # <<>>
    /\ managed \subseteq Mac /\ DOMAIN queued = Mac /\ mixed \subseteq Profile

\* The versions of a profile are numbered without a gap, and tell every payload of it that
\* a Mac is asked to install.
HistoryComplete ==
    \A f \in Stored :
        /\ Numbers(f) = 1..Highest(f)
        /\ \A m \in Mac : \A c \in queued[m] :
              c.what = f => \E i \in DOMAIN version[f] : version[f][i].payload = c.payload

\* The newest version tells what is stored, unless the update that wrote it crossed another.
LatestIsPayload ==
    \A f \in Stored \ mixed : \A i \in DOMAIN version[f] :
        version[f][i].number = Highest(f) => version[f][i].payload = profile[f].payload
================================================================================
