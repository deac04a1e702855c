--------------------------------- MODULE Groups --------------------------------
(***************************************************************************)
(* The device groups of one tenant: memberships, and the bulk actions that *)
(* queue a command for every member.                                       *)
(***************************************************************************)
EXTENDS Handlers

CONSTANTS
    Group,   \* DeviceGroup ids
    Device   \* Device ids

VARIABLES
    groups,  \* groups with a row
    devices, \* devices with a row
    member,  \* member[g][d]: DeviceGroupMember rows of device d in group g
    bulk,    \* bulk[d]: most commands one bulk action queued for d
    doubled, \* history: memberships two requests had found missing, or one named twice
    excused  \* history: devices that were in doubled when a bulk action read

vars == <<handlers, groups, devices, member, bulk, doubled, excused>>

--------------------------------------------------------------------------------
Memberships == Group \X Device

Init ==
    /\ HandlersInit
    /\ groups = {} /\ devices = Device
    /\ member = [g \in Group |-> [d \in Device |-> 0]]
    /\ bulk = [d \in Device |-> 0]
    /\ doubled = {} /\ excused = {}

CreateGroup(g) ==
    /\ g \notin groups /\ AtOnce
    /\ \A i \in Handler : request[i].op # "none" => request[i].group # g
    /\ groups' = groups \cup {g}
    /\ UNCHANGED <<devices, member, bulk, doubled, excused>>

\* The memberships go with a group, and with a device.
Without(G, D) == [g \in Group |-> [d \in Device |-> IF g \in G \/ d \in D THEN 0 ELSE member[g][d]]]
Forget(G, D)  == doubled' = {x \in doubled : x[1] \notin G /\ x[2] \notin D}

DeleteGroup(g) ==
    /\ g \in groups /\ AtOnce
    /\ groups' = groups \ {g}
    /\ member' = Without({g}, {}) /\ Forget({g}, {})
    /\ UNCHANGED <<devices, bulk, excused>>

\* A device that commands refer to cannot be deleted.
DeleteDevice(d) ==
    /\ d \in devices /\ bulk[d] = 0 /\ AtOnce
    /\ devices' = devices \ {d}
    /\ member' = Without({}, {d}) /\ Forget({}, {d})
    /\ UNCHANGED <<groups, bulk, excused>>

--------------------------------------------------------------------------------
\* A list that may name a device more than once; the devices the group has are skipped.
AddDevices(h, g, body, times) ==
    LET new == {d \in body \cap devices : member[g][d] = 0}
    IN  /\ g \in groups /\ new # {}
        /\ Begin(h, [op |-> "add", group |-> g, new |-> new, times |-> times, bare |-> new])
        /\ UNCHANGED <<groups, devices, member, bulk, doubled, excused>>

\* One row per mention; a group or a device deleted meanwhile fails the whole request.
CommitAdd(h) ==
    LET q == request[h]
    IN  /\ Finish(h, "add")
        /\ IF q.group \in groups /\ q.new \subseteq devices
           THEN /\ member' = [member EXCEPT ![q.group] =
                                [d \in Device |-> IF d \in q.new THEN @[d] + q.times ELSE @[d]]]
                /\ doubled' = doubled \cup {<<q.group, d>> : d \in
                                {e \in q.bare : q.times > 1 \/ member[q.group][e] > 0}}
           ELSE UNCHANGED <<member, doubled>>
        /\ UNCHANGED <<groups, devices, bulk, excused>>

\* Every row of the device in the group goes, so that a double membership ends.
RemoveDevice(g, d) ==
    /\ g \in groups /\ member[g][d] > 0 /\ AtOnce
    /\ member' = [member EXCEPT ![g][d] = 0]
    /\ doubled' = doubled \ {<<g, d>>}
    /\ UNCHANGED <<groups, devices, bulk, excused>>

\* The join has a row per membership, not per device, and each becomes a command.
BulkAction(h, g) ==
    /\ g \in groups /\ \E d \in Device : member[g][d] > 0
    /\ Begin(h, [op |-> "bulk", group |-> g, rows |-> member[g],
                 excused |-> {d \in Device : <<g, d>> \in doubled}])
    /\ UNCHANGED <<groups, devices, member, bulk, doubled, excused>>

\* A device deleted meanwhile fails the request.
CommitBulk(h) ==
    LET q == request[h]
    IN  /\ Finish(h, "bulk")
        /\ IF \A d \in Device : q.rows[d] > 0 => d \in devices
           THEN /\ bulk' = [d \in Device |-> IF q.rows[d] > bulk[d] THEN q.rows[d] ELSE bulk[d]]
                /\ excused' = excused \cup q.excused
           ELSE UNCHANGED <<bulk, excused>>
        /\ UNCHANGED <<groups, devices, member, doubled>>

--------------------------------------------------------------------------------
RequestFails(h) == Abandon(h) /\ UNCHANGED <<groups, devices, member, bulk, doubled, excused>>

Next ==
    \/ \E g \in Group : CreateGroup(g) \/ DeleteGroup(g) \/ \E d \in Device : RemoveDevice(g, d)
    \/ \E d \in Device : DeleteDevice(d)
    \/ \E h \in Handler, g \in Group :
          BulkAction(h, g) \/ \E body \in SUBSET Device, times \in 1..2 : AddDevices(h, g, body, times)
    \/ \E h \in Handler : CommitAdd(h) \/ CommitBulk(h) \/ RequestFails(h)
    \/ Quiet /\ UNCHANGED vars

Spec == Init /\ [][Next]_vars

--------------------------------------------------------------------------------
(* Properties.                                                                  *)

\* What a handler may have in its hands.
Operation ==
    {Free} \cup [op : {"add"}, group : Group, new : SUBSET Device, times : 1..2, bare : SUBSET Device]
           \cup [op : {"bulk"}, group : Group, rows : [Device -> Nat], excused : SUBSET Device]

\* Every variable has its type.
TypeOK ==
    /\ request \in [Handler -> Operation] /\ begun \in 0..MaxRequests /\ faults \in 0..MaxFaults
    /\ groups \subseteq Group /\ devices \subseteq Device
    /\ member \in [Group -> [Device -> Nat]]
    /\ \A x \in Memberships : member[x[1]][x[2]] > 0 => x[1] \in groups /\ x[2] \in devices
    /\ bulk \in [Device -> Nat] /\ excused \subseteq Device /\ doubled \subseteq Memberships

\* A bulk action queues two commands for a device, two erasures say, only when its
\* membership was doubled: by additions that both found it missing, or one naming it twice.
BulkOnce == \A d \in Device : bulk[d] > 1 => d \in excused
================================================================================
