---------------------------- MODULE PeerRegistry -----------------------------
(***************************************************************************)
(* The registration of one peer id (peer.rs, database.rs and the RegisterPk *)
(* core of rendezvous_server.rs).                                          *)
(*                                                                         *)
(* A peer lives twice: as a row of the SQLite table `peer' and as a shared *)
(* object behind PeerMap.  Connection tasks register machines and look the *)
(* id up, administrators set its status and delete it, and hbbs restarts;  *)
(* each of these awaits the map lock, the object lock and the one database *)
(* connection in turn, holding none of them while it waits for the next.   *)
(* One await is one action.                                                *)
(***************************************************************************)
EXTENDS Naturals, Sequences

CONSTANTS Tasks,      \* connection tasks
          Admins,     \* requests of the admin API that are served concurrently
          Requests,   \* the RegisterPk frames: [uuid, pk, ip]
          Faults,     \* which of "db_error", "delete" and "restart" happen
          MaxOps,     \* bound: registrations and look-ups started since the last restart
          MaxRows,    \* bound: the rows ever inserted
          Nothing     \* no row, no request, an empty uuid or pk

Uuids == {r.uuid : r \in Requests}
Pks == {r.pk : r \in Requests}
Ips == {r.ip : r \in Requests}
Status == {"unset", "blocked", "allowed"}

\* guid 0 is the empty guid of an object that has no row yet.
Row == [guid : Nat, uuid : Uuids, pk : Pks, ip : Ips, status : Status]

ASSUME RegistryAssumption ==
  /\ Faults \subseteq {"db_error", "delete", "restart"}
  /\ MaxOps \in Nat /\ MaxRows \in Nat
  /\ Nothing \notin Requests /\ Nothing \notin Row
  /\ \A r \in Requests : Nothing \notin {r.uuid, r.pk, r.ip}

VARIABLES
  row,      \* the row under the id, or Nothing
  inserts,  \* rows inserted so far: the next guid is one more
  objects,  \* the LockPeer objects some task or the map may hold
  map,      \* which object PeerMap has under the id; 0 for none
  task,     \* per task: where it is, its frame, the row it fetched, its object, its guid
  admin,    \* per administrator: where it is, the status to set, the object it found
  ops,      \* how many task operations were started
  acked     \* history: machines told OK since the row was last deleted

vars == <<row, inserts, objects, map, task, admin, ops, acked>>

Object == [guid : Nat, uuid : Uuids \cup {Nothing}, pk : Pks \cup {Nothing},
           ip : Ips \cup {Nothing}, status : Status, stale : BOOLEAN]

Idle == [at |-> "idle", req |-> Nothing, seen |-> Nothing, obj |-> 0, guid |-> 0]
AdminIdle == [at |-> "idle", status |-> "unset", obj |-> 0]

Places == {"idle", "gate", "find", "fetch", "install", "default", "compare", "write",
           "store", "set_guid"}
Task == [at : Places, req : Requests \cup {Nothing}, seen : Row \cup {Nothing},
         obj : Nat, guid : Nat]
Change == [at : {"idle", "find", "apply", "unmap"}, status : Status, obj : Nat]

TypeOK ==
  /\ row \in Row \cup {Nothing}
  /\ inserts \in Nat
  /\ objects \in Seq(Object)
  /\ map \in 0..Len(objects)
  /\ task \in [Tasks -> Task]
  /\ admin \in [Admins -> Change]
  /\ ops \in 0..MaxOps
  /\ acked \subseteq Uuids

Init ==
  /\ row = Nothing /\ inserts = 0
  /\ objects = <<>> /\ map = 0
  /\ task = [t \in Tasks |-> Idle]
  /\ admin = [a \in Admins |-> AdminIdle]
  /\ ops = 0
  /\ acked = {}

-----------------------------------------------------------------------------
(* PeerMap::get and PeerMap::get_or.                                       *)

At(t, place) == task[t].at = place
Goto(t, place) == task' = [task EXCEPT ![t].at = place]
Return(t) == task' = [task EXCEPT ![t] = Idle]

IsLookup(t) == task[t].req = Nothing

\* A look-up is over once it has its object; a registration compares it next.
Got(t, obj) ==
  IF IsLookup(t)
    THEN Return(t)
    ELSE task' = [task EXCEPT ![t] = [at |-> "compare", req |-> @.req, seen |-> Nothing,
                                      obj |-> obj, guid |-> 0]]

Begin(t, place, req) ==
  /\ At(t, "idle")
  /\ ops < MaxOps /\ inserts < MaxRows
  /\ ops' = ops + 1
  /\ task' = [task EXCEPT ![t] = [at |-> place, req |-> req, seen |-> Nothing, obj |-> 0, guid |-> 0]]
  /\ UNCHANGED <<row, inserts, objects, map, admin, acked>>

\* A PunchHoleRequest or a request for the id's key calls `get'.
StartLookup(t) == Begin(t, "find", Nothing)

FindInMap(t) ==
  /\ At(t, "find")
  /\ IF map # 0 THEN Got(t, map) ELSE Goto(t, "fetch")
  /\ UNCHANGED <<row, inserts, objects, map, admin, ops, acked>>

\* db.get_peer; an error counts as no row.
Fetch(t) ==
  /\ At(t, "fetch")
  /\ \/ /\ row # Nothing
        /\ task' = [task EXCEPT ![t] = [at |-> "install", req |-> @.req, seen |-> row,
                                        obj |-> 0, guid |-> 0]]
     \/ /\ row = Nothing \/ "db_error" \in Faults
        /\ IF IsLookup(t) THEN Return(t) ELSE Goto(t, "default")
  /\ UNCHANGED <<row, inserts, objects, map, admin, ops, acked>>

\* The fetched row becomes an object that replaces whatever the map holds by now.
Install(t) ==
  LET seen == task[t].seen
  IN /\ At(t, "install")
     /\ objects' = Append(objects, [guid |-> seen.guid, uuid |-> seen.uuid, pk |-> seen.pk,
                                    ip |-> seen.ip, status |-> seen.status,
                                    stale |-> seen # row])
     /\ map' = Len(objects) + 1
     /\ Got(t, Len(objects) + 1)
     /\ UNCHANGED <<row, inserts, admin, ops, acked>>

\* get_or: under the map's write lock, the object that is there or a default one.
Default(t) ==
  /\ At(t, "default")
  /\ IF map # 0
       THEN Got(t, map) /\ UNCHANGED <<objects, map>>
       ELSE /\ objects' = Append(objects, [guid |-> 0, uuid |-> Nothing, pk |-> Nothing,
                                           ip |-> Nothing, status |-> "unset", stale |-> FALSE])
            /\ map' = Len(objects) + 1
            /\ Got(t, Len(objects) + 1)
  /\ UNCHANGED <<row, inserts, admin, ops, acked>>

-----------------------------------------------------------------------------
(* register_pk_core and PeerMap::update_pk.                                *)

StartRegister(t, r) == Begin(t, "gate", r)

\* peer_status: the object's if there is one, else the row's; an error is no block.
KnownStatus ==
  IF map # 0 THEN {objects[map].status}
  ELSE (IF row # Nothing THEN {row.status} ELSE {"unset"})
       \cup (IF "db_error" \in Faults THEN {"unset"} ELSE {})

\* is_peer_blocked, then check_ip_blocker, whose counters are not modelled.
Gate(t) ==
  /\ At(t, "gate")
  /\ \/ Return(t)
     \/ (\E s \in KnownStatus : s # "blocked") /\ Goto(t, "find")
  /\ UNCHANGED <<row, inserts, objects, map, admin, ops, acked>>

\* The answer is OK, whatever update_pk returned.
Ack(t) ==
  /\ acked' = acked \cup {task[t].req.uuid}
  /\ Return(t)

UuidMismatch(o, r) ==
  /\ o.uuid # Nothing
  /\ o.uuid # r.uuid \/ (o.ip # r.ip /\ o.pk # r.pk)

Changed(o, r) == o.uuid = Nothing \/ o.pk # r.pk \/ o.ip # r.ip

\* Under the object's read lock; then the reg_pk counter may refuse the frame.
Compare(t) ==
  LET o == objects[task[t].obj]
      r == task[t].req
  IN /\ At(t, "compare")
     /\ \/ Return(t) /\ UNCHANGED acked
        \/ /\ ~UuidMismatch(o, r)
           /\ IF Changed(o, r) THEN Goto(t, "write") /\ UNCHANGED acked ELSE Ack(t)
     /\ UNCHANGED <<row, inserts, objects, map, admin, ops>>

WriteObject(t, o) ==
  /\ At(t, "write")
  /\ objects' = [objects EXCEPT ![task[t].obj] = o]
  /\ task' = [task EXCEPT ![t] = [at |-> "store", req |-> @.req, seen |-> Nothing, obj |-> @.obj,
                                  guid |-> o.guid]]
  /\ UNCHANGED <<row, inserts, map, admin, ops, acked>>

\* Mutant: the uuid in memory stays the old one.
Write_KeepsUuid(t) ==
  LET o == objects[task[t].obj]
      r == task[t].req
  IN WriteObject(t, [guid |-> o.guid, uuid |-> o.uuid, pk |-> r.pk, ip |-> r.ip,
                     status |-> o.status, stale |-> o.stale])

\* Under the object's write lock, which is given back before the database is asked.
Write(t) ==
  LET o == objects[task[t].obj]
      r == task[t].req
  IN WriteObject(t, [guid |-> o.guid, uuid |-> r.uuid, pk |-> r.pk, ip |-> r.ip,
                     status |-> o.status, stale |-> o.stale])

\* insert_peer makes a row with a new guid; the unique index on id allows one.
InsertRow(t) ==
  LET r == task[t].req
  IN /\ row' = [guid |-> inserts + 1, uuid |-> r.uuid, pk |-> r.pk, ip |-> r.ip, status |-> "unset"]
     /\ inserts' = inserts + 1
     /\ task' = [task EXCEPT ![t] = [at |-> "set_guid", req |-> @.req, seen |-> Nothing,
                                     obj |-> @.obj, guid |-> inserts + 1]]
     /\ UNCHANGED acked

\* update_pk: "where guid=?", and the uuid is not written.
UpdateRow(t) ==
  LET r == task[t].req
  IN /\ row' = IF row # Nothing /\ row.guid = task[t].guid
                 THEN [guid |-> row.guid, uuid |-> row.uuid, pk |-> r.pk, ip |-> r.ip,
                       status |-> row.status]
                 ELSE row
     /\ Ack(t)
     /\ UNCHANGED inserts

StoreError(t) == Ack(t) /\ UNCHANGED <<row, inserts>>

\* Mutants: the insert replaces a row that is there; a new machine is not stored.
Store_Replaces(t) ==
  /\ At(t, "store")
  /\ IF task[t].guid = 0 THEN InsertRow(t) ELSE UpdateRow(t)
  /\ UNCHANGED <<objects, map, admin, ops>>
Store_Skipped(t) ==
  /\ At(t, "store")
  /\ IF task[t].guid = 0 THEN StoreError(t) ELSE UpdateRow(t)
  /\ UNCHANGED <<objects, map, admin, ops>>

Store(t) ==
  /\ At(t, "store")
  /\ \/ task[t].guid = 0 /\ row = Nothing /\ InsertRow(t)
     \/ task[t].guid # 0 /\ UpdateRow(t)
     \/ (task[t].guid = 0 /\ row # Nothing) /\ StoreError(t)
     \/ "db_error" \in Faults /\ StoreError(t)
  /\ UNCHANGED <<objects, map, admin, ops>>

SetGuid(t) ==
  LET o == objects[task[t].obj]
  IN /\ At(t, "set_guid")
     /\ objects' = [objects EXCEPT ![task[t].obj] =
                      [guid |-> task[t].guid, uuid |-> o.uuid, pk |-> o.pk, ip |-> o.ip,
                       status |-> o.status, stale |-> o.stale]]
     /\ Ack(t)
     /\ UNCHANGED <<row, inserts, map, admin, ops>>

-----------------------------------------------------------------------------
(* The admin API: set_peer_status and delete_registered.                   *)

\* A row that is not there is reported as "peer not found".
AdminUpdate(a, s) ==
  /\ admin[a].at = "idle" /\ row # Nothing
  /\ row' = [guid |-> row.guid, uuid |-> row.uuid, pk |-> row.pk, ip |-> row.ip, status |-> s]
  /\ admin' = [admin EXCEPT ![a] = [at |-> "find", status |-> s, obj |-> 0]]
  /\ UNCHANGED <<inserts, objects, map, task, ops, acked>>

\* Mutant: the object in memory is forgotten.
AdminFind_Forgets(a) ==
  /\ admin[a].at = "find"
  /\ admin' = [admin EXCEPT ![a] = AdminIdle]
  /\ UNCHANGED <<row, inserts, objects, map, task, ops, acked>>

AdminFind(a) ==
  /\ admin[a].at = "find"
  /\ admin' = [admin EXCEPT ![a] =
                 IF map = 0 THEN AdminIdle ELSE [at |-> "apply", status |-> @.status, obj |-> map]]
  /\ UNCHANGED <<row, inserts, objects, map, task, ops, acked>>

AdminApply(a) ==
  LET o == objects[admin[a].obj]
  IN /\ admin[a].at = "apply"
     /\ objects' = [objects EXCEPT ![admin[a].obj] =
                      [guid |-> o.guid, uuid |-> o.uuid, pk |-> o.pk, ip |-> o.ip,
                       status |-> admin[a].status, stale |-> o.stale]]
     /\ admin' = [admin EXCEPT ![a] = AdminIdle]
     /\ UNCHANGED <<row, inserts, map, task, ops, acked>>

AdminDelete(a) ==
  /\ "delete" \in Faults
  /\ admin[a].at = "idle" /\ row # Nothing
  /\ row' = Nothing
  /\ acked' = {}
  /\ admin' = [admin EXCEPT ![a] = [at |-> "unmap", status |-> "unset", obj |-> 0]]
  /\ UNCHANGED <<inserts, objects, map, task, ops>>

AdminUnmap(a) ==
  /\ admin[a].at = "unmap"
  /\ map' = 0
  /\ admin' = [admin EXCEPT ![a] = AdminIdle]
  /\ UNCHANGED <<row, inserts, objects, task, ops, acked>>

\* hbbs stops and comes back: only the table is left.
Restart ==
  /\ "restart" \in Faults
  /\ objects' = <<>> /\ map' = 0
  /\ task' = [t \in Tasks |-> Idle]
  /\ admin' = [a \in Admins |-> AdminIdle]
  /\ ops' = 0
  /\ UNCHANGED <<row, inserts, acked>>

-----------------------------------------------------------------------------

TaskStep(t) ==
  \/ StartLookup(t) \/ (\E r \in Requests : StartRegister(t, r))
  \/ Gate(t) \/ FindInMap(t) \/ Fetch(t) \/ Install(t) \/ Default(t)
  \/ Compare(t) \/ Write(t) \/ Store(t) \/ SetGuid(t)

AdminStep(a) ==
  \/ (\E s \in Status : AdminUpdate(a, s)) \/ AdminFind(a) \/ AdminApply(a)
  \/ AdminDelete(a) \/ AdminUnmap(a)

Next == (\E t \in Tasks : TaskStep(t)) \/ (\E a \in Admins : AdminStep(a)) \/ Restart

Spec == Init /\ [][Next]_vars

\* Registrations over UDP are awaited one after the other by io_loop
\* (rendezvous_server.rs:505); over TCP every connection has a task of its own.
OneWriter == \A t, u \in Tasks : ~IsLookup(t) /\ ~IsLookup(u) => t = u
UdpSpec == Init /\ [][Next /\ OneWriter']_vars

-----------------------------------------------------------------------------

AdminsIdle == \A a \in Admins : admin[a].at = "idle"

\* The map's object was made from, or written to, the row that is there now.
MapsRow == row # Nothing /\ map # 0 /\ objects[map].guid = row.guid

\* However registrations, deletions and restarts interleave, a row keeps the uuid
\* it was inserted with: an id changes machines only after its row was deleted.
RowKeepsMachine ==
  [][row # Nothing /\ row' # Nothing => /\ row'.uuid = row.uuid
                                        /\ row'.guid = row.guid]_vars

\* Once set_peer_status has returned, the status in memory is the one in the row,
\* as far as the object was not installed from a row that had changed meanwhile.
StatusReachesMemory ==
  (AdminsIdle /\ MapsRow /\ ~objects[map].stale) => objects[map].status = row.status

\* A row holds the uuid and the key of one and the same machine: peer_key_map
\* publishes the key as "the peer's registered identity key".
RowIsOneMachine ==
  row # Nothing => \E r \in Requests : r.uuid = row.uuid /\ r.pk = row.pk

\* docs/nemo-management-api.md:188-190, "so new devices can appear in the peer list": a
\* machine that was told OK has the row of the id, with its uuid and one of its keys, until
\* an administrator deletes it.
AckedIsListed ==
  \A u \in acked : row # Nothing /\ row.uuid = u /\ \E r \in Requests : r.uuid = u /\ r.pk = row.pk

\* docs/nemo-management-api.md:184-186, "`0`: blocked": once the block is in the row and
\* set_peer_status has returned, the peer is not let through.
BlockIsSeen ==
  (AdminsIdle /\ row # Nothing /\ row.status = "blocked") => KnownStatus = {"blocked"}

-----------------------------------------------------------------------------
(* The inductive invariant behind RowIsOneMachine, for UdpSpec.            *)

\* A task and an administrator use an object, and a task a fetched row or a frame,
\* only where they have one.
HandlesAreHeld ==
  /\ \A t \in Tasks :
       /\ task[t].at \in {"compare", "write", "store", "set_guid"} =>
            ~IsLookup(t) /\ task[t].obj \in 1..Len(objects)
       /\ At(t, "install") => task[t].seen # Nothing
  /\ \A a \in Admins : admin[a].at = "apply" => admin[a].obj \in 1..Len(objects)

\* Whatever carries the guid of the row, be it an object, a fetched row or a task
\* about to write, carries the row's uuid as well; a new row has a new guid.
OfRow(guid) == row # Nothing /\ row.guid = guid

RowIsNumbered == row # Nothing => row.guid \in 1..inserts

ObjectsNameRow ==
  \A i \in 1..Len(objects) :
    /\ objects[i].guid <= inserts
    /\ OfRow(objects[i].guid) => objects[i].uuid = row.uuid

FetchedNamesRow ==
  \A t \in Tasks : At(t, "install") =>
    /\ task[t].seen.guid <= inserts
    /\ OfRow(task[t].seen.guid) => task[t].seen.uuid = row.uuid

WritersNameRow ==
  \A t \in Tasks :
    /\ At(t, "write") => objects[task[t].obj].uuid \in {Nothing, task[t].req.uuid}
    /\ task[t].at \in {"store", "set_guid"} =>
         /\ task[t].guid <= inserts
         /\ objects[task[t].obj].uuid = task[t].req.uuid
         /\ OfRow(task[t].guid) => row.uuid = task[t].req.uuid

IInv ==
  /\ TypeOK /\ HandlesAreHeld /\ OneWriter /\ RowIsNumbered
  /\ ObjectsNameRow /\ FetchedNamesRow /\ WritersNameRow /\ RowIsOneMachine
=============================================================================
