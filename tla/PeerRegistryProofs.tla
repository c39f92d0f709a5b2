------------------------- MODULE PeerRegistryProofs --------------------------
(***************************************************************************)
(* What holds of PeerRegistry for every set of tasks, administrators and   *)
(* machines: a row keeps its machine; with one registration at a time it   *)
(* holds the key of that machine, and a machine that was told OK has it;   *)
(* with one administrator at a time the status set is the one in memory.   *)
(***************************************************************************)
EXTENDS PeerRegistry, TLAPS

-----------------------------------------------------------------------------
(* A row keeps its machine.                                                *)

\* Registrations of whatever machines, on whatever connections, never change the guid
\* or the uuid of a row: only update_pk writes to a row that is there, and it leaves both.
THEOREM RowsKeepTheirMachine == Spec => RowKeepsMachine
  <1> DEFINE Keeps == row # Nothing /\ row' # Nothing => /\ row'.uuid = row.uuid
                                                        /\ row'.guid = row.guid
  <1>1. ASSUME [Next]_vars PROVE Keeps
    <2>1. CASE row' = row
      BY <2>1
    <2>2. ASSUME NEW t \in Tasks, Store(t) PROVE Keeps
      <3>1. row = Nothing \/ row' = row \/ UpdateRow(t)
        BY <2>2 DEF Store, StoreError
      <3>2. QED BY <3>1 DEF UpdateRow
    <2>3. ASSUME NEW a \in Admins, NEW s \in Status, AdminUpdate(a, s) PROVE Keeps
      BY <2>3 DEF AdminUpdate
    <2>4. ASSUME NEW a \in Admins, AdminDelete(a) PROVE Keeps
      BY <2>4 DEF AdminDelete
    <2>5. QED
      BY <1>1, <2>1, <2>2, <2>3, <2>4
      DEF Next, TaskStep, AdminStep, StartLookup, StartRegister, Begin, Gate, FindInMap, Fetch,
          Install, Default, Compare, Write, WriteObject, SetGuid, AdminFind, AdminApply,
          AdminUnmap, Restart, vars
  <1>2. QED BY <1>1, PTL DEF Spec, RowKeepsMachine

-----------------------------------------------------------------------------
(* Type correctness.                                                       *)

LEMMA FrameTypes ==
  ASSUME NEW r \in Requests
  PROVE  /\ r.uuid \in Uuids /\ r.pk \in Pks /\ r.ip \in Ips
         /\ r.uuid # Nothing /\ r # Nothing
  BY RegistryAssumption DEF Uuids, Pks, Ips

\* A step of one task leaves the tasks of the others alone.
LEMMA TaskMoves ==
  ASSUME TypeOK, NEW t \in Tasks, NEW v \in Task, task' = [task EXCEPT ![t] = v]
  PROVE  /\ task' \in [Tasks -> Task]
         /\ task'[t] = v
         /\ \A u \in Tasks \ {t} : task'[u] = task[u]
  BY DEF TypeOK

LEMMA BeginTask ==
  ASSUME TypeOK, NEW t \in Tasks, NEW place \in Places, NEW req \in Requests \cup {Nothing},
         Begin(t, place, req)
  PROVE  /\ task' \in [Tasks -> Task]
         /\ task'[t].at = place
         /\ \A u \in Tasks \ {t} : task'[u] = task[u]
  <1> DEFINE v == [at |-> place, req |-> req, seen |-> Nothing, obj |-> 0, guid |-> 0]
  <1>1. v \in Task
    BY DEF Task
  <1>2. task' = [task EXCEPT ![t] = v]
    BY DEF Begin
  <1>3. QED BY <1>1, <1>2, TaskMoves

LEMMA GotoTask ==
  ASSUME TypeOK, NEW t \in Tasks, NEW place \in Places, Goto(t, place)
  PROVE  /\ task' \in [Tasks -> Task]
         /\ task'[t] = [task[t] EXCEPT !.at = place] /\ task'[t].at = place
         /\ \A u \in Tasks \ {t} : task'[u] = task[u]
  <1>1. [task[t] EXCEPT !.at = place] \in Task /\ [task[t] EXCEPT !.at = place].at = place
    BY DEF TypeOK, Task
  <1>2. task' = [task EXCEPT ![t] = [task[t] EXCEPT !.at = place]]
    BY DEF Goto
  <1>3. QED BY <1>1, <1>2, TaskMoves

LEMMA ReturnTask ==
  ASSUME TypeOK, NEW t \in Tasks, Return(t)
  PROVE  /\ task' \in [Tasks -> Task]
         /\ task'[t].at = "idle"
         /\ \A u \in Tasks \ {t} : task'[u] = task[u]
  <1>1. Idle \in Task /\ Idle.at = "idle"
    BY DEF Task, Idle, Places
  <1>2. QED BY <1>1, TaskMoves DEF Return

\* With an object in hand a look-up ends and a registration goes on to compare it.
LEMMA GotTask ==
  ASSUME TypeOK, NEW t \in Tasks, NEW obj \in Nat, Got(t, obj)
  PROVE  /\ task' \in [Tasks -> Task]
         /\ \/ task'[t].at = "idle"
            \/ task'[t].at = "compare" /\ task'[t].req # Nothing /\ task'[t].obj = obj
         /\ \A u \in Tasks \ {t} : task'[u] = task[u]
  <1>1. CASE IsLookup(t)
    BY <1>1, ReturnTask DEF Got
  <1>2. CASE ~IsLookup(t)
    <2> DEFINE v == [at |-> "compare", req |-> task[t].req, seen |-> Nothing, obj |-> obj, guid |-> 0]
    <2>1. v \in Task
      BY DEF TypeOK, Task, Places
    <2>2. task' = [task EXCEPT ![t] = v]
      BY <1>2 DEF Got
    <2>3. v.req # Nothing /\ v.at = "compare" /\ v.obj = obj
      BY <1>2 DEF IsLookup
    <2>4. QED BY <2>1, <2>2, <2>3, TaskMoves
  <1>3. QED BY <1>1, <1>2

Typed == TypeOK /\ HandlesAreHeld

Using == {"compare", "write", "store", "set_guid"}

\* When one task moves and no object goes away, only that task's handles are in question.
LEMMA HandlesOfOneTask ==
  ASSUME Typed, NEW t \in Tasks,
         \A u \in Tasks \ {t} : task'[u] = task[u],
         admin' = admin,
         objects' \in Seq(Object), Len(objects) <= Len(objects'),
         task'[t].at \in Using => task'[t].req # Nothing /\ task'[t].obj \in 1..Len(objects'),
         task'[t].at = "install" => task'[t].seen # Nothing
  PROVE  HandlesAreHeld'
  <1>1. Len(objects) \in Nat /\ Len(objects') \in Nat
    BY DEF Typed, TypeOK
  <1>2. 1..Len(objects) \subseteq 1..Len(objects')
    BY <1>1
  <1>3. \A u \in Tasks :
          /\ task'[u].at \in Using => task'[u].req # Nothing /\ task'[u].obj \in 1..Len(objects')
          /\ task'[u].at = "install" => task'[u].seen # Nothing
    BY <1>2 DEF Typed, HandlesAreHeld, IsLookup, At, Using
  <1>4. \A a \in Admins : admin'[a].at = "apply" => admin'[a].obj \in 1..Len(objects')
    BY <1>2 DEF Typed, HandlesAreHeld
  <1>5. QED BY <1>3, <1>4 DEF HandlesAreHeld, IsLookup, At, Using

\* The steps of a task that leave the objects and the row alone.
LEMMA QuietStep ==
  ASSUME Typed, NEW t \in Tasks,
         task' \in [Tasks -> Task],
         \A u \in Tasks \ {t} : task'[u] = task[u],
         UNCHANGED <<row, inserts, objects, map, admin>>,
         ops' \in 0..MaxOps, acked' \subseteq Uuids,
         task'[t].at \in Using => task'[t].req # Nothing /\ task'[t].obj \in 1..Len(objects),
         task'[t].at = "install" => task'[t].seen # Nothing
  PROVE  Typed'
  <1>1. Len(objects) \in Nat /\ objects \in Seq(Object)
    BY DEF Typed, TypeOK
  <1>2. HandlesAreHeld'
    BY <1>1, HandlesOfOneTask
  <1>3. TypeOK'
    BY DEF Typed, TypeOK
  <1>4. QED BY <1>2, <1>3 DEF Typed

LEMMA BeginTyped ==
  ASSUME Typed, NEW t \in Tasks, NEW place \in {"find", "gate"}, NEW req \in Requests \cup {Nothing},
         Begin(t, place, req)
  PROVE  Typed'
  <1>1. /\ task' \in [Tasks -> Task] /\ task'[t].at = place
        /\ \A u \in Tasks \ {t} : task'[u] = task[u]
    BY BeginTask DEF Typed, Places
  <1>2. ops' \in 0..MaxOps /\ acked' \subseteq Uuids
    BY RegistryAssumption DEF Begin, Typed, TypeOK
  <1>3. QED BY <1>1, <1>2, QuietStep DEF Begin, Using

LEMMA GateTyped ==
  ASSUME Typed, NEW t \in Tasks, Gate(t)
  PROVE  Typed'
  <1>1. /\ task' \in [Tasks -> Task] /\ task'[t].at \in {"idle", "find"}
        /\ \A u \in Tasks \ {t} : task'[u] = task[u]
    <2>1. CASE Return(t)
      BY <2>1, ReturnTask DEF Typed
    <2>2. CASE Goto(t, "find")
      BY <2>2, GotoTask DEF Typed, Places
    <2>3. QED BY <2>1, <2>2 DEF Gate
  <1>2. ops' \in 0..MaxOps /\ acked' \subseteq Uuids
    BY DEF Gate, Typed, TypeOK
  <1>3. QED BY <1>1, <1>2, QuietStep DEF Gate, Using

LEMMA FindTyped ==
  ASSUME Typed, NEW t \in Tasks, FindInMap(t)
  PROVE  Typed'
  <1>1. map \in 0..Len(objects) /\ Len(objects) \in Nat
    BY DEF Typed, TypeOK
  <1>2. /\ task' \in [Tasks -> Task]
        /\ \/ task'[t].at \in {"idle", "fetch"}
           \/ task'[t].at = "compare" /\ task'[t].req # Nothing /\ task'[t].obj \in 1..Len(objects)
        /\ \A u \in Tasks \ {t} : task'[u] = task[u]
    <2>1. CASE map # 0
      <3>1. Got(t, map) /\ map \in Nat /\ map \in 1..Len(objects)
        BY <1>1, <2>1 DEF FindInMap
      <3>2. QED BY <3>1, GotTask DEF Typed
    <2>2. CASE map = 0
      BY <2>2, GotoTask DEF FindInMap, Typed, Places
    <2>3. QED BY <2>1, <2>2
  <1>3. ops' \in 0..MaxOps /\ acked' \subseteq Uuids
    BY DEF FindInMap, Typed, TypeOK
  <1>4. QED BY <1>2, <1>3, QuietStep DEF FindInMap, Using

\* What a task has fetched is the row that was there.
LEMMA FetchTask ==
  ASSUME TypeOK, NEW t \in Tasks, Fetch(t)
  PROVE  /\ task' \in [Tasks -> Task]
         /\ \/ task'[t].at \in {"idle", "default"}
            \/ task'[t].at = "install" /\ task'[t].seen = row /\ row # Nothing
         /\ \A u \in Tasks \ {t} : task'[u] = task[u]
  <1> DEFINE v == [at |-> "install", req |-> task[t].req, seen |-> row, obj |-> 0, guid |-> 0]
  <1>1. CASE row # Nothing /\ task' = [task EXCEPT ![t] = v]
    <2>1. v \in Task /\ v.at = "install" /\ v.seen = row
      BY DEF TypeOK, Task, Places
    <2>2. QED BY <1>1, <2>1, TaskMoves
  <1>2. CASE Return(t)
    BY <1>2, ReturnTask
  <1>3. CASE Goto(t, "default")
    BY <1>3, GotoTask DEF TypeOK, Task, Places
  <1>4. QED BY <1>1, <1>2, <1>3 DEF Fetch

LEMMA FetchTyped ==
  ASSUME Typed, NEW t \in Tasks, Fetch(t)
  PROVE  Typed'
  <1>1. ops' \in 0..MaxOps /\ acked' \subseteq Uuids
    BY DEF Fetch, Typed, TypeOK
  <1>2. QED BY <1>1, FetchTask, QuietStep DEF Fetch, Typed, Using

\* The steps of a task that make or write an object.
LEMMA ObjectStep ==
  ASSUME Typed, NEW t \in Tasks,
         task' \in [Tasks -> Task],
         \A u \in Tasks \ {t} : task'[u] = task[u],
         UNCHANGED <<row, inserts, admin, ops>>,
         objects' \in Seq(Object), Len(objects) <= Len(objects'), map' \in 0..Len(objects'),
         acked' \subseteq Uuids,
         task'[t].at \in Using => task'[t].req # Nothing /\ task'[t].obj \in 1..Len(objects'),
         task'[t].at = "install" => task'[t].seen # Nothing
  PROVE  Typed'
  <1>1. HandlesAreHeld'
    BY HandlesOfOneTask
  <1>2. TypeOK'
    BY DEF Typed, TypeOK
  <1>3. QED BY <1>1, <1>2 DEF Typed

\* An object that is made goes to the end, and its maker has it.
LEMMA MakeObject ==
  ASSUME Typed, NEW t \in Tasks, NEW o \in Object,
         objects' = Append(objects, o), map' = Len(objects) + 1, Got(t, Len(objects) + 1),
         UNCHANGED <<row, inserts, admin, ops, acked>>
  PROVE  /\ Typed'
         /\ Len(objects') = Len(objects) + 1
         /\ objects'[Len(objects) + 1] = o
         /\ \A i \in 1..Len(objects) : objects'[i] = objects[i]
         /\ task'[t].at = "idle" \/ task'[t].at = "compare"
         /\ \A u \in Tasks \ {t} : task'[u] = task[u]
  <1>1. objects \in Seq(Object) /\ Len(objects) \in Nat
    BY DEF Typed, TypeOK
  <1>2. /\ objects' \in Seq(Object) /\ Len(objects') = Len(objects) + 1
        /\ objects'[Len(objects) + 1] = o
        /\ \A i \in 1..Len(objects) : objects'[i] = objects[i]
    BY <1>1
  <1>3. /\ task' \in [Tasks -> Task]
        /\ \/ task'[t].at = "idle"
           \/ task'[t].at = "compare" /\ task'[t].req # Nothing /\ task'[t].obj = Len(objects) + 1
        /\ \A u \in Tasks \ {t} : task'[u] = task[u]
    BY <1>1, GotTask DEF Typed
  <1>4. acked' \subseteq Uuids /\ map' \in 0..Len(objects') /\ Len(objects) <= Len(objects')
    BY <1>1, <1>2 DEF Typed, TypeOK
  <1>5. Len(objects) + 1 \in 1..Len(objects')
    BY <1>1, <1>2
  <1>6. Typed'
    BY <1>2, <1>3, <1>4, <1>5, ObjectStep DEF Using
  <1>7. QED BY <1>2, <1>3, <1>6

FetchedObject(t) ==
  [guid |-> task[t].seen.guid, uuid |-> task[t].seen.uuid, pk |-> task[t].seen.pk,
   ip |-> task[t].seen.ip, status |-> task[t].seen.status, stale |-> task[t].seen # row]
EmptyObject == [guid |-> 0, uuid |-> Nothing, pk |-> Nothing, ip |-> Nothing, status |-> "unset",
                stale |-> FALSE]

LEMMA InstallMakes ==
  ASSUME Typed, NEW t \in Tasks, Install(t)
  PROVE  /\ FetchedObject(t) \in Object
         /\ objects' = Append(objects, FetchedObject(t)) /\ map' = Len(objects) + 1
         /\ Got(t, Len(objects) + 1)
         /\ UNCHANGED <<row, inserts, admin, ops, acked>>
  <1>1. task[t].seen \in Row
    BY DEF Install, Typed, TypeOK, Task, HandlesAreHeld, At
  <1>2. FetchedObject(t) \in Object
    BY <1>1 DEF Row, Object, FetchedObject
  <1>3. QED BY <1>2 DEF Install, FetchedObject

LEMMA DefaultMakes ==
  ASSUME Typed, NEW t \in Tasks, Default(t), map = 0
  PROVE  /\ EmptyObject \in Object
         /\ objects' = Append(objects, EmptyObject) /\ map' = Len(objects) + 1
         /\ Got(t, Len(objects) + 1)
         /\ UNCHANGED <<row, inserts, admin, ops, acked>>
  BY DEF Default, EmptyObject, Object, Status

LEMMA DefaultFinds ==
  ASSUME Typed, NEW t \in Tasks, Default(t), map # 0
  PROVE  /\ Typed'
         /\ UNCHANGED <<row, inserts, objects>>
         /\ task'[t].at = "idle" \/ task'[t].at = "compare"
         /\ \A u \in Tasks \ {t} : task'[u] = task[u]
  <1>1. map \in 1..Len(objects) /\ map \in Nat
    BY DEF Typed, TypeOK
  <1>2. /\ task' \in [Tasks -> Task]
        /\ \/ task'[t].at = "idle"
           \/ task'[t].at = "compare" /\ task'[t].req # Nothing /\ task'[t].obj \in 1..Len(objects)
        /\ \A u \in Tasks \ {t} : task'[u] = task[u]
    BY <1>1, GotTask DEF Default, Typed
  <1>3. ops' \in 0..MaxOps /\ acked' \subseteq Uuids
    BY DEF Default, Typed, TypeOK
  <1>4. Typed'
    BY <1>2, <1>3, QuietStep DEF Default, Using
  <1>5. QED BY <1>2, <1>4 DEF Default

LEMMA CompareTask ==
  ASSUME Typed, NEW t \in Tasks, Compare(t)
  PROVE  /\ Typed'
         /\ UNCHANGED <<row, inserts, objects>>
         /\ \/ task'[t].at = "idle"
            \/ /\ task'[t].at = "write" /\ task'[t].req = task[t].req /\ task'[t].obj = task[t].obj
               /\ objects[task[t].obj].uuid \in {Nothing, task[t].req.uuid}
         /\ \A u \in Tasks \ {t} : task'[u] = task[u]
  <1>1. task[t] \in Task /\ task[t].req \in Requests /\ task[t].obj \in 1..Len(objects)
    BY DEF Compare, Typed, TypeOK, Task, HandlesAreHeld, IsLookup, At
  <1>2. task[t].req.uuid \in Uuids /\ task[t].req # Nothing
    BY <1>1, FrameTypes
  <1>3. /\ task' \in [Tasks -> Task]
        /\ acked' \subseteq Uuids
        /\ \/ task'[t].at = "idle"
           \/ /\ task'[t].at = "write" /\ task'[t].req = task[t].req /\ task'[t].obj = task[t].obj
              /\ objects[task[t].obj].uuid \in {Nothing, task[t].req.uuid}
        /\ \A u \in Tasks \ {t} : task'[u] = task[u]
    <2>1. CASE Return(t) /\ acked' \subseteq Uuids
      BY <2>1, ReturnTask DEF Typed
    <2>2. CASE Goto(t, "write") /\ UNCHANGED acked /\ ~UuidMismatch(objects[task[t].obj], task[t].req)
      <3>1. /\ task' \in [Tasks -> Task] /\ task'[t] = [task[t] EXCEPT !.at = "write"]
            /\ \A u \in Tasks \ {t} : task'[u] = task[u]
        BY <2>2, GotoTask DEF Typed, Places
      <3>2. /\ task'[t].at = "write" /\ task'[t].req = task[t].req /\ task'[t].obj = task[t].obj
        BY <1>1, <3>1 DEF Task
      <3>3. objects[task[t].obj].uuid \in {Nothing, task[t].req.uuid}
        BY <2>2 DEF UuidMismatch
      <3>4. QED BY <2>2, <3>1, <3>2, <3>3 DEF Typed, TypeOK
    <2>3. (acked' = acked \/ Ack(t)) => acked' \subseteq Uuids
      BY <1>2 DEF Ack, Typed, TypeOK
    <2>4. QED BY <2>1, <2>2, <2>3 DEF Compare, Ack
  <1>4. Typed'
    BY <1>1, <1>2, <1>3, QuietStep DEF Compare, Using, Typed, TypeOK
  <1>5. QED BY <1>3, <1>4 DEF Compare

\* Where a task uses its handles it has a frame and an object of the list.
LEMMA HandlesInUse ==
  ASSUME Typed, NEW t \in Tasks, task[t].at \in Using
  PROVE  /\ task[t] \in Task /\ task[t].req \in Requests /\ task[t].req # Nothing
         /\ task[t].obj \in 1..Len(objects) /\ task[t].guid \in Nat
         /\ objects[task[t].obj] \in Object
  <1>1. task[t] \in Task /\ task[t].req \in Requests /\ task[t].obj \in 1..Len(objects)
    BY DEF Typed, TypeOK, Task, HandlesAreHeld, IsLookup, Using
  <1>2. objects[task[t].obj] \in Object
    BY <1>1 DEF Typed, TypeOK
  <1>3. QED BY <1>1, <1>2, FrameTypes DEF Task

LEMMA WriteTask ==
  ASSUME Typed, NEW t \in Tasks, Write(t)
  PROVE  LET i == task[t].obj
             r == task[t].req
         IN /\ Typed'
            /\ i \in 1..Len(objects) /\ r \in Requests
            /\ UNCHANGED <<row, inserts>>
            /\ Len(objects') = Len(objects)
            /\ objects'[i].guid = objects[i].guid /\ objects'[i].uuid = r.uuid
            /\ \A j \in (1..Len(objects)) \ {i} : objects'[j] = objects[j]
            /\ task'[t].at = "store" /\ task'[t].req = r /\ task'[t].obj = i
            /\ task'[t].guid = objects[i].guid
            /\ \A u \in Tasks \ {t} : task'[u] = task[u]
  <1> DEFINE i == task[t].obj
             r == task[t].req
             o == objects[i]
             n == [guid |-> o.guid, uuid |-> r.uuid, pk |-> r.pk, ip |-> r.ip,
                   status |-> o.status, stale |-> o.stale]
             v == [at |-> "store", req |-> r, seen |-> Nothing, obj |-> i, guid |-> n.guid]
  <1>1. /\ r \in Requests /\ r # Nothing /\ i \in 1..Len(objects) /\ o \in Object
    BY HandlesInUse DEF Write, WriteObject, At, Using
  <1>2. n \in Object
    BY <1>1, FrameTypes DEF Object
  <1>3. v \in Task
    BY <1>1, <1>2 DEF Task, Places, Object, Typed, TypeOK
  <1>4. objects' = [objects EXCEPT ![i] = n] /\ task' = [task EXCEPT ![t] = v]
        /\ UNCHANGED <<row, inserts, map, admin, ops, acked>>
    BY DEF Write, WriteObject
  <1>5. /\ objects' \in Seq(Object) /\ Len(objects') = Len(objects)
        /\ objects'[i] = n /\ \A j \in (1..Len(objects)) \ {i} : objects'[j] = objects[j]
    BY <1>1, <1>2, <1>4 DEF Typed, TypeOK
  <1>6. /\ task' \in [Tasks -> Task] /\ task'[t] = v /\ \A u \in Tasks \ {t} : task'[u] = task[u]
    BY <1>3, <1>4, TaskMoves DEF Typed
  <1>7. acked' \subseteq Uuids /\ map' \in 0..Len(objects') /\ Len(objects) <= Len(objects')
    BY <1>4, <1>5 DEF Typed, TypeOK
  <1>8. task'[t].at = "store" /\ task'[t].req = r /\ task'[t].obj = i /\ i \in 1..Len(objects')
    BY <1>1, <1>5, <1>6
  <1>9. task'[t].guid = o.guid /\ n.guid = o.guid /\ n.uuid = r.uuid
    BY <1>6
  <1> HIDE DEF n, v
  <1>10. Typed'
    BY <1>1, <1>4, <1>5, <1>6, <1>7, <1>8, ObjectStep DEF Using
  <1>11. QED BY <1>1, <1>4, <1>5, <1>6, <1>8, <1>9, <1>10

\* The three outcomes of the write to the table.
LEMMA StoreTask ==
  ASSUME Typed, NEW t \in Tasks, Store(t)
  PROVE  /\ Typed'
         /\ objects' = objects
         /\ \A u \in Tasks \ {t} : task'[u] = task[u]
         /\ \/ row' = row /\ inserts' = inserts /\ task'[t].at = "idle"
            \/ /\ row # Nothing /\ row' # Nothing /\ inserts' = inserts /\ task'[t].at = "idle"
               /\ row.guid = task[t].guid
               /\ row'.guid = row.guid /\ row'.uuid = row.uuid /\ row'.pk = task[t].req.pk
            \/ /\ row = Nothing /\ row' # Nothing /\ inserts' = inserts + 1
               /\ row'.guid = inserts + 1 /\ row'.uuid = task[t].req.uuid
               /\ row'.pk = task[t].req.pk
               /\ task'[t].at = "set_guid" /\ task'[t].req = task[t].req
               /\ task'[t].obj = task[t].obj /\ task'[t].guid = inserts + 1
  <1> DEFINE r == task[t].req
  <1>1. task[t] \in Task /\ r \in Requests /\ r # Nothing /\ task[t].obj \in 1..Len(objects)
    BY HandlesInUse DEF Store, At, Using
  <1>2. r.uuid \in Uuids /\ r.pk \in Pks /\ r.ip \in Ips
    BY <1>1, FrameTypes
  <1>3. inserts \in Nat /\ row \in Row \cup {Nothing} /\ objects \in Seq(Object)
    BY DEF Typed, TypeOK
  <1>4. objects' = objects /\ UNCHANGED <<map, admin, ops>>
    BY DEF Store
  <1>5. \A w \in Row : w # Nothing
    BY RegistryAssumption
  <1> DEFINE ins == [guid |-> inserts + 1, uuid |-> r.uuid, pk |-> r.pk, ip |-> r.ip,
                     status |-> "unset"]
             upd == [guid |-> row.guid, uuid |-> row.uuid, pk |-> r.pk, ip |-> r.ip,
                     status |-> row.status]
             v == [at |-> "set_guid", req |-> r, seen |-> Nothing, obj |-> task[t].obj,
                   guid |-> inserts + 1]
  <1>6. CASE InsertRow(t) /\ row = Nothing
    <2>1. ins \in Row /\ v \in Task
      BY <1>1, <1>2, <1>3 DEF Row, Status, Task, Places
    <2>2. row' = ins /\ inserts' = inserts + 1 /\ acked' = acked /\ task' = [task EXCEPT ![t] = v]
      BY <1>6 DEF InsertRow
    <2>3. /\ task' \in [Tasks -> Task] /\ task'[t] = v
          /\ \A u \in Tasks \ {t} : task'[u] = task[u]
      BY <2>1, <2>2, TaskMoves DEF Typed
    <2>4. HandlesAreHeld'
      BY <1>1, <1>3, <1>4, <2>3, HandlesOfOneTask
    <2>5. TypeOK'
      BY <1>3, <1>4, <2>1, <2>2, <2>3 DEF Typed, TypeOK
    <2>6. row' # Nothing
      BY <1>5, <2>1, <2>2
    <2>7. QED BY <1>4, <1>6, <2>2, <2>3, <2>4, <2>5, <2>6 DEF Typed
  <1>7. CASE Ack(t) /\ inserts' = inserts
    <2>1. /\ task' \in [Tasks -> Task] /\ task'[t].at = "idle"
          /\ \A u \in Tasks \ {t} : task'[u] = task[u]
      BY <1>7, ReturnTask DEF Ack, Typed
    <2>2. acked' \subseteq Uuids
      BY <1>2, <1>7 DEF Ack, Typed, TypeOK
    <2>3. HandlesAreHeld'
      BY <1>3, <1>4, <2>1, HandlesOfOneTask DEF Using
    <2>4. row' \in Row \cup {Nothing} => Typed'
      BY <1>3, <1>4, <1>7, <2>1, <2>2, <2>3 DEF Typed, TypeOK
    <2>5. CASE row' = row
      BY <1>3, <1>4, <1>7, <2>1, <2>4, <2>5
    <2>6. CASE row # Nothing /\ row.guid = task[t].guid /\ row' = upd
      <3>1. upd \in Row
        BY <1>2, <1>3, <2>6 DEF Row
      <3>2. QED BY <1>4, <1>5, <1>7, <2>1, <2>4, <2>6, <3>1
    <2>7. row' = row \/ (row # Nothing /\ row.guid = task[t].guid /\ row' = upd)
      <3>1. inserts' # inserts + 1
        BY <1>3, <1>7
      <3>2. ~InsertRow(t)
        BY <3>1 DEF InsertRow
      <3>3. QED BY <3>2 DEF Store, UpdateRow, StoreError
    <2>8. QED BY <2>5, <2>6, <2>7
  <1>8. QED BY <1>6, <1>7 DEF Store, UpdateRow, StoreError

LEMMA SetGuidTask ==
  ASSUME Typed, NEW t \in Tasks, SetGuid(t)
  PROVE  LET i == task[t].obj
         IN /\ Typed'
            /\ i \in 1..Len(objects)
            /\ UNCHANGED <<row, inserts>>
            /\ Len(objects') = Len(objects)
            /\ objects'[i].guid = task[t].guid /\ objects'[i].uuid = objects[i].uuid
            /\ \A j \in (1..Len(objects)) \ {i} : objects'[j] = objects[j]
            /\ task'[t].at = "idle"
            /\ \A u \in Tasks \ {t} : task'[u] = task[u]
  <1> DEFINE i == task[t].obj
             o == objects[i]
             n == [guid |-> task[t].guid, uuid |-> o.uuid, pk |-> o.pk, ip |-> o.ip,
                   status |-> o.status, stale |-> o.stale]
  <1>1. /\ task[t].req \in Requests /\ i \in 1..Len(objects) /\ o \in Object
        /\ task[t].guid \in Nat
    BY HandlesInUse DEF SetGuid, At, Using
  <1>2. n \in Object
    BY <1>1 DEF Object
  <1>3. /\ objects' \in Seq(Object) /\ Len(objects') = Len(objects)
        /\ objects'[i] = n /\ \A j \in (1..Len(objects)) \ {i} : objects'[j] = objects[j]
    BY <1>1, <1>2 DEF SetGuid, Typed, TypeOK
  <1>4. /\ task' \in [Tasks -> Task] /\ task'[t].at = "idle"
        /\ \A u \in Tasks \ {t} : task'[u] = task[u]
    BY ReturnTask DEF SetGuid, Ack, Typed
  <1>5. acked' \subseteq Uuids
    BY <1>1, FrameTypes DEF SetGuid, Ack, Typed, TypeOK
  <1>6. map' \in 0..Len(objects') /\ Len(objects) <= Len(objects')
    BY <1>3 DEF SetGuid, Typed, TypeOK
  <1>7. Typed'
    BY <1>3, <1>4, <1>5, <1>6, ObjectStep DEF SetGuid, Using
  <1>8. n.guid = task[t].guid /\ n.uuid = o.uuid /\ UNCHANGED <<row, inserts>>
    BY DEF SetGuid
  <1> HIDE DEF n
  <1>9. QED BY <1>1, <1>3, <1>4, <1>7, <1>8

-----------------------------------------------------------------------------
(* The administrators.                                                     *)

\* One administrator moves; the tasks and the number of objects stay.
LEMMA AdminMoves ==
  ASSUME Typed, NEW a \in Admins, NEW v \in Change, admin' = [admin EXCEPT ![a] = v],
         UNCHANGED <<inserts, task, ops>>,
         objects' \in Seq(Object), Len(objects') = Len(objects),
         row' \in Row \cup {Nothing}, map' \in 0..Len(objects), acked' \subseteq Uuids,
         v.at = "apply" => v.obj \in 1..Len(objects)
  PROVE  Typed'
  <1>1. admin' \in [Admins -> Change] /\ \A b \in Admins : admin'[b] = IF b = a THEN v ELSE admin[b]
    BY DEF Typed, TypeOK
  <1>2. TypeOK'
    BY <1>1 DEF Typed, TypeOK
  <1>3. HandlesAreHeld'
    BY <1>1 DEF Typed, HandlesAreHeld, IsLookup, At
  <1>4. QED BY <1>2, <1>3 DEF Typed

LEMMA AdminUpdateTask ==
  ASSUME Typed, NEW a \in Admins, NEW s \in Status, AdminUpdate(a, s)
  PROVE  /\ Typed' /\ UNCHANGED <<inserts, objects, task>>
         /\ row # Nothing /\ row' # Nothing
         /\ row'.guid = row.guid /\ row'.uuid = row.uuid /\ row'.pk = row.pk
  <1> DEFINE v == [at |-> "find", status |-> s, obj |-> 0]
             upd == [guid |-> row.guid, uuid |-> row.uuid, pk |-> row.pk, ip |-> row.ip,
                     status |-> s]
  <1>1. row # Nothing /\ row' = upd /\ admin' = [admin EXCEPT ![a] = v]
        /\ UNCHANGED <<inserts, objects, map, task, ops, acked>>
    BY DEF AdminUpdate
  <1>2. upd \in Row /\ upd # Nothing
    <2>1. upd \in Row
      BY <1>1 DEF Typed, TypeOK, Row
    <2>2. QED BY <2>1, RegistryAssumption
  <1>3. v \in Change
    BY DEF Change
  <1>4. Typed'
    BY <1>1, <1>2, <1>3, AdminMoves DEF Typed, TypeOK
  <1>5. QED BY <1>1, <1>2, <1>4

LEMMA AdminFindTyped ==
  ASSUME Typed, NEW a \in Admins, AdminFind(a)
  PROVE  Typed'
  <1> DEFINE v == IF map = 0 THEN AdminIdle
                  ELSE [at |-> "apply", status |-> admin[a].status, obj |-> map]
  <1>1. admin[a] \in Change /\ map \in 0..Len(objects) /\ Len(objects) \in Nat
    BY DEF Typed, TypeOK
  <1>2. v \in Change /\ (v.at = "apply" => v.obj \in 1..Len(objects))
    BY <1>1 DEF Change, AdminIdle, Status
  <1>3. admin' = [admin EXCEPT ![a] = v] /\ UNCHANGED <<row, inserts, objects, map, task, ops, acked>>
    BY DEF AdminFind
  <1>4. QED BY <1>1, <1>2, <1>3, AdminMoves DEF Typed, TypeOK

LEMMA AdminApplyTask ==
  ASSUME Typed, NEW a \in Admins, AdminApply(a)
  PROVE  /\ Typed' /\ UNCHANGED <<row, inserts, task>>
         /\ Len(objects') = Len(objects)
         /\ \A i \in 1..Len(objects) :
              objects'[i].guid = objects[i].guid /\ objects'[i].uuid = objects[i].uuid
  <1> DEFINE i == admin[a].obj
             o == objects[i]
             n == [guid |-> o.guid, uuid |-> o.uuid, pk |-> o.pk, ip |-> o.ip,
                   status |-> admin[a].status, stale |-> o.stale]
  <1>1. admin[a] \in Change /\ i \in 1..Len(objects) /\ o \in Object
    BY DEF AdminApply, Typed, TypeOK, HandlesAreHeld
  <1>2. n \in Object
    BY <1>1 DEF Object, Change
  <1>3. objects' = [objects EXCEPT ![i] = n] /\ admin' = [admin EXCEPT ![a] = AdminIdle]
        /\ UNCHANGED <<row, inserts, map, task, ops, acked>>
    BY DEF AdminApply
  <1>4. /\ objects' \in Seq(Object) /\ Len(objects') = Len(objects)
        /\ objects'[i] = n /\ \A j \in (1..Len(objects)) \ {i} : objects'[j] = objects[j]
    BY <1>1, <1>2, <1>3 DEF Typed, TypeOK
  <1>5. AdminIdle \in Change /\ AdminIdle.at # "apply"
    BY DEF AdminIdle, Change, Status
  <1>6. Typed'
    BY <1>3, <1>4, <1>5, AdminMoves DEF Typed, TypeOK
  <1>7. n.guid = o.guid /\ n.uuid = o.uuid
    OBVIOUS
  <1> HIDE DEF n
  <1>8. \A j \in 1..Len(objects) :
          objects'[j].guid = objects[j].guid /\ objects'[j].uuid = objects[j].uuid
    BY <1>4, <1>7
  <1>9. QED BY <1>3, <1>4, <1>6, <1>8

LEMMA AdminRemoveTyped ==
  ASSUME Typed, NEW a \in Admins, AdminDelete(a) \/ AdminUnmap(a)
  PROVE  Typed'
  <1> DEFINE v == [at |-> "unmap", status |-> "unset", obj |-> 0]
  <1>1. /\ AdminIdle \in Change /\ AdminIdle.at # "apply"
        /\ v \in Change /\ v.at # "apply"
    BY DEF AdminIdle, Change, Status
  <1>2. 0 \in 0..Len(objects)
    BY DEF Typed, TypeOK
  <1>3. CASE AdminDelete(a)
    BY <1>1, <1>3, AdminMoves DEF AdminDelete, Typed, TypeOK
  <1>4. CASE AdminUnmap(a)
    BY <1>1, <1>2, <1>4, AdminMoves DEF AdminUnmap, Typed, TypeOK
  <1>5. QED BY <1>3, <1>4

LEMMA RestartTyped ==
  ASSUME Typed, Restart
  PROVE  Typed'
  <1>1. /\ objects' = <<>> /\ Len(objects') = 0
        /\ map' = 0 /\ ops' = 0 /\ UNCHANGED <<row, inserts, acked>>
        /\ task' = [t \in Tasks |-> Idle] /\ admin' = [a \in Admins |-> AdminIdle]
    BY DEF Restart
  <1>2. Idle \in Task /\ Idle.at = "idle" /\ AdminIdle \in Change /\ AdminIdle.at = "idle"
    BY DEF Idle, AdminIdle, Task, Places, Change, Status
  <1>3. objects' \in Seq(Object) /\ map' \in 0..Len(objects') /\ ops' \in 0..MaxOps
    BY <1>1, RegistryAssumption
  <1>4. TypeOK'
    BY <1>1, <1>2, <1>3 DEF Typed, TypeOK
  <1>5. HandlesAreHeld'
    BY <1>1, <1>2 DEF HandlesAreHeld, At
  <1>6. QED BY <1>4, <1>5 DEF Typed

-----------------------------------------------------------------------------
(* Every step keeps the types and the handles.                             *)

LEMMA TypeInit == Init => Typed
  <1> SUFFICES ASSUME Init PROVE Typed
    OBVIOUS
  <1>1. objects \in Seq(Object) /\ Len(objects) = 0
    BY DEF Init
  <1>2. Idle \in Task /\ Idle.at = "idle" /\ AdminIdle \in Change /\ AdminIdle.at = "idle"
    BY DEF Idle, AdminIdle, Task, Places, Change, Status
  <1>3. TypeOK
    BY <1>1, <1>2, RegistryAssumption DEF Init, TypeOK
  <1>4. HandlesAreHeld
    BY <1>2 DEF Init, HandlesAreHeld, At
  <1>5. QED BY <1>3, <1>4 DEF Typed

LEMMA TypeStep == Typed /\ [Next]_vars => Typed'
  <1> SUFFICES ASSUME Typed, [Next]_vars PROVE Typed'
    OBVIOUS
  <1>1. ASSUME NEW t \in Tasks, TaskStep(t) PROVE Typed'
    <2>1. CASE StartLookup(t)
      BY <2>1, BeginTyped DEF StartLookup
    <2>2. ASSUME NEW r \in Requests, StartRegister(t, r) PROVE Typed'
      BY <2>2, BeginTyped DEF StartRegister
    <2>3. CASE Install(t)
      BY <2>3, InstallMakes, MakeObject
    <2>4. CASE Default(t)
      <3>1. CASE map = 0
        BY <2>4, <3>1, DefaultMakes, MakeObject
      <3>2. CASE map # 0
        BY <2>4, <3>2, DefaultFinds
      <3>3. QED BY <3>1, <3>2
    <2>5. CASE Write(t)
      BY <2>5, WriteTask
    <2>6. CASE SetGuid(t)
      BY <2>6, SetGuidTask
    <2>7. QED
      BY <1>1, <2>1, <2>2, <2>3, <2>4, <2>5, <2>6, GateTyped, FindTyped, FetchTyped, CompareTask,
         StoreTask
      DEF TaskStep
  <1>2. ASSUME NEW a \in Admins, AdminStep(a) PROVE Typed'
    BY <1>2, AdminUpdateTask, AdminFindTyped, AdminApplyTask, AdminRemoveTyped DEF AdminStep
  <1>3. CASE UNCHANGED vars
    BY <1>3 DEF vars, Typed, TypeOK, HandlesAreHeld, IsLookup, At
  <1>4. QED BY <1>1, <1>2, <1>3, RestartTyped DEF Next

\* The variables keep their types, and no step uses an object, a row or a frame that
\* its task does not have, for any number of tasks, administrators and machines.
THEOREM TypeCorrect == Spec => []TypeOK
  <1>1. Typed => TypeOK
    BY DEF Typed
  <1>2. QED BY <1>1, TypeInit, TypeStep, PTL DEF Spec

-----------------------------------------------------------------------------
(* One registration at a time: a row holds the key of its machine.         *)

Named == RowIsNumbered /\ ObjectsNameRow /\ FetchedNamesRow /\ WritersNameRow /\ RowIsOneMachine
Naming == {"install", "write", "store", "set_guid"}

\* While one task is past the comparison every other one is a look-up.
LEMMA OnlyWriter ==
  ASSUME Typed, OneWriter, NEW t \in Tasks, task[t].at \in Using, NEW u \in Tasks \ {t}
  PROVE  task[u].at \notin Using
  BY DEF Typed, HandlesAreHeld, OneWriter, Using

LEMMA RowHasUuid ==
  ASSUME Typed, row # Nothing
  PROVE  row \in Row /\ row.uuid # Nothing
  BY RegistryAssumption DEF Typed, TypeOK, Row, Uuids

\* A step after which the row, if it is there, and the objects carry the guids and the
\* machines they did, and no task has reached a place where it names one.
LEMMA NamedKept ==
  ASSUME Typed, Named,
         inserts' = inserts,
         row' = Nothing \/ (/\ row # Nothing
                            /\ row'.guid = row.guid /\ row'.uuid = row.uuid /\ row'.pk = row.pk),
         Len(objects') = Len(objects),
         \A i \in 1..Len(objects) :
           objects'[i].guid = objects[i].guid /\ objects'[i].uuid = objects[i].uuid,
         \A u \in Tasks : task'[u] = task[u] \/ task'[u].at \notin Naming
  PROVE  Named'
  <1>1. RowIsNumbered' /\ RowIsOneMachine'
    BY DEF Named, RowIsNumbered, RowIsOneMachine
  <1>2. ObjectsNameRow'
    BY DEF Named, ObjectsNameRow, OfRow
  <1>3. FetchedNamesRow'
    BY DEF Named, FetchedNamesRow, OfRow, At, Naming
  <1>4. WritersNameRow'
    <2>1. \A u \in Tasks : task[u].at \in Using => task[u].obj \in 1..Len(objects)
      BY HandlesInUse
    <2>2. QED BY <2>1 DEF Named, WritersNameRow, OfRow, At, Naming, Using
  <1>5. QED BY <1>1, <1>2, <1>3, <1>4 DEF Named

\* A new object that names the row, or none, leaves everything else as it was.
LEMMA NamedMake ==
  ASSUME Typed, Named, NEW t \in Tasks, NEW o,
         UNCHANGED <<row, inserts>>,
         Len(objects') = Len(objects) + 1,
         objects'[Len(objects) + 1] = o,
         \A i \in 1..Len(objects) : objects'[i] = objects[i],
         o.guid <= inserts, OfRow(o.guid) => o.uuid = row.uuid,
         task'[t].at \notin Naming,
         \A u \in Tasks \ {t} : task'[u] = task[u]
  PROVE  Named'
  <1>1. Len(objects) \in Nat
    BY DEF Typed, TypeOK
  <1>2. RowIsNumbered' /\ RowIsOneMachine'
    BY DEF Named, RowIsNumbered, RowIsOneMachine
  <1>3. ObjectsNameRow'
    <2>1. \A i \in 1..Len(objects') : i \in 1..Len(objects) \/ i = Len(objects) + 1
      BY <1>1
    <2>2. QED BY <2>1 DEF Named, ObjectsNameRow, OfRow
  <1>4. FetchedNamesRow'
    BY DEF Named, FetchedNamesRow, OfRow, At, Naming
  <1>5. WritersNameRow'
    <2>1. \A u \in Tasks : task[u].at \in Using => task[u].obj \in 1..Len(objects)
      BY HandlesInUse
    <2>2. QED BY <2>1 DEF Named, WritersNameRow, OfRow, At, Naming, Using
  <1>6. QED BY <1>2, <1>3, <1>4, <1>5 DEF Named

LEMMA FetchNamed ==
  ASSUME Typed, Named, NEW t \in Tasks, Fetch(t)
  PROVE  Named'
  <1>1. /\ \/ task'[t].at \in {"idle", "default"}
           \/ task'[t].at = "install" /\ task'[t].seen = row /\ row # Nothing
        /\ \A u \in Tasks \ {t} : task'[u] = task[u]
    BY FetchTask DEF Typed
  <1>2. UNCHANGED <<row, inserts, objects>>
    BY DEF Fetch
  <1>3. RowIsNumbered' /\ ObjectsNameRow' /\ RowIsOneMachine'
    BY <1>2 DEF Named, RowIsNumbered, RowIsOneMachine, ObjectsNameRow, OfRow
  <1>4. row # Nothing => row.guid <= inserts
    BY DEF Named, RowIsNumbered, Typed, TypeOK
  <1>5. FetchedNamesRow'
    BY <1>1, <1>2, <1>4 DEF Named, FetchedNamesRow, OfRow, At
  <1>6. WritersNameRow'
    BY <1>1, <1>2 DEF Named, WritersNameRow, OfRow, At
  <1>7. QED BY <1>3, <1>5, <1>6 DEF Named

LEMMA CompareNamed ==
  ASSUME Typed, Named, NEW t \in Tasks, Compare(t)
  PROVE  Named'
  <1>1. /\ UNCHANGED <<row, inserts, objects>>
        /\ \/ task'[t].at = "idle"
           \/ /\ task'[t].at = "write" /\ task'[t].req = task[t].req /\ task'[t].obj = task[t].obj
              /\ objects[task[t].obj].uuid \in {Nothing, task[t].req.uuid}
        /\ \A u \in Tasks \ {t} : task'[u] = task[u]
    BY CompareTask
  <1>2. RowIsNumbered' /\ ObjectsNameRow' /\ RowIsOneMachine'
    BY <1>1 DEF Named, RowIsNumbered, RowIsOneMachine, ObjectsNameRow, OfRow
  <1>3. FetchedNamesRow'
    BY <1>1 DEF Named, FetchedNamesRow, OfRow, At
  <1>4. WritersNameRow'
    BY <1>1 DEF Named, WritersNameRow, OfRow, At
  <1>5. QED BY <1>2, <1>3, <1>4 DEF Named

LEMMA WriteNamed ==
  ASSUME Typed, OneWriter, Named, NEW t \in Tasks, Write(t)
  PROVE  Named'
  <1> DEFINE i == task[t].obj
             r == task[t].req
  <1>1. /\ i \in 1..Len(objects) /\ r \in Requests
        /\ UNCHANGED <<row, inserts>>
        /\ Len(objects') = Len(objects)
        /\ objects'[i].guid = objects[i].guid /\ objects'[i].uuid = r.uuid
        /\ \A j \in (1..Len(objects)) \ {i} : objects'[j] = objects[j]
        /\ task'[t].at = "store" /\ task'[t].req = r /\ task'[t].obj = i
        /\ task'[t].guid = objects[i].guid
        /\ \A u \in Tasks \ {t} : task'[u] = task[u]
    BY WriteTask
  <1>2. \A u \in Tasks \ {t} : task[u].at \notin Using
    BY OnlyWriter DEF Write, WriteObject, At, Using
  <1>3. OfRow(objects[i].guid) => row.uuid = r.uuid
    <2>1. objects[i].uuid \in {Nothing, r.uuid}
      BY DEF Named, WritersNameRow, Write, WriteObject
    <2>2. OfRow(objects[i].guid) => objects[i].uuid = row.uuid
      BY <1>1 DEF Named, ObjectsNameRow
    <2>3. QED BY <2>1, <2>2, RowHasUuid DEF OfRow
  <1>4. objects[i].guid <= inserts
    BY <1>1 DEF Named, ObjectsNameRow
  <1>5. RowIsNumbered' /\ RowIsOneMachine'
    BY <1>1 DEF Named, RowIsNumbered, RowIsOneMachine
  <1>6. ObjectsNameRow'
    BY <1>1, <1>3 DEF Named, ObjectsNameRow, OfRow
  <1>7. FetchedNamesRow'
    BY <1>1 DEF Named, FetchedNamesRow, OfRow, At
  <1>8. WritersNameRow'
    BY <1>1, <1>2, <1>3, <1>4 DEF WritersNameRow, OfRow, At, Using
  <1>9. QED BY <1>5, <1>6, <1>7, <1>8 DEF Named

LEMMA StoreNamed ==
  ASSUME Typed, OneWriter, Named, NEW t \in Tasks, Store(t)
  PROVE  Named'
  <1> DEFINE r == task[t].req
  <1>1. /\ objects' = objects
        /\ \A u \in Tasks \ {t} : task'[u] = task[u]
    BY StoreTask
  <1>2. CASE row' = row /\ inserts' = inserts /\ task'[t].at = "idle"
    BY <1>1, <1>2, NamedKept DEF Naming
  <1>3. r \in Requests /\ task[t].obj \in 1..Len(objects) /\ inserts \in Nat
    BY HandlesInUse DEF Store, At, Using, Typed, TypeOK
  <1>4. objects[task[t].obj].uuid = r.uuid /\ (OfRow(task[t].guid) => row.uuid = r.uuid)
    BY DEF Named, WritersNameRow, Store, At
  <1>5. CASE /\ row # Nothing /\ row' # Nothing /\ inserts' = inserts /\ task'[t].at = "idle"
             /\ row.guid = task[t].guid
             /\ row'.guid = row.guid /\ row'.uuid = row.uuid /\ row'.pk = r.pk
    <2>1. RowIsOneMachine'
      BY <1>3, <1>4, <1>5 DEF RowIsOneMachine, OfRow
    <2>2. RowIsNumbered' /\ ObjectsNameRow'
      BY <1>1, <1>5 DEF Named, RowIsNumbered, ObjectsNameRow, OfRow
    <2>3. FetchedNamesRow' /\ WritersNameRow'
      BY <1>1, <1>5 DEF Named, FetchedNamesRow, WritersNameRow, OfRow, At
    <2>4. QED BY <2>1, <2>2, <2>3 DEF Named
  <1>6. CASE /\ row = Nothing /\ row' # Nothing /\ inserts' = inserts + 1
             /\ row'.guid = inserts + 1 /\ row'.uuid = r.uuid /\ row'.pk = r.pk
             /\ task'[t].at = "set_guid" /\ task'[t].req = r
             /\ task'[t].obj = task[t].obj /\ task'[t].guid = inserts + 1
    <2>1. \A u \in Tasks \ {t} : task[u].at \notin Using
      BY OnlyWriter DEF Store, At, Using
    <2>2. RowIsNumbered' /\ RowIsOneMachine'
      BY <1>3, <1>6 DEF RowIsNumbered, RowIsOneMachine
    <2>3. \A j \in 1..Len(objects) : objects[j].guid \in Nat
      <3>1. \A j \in 1..Len(objects) : objects[j] \in Object
        BY DEF Typed, TypeOK
      <3>2. \A o \in Object : o.guid \in Nat
        BY DEF Object
      <3>3. QED BY <3>1, <3>2
    <2>4. ObjectsNameRow'
      <3>1. \A j \in 1..Len(objects) : objects[j].guid <= inserts
        BY DEF Named, ObjectsNameRow
      <3>2. \A j \in 1..Len(objects) : objects[j].guid <= inserts + 1 /\ objects[j].guid # inserts + 1
        BY <1>3, <2>3, <3>1
      <3>3. QED BY <1>1, <1>6, <3>2 DEF ObjectsNameRow, OfRow
    <2>5. \A u \in Tasks : At(u, "install") => task[u].seen.guid \in Nat
      BY DEF Typed, TypeOK, HandlesAreHeld, Task, Row, At
    <2>6. FetchedNamesRow'
      BY <1>1, <1>3, <1>6, <2>5 DEF Named, FetchedNamesRow, OfRow, At
    <2>7. WritersNameRow'
      BY <1>1, <1>3, <1>4, <1>6, <2>1 DEF WritersNameRow, OfRow, At, Using
    <2>8. QED BY <2>2, <2>4, <2>6, <2>7 DEF Named
  <1>7. QED BY <1>2, <1>5, <1>6, StoreTask

LEMMA SetGuidNamed ==
  ASSUME Typed, OneWriter, Named, NEW t \in Tasks, SetGuid(t)
  PROVE  Named'
  <1> DEFINE i == task[t].obj
  <1>1. /\ i \in 1..Len(objects)
        /\ UNCHANGED <<row, inserts>>
        /\ Len(objects') = Len(objects)
        /\ objects'[i].guid = task[t].guid /\ objects'[i].uuid = objects[i].uuid
        /\ \A j \in (1..Len(objects)) \ {i} : objects'[j] = objects[j]
        /\ task'[t].at = "idle"
        /\ \A u \in Tasks \ {t} : task'[u] = task[u]
    BY SetGuidTask
  <1>2. \A u \in Tasks \ {t} : task[u].at \notin Using
    BY OnlyWriter DEF SetGuid, At, Using
  <1>3. /\ task[t].guid <= inserts
        /\ OfRow(task[t].guid) => objects[i].uuid = row.uuid
    BY DEF Named, WritersNameRow, SetGuid, At
  <1>4. RowIsNumbered' /\ RowIsOneMachine'
    BY <1>1 DEF Named, RowIsNumbered, RowIsOneMachine
  <1>5. ObjectsNameRow'
    BY <1>1, <1>3 DEF Named, ObjectsNameRow, OfRow
  <1>6. FetchedNamesRow'
    BY <1>1 DEF Named, FetchedNamesRow, OfRow, At
  <1>7. WritersNameRow'
    BY <1>1, <1>2 DEF WritersNameRow, At, Using
  <1>8. QED BY <1>4, <1>5, <1>6, <1>7 DEF Named

LEMMA NamedStep ==
  ASSUME Typed, OneWriter, Named, [Next]_vars
  PROVE  Named'
  <1>1. ASSUME NEW t \in Tasks, TaskStep(t) PROVE Named'
    <2>1. ASSUME UNCHANGED <<row, inserts, objects>>,
                 task'[t].at \notin Naming, \A u \in Tasks \ {t} : task'[u] = task[u]
          PROVE  Named'
      BY <2>1, NamedKept
    <2>2. ASSUME NEW place \in {"find", "gate"}, NEW req \in Requests \cup {Nothing},
                 Begin(t, place, req)
          PROVE  Named'
      BY <2>1, <2>2, BeginTask DEF Begin, Typed, Places, Naming
    <2>3. CASE StartLookup(t) \/ (\E r \in Requests : StartRegister(t, r))
      BY <2>2, <2>3 DEF StartLookup, StartRegister
    <2>4. CASE Gate(t)
      <3>1. Return(t) \/ Goto(t, "find")
        BY <2>4 DEF Gate
      <3>2. task'[t].at \in {"idle", "find"} /\ \A u \in Tasks \ {t} : task'[u] = task[u]
        <4>1. CASE Return(t)
          BY <4>1, ReturnTask DEF Typed
        <4>2. CASE Goto(t, "find")
          BY <4>2, GotoTask DEF Typed, Places
        <4>3. QED BY <3>1, <4>1, <4>2
      <3>3. QED BY <2>1, <2>4, <3>2 DEF Gate, Naming
    <2>5. CASE FindInMap(t)
      <3>1. map \in Nat
        BY DEF Typed, TypeOK
      <3>2. Got(t, map) \/ Goto(t, "fetch")
        BY <2>5 DEF FindInMap
      <3>3. task'[t].at \in {"idle", "fetch", "compare"} /\ \A u \in Tasks \ {t} : task'[u] = task[u]
        <4>1. CASE Got(t, map)
          BY <3>1, <4>1, GotTask DEF Typed
        <4>2. CASE Goto(t, "fetch")
          BY <4>2, GotoTask DEF Typed, Places
        <4>3. QED BY <3>2, <4>1, <4>2
      <3>4. QED BY <2>1, <2>5, <3>3 DEF FindInMap, Naming
    <2>6. CASE Install(t)
      <3>1. FetchedObject(t).guid <= inserts /\ (OfRow(FetchedObject(t).guid) => FetchedObject(t).uuid = row.uuid)
        BY <2>6 DEF Install, Named, FetchedNamesRow, FetchedObject
      <3>2. UNCHANGED <<row, inserts>>
        BY <2>6 DEF Install
      <3>3. QED BY <2>6, <3>1, <3>2, InstallMakes, MakeObject, NamedMake DEF Naming
    <2>7. CASE Default(t) /\ map = 0
      <3>1. EmptyObject.guid <= inserts /\ ~OfRow(EmptyObject.guid)
        BY DEF EmptyObject, OfRow, Named, RowIsNumbered, Typed, TypeOK
      <3>2. UNCHANGED <<row, inserts>>
        BY <2>7 DEF Default
      <3>3. QED BY <2>7, <3>1, <3>2, DefaultMakes, MakeObject, NamedMake DEF Naming
    <2>8. CASE Default(t) /\ map # 0
      BY <2>1, <2>8, DefaultFinds DEF Naming
    <2>9. QED
      BY <1>1, <2>3, <2>4, <2>5, <2>6, <2>7, <2>8, FetchNamed, CompareNamed, WriteNamed,
         StoreNamed, SetGuidNamed
      DEF TaskStep
  <1>2. ASSUME NEW a \in Admins, AdminStep(a) PROVE Named'
    <2>1. CASE \E s \in Status : AdminUpdate(a, s)
      BY <2>1, AdminUpdateTask, NamedKept
    <2>2. CASE AdminApply(a)
      BY <2>2, AdminApplyTask, NamedKept
    <2>3. CASE AdminFind(a) \/ AdminUnmap(a) \/ AdminDelete(a)
      <3>1. /\ UNCHANGED <<inserts, objects, task>>
            /\ row' = row \/ row' = Nothing
        BY <2>3 DEF AdminFind, AdminUnmap, AdminDelete
      <3>2. QED BY <3>1, NamedKept
    <2>4. QED BY <1>2, <2>1, <2>2, <2>3 DEF AdminStep
  <1>3. CASE Restart
    <2>1. /\ UNCHANGED <<row, inserts>> /\ Len(objects') = 0
          /\ \A u \in Tasks : task'[u].at = "idle"
      BY <1>3 DEF Restart, Idle
    <2>2. QED
      BY <2>1 DEF Named, RowIsNumbered, RowIsOneMachine, ObjectsNameRow, FetchedNamesRow,
                  WritersNameRow, At
  <1>4. CASE UNCHANGED vars
    BY <1>4, NamedKept DEF vars
  <1>5. QED BY <1>1, <1>2, <1>3, <1>4 DEF Next

LEMMA NamedInit == Init => Named /\ OneWriter
  <1> SUFFICES ASSUME Init PROVE Named /\ OneWriter
    OBVIOUS
  <1>1. row = Nothing /\ Len(objects) = 0
        /\ \A t \in Tasks : task[t].at = "idle" /\ task[t].req = Nothing
    BY DEF Init, Idle
  <1>2. QED
    BY <1>1 DEF Named, RowIsNumbered, RowIsOneMachine, ObjectsNameRow, FetchedNamesRow,
                WritersNameRow, OneWriter, IsLookup, At

\* The inductive invariant of the registrations that are awaited one after the other:
\* whatever carries the guid of the row carries its uuid.
THEOREM InvCorrect == UdpSpec => []IInv
  <1>1. Init => IInv
    BY TypeInit, NamedInit DEF Typed, Named, IInv
  <1>2. IInv /\ [Next /\ OneWriter']_vars => IInv'
    <2> SUFFICES ASSUME IInv, [Next /\ OneWriter']_vars PROVE IInv'
      OBVIOUS
    <2>1. Typed /\ Named /\ OneWriter /\ [Next]_vars
      BY DEF IInv, Typed, Named
    <2>2. Typed' /\ Named'
      BY <2>1, TypeStep, NamedStep
    <2>3. OneWriter'
      BY <2>1 DEF OneWriter, IsLookup, vars
    <2>4. QED BY <2>2, <2>3 DEF IInv, Typed, Named
  <1>3. QED BY <1>1, <1>2, PTL DEF UdpSpec

\* While registrations come over UDP, which hbbs awaits one after the other, the table
\* never pairs the uuid of one machine with the key of another, whatever look-ups,
\* administrators, failing database calls and restarts come in between.
THEOREM RowsAreOneMachine == UdpSpec => []RowIsOneMachine
  <1>1. IInv => RowIsOneMachine
    BY DEF IInv
  <1>2. QED BY <1>1, InvCorrect, PTL

-----------------------------------------------------------------------------
(* One administrator at a time: what a status comes to.                    *)

\* Rows are numbered from 1; what carries a number carries one that was given out.
Numbered ==
  /\ RowIsNumbered
  /\ \A i \in 1..Len(objects) : objects[i].guid <= inserts
  /\ \A t \in Tasks :
       /\ At(t, "install") => task[t].seen.guid \in 1..inserts
       /\ At(t, "store") => task[t].guid <= inserts
       /\ At(t, "set_guid") => task[t].guid \in 1..inserts

\* set_peer_status has written the row before it looks for the object.
RowIsSet ==
  \A a \in Admins : admin[a].at \in {"find", "apply"} =>
    row # Nothing /\ row.status = admin[a].status

\* Object i has the status of the row, or an administrator is about to see to it.
Alike(i) ==
  \/ objects[i].status = row.status
  \/ \E a \in Admins : \/ admin[a].at \in {"find", "unmap"}
                       \/ admin[a].at = "apply" /\ admin[a].obj = i

MapIsAlike == MapsRow /\ ~objects[map].stale => Alike(map)

\* So it is with the object that a task is about to link to the row it has inserted.
LinkIsAlike ==
  \A t \in Tasks : At(t, "set_guid") /\ task[t].obj = map /\ OfRow(task[t].guid) => Alike(map)

\* As long as there is no row, the object without one has no status.
NoRowNoStatus ==
  row = Nothing /\ AdminsIdle /\ map # 0 =>
    /\ objects[map].guid = 0 => objects[map].status = "unset"
    /\ \A t \in Tasks : At(t, "store") /\ task[t].guid = 0 /\ task[t].obj = map =>
         objects[map].status = "unset"

StatusInv == Numbered /\ RowIsSet /\ MapIsAlike /\ LinkIsAlike /\ NoRowNoStatus

LEMMA ObjectFacts ==
  ASSUME Typed
  PROVE  /\ Len(objects) \in Nat /\ inserts \in Nat /\ map \in 0..Len(objects)
         /\ \A i \in 1..Len(objects) : objects[i] \in Object /\ objects[i].guid \in Nat
  <1>1. /\ Len(objects) \in Nat /\ inserts \in Nat /\ map \in 0..Len(objects)
        /\ \A i \in 1..Len(objects) : objects[i] \in Object
    BY DEF Typed, TypeOK
  <1>2. \A o \in Object : o.guid \in Nat
    BY DEF Object
  <1>3. QED
    BY <1>1, <1>2

-----------------------------------------------------------------------------
(* The steps of a task.                                                    *)

\* Nothing that the invariant looks at changes, but the place of tasks that do not carry a guid.
LEMMA StatusQuiet ==
  ASSUME Typed, StatusInv,
         UNCHANGED <<row, inserts, map, admin>>, Len(objects') = Len(objects),
         \A i \in 1..Len(objects) : /\ objects'[i].guid = objects[i].guid
                                    /\ objects'[i].status = objects[i].status
                                    /\ objects'[i].stale = objects[i].stale,
         \A u \in Tasks : task'[u] = task[u] \/ task'[u].at \notin {"install", "store", "set_guid"}
  PROVE  StatusInv'
  <1>0. Len(objects) \in Nat /\ map \in 0..Len(objects)
    BY ObjectFacts
  <1>1. Numbered'
    BY DEF StatusInv, Numbered, RowIsNumbered, At
  <1>2. RowIsSet'
    BY DEF StatusInv, RowIsSet
  <1>3. map # 0 => Alike(map)' = Alike(map)
    BY <1>0 DEF Alike
  <1>4. MapIsAlike'
    BY <1>0, <1>3 DEF StatusInv, MapIsAlike, MapsRow
  <1>5. LinkIsAlike'
    <2>1. \A u \in Tasks : task[u].at \in Using => task[u].obj \in 1..Len(objects)
      BY HandlesInUse
    <2>2. QED
      BY <1>0, <1>3, <2>1 DEF StatusInv, LinkIsAlike, OfRow, At, Using
  <1>6. NoRowNoStatus'
    BY <1>0 DEF StatusInv, NoRowNoStatus, AdminsIdle, At
  <1>7. QED
    BY <1>1, <1>2, <1>4, <1>5, <1>6 DEF StatusInv

LEMMA StatusFetch ==
  ASSUME Typed, StatusInv, NEW t \in Tasks, Fetch(t)
  PROVE  StatusInv'
  <1>1. /\ \/ task'[t].at \in {"idle", "default"}
           \/ task'[t].at = "install" /\ task'[t].seen = row /\ row # Nothing
        /\ \A u \in Tasks \ {t} : task'[u] = task[u]
    BY FetchTask DEF Typed
  <1>2. UNCHANGED <<row, inserts, objects, map, admin>>
    BY DEF Fetch
  <1>3. Numbered'
    BY <1>1, <1>2 DEF StatusInv, Numbered, RowIsNumbered, At
  <1>4. RowIsSet' /\ MapIsAlike'
    BY <1>2 DEF StatusInv, RowIsSet, MapIsAlike, MapsRow, Alike
  <1>5. LinkIsAlike'
    BY <1>1, <1>2 DEF StatusInv, LinkIsAlike, OfRow, At, Alike
  <1>6. NoRowNoStatus'
    BY <1>1, <1>2 DEF StatusInv, NoRowNoStatus, AdminsIdle, At
  <1>7. QED
    BY <1>3, <1>4, <1>5, <1>6 DEF StatusInv

\* A new object takes the place under the id; no task has it yet but its maker.
LEMMA StatusMake ==
  ASSUME Typed, StatusInv, NEW t \in Tasks, NEW o \in Object,
         objects' = Append(objects, o), map' = Len(objects) + 1, Got(t, Len(objects) + 1),
         UNCHANGED <<row, inserts, admin, ops, acked>>,
         o.guid <= inserts,
         OfRow(o.guid) /\ ~o.stale => o.status = row.status,
         o.guid = 0 => o.status = "unset"
  PROVE  StatusInv'
  <1>1. /\ Len(objects') = Len(objects) + 1
        /\ objects'[Len(objects) + 1] = o
        /\ \A i \in 1..Len(objects) : objects'[i] = objects[i]
        /\ task'[t].at = "idle" \/ task'[t].at = "compare"
        /\ \A u \in Tasks \ {t} : task'[u] = task[u]
    BY MakeObject
  <1>2. Len(objects) \in Nat
    BY ObjectFacts
  <1>3. Numbered'
    <2>1. \A i \in 1..Len(objects') : i \in 1..Len(objects) \/ i = Len(objects) + 1
      BY <1>1, <1>2
    <2>2. QED
      BY <1>1, <2>1 DEF StatusInv, Numbered, RowIsNumbered, At
  <1>4. RowIsSet'
    BY DEF StatusInv, RowIsSet
  <1>5. MapIsAlike'
    BY <1>1 DEF MapIsAlike, MapsRow, Alike, OfRow
  <1>6. \A u \in Tasks : task'[u].at \in {"store", "set_guid"} => task'[u].obj # map'
    <2>1. \A u \in Tasks : task[u].at \in Using => task[u].obj \in 1..Len(objects)
      BY HandlesInUse
    <2>2. QED
      BY <1>1, <1>2, <2>1 DEF Using
  <1>7. LinkIsAlike'
    BY <1>6 DEF LinkIsAlike, At
  <1>8. NoRowNoStatus'
    BY <1>1, <1>6 DEF NoRowNoStatus, At
  <1>9. QED
    BY <1>3, <1>4, <1>5, <1>7, <1>8 DEF StatusInv

LEMMA StatusInstall ==
  ASSUME Typed, StatusInv, NEW t \in Tasks, Install(t)
  PROVE  StatusInv'
  <1> DEFINE o == FetchedObject(t)
  <1>1. /\ o \in Object
        /\ objects' = Append(objects, o) /\ map' = Len(objects) + 1
        /\ Got(t, Len(objects) + 1)
        /\ UNCHANGED <<row, inserts, admin, ops, acked>>
    BY InstallMakes
  <1>2. /\ o.guid = task[t].seen.guid /\ o.status = task[t].seen.status
        /\ o.stale = (task[t].seen # row)
    BY DEF FetchedObject
  <1>3. o.guid \in 1..inserts
    BY <1>2 DEF StatusInv, Numbered, Install
  <1>4. o.guid <= inserts /\ o.guid # 0
    BY <1>3, ObjectFacts
  <1>5. ~o.stale => o.status = row.status
    BY <1>2
  <1> HIDE DEF o
  <1>6. QED
    BY <1>1, <1>4, <1>5, StatusMake

LEMMA StatusDefault ==
  ASSUME Typed, StatusInv, NEW t \in Tasks, Default(t)
  PROVE  StatusInv'
  <1>1. CASE map # 0
    <2>1. /\ UNCHANGED <<row, inserts, objects>>
          /\ task'[t].at = "idle" \/ task'[t].at = "compare"
          /\ \A u \in Tasks \ {t} : task'[u] = task[u]
      BY <1>1, DefaultFinds
    <2>2. UNCHANGED <<map, admin>>
      BY <1>1 DEF Default
    <2>3. QED
      BY <2>1, <2>2, StatusQuiet
  <1>2. CASE map = 0
    <2>1. /\ EmptyObject \in Object
          /\ objects' = Append(objects, EmptyObject) /\ map' = Len(objects) + 1
          /\ Got(t, Len(objects) + 1)
          /\ UNCHANGED <<row, inserts, admin, ops, acked>>
      BY <1>2, DefaultMakes
    <2>2. EmptyObject.guid = 0 /\ EmptyObject.status = "unset"
      BY DEF EmptyObject
    <2>3. EmptyObject.guid <= inserts /\ ~OfRow(EmptyObject.guid)
      BY <2>2, ObjectFacts DEF OfRow, StatusInv, Numbered, RowIsNumbered
    <2>4. QED
      BY <2>1, <2>2, <2>3, StatusMake
  <1>3. QED
    BY <1>1, <1>2

LEMMA StatusWrite ==
  ASSUME Typed, StatusInv, NEW t \in Tasks, Write(t)
  PROVE  StatusInv'
  <1> DEFINE i == task[t].obj
  <1>1. /\ i \in 1..Len(objects)
        /\ UNCHANGED <<row, inserts>>
        /\ Len(objects') = Len(objects)
        /\ objects'[i].guid = objects[i].guid
        /\ \A j \in (1..Len(objects)) \ {i} : objects'[j] = objects[j]
        /\ task'[t].at = "store" /\ task'[t].obj = i /\ task'[t].guid = objects[i].guid
        /\ \A u \in Tasks \ {t} : task'[u] = task[u]
    BY WriteTask
  <1>2. /\ UNCHANGED <<map, admin>>
        /\ objects'[i].status = objects[i].status /\ objects'[i].stale = objects[i].stale
    BY <1>1, ObjectFacts DEF Write, WriteObject
  <1>3. \A j \in 1..Len(objects) : /\ objects'[j].guid = objects[j].guid
                                   /\ objects'[j].status = objects[j].status
                                   /\ objects'[j].stale = objects[j].stale
    BY <1>1, <1>2
  <1>4. Len(objects) \in Nat /\ map \in 0..Len(objects)
    BY ObjectFacts
  <1>5. Numbered'
    BY <1>1, <1>3 DEF StatusInv, Numbered, RowIsNumbered, At
  <1>6. RowIsSet'
    BY <1>1, <1>2 DEF StatusInv, RowIsSet
  <1>7. map # 0 => Alike(map)' = Alike(map)
    BY <1>1, <1>2, <1>3, <1>4 DEF Alike
  <1>8. MapIsAlike'
    BY <1>1, <1>2, <1>3, <1>4, <1>7 DEF StatusInv, MapIsAlike, MapsRow
  <1>9. LinkIsAlike'
    <2>1. \A u \in Tasks : task[u].at \in Using => task[u].obj \in 1..Len(objects)
      BY HandlesInUse
    <2>2. QED
      BY <1>1, <1>2, <1>4, <1>7, <2>1 DEF StatusInv, LinkIsAlike, OfRow, At, Using
  <1>10. NoRowNoStatus'
    BY <1>1, <1>2, <1>3, <1>4 DEF StatusInv, NoRowNoStatus, AdminsIdle, At
  <1>11. QED
    BY <1>5, <1>6, <1>8, <1>9, <1>10 DEF StatusInv

\* A new row has the status of the object its task has; an old one keeps its own.
LEMMA StatusStore ==
  ASSUME Typed, StatusInv, NEW t \in Tasks, Store(t)
  PROVE  StatusInv'
  <1>1. /\ objects' = objects /\ \A u \in Tasks \ {t} : task'[u] = task[u]
        /\ UNCHANGED <<map, admin>>
    BY StoreTask DEF Store
  <1>2. CASE row' = row /\ inserts' = inserts /\ task'[t].at = "idle"
    BY <1>1, <1>2, StatusQuiet
  <1>3. CASE /\ row # Nothing /\ row' # Nothing /\ inserts' = inserts /\ task'[t].at = "idle"
             /\ row'.guid = row.guid
    <2>1. row'.status = row.status
      BY <1>3 DEF Store, InsertRow, UpdateRow, StoreError
    <2>2. Numbered'
      BY <1>1, <1>3 DEF StatusInv, Numbered, RowIsNumbered, At
    <2>3. RowIsSet' /\ MapIsAlike'
      BY <1>1, <1>3, <2>1 DEF StatusInv, RowIsSet, MapIsAlike, MapsRow, Alike
    <2>4. LinkIsAlike'
      BY <1>1, <1>3, <2>1 DEF StatusInv, LinkIsAlike, OfRow, At, Alike
    <2>5. NoRowNoStatus'
      BY <1>3 DEF NoRowNoStatus
    <2>6. QED
      BY <2>2, <2>3, <2>4, <2>5 DEF StatusInv
  <1>4. CASE /\ row = Nothing /\ row' # Nothing /\ inserts' = inserts + 1
             /\ row'.guid = inserts + 1
             /\ task'[t].at = "set_guid" /\ task'[t].obj = task[t].obj
             /\ task'[t].guid = inserts + 1
    <2>0. /\ inserts \in Nat /\ Len(objects) \in Nat /\ map \in 0..Len(objects)
          /\ \A i \in 1..Len(objects) : objects[i].guid \in Nat
      BY ObjectFacts
    <2>1. row'.status = "unset" /\ task[t].guid = 0 /\ At(t, "store")
      BY <1>4, <2>0 DEF Store, InsertRow, UpdateRow, StoreError, Ack
    <2>2. \A u \in Tasks : /\ At(u, "install") => task[u].seen.guid \in Nat
                           /\ task[u].guid \in Nat
      BY DEF Typed, TypeOK, HandlesAreHeld, Task, Row, At
    <2>3. Numbered'
      <3>1. \A i \in 1..Len(objects) : objects[i].guid <= inserts + 1
        BY <2>0 DEF StatusInv, Numbered
      <3>2. \A u \in Tasks \ {t} :
              /\ At(u, "install") => task[u].seen.guid \in 1..(inserts + 1)
              /\ At(u, "store") => task[u].guid <= inserts + 1
              /\ At(u, "set_guid") => task[u].guid \in 1..(inserts + 1)
        <4>1. 1..inserts \subseteq 1..(inserts + 1)
          BY <2>0
        <4>2. \A g \in Nat : g <= inserts => g <= inserts + 1
          BY <2>0
        <4>3. QED
          BY <2>2, <4>1, <4>2 DEF StatusInv, Numbered
      <3>3. inserts + 1 \in 1..(inserts + 1)
        BY <2>0
      <3>4. QED
        BY <1>1, <1>4, <3>1, <3>2, <3>3 DEF Numbered, RowIsNumbered, At
    <2>4. RowIsSet'
      BY <1>1, <1>4 DEF StatusInv, RowIsSet
    <2>5. MapIsAlike'
      <3>1. map # 0 => objects[map].guid # inserts + 1
        BY <2>0 DEF StatusInv, Numbered
      <3>2. QED
        BY <1>1, <1>4, <3>1 DEF MapIsAlike, MapsRow
    <2>6. LinkIsAlike'
      <3>1. \A u \in Tasks \ {t} : At(u, "set_guid") => task[u].guid # inserts + 1
        BY <2>0 DEF StatusInv, Numbered
      <3>2. CASE AdminsIdle
        <4>1. task[t].obj \in 1..Len(objects)
          BY <2>1, HandlesInUse DEF At, Using
        <4>2. task[t].obj = map => objects[map].status = "unset"
          BY <2>0, <2>1, <1>4, <3>2, <4>1 DEF StatusInv, NoRowNoStatus
        <4>3. QED
          BY <1>1, <1>4, <2>1, <3>1, <4>2 DEF LinkIsAlike, OfRow, At, Alike
      <3>3. CASE ~AdminsIdle
        <4>1. PICK a \in Admins : admin[a].at # "idle"
          BY <3>3 DEF AdminsIdle
        <4>2. admin[a].at = "unmap"
          BY <1>4, <4>1 DEF StatusInv, RowIsSet, Typed, TypeOK, Change
        <4>3. QED
          BY <1>1, <4>2 DEF LinkIsAlike, Alike
      <3>4. QED
        BY <3>2, <3>3
    <2>7. NoRowNoStatus'
      BY <1>4 DEF NoRowNoStatus
    <2>8. QED
      BY <2>3, <2>4, <2>5, <2>6, <2>7 DEF StatusInv
  <1>5. QED
    BY <1>2, <1>3, <1>4, StoreTask

LEMMA StatusSetGuid ==
  ASSUME Typed, StatusInv, NEW t \in Tasks, SetGuid(t)
  PROVE  StatusInv'
  <1> DEFINE i == task[t].obj
  <1>1. /\ i \in 1..Len(objects)
        /\ UNCHANGED <<row, inserts>>
        /\ Len(objects') = Len(objects)
        /\ objects'[i].guid = task[t].guid
        /\ \A j \in (1..Len(objects)) \ {i} : objects'[j] = objects[j]
        /\ task'[t].at = "idle"
        /\ \A u \in Tasks \ {t} : task'[u] = task[u]
    BY SetGuidTask
  <1>2. /\ UNCHANGED <<map, admin>> /\ At(t, "set_guid")
        /\ objects'[i].status = objects[i].status /\ objects'[i].stale = objects[i].stale
    BY <1>1, ObjectFacts DEF SetGuid
  <1>3. \A j \in 1..Len(objects) : /\ objects'[j].status = objects[j].status
                                   /\ objects'[j].stale = objects[j].stale
    BY <1>1, <1>2
  <1>4. /\ Len(objects) \in Nat /\ map \in 0..Len(objects) /\ inserts \in Nat
        /\ task[t].guid \in 1..inserts
    BY <1>2, ObjectFacts DEF StatusInv, Numbered
  <1>5. task[t].guid <= inserts /\ task[t].guid # 0
    BY <1>4
  <1>6. Numbered'
    BY <1>1, <1>5 DEF StatusInv, Numbered, RowIsNumbered, At
  <1>7. RowIsSet'
    BY <1>1, <1>2 DEF StatusInv, RowIsSet
  <1>8. map # 0 => Alike(map)' = Alike(map)
    BY <1>1, <1>2, <1>3, <1>4 DEF Alike
  <1>9. MapIsAlike'
    <2>1. CASE map = i
      BY <1>1, <1>2, <1>4, <1>8, <2>1 DEF StatusInv, LinkIsAlike, MapIsAlike, MapsRow, OfRow
    <2>2. CASE map # i
      BY <1>1, <1>2, <1>4, <1>8, <2>2 DEF StatusInv, MapIsAlike, MapsRow
    <2>3. QED
      BY <2>1, <2>2
  <1>10. LinkIsAlike'
    <2>1. \A u \in Tasks : task[u].at \in Using => task[u].obj \in 1..Len(objects)
      BY HandlesInUse
    <2>2. QED
      BY <1>1, <1>2, <1>4, <1>8, <2>1 DEF StatusInv, LinkIsAlike, OfRow, At, Using
  <1>11. NoRowNoStatus'
    BY <1>1, <1>2, <1>3, <1>4, <1>5 DEF StatusInv, NoRowNoStatus, AdminsIdle, At
  <1>12. QED
    BY <1>6, <1>7, <1>9, <1>10, <1>11 DEF StatusInv

-----------------------------------------------------------------------------
(* The administrator.                                                      *)

OneAdmin == \A a, b \in Admins : a = b

LEMMA AdminRecord ==
  ASSUME Typed, OneAdmin, NEW a \in Admins, NEW v, admin' = [admin EXCEPT ![a] = v]
  PROVE  admin'[a] = v /\ \A b \in Admins : b = a
  BY DEF Typed, TypeOK, OneAdmin

LEMMA StatusAdmin ==
  ASSUME Typed, OneAdmin, StatusInv, NEW a \in Admins, AdminStep(a)
  PROVE  StatusInv'
  <1>0. /\ Len(objects) \in Nat /\ map \in 0..Len(objects)
        /\ \A u \in Tasks : task[u].at \in Using => task[u].obj \in 1..Len(objects)
    BY ObjectFacts, HandlesInUse
  <1>1. ASSUME NEW s \in Status, AdminUpdate(a, s) PROVE StatusInv'
    <2> DEFINE v == [at |-> "find", status |-> s, obj |-> 0]
    <2>1. /\ row # Nothing /\ row' # Nothing /\ row'.guid = row.guid
          /\ UNCHANGED <<inserts, objects, task>>
      BY <1>1, AdminUpdateTask
    <2>2. row'.status = s /\ map' = map /\ admin' = [admin EXCEPT ![a] = v]
      BY <1>1 DEF AdminUpdate
    <2>3. admin'[a] = v /\ \A b \in Admins : b = a
      BY <2>2, AdminRecord
    <2>4. Numbered'
      BY <2>1 DEF StatusInv, Numbered, RowIsNumbered, At
    <2>5. RowIsSet' /\ NoRowNoStatus'
      BY <2>1, <2>2, <2>3 DEF RowIsSet, NoRowNoStatus
    <2>6. MapIsAlike' /\ LinkIsAlike'
      BY <2>3 DEF MapIsAlike, LinkIsAlike, Alike
    <2>7. QED
      BY <2>4, <2>5, <2>6 DEF StatusInv
  <1>2. ASSUME AdminFind(a) PROVE StatusInv'
    <2> DEFINE v == IF map = 0 THEN AdminIdle
                    ELSE [at |-> "apply", status |-> admin[a].status, obj |-> map]
    <2>1. /\ UNCHANGED <<row, inserts, objects, map, task>> /\ admin[a].at = "find"
          /\ admin' = [admin EXCEPT ![a] = v]
      BY <1>2 DEF AdminFind
    <2>2. admin'[a] = v /\ \A b \in Admins : b = a
      BY <2>1, AdminRecord
    <2>3. Numbered'
      BY <2>1 DEF StatusInv, Numbered, RowIsNumbered, At
    <2>4. RowIsSet'
      BY <2>1, <2>2 DEF StatusInv, RowIsSet, AdminIdle
    <2>5. row' # Nothing
      BY <2>1 DEF StatusInv, RowIsSet
    <2>6. map # 0 => Alike(map)'
      BY <2>1, <2>2 DEF Alike
    <2>7. MapIsAlike' /\ LinkIsAlike' /\ NoRowNoStatus'
      BY <1>0, <2>1, <2>5, <2>6 DEF MapIsAlike, MapsRow, LinkIsAlike, NoRowNoStatus, At, Using
    <2>8. QED
      BY <2>3, <2>4, <2>7 DEF StatusInv
  <1>3. ASSUME AdminApply(a) PROVE StatusInv'
    <2> DEFINE i == admin[a].obj
    <2>1. /\ UNCHANGED <<row, inserts, task>> /\ Len(objects') = Len(objects)
          /\ \A j \in 1..Len(objects) : objects'[j].guid = objects[j].guid
      BY <1>3, AdminApplyTask
    <2>2. /\ map' = map /\ admin' = [admin EXCEPT ![a] = AdminIdle] /\ admin[a].at = "apply"
          /\ i \in 1..Len(objects)
      BY <1>3 DEF AdminApply, Typed, HandlesAreHeld
    <2>3. /\ objects'[i].status = admin[a].status
          /\ \A j \in (1..Len(objects)) \ {i} : objects'[j] = objects[j]
      BY <1>3, <2>2 DEF AdminApply, Typed, TypeOK
    <2>4. objects'[i].stale = objects[i].stale
      BY <1>3, <2>2 DEF AdminApply, Typed, TypeOK
    <2>5. admin'[a] = AdminIdle /\ \A b \in Admins : b = a
      BY <2>2, AdminRecord
    <2>6. row # Nothing /\ row.status = admin[a].status
      BY <2>2 DEF StatusInv, RowIsSet
    <2>7. Numbered'
      BY <2>1 DEF StatusInv, Numbered, RowIsNumbered, At
    <2>8. RowIsSet' /\ NoRowNoStatus'
      BY <2>1, <2>5, <2>6 DEF RowIsSet, NoRowNoStatus, AdminIdle
    <2>9. map # 0 /\ (map = i \/ Alike(map)) => Alike(map)'
      <3>1. CASE map = i
        BY <2>1, <2>2, <2>3, <2>6, <3>1 DEF Alike
      <3>2. CASE map # i
        BY <1>0, <2>1, <2>2, <2>3, <2>5, <3>2 DEF Alike
      <3>3. QED
        BY <3>1, <3>2
    <2>10. MapIsAlike'
      BY <1>0, <2>1, <2>2, <2>3, <2>4, <2>9 DEF StatusInv, MapIsAlike, MapsRow
    <2>11. LinkIsAlike'
      BY <1>0, <2>1, <2>2, <2>9 DEF StatusInv, LinkIsAlike, OfRow, At, Using
    <2>12. QED
      BY <2>7, <2>8, <2>10, <2>11 DEF StatusInv
  <1>4. ASSUME AdminDelete(a) PROVE StatusInv'
    <2> DEFINE v == [at |-> "unmap", status |-> "unset", obj |-> 0]
    <2>1. /\ row' = Nothing /\ UNCHANGED <<inserts, objects, map, task>>
          /\ admin' = [admin EXCEPT ![a] = v]
      BY <1>4 DEF AdminDelete
    <2>2. admin'[a] = v /\ \A b \in Admins : b = a
      BY <2>1, AdminRecord
    <2>3. Numbered'
      BY <2>1 DEF StatusInv, Numbered, RowIsNumbered, At
    <2>4. RowIsSet' /\ MapIsAlike' /\ LinkIsAlike' /\ NoRowNoStatus'
      BY <2>1, <2>2 DEF RowIsSet, MapIsAlike, MapsRow, LinkIsAlike, OfRow, NoRowNoStatus, AdminsIdle
    <2>5. QED
      BY <2>3, <2>4 DEF StatusInv
  <1>5. ASSUME AdminUnmap(a) PROVE StatusInv'
    <2>1. /\ map' = 0 /\ UNCHANGED <<row, inserts, objects, task>>
          /\ admin' = [admin EXCEPT ![a] = AdminIdle]
      BY <1>5 DEF AdminUnmap
    <2>2. admin'[a] = AdminIdle /\ \A b \in Admins : b = a
      BY <2>1, AdminRecord
    <2>3. Numbered'
      BY <2>1 DEF StatusInv, Numbered, RowIsNumbered, At
    <2>4. RowIsSet' /\ MapIsAlike' /\ LinkIsAlike' /\ NoRowNoStatus'
      BY <1>0, <2>1, <2>2
      DEF RowIsSet, MapIsAlike, MapsRow, LinkIsAlike, NoRowNoStatus, AdminIdle, At, Using
    <2>5. QED
      BY <2>3, <2>4 DEF StatusInv
  <1>6. QED
    BY <1>1, <1>2, <1>3, <1>4, <1>5 DEF AdminStep

-----------------------------------------------------------------------------
LEMMA StatusStep ==
  ASSUME OneAdmin, Typed, StatusInv, [Next]_vars
  PROVE  StatusInv'
  <1>1. ASSUME NEW t \in Tasks, TaskStep(t) PROVE StatusInv'
    <2>1. ASSUME UNCHANGED <<row, inserts, objects, map, admin>>,
                 task'[t].at \notin {"install", "store", "set_guid"},
                 \A u \in Tasks \ {t} : task'[u] = task[u]
          PROVE  StatusInv'
      BY <2>1, StatusQuiet
    <2>2. ASSUME NEW place \in {"find", "gate"}, NEW req \in Requests \cup {Nothing},
                 Begin(t, place, req)
          PROVE  StatusInv'
      BY <2>1, <2>2, BeginTask DEF Begin, Typed, Places
    <2>3. CASE StartLookup(t) \/ (\E r \in Requests : StartRegister(t, r))
      BY <2>2, <2>3 DEF StartLookup, StartRegister
    <2>4. CASE Gate(t)
      <3>1. Return(t) \/ Goto(t, "find")
        BY <2>4 DEF Gate
      <3>2. task'[t].at \in {"idle", "find"} /\ \A u \in Tasks \ {t} : task'[u] = task[u]
        <4>1. CASE Return(t)
          BY <4>1, ReturnTask DEF Typed
        <4>2. CASE Goto(t, "find")
          BY <4>2, GotoTask DEF Typed, Places
        <4>3. QED
          BY <3>1, <4>1, <4>2
      <3>3. QED
        BY <2>1, <2>4, <3>2 DEF Gate
    <2>5. CASE FindInMap(t)
      <3>1. map \in Nat
        BY DEF Typed, TypeOK
      <3>2. Got(t, map) \/ Goto(t, "fetch")
        BY <2>5 DEF FindInMap
      <3>3. task'[t].at \in {"idle", "fetch", "compare"} /\ \A u \in Tasks \ {t} : task'[u] = task[u]
        <4>1. CASE Got(t, map)
          BY <3>1, <4>1, GotTask DEF Typed
        <4>2. CASE Goto(t, "fetch")
          BY <4>2, GotoTask DEF Typed, Places
        <4>3. QED
          BY <3>2, <4>1, <4>2
      <3>4. QED
        BY <2>1, <2>5, <3>3 DEF FindInMap
    <2>6. CASE Compare(t)
      <3>1. /\ UNCHANGED <<row, inserts, objects>>
            /\ task'[t].at \in {"idle", "write"} /\ \A u \in Tasks \ {t} : task'[u] = task[u]
        BY <2>6, CompareTask
      <3>2. QED
        BY <2>1, <2>6, <3>1 DEF Compare
    <2>7. QED
      BY <1>1, <2>3, <2>4, <2>5, <2>6, StatusFetch, StatusInstall, StatusDefault, StatusWrite,
         StatusStore, StatusSetGuid
      DEF TaskStep
  <1>2. CASE Restart
    <2>1. /\ UNCHANGED <<row, inserts>> /\ Len(objects') = 0 /\ map' = 0
          /\ \A t \in Tasks : task'[t] = Idle
          /\ \A a \in Admins : admin'[a] = AdminIdle
      BY <1>2 DEF Restart
    <2>2. RowIsNumbered'
      BY <2>1 DEF StatusInv, Numbered, RowIsNumbered
    <2>3. Numbered'
      BY <2>1, <2>2 DEF Numbered, At, Idle
    <2>4. (RowIsSet /\ MapIsAlike /\ LinkIsAlike /\ NoRowNoStatus)'
      BY <2>1 DEF RowIsSet, MapIsAlike, MapsRow, LinkIsAlike, NoRowNoStatus, At, Idle, AdminIdle
    <2>5. QED
      BY <2>3, <2>4 DEF StatusInv
  <1>3. CASE UNCHANGED vars
    BY <1>3, StatusQuiet DEF vars
  <1>4. QED
    BY <1>1, <1>2, <1>3, StatusAdmin DEF Next

\* While the requests of the admin API come one after the other, the status in memory is the
\* one in the row when set_peer_status has returned, whatever registrations, look-ups,
\* deletions, failing database calls and restarts come in between.
THEOREM StatusIsInMemory ==
  ASSUME \A a, b \in Admins : a = b
  PROVE  Spec => []StatusReachesMemory
  <1>1. OneAdmin
    BY DEF OneAdmin
  <1>2. Init => Typed /\ StatusInv
    <2> SUFFICES ASSUME Init PROVE StatusInv
      BY TypeInit
    <2>1. /\ RowIsNumbered /\ Len(objects) = 0 /\ map = 0
          /\ \A t \in Tasks : task[t].at = "idle" /\ task[t].obj = 0
          /\ \A a \in Admins : admin[a].at = "idle"
      BY DEF Init, RowIsNumbered, Idle, AdminIdle
    <2>2. Numbered
      BY <2>1 DEF Numbered, At
    <2>3. RowIsSet /\ MapIsAlike
      BY <2>1 DEF RowIsSet, MapIsAlike, MapsRow
    <2>4. LinkIsAlike /\ NoRowNoStatus
      BY <2>1 DEF LinkIsAlike, NoRowNoStatus, At
    <2>5. QED
      BY <2>2, <2>3, <2>4 DEF StatusInv
  <1>3. Typed /\ StatusInv /\ [Next]_vars => (Typed /\ StatusInv)'
    BY <1>1, TypeStep, StatusStep
  <1>4. Typed /\ StatusInv => StatusReachesMemory
    BY DEF StatusInv, MapIsAlike, Alike, StatusReachesMemory, AdminsIdle
  <1>5. QED
    BY <1>2, <1>3, <1>4, PTL DEF Spec

-----------------------------------------------------------------------------
(* A machine that was told OK has its row.                                 *)

\* As long as there is no row, nothing was acknowledged, nothing carries a guid, and an
\* object that has a machine is about to be stored by the task that wrote it.
Unstored ==
  row = Nothing =>
    /\ acked = {}
    /\ \A t \in Tasks : /\ ~At(t, "install") /\ ~At(t, "set_guid")
                        /\ At(t, "store") => task[t].guid = 0
    /\ \A i \in 1..Len(objects) :
         /\ objects[i].guid = 0
         /\ objects[i].uuid # Nothing => \E t \in Tasks : At(t, "store") /\ task[t].obj = i

\* A step that leaves the row, the acknowledgements and what the objects carry, and after
\* which a task is neither with a row nor away from storing one.
LEMMA UnstoredKept ==
  ASSUME Typed, Unstored, row' = row, acked' = acked,
         Len(objects') = Len(objects),
         \A i \in 1..Len(objects) :
           objects'[i].guid = objects[i].guid /\ objects'[i].uuid = objects[i].uuid,
         \A u \in Tasks : \/ task'[u] = task[u]
                          \/ task[u].at # "store" /\ task'[u].at \notin Naming
  PROVE  Unstored'
  <1> SUFFICES ASSUME row = Nothing PROVE Unstored'
    BY DEF Unstored
  <1>1. \A t \in Tasks : /\ ~At(t, "install")' /\ ~At(t, "set_guid")'
                         /\ At(t, "store")' => task'[t].guid = 0
    BY DEF Unstored, At, Naming
  <1>2. ASSUME NEW i \in 1..Len(objects)
        PROVE  /\ objects'[i].guid = 0
               /\ objects'[i].uuid # Nothing => \E t \in Tasks : At(t, "store")' /\ task'[t].obj = i
    BY DEF Unstored, At
  <1>3. QED
    BY <1>1, <1>2 DEF Unstored, At

\* get_or makes an object without a row.
LEMMA DefaultUnstored ==
  ASSUME Typed, Unstored, NEW t \in Tasks, Default(t)
  PROVE  Unstored'
  <1>1. CASE map = 0
    <2> SUFFICES ASSUME row = Nothing PROVE Unstored'
      BY <1>1, DefaultMakes DEF Unstored
    <2>1. /\ Len(objects') = Len(objects) + 1 /\ objects'[Len(objects) + 1] = EmptyObject
          /\ \A i \in 1..Len(objects) : objects'[i] = objects[i]
          /\ task'[t].at = "idle" \/ task'[t].at = "compare"
          /\ \A u \in Tasks \ {t} : task'[u] = task[u]
          /\ row' = row /\ acked' = acked
      BY <1>1, DefaultMakes, MakeObject
    <2>2. \A u \in Tasks : \/ task'[u] = task[u]
                           \/ task[u].at # "store" /\ task'[u].at \notin Naming
      BY <2>1 DEF Default, At, Naming
    <2>3. \A u \in Tasks : /\ ~At(u, "install")' /\ ~At(u, "set_guid")'
                           /\ At(u, "store")' => task'[u].guid = 0
      BY <2>2 DEF Unstored, At, Naming
    <2>4. EmptyObject.guid = 0 /\ EmptyObject.uuid = Nothing
      BY DEF EmptyObject
    <2>5. Len(objects) \in Nat
      BY DEF Typed, TypeOK
    <2>6. ASSUME NEW i \in 1..Len(objects')
          PROVE  /\ objects'[i].guid = 0
                 /\ objects'[i].uuid # Nothing => \E u \in Tasks : At(u, "store")' /\ task'[u].obj = i
      <3>1. CASE i \in 1..Len(objects)
        BY <2>1, <2>2, <3>1 DEF Unstored, At
      <3>2. CASE i = Len(objects) + 1
        BY <2>1, <2>4, <3>2
      <3>3. QED
        BY <2>1, <2>5, <3>1, <3>2
    <2>7. QED
      BY <2>1, <2>3, <2>6 DEF Unstored, At
  <1>2. CASE map # 0
    <2>1. /\ UNCHANGED <<row, objects, acked>>
          /\ task'[t].at = "idle" \/ task'[t].at = "compare"
          /\ \A u \in Tasks \ {t} : task'[u] = task[u]
      BY <1>2, DefaultFinds DEF Default
    <2>2. \A u \in Tasks : \/ task'[u] = task[u]
                           \/ task[u].at # "store" /\ task'[u].at \notin Naming
      BY <2>1 DEF Default, At, Naming
    <2>3. QED
      BY <2>1, <2>2, UnstoredKept
  <1>3. QED
    BY <1>1, <1>2

\* A machine is not acknowledged for an object that has none.
LEMMA CompareUnstored ==
  ASSUME Typed, OneWriter, Unstored, NEW t \in Tasks, Compare(t)
  PROVE  Unstored'
  <1> SUFFICES ASSUME row = Nothing PROVE Unstored'
    BY DEF Compare, Unstored
  <1>1. /\ task[t].at = "compare" /\ task[t].at \in Using /\ task[t].obj \in 1..Len(objects)
    BY HandlesInUse DEF Compare, At, Using
  <1>2. objects[task[t].obj].uuid = Nothing
    <2> SUFFICES ASSUME objects[task[t].obj].uuid # Nothing PROVE FALSE
      OBVIOUS
    <2>1. PICK u \in Tasks : task[u].at = "store"
      BY <1>1 DEF Unstored, At
    <2>2. u \in Tasks \ {t} /\ task[u].at \in Using
      BY <1>1, <2>1 DEF Using
    <2>3. QED
      BY <1>1, <2>2, OnlyWriter
  <1>3. acked' = acked
    BY <1>2 DEF Compare, Changed
  <1>4. /\ UNCHANGED <<row, objects>>
        /\ task'[t].at = "idle" \/ task'[t].at = "write"
        /\ \A u \in Tasks \ {t} : task'[u] = task[u]
    BY CompareTask
  <1>5. /\ ~At(t, "install")' /\ ~At(t, "set_guid")' /\ ~At(t, "store")'
    BY <1>4 DEF At
  <1>6. ASSUME NEW u \in Tasks
        PROVE  /\ ~At(u, "install")' /\ ~At(u, "set_guid")'
               /\ At(u, "store")' => task'[u].guid = 0
    BY <1>4, <1>5 DEF Unstored, At
  <1>7. ASSUME NEW i \in 1..Len(objects)
        PROVE  /\ objects'[i].guid = 0
               /\ objects'[i].uuid # Nothing => \E u \in Tasks : At(u, "store")' /\ task'[u].obj = i
    BY <1>1, <1>4 DEF Unstored, At
  <1>8. QED
    BY <1>3, <1>4, <1>6, <1>7 DEF Unstored, At

\* update_pk has given an object its machine, and goes on to store it.
LEMMA WriteUnstored ==
  ASSUME Typed, OneWriter, Unstored, NEW t \in Tasks, Write(t)
  PROVE  Unstored'
  <1> SUFFICES ASSUME row = Nothing PROVE Unstored'
    BY DEF Write, WriteObject, Unstored
  <1> DEFINE i == task[t].obj
  <1>1. /\ i \in 1..Len(objects)
        /\ UNCHANGED <<row, acked>>
        /\ Len(objects') = Len(objects)
        /\ objects'[i].guid = objects[i].guid
        /\ \A j \in (1..Len(objects)) \ {i} : objects'[j] = objects[j]
        /\ task'[t].at = "store" /\ task'[t].obj = i /\ task'[t].guid = objects[i].guid
        /\ \A u \in Tasks \ {t} : task'[u] = task[u]
    BY WriteTask DEF Write, WriteObject
  <1>2. task[t].at = "write"
    BY DEF Write, WriteObject, At
  <1> HIDE DEF i
  <1>3. ASSUME NEW u \in Tasks
        PROVE  /\ ~At(u, "install")' /\ ~At(u, "set_guid")'
               /\ At(u, "store")' => task'[u].guid = 0
    BY <1>1 DEF Unstored, At
  <1>4. ASSUME NEW j \in 1..Len(objects)
        PROVE  /\ objects'[j].guid = 0
               /\ objects'[j].uuid # Nothing => \E u \in Tasks : At(u, "store")' /\ task'[u].obj = j
    <2>1. CASE j = i
      BY <1>1, <2>1 DEF Unstored, At
    <2>2. CASE j # i
      <3>1. objects'[j] = objects[j]
        BY <1>1, <2>2
      <3>2. objects[j].uuid # Nothing => \E u \in Tasks \ {t} : At(u, "store") /\ task[u].obj = j
        BY <1>2 DEF Unstored, At
      <3>3. QED
        BY <1>1, <3>1, <3>2 DEF Unstored, At
    <2>3. QED
      BY <2>1, <2>2
  <1>5. QED
    BY <1>1, <1>3, <1>4 DEF Unstored, At

\* Without database errors the row is there once the store was tried.
LEMMA StoreUnstored ==
  ASSUME Typed, "db_error" \notin Faults, Unstored, NEW t \in Tasks, Store(t)
  PROVE  Unstored'
  <1>1. CASE row # Nothing
    <2>1. row' # Nothing
      BY <1>1, StoreTask
    <2>2. QED
      BY <2>1 DEF Unstored
  <1>2. CASE row = Nothing
    <2>1. task[t].guid = 0
      BY <1>2 DEF Unstored, Store, At
    <2>2. InsertRow(t)
      BY <1>2, <2>1 DEF Store
    <2>3. row' \in Row
      <3>1. /\ task[t].req \in Requests /\ inserts \in Nat
        BY HandlesInUse DEF Store, At, Using, Typed, TypeOK
      <3>2. task[t].req.uuid \in Uuids /\ task[t].req.pk \in Pks /\ task[t].req.ip \in Ips
        BY <3>1, FrameTypes
      <3>3. QED
        BY <2>2, <3>1, <3>2 DEF InsertRow, Row, Status
    <2>4. row' # Nothing
      BY <2>3, RegistryAssumption
    <2>5. QED
      BY <2>4 DEF Unstored
  <1>3. QED
    BY <1>1, <1>2

LEMMA UnstoredStep ==
  ASSUME Faults \cap {"db_error", "delete"} = {}, Typed, OneWriter, Unstored, [Next]_vars
  PROVE  Unstored'
  <1>1. ASSUME NEW t \in Tasks, TaskStep(t) PROVE Unstored'
    <2>1. ASSUME UNCHANGED <<row, objects, acked>>, task[t].at # "store",
                 task'[t].at \notin Naming, \A u \in Tasks \ {t} : task'[u] = task[u]
          PROVE  Unstored'
      BY <2>1, UnstoredKept
    <2>2. ASSUME NEW place \in {"find", "gate"}, NEW req \in Requests \cup {Nothing},
                 Begin(t, place, req)
          PROVE  Unstored'
      BY <2>1, <2>2, BeginTask DEF Begin, Typed, Places, Naming, At
    <2>3. CASE StartLookup(t) \/ (\E r \in Requests : StartRegister(t, r))
      BY <2>2, <2>3 DEF StartLookup, StartRegister
    <2>4. CASE Gate(t)
      <3>1. Return(t) \/ Goto(t, "find")
        BY <2>4 DEF Gate
      <3>2. task'[t].at \in {"idle", "find"} /\ \A u \in Tasks \ {t} : task'[u] = task[u]
        <4>1. CASE Return(t)
          BY <4>1, ReturnTask DEF Typed
        <4>2. CASE Goto(t, "find")
          BY <4>2, GotoTask DEF Typed, Places
        <4>3. QED BY <3>1, <4>1, <4>2
      <3>3. QED BY <2>1, <2>4, <3>2 DEF Gate, Naming, At
    <2>5. CASE FindInMap(t)
      <3>1. map \in Nat
        BY DEF Typed, TypeOK
      <3>2. Got(t, map) \/ Goto(t, "fetch")
        BY <2>5 DEF FindInMap
      <3>3. task'[t].at \in {"idle", "fetch", "compare"} /\ \A u \in Tasks \ {t} : task'[u] = task[u]
        <4>1. CASE Got(t, map)
          BY <3>1, <4>1, GotTask DEF Typed
        <4>2. CASE Goto(t, "fetch")
          BY <4>2, GotoTask DEF Typed, Places
        <4>3. QED BY <3>2, <4>1, <4>2
      <3>4. QED BY <2>1, <2>5, <3>3 DEF FindInMap, Naming, At
    <2>6. CASE Fetch(t)
      <3>1. CASE row = Nothing
        BY <2>1, <2>6, <3>1, FetchTask DEF Fetch, Naming, At, Typed
      <3>2. CASE row # Nothing
        BY <2>6, <3>2 DEF Fetch, Unstored
      <3>3. QED BY <3>1, <3>2
    <2>7. CASE Install(t) \/ SetGuid(t)
      <3>1. row # Nothing
        BY <2>7 DEF Install, SetGuid, Unstored
      <3>2. QED
        BY <2>7, <3>1 DEF Install, SetGuid, Unstored
    <2>8. QED
      BY <1>1, <2>3, <2>4, <2>5, <2>6, <2>7, DefaultUnstored, CompareUnstored, WriteUnstored, StoreUnstored
      DEF TaskStep
  <1>2. ASSUME NEW a \in Admins, AdminStep(a) PROVE Unstored'
    <2>1. CASE \E s \in Status : AdminUpdate(a, s)
      <3>1. row # Nothing /\ row' # Nothing
        BY <2>1, AdminUpdateTask DEF AdminUpdate
      <3>2. QED
        BY <3>1 DEF Unstored
    <2>2. CASE AdminApply(a)
      BY <2>2, AdminApplyTask, UnstoredKept DEF AdminApply
    <2>3. CASE AdminFind(a) \/ AdminUnmap(a)
      BY <2>3, UnstoredKept DEF AdminFind, AdminUnmap
    <2>4. ~AdminDelete(a)
      BY DEF AdminDelete
    <2>5. QED BY <1>2, <2>1, <2>2, <2>3, <2>4 DEF AdminStep
  <1>3. CASE Restart
    <2>1. /\ UNCHANGED <<row, acked>> /\ Len(objects') = 0
          /\ \A u \in Tasks : task'[u].at = "idle"
      BY <1>3 DEF Restart, Idle
    <2>2. QED
      BY <2>1 DEF Unstored, At
  <1>4. CASE UNCHANGED vars
    BY <1>4, UnstoredKept DEF vars
  <1>5. QED BY <1>1, <1>2, <1>3, <1>4 DEF Next

\* Once there is a row, whatever was acknowledged, is in memory or was fetched has its uuid.
Recorded ==
  row # Nothing =>
    /\ \A u \in acked : u = row.uuid
    /\ \A i \in 1..Len(objects) : objects[i].uuid = row.uuid
    /\ \A t \in Tasks : /\ ~At(t, "default")
                        /\ At(t, "install") => task[t].seen.uuid = row.uuid

\* Before, there is one object at most, which the map has; only a registration makes it.
OneObject ==
  /\ row = Nothing => Len(objects) <= 1
  /\ map = 0 => Len(objects) = 0
  /\ \A a \in Admins : admin[a].at # "unmap"
  /\ \A t \in Tasks : At(t, "default") => ~IsLookup(t)

\* A step that keeps the uuids of the row and of the objects, and acknowledges nobody but the
\* machine of the row.
LEMMA RecordedKept ==
  ASSUME Typed, Recorded, OneObject,
         row' = row \/ (row # Nothing /\ row' # Nothing /\ row'.uuid = row.uuid),
         acked' \subseteq acked \cup (IF row = Nothing THEN {} ELSE {row.uuid}),
         Len(objects') = Len(objects),
         \A i \in 1..Len(objects) : objects'[i].uuid = objects[i].uuid,
         map' = map,
         \A a \in Admins : admin'[a].at # "unmap",
         \A u \in Tasks : task'[u] = task[u] \/ task'[u].at \notin {"install", "default"}
  PROVE  Recorded' /\ OneObject'
  <1>1. Recorded'
    <2> SUFFICES ASSUME row' # Nothing PROVE Recorded'
      BY DEF Recorded
    <2>1. row # Nothing /\ row'.uuid = row.uuid
      OBVIOUS
    <2>2. \A u \in acked' : u = row.uuid
      BY <2>1 DEF Recorded
    <2>3. \A i \in 1..Len(objects') : objects'[i].uuid = row.uuid
      BY <2>1 DEF Recorded
    <2>4. \A t \in Tasks : /\ ~At(t, "default")'
                          /\ At(t, "install")' => task'[t].seen.uuid = row.uuid
      BY <2>1 DEF Recorded, At
    <2>5. QED
      BY <2>1, <2>2, <2>3, <2>4 DEF Recorded, At
  <1>2. OneObject'
    BY DEF OneObject, At, IsLookup
  <1>3. QED
    BY <1>1, <1>2

\* What a look-up finds in the table it finds under the uuid of the row.
LEMMA FetchRecorded ==
  ASSUME "db_error" \notin Faults, Typed, Recorded, OneObject, NEW t \in Tasks, Fetch(t)
  PROVE  Recorded' /\ OneObject'
  <1>1. UNCHANGED <<row, objects, map, admin, acked>>
    BY DEF Fetch
  <1>2. /\ \/ task'[t].at \in {"idle", "default"}
           \/ task'[t].at = "install" /\ task'[t].seen = row /\ row # Nothing
        /\ \A u \in Tasks \ {t} : task'[u] = task[u]
    BY FetchTask DEF Typed
  <1>3. At(t, "default")' => row = Nothing /\ ~IsLookup(t) /\ task'[t].req = task[t].req
    <2> SUFFICES ASSUME task'[t].at = "default"
                 PROVE  row = Nothing /\ ~IsLookup(t) /\ task'[t].req = task[t].req
      BY DEF At
    <2>1. task[t] \in Task
      BY DEF Typed, TypeOK
    <2>2. ~Return(t)
      BY ReturnTask DEF Typed
    <2>3. task' # [task EXCEPT ![t] = [at |-> "install", req |-> @.req, seen |-> row,
                                       obj |-> 0, guid |-> 0]]
      BY DEF Typed, TypeOK
    <2>4. row = Nothing /\ ~IsLookup(t) /\ Goto(t, "default")
      BY <2>2, <2>3 DEF Fetch
    <2>5. QED
      BY <2>1, <2>4, GotoTask DEF Typed, Places, Task
  <1>4. Recorded'
    BY <1>1, <1>2, <1>3 DEF Recorded, At
  <1>5. OneObject'
    BY <1>1, <1>2, <1>3 DEF OneObject, At, IsLookup
  <1>6. QED
    BY <1>4, <1>5

\* An object is made from the row, or while there is none.
LEMMA MakeRecorded ==
  ASSUME Typed, Unstored, Recorded, OneObject, NEW t \in Tasks, Install(t) \/ Default(t)
  PROVE  Recorded' /\ OneObject'
  <1>0. Len(objects) \in Nat
    BY DEF Typed, TypeOK
  <1>1. CASE Install(t)
    <2>1. /\ Len(objects') = Len(objects) + 1 /\ objects'[Len(objects) + 1] = FetchedObject(t)
          /\ \A i \in 1..Len(objects) : objects'[i] = objects[i]
          /\ task'[t].at = "idle" \/ task'[t].at = "compare"
          /\ \A u \in Tasks \ {t} : task'[u] = task[u]
          /\ UNCHANGED <<row, admin, acked>> /\ map' = Len(objects) + 1
      BY <1>1, InstallMakes, MakeObject
    <2>2. row # Nothing /\ FetchedObject(t).uuid = row.uuid
      BY <1>1 DEF Install, Unstored, Recorded, FetchedObject, At
    <2>3. \A i \in 1..Len(objects') : i \in 1..Len(objects) \/ i = Len(objects) + 1
      BY <1>0, <2>1
    <2>4. \A i \in 1..Len(objects') : objects'[i].uuid = row.uuid
      BY <2>1, <2>2, <2>3 DEF Recorded
    <2>5. Recorded'
      BY <2>1, <2>2, <2>4 DEF Recorded, At
    <2>6. OneObject'
      BY <1>0, <2>1, <2>2 DEF OneObject, At, IsLookup
    <2>7. QED
      BY <2>5, <2>6
  <1>2. CASE Default(t) /\ map = 0
    <2>1. /\ Len(objects') = Len(objects) + 1
          /\ task'[t].at = "idle" \/ task'[t].at = "compare"
          /\ \A u \in Tasks \ {t} : task'[u] = task[u]
          /\ UNCHANGED <<row, admin>> /\ map' = Len(objects) + 1
      BY <1>2, DefaultMakes, MakeObject
    <2>2. row = Nothing /\ Len(objects) = 0
      BY <1>2 DEF Default, Recorded, OneObject
    <2>3. QED
      BY <2>1, <2>2 DEF Recorded, OneObject, At, IsLookup
  <1>3. CASE Default(t) /\ map # 0
    <2>1. /\ UNCHANGED <<row, objects, map, admin, acked>>
          /\ task'[t].at = "idle" \/ task'[t].at = "compare"
          /\ \A u \in Tasks \ {t} : task'[u] = task[u]
      BY <1>3, DefaultFinds DEF Default
    <2>2. \A u \in Tasks : task'[u] = task[u] \/ task'[u].at \notin {"install", "default"}
      BY <2>1
    <2>3. \A a \in Admins : admin'[a].at # "unmap"
      BY <2>1 DEF OneObject
    <2>4. QED
      BY <2>1, <2>2, <2>3, RecordedKept
  <1>4. QED
    BY <1>1, <1>2, <1>3

\* A frame that changes nothing is the one of the machine in memory, and so of the row.
LEMMA CompareRecorded ==
  ASSUME Typed, OneWriter, Unstored, Recorded, OneObject, NEW t \in Tasks, Compare(t)
  PROVE  Recorded' /\ OneObject'
  <1> DEFINE o == objects[task[t].obj]
             r == task[t].req
  <1>1. /\ UNCHANGED <<row, objects, map, admin>>
        /\ task'[t].at = "idle" \/ task'[t].at = "write"
        /\ \A u \in Tasks \ {t} : task'[u] = task[u]
    BY CompareTask DEF Compare
  <1>2. acked' = acked \/ (acked' = acked \cup {r.uuid} /\ ~UuidMismatch(o, r) /\ ~Changed(o, r))
    BY DEF Compare, Ack
  <1>3. task[t].obj \in 1..Len(objects)
    BY HandlesInUse DEF Compare, At, Using
  <1> HIDE DEF o, r
  <1>4. acked' \subseteq acked \cup (IF row = Nothing THEN {} ELSE {row.uuid})
    <2>1. CASE acked' = acked
      BY <2>1
    <2>2. CASE acked' = acked \cup {r.uuid} /\ ~UuidMismatch(o, r) /\ ~Changed(o, r)
      <3>1. row # Nothing
        BY <1>1, <2>2, CompareUnstored DEF Unstored
      <3>2. o.uuid = r.uuid
        BY <2>2 DEF UuidMismatch, Changed
      <3>3. o.uuid = row.uuid
        BY <1>3, <3>1 DEF Recorded, o
      <3>4. QED
        BY <2>2, <3>1, <3>2, <3>3
    <2>3. QED
      BY <1>2, <2>1, <2>2
  <1>5. \A u \in Tasks : task'[u] = task[u] \/ task'[u].at \notin {"install", "default"}
    BY <1>1
  <1>6. \A a \in Admins : admin'[a].at # "unmap"
    BY <1>1 DEF OneObject
  <1>7. QED
    BY <1>1, <1>4, <1>5, <1>6, RecordedKept

\* What is written to an object of the row's machine is a frame of that machine.
LEMMA WriteRecorded ==
  ASSUME Typed, Named, Recorded, OneObject, NEW t \in Tasks, Write(t)
  PROVE  Recorded' /\ OneObject'
  <1> DEFINE i == task[t].obj
             r == task[t].req
  <1>1. /\ i \in 1..Len(objects) /\ UNCHANGED <<row, map, admin, acked>>
        /\ Len(objects') = Len(objects) /\ objects'[i].uuid = r.uuid
        /\ \A j \in (1..Len(objects)) \ {i} : objects'[j] = objects[j]
        /\ task'[t].at = "store" /\ \A u \in Tasks \ {t} : task'[u] = task[u]
    BY WriteTask DEF Write, WriteObject
  <1>2. At(t, "write") /\ objects[i].uuid \in {Nothing, r.uuid}
    BY DEF Write, WriteObject, Named, WritersNameRow
  <1> HIDE DEF i, r
  <1>3. \A u \in Tasks : task'[u] = task[u] \/ task'[u].at \notin {"install", "default"}
    BY <1>1
  <1>4. \A a \in Admins : admin'[a].at # "unmap"
    BY <1>1 DEF OneObject
  <1>5. CASE row = Nothing
    BY <1>1, <1>3, <1>4, <1>5 DEF Recorded, OneObject, At, IsLookup
  <1>6. CASE row # Nothing
    <2>1. r.uuid = objects[i].uuid
      BY <1>1, <1>2, <1>6, RowHasUuid DEF Recorded
    <2>2. \A j \in 1..Len(objects) : objects'[j].uuid = objects[j].uuid
      BY <1>1, <2>1
    <2>3. QED
      BY <1>1, <1>3, <1>4, <2>2, RecordedKept
  <1>7. QED
    BY <1>5, <1>6

\* The row is inserted for the machine of the one object there is.
LEMMA StoreRecorded ==
  ASSUME "db_error" \notin Faults, Typed, OneWriter, Named, Unstored, Recorded, OneObject,
         NEW t \in Tasks, Store(t)
  PROVE  Recorded' /\ OneObject'
  <1> DEFINE r == task[t].req
  <1>1. /\ objects' = objects /\ UNCHANGED <<map, admin>>
        /\ \A u \in Tasks \ {t} : task'[u] = task[u]
        /\ task'[t].at \in {"idle", "set_guid"}
    BY StoreTask DEF Store
  <1>2. At(t, "store") /\ objects[task[t].obj].uuid = r.uuid
    BY DEF Store, Named, WritersNameRow, At
  <1>3. task[t].obj \in 1..Len(objects) /\ Len(objects) \in Nat /\ ~IsLookup(t)
    BY <1>2, HandlesInUse DEF At, Using, IsLookup, Typed, TypeOK
  <1>4. \A u \in Tasks : task'[u] = task[u] \/ task'[u].at \notin {"install", "default"}
    BY <1>1
  <1>5. \A a \in Admins : admin'[a].at # "unmap"
    BY <1>1 DEF OneObject
  <1>6. CASE row = Nothing
    <2>1. InsertRow(t)
      BY <1>2, <1>6 DEF Unstored, Store
    <2>2. acked' = {} /\ row'.uuid = r.uuid
      BY <1>6, <2>1 DEF InsertRow, Unstored
    <2>3. \A i \in 1..Len(objects) : i = task[t].obj
      BY <1>3, <1>6 DEF OneObject
    <2>4. \A i \in 1..Len(objects') : objects'[i].uuid = row'.uuid
      BY <1>1, <1>2, <2>2, <2>3
    <2>5. \A u \in Tasks : ~At(u, "default") /\ ~At(u, "install")
      BY <1>2, <1>3, <1>6 DEF Unstored, OneObject, OneWriter, At
    <2>6. \A u \in Tasks : ~At(u, "default")' /\ ~At(u, "install")'
      BY <1>4, <2>5 DEF At
    <2>7. row' # Nothing
      <3>1. row' \in Row
        <4>1. r \in Requests /\ inserts \in Nat
          BY HandlesInUse DEF Store, At, Using, Typed, TypeOK
        <4>2. r.uuid \in Uuids /\ r.pk \in Pks /\ r.ip \in Ips
          BY <4>1, FrameTypes
        <4>3. QED
          BY <2>1, <4>1, <4>2 DEF InsertRow, Row, Status
      <3>2. QED
        BY <3>1, RegistryAssumption
    <2>8. QED
      BY <1>1, <1>5, <2>2, <2>4, <2>6, <2>7 DEF Recorded, OneObject
  <1>7. CASE row # Nothing
    <2>1. r.uuid = row.uuid
      BY <1>2, <1>3, <1>7 DEF Recorded
    <2>2. acked' = acked \/ acked' = acked \cup {r.uuid}
      BY DEF Store, InsertRow, UpdateRow, StoreError, Ack
    <2>3. row' = row \/ (row' # Nothing /\ row'.uuid = row.uuid)
      BY <1>7, StoreTask
    <2>4. QED
      BY <1>1, <1>4, <1>5, <1>7, <2>1, <2>2, <2>3, RecordedKept
  <1>8. QED
    BY <1>6, <1>7

\* The machine of the new row is acknowledged.
LEMMA SetGuidRecorded ==
  ASSUME Typed, Named, Unstored, Recorded, OneObject, NEW t \in Tasks, SetGuid(t)
  PROVE  Recorded' /\ OneObject'
  <1> DEFINE i == task[t].obj
             r == task[t].req
  <1>1. /\ i \in 1..Len(objects) /\ UNCHANGED <<row, map, admin>>
        /\ Len(objects') = Len(objects) /\ objects'[i].uuid = objects[i].uuid
        /\ \A j \in (1..Len(objects)) \ {i} : objects'[j] = objects[j]
        /\ task'[t].at = "idle" /\ \A u \in Tasks \ {t} : task'[u] = task[u]
        /\ acked' = acked \cup {r.uuid}
    BY SetGuidTask DEF SetGuid, Ack
  <1>2. row # Nothing /\ objects[i].uuid = r.uuid
    BY DEF SetGuid, Unstored, Named, WritersNameRow, At
  <1> HIDE DEF i, r
  <1>3. r.uuid = row.uuid
    BY <1>1, <1>2 DEF Recorded
  <1>4. \A j \in 1..Len(objects) : objects'[j].uuid = objects[j].uuid
    BY <1>1
  <1>5. \A u \in Tasks : task'[u] = task[u] \/ task'[u].at \notin {"install", "default"}
    BY <1>1
  <1>6. \A a \in Admins : admin'[a].at # "unmap"
    BY <1>1 DEF OneObject
  <1>7. QED
    BY <1>1, <1>2, <1>3, <1>4, <1>5, <1>6, RecordedKept

LEMMA RecordedStep ==
  ASSUME Faults \cap {"db_error", "delete"} = {}, Typed, OneWriter, Named, Unstored,
         Recorded, OneObject, [Next]_vars
  PROVE  Recorded' /\ OneObject'
  <1>1. ASSUME NEW t \in Tasks, TaskStep(t) PROVE Recorded' /\ OneObject'
    <2>1. ASSUME UNCHANGED <<row, objects, map, admin, acked>>,
                 task'[t].at \notin {"install", "default"}, \A u \in Tasks \ {t} : task'[u] = task[u]
          PROVE  Recorded' /\ OneObject'
      <3>1. \A a \in Admins : admin'[a].at # "unmap"
        BY <2>1 DEF OneObject
      <3>2. \A u \in Tasks : task'[u] = task[u] \/ task'[u].at \notin {"install", "default"}
        BY <2>1
      <3>3. QED
        BY <2>1, <3>1, <3>2, RecordedKept
    <2>2. ASSUME NEW place \in {"find", "gate"}, NEW req \in Requests \cup {Nothing},
                 Begin(t, place, req)
          PROVE  Recorded' /\ OneObject'
      BY <2>1, <2>2, BeginTask DEF Begin, Typed, Places
    <2>3. CASE StartLookup(t) \/ (\E r \in Requests : StartRegister(t, r))
      BY <2>2, <2>3 DEF StartLookup, StartRegister
    <2>4. CASE Gate(t)
      <3>1. Return(t) \/ Goto(t, "find")
        BY <2>4 DEF Gate
      <3>2. task'[t].at \in {"idle", "find"} /\ \A u \in Tasks \ {t} : task'[u] = task[u]
        <4>1. CASE Return(t)
          BY <4>1, ReturnTask DEF Typed
        <4>2. CASE Goto(t, "find")
          BY <4>2, GotoTask DEF Typed, Places
        <4>3. QED BY <3>1, <4>1, <4>2
      <3>3. QED BY <2>1, <2>4, <3>2 DEF Gate
    <2>5. CASE FindInMap(t)
      <3>1. map \in Nat
        BY DEF Typed, TypeOK
      <3>2. Got(t, map) \/ Goto(t, "fetch")
        BY <2>5 DEF FindInMap
      <3>3. task'[t].at \in {"idle", "fetch", "compare"} /\ \A u \in Tasks \ {t} : task'[u] = task[u]
        <4>1. CASE Got(t, map)
          BY <3>1, <4>1, GotTask DEF Typed
        <4>2. CASE Goto(t, "fetch")
          BY <4>2, GotoTask DEF Typed, Places
        <4>3. QED BY <3>2, <4>1, <4>2
      <3>4. QED BY <2>1, <2>5, <3>3 DEF FindInMap
    <2>6. QED
      BY <1>1, <2>3, <2>4, <2>5, FetchRecorded, MakeRecorded, CompareRecorded, WriteRecorded,
         StoreRecorded, SetGuidRecorded
      DEF TaskStep
  <1>2. ASSUME NEW a \in Admins, AdminStep(a) PROVE Recorded' /\ OneObject'
    <2>1. ~AdminDelete(a) /\ ~AdminUnmap(a)
      BY DEF AdminDelete, AdminUnmap, OneObject
    <2>2. \A b \in Admins : admin'[b].at # "unmap"
      <3>1. admin \in [Admins -> Change]
        BY DEF Typed, TypeOK
      <3>2. PICK v : admin' = [admin EXCEPT ![a] = v] /\ v.at # "unmap"
        BY <1>2, <2>1 DEF AdminStep, AdminUpdate, AdminFind, AdminApply, AdminIdle
      <3>3. QED
        BY <3>1, <3>2 DEF OneObject
    <2>3. UNCHANGED <<map, task, acked>>
      BY <1>2, <2>1 DEF AdminStep, AdminUpdate, AdminFind, AdminApply
    <2>4. CASE \E s \in Status : AdminUpdate(a, s)
      BY <2>2, <2>3, <2>4, AdminUpdateTask, RecordedKept
    <2>5. CASE AdminApply(a)
      BY <2>2, <2>3, <2>5, AdminApplyTask, RecordedKept
    <2>6. CASE AdminFind(a)
      <3>1. UNCHANGED <<row, objects>>
        BY <2>6 DEF AdminFind
      <3>2. QED
        BY <2>2, <2>3, <3>1, RecordedKept
    <2>7. QED BY <1>2, <2>1, <2>4, <2>5, <2>6 DEF AdminStep
  <1>3. CASE Restart
    <2>1. /\ UNCHANGED <<row, acked>> /\ Len(objects') = 0
          /\ \A u \in Tasks : task'[u].at = "idle"
          /\ \A a \in Admins : admin'[a].at = "idle"
      BY <1>3 DEF Restart, Idle, AdminIdle
    <2>2. QED
      BY <2>1 DEF Recorded, OneObject, At
  <1>4. CASE UNCHANGED vars
    BY <1>4, RecordedKept DEF vars, OneObject
  <1>5. QED BY <1>1, <1>2, <1>3, <1>4 DEF Next

\* While registrations come over UDP and the database does not fail, a machine that was told
\* OK has the row of the id, under its uuid and with a key of its own, for as long as no
\* administrator deletes it, whatever restarts come in between (register_pk_core and
\* PeerMap::update_pk).
THEOREM AcknowledgedIsListed ==
  ASSUME Faults \cap {"db_error", "delete"} = {}
  PROVE  UdpSpec => []AckedIsListed
  <1> DEFINE I == Typed /\ OneWriter /\ Named /\ Unstored /\ Recorded /\ OneObject
  <1>1. Init => I
    <2> SUFFICES ASSUME Init PROVE Unstored /\ Recorded /\ OneObject
      BY TypeInit, NamedInit
    <2>1. /\ Len(objects) = 0 /\ acked = {} /\ row = Nothing
          /\ \A t \in Tasks : task[t].at = "idle"
          /\ \A a \in Admins : admin[a].at = "idle"
      BY DEF Init, Idle, AdminIdle
    <2>2. QED
      BY <2>1 DEF Unstored, Recorded, OneObject, At
  <1>2. I /\ [Next /\ OneWriter']_vars => I'
    <2> SUFFICES ASSUME I, [Next /\ OneWriter']_vars PROVE I'
      OBVIOUS
    <2>1. [Next]_vars
      OBVIOUS
    <2>2. OneWriter'
      BY DEF OneWriter, IsLookup, vars
    <2>3. QED
      BY <2>1, <2>2, TypeStep, NamedStep, UnstoredStep, RecordedStep
  <1>3. I => AckedIsListed
    <2> SUFFICES ASSUME I, NEW u \in acked
                 PROVE  row # Nothing /\ row.uuid = u
                        /\ \E r \in Requests : r.uuid = u /\ r.pk = row.pk
      BY DEF AckedIsListed
    <2>1. row # Nothing /\ row.uuid = u
      BY DEF Unstored, Recorded
    <2>2. QED
      BY <2>1 DEF Named, RowIsOneMachine
  <1>4. QED
    BY <1>1, <1>2, <1>3, PTL DEF UdpSpec
=============================================================================
