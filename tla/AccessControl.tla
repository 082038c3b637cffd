--------------------------- MODULE AccessControl ---------------------------
(***************************************************************************)
(* The access-control backend: the rows of the hierarchy (factory,          *)
(* department, device, installed component) live in Postgres, the           *)
(* relations that decide who may do what in OpenFGA.  A handler first       *)
(* changes the rows and then reads and rewrites tuples, with no transaction  *)
(* around both: handlers interleave at every call, and a call may fail and   *)
(* leave the rest undone.  A request is its job and the call it is at.       *)
(* The catalog has one component; its installation on device d is Comp(d).   *)
(***************************************************************************)
EXTENDS Naturals, FiniteSets, Sequences, SequencesExt

CONSTANTS AcFactories, AcDepartments, AcDevices, AcUsers, AcSlots,
          Sysadmin,      \* a caller whose role list contains "admin"
          NoParent,      \* no row, or nothing written in a field
          MaxRequests    \* bound: requests begun in a behaviour

Comp(d) == <<"component", d>>
Components == {Comp(d) : d \in AcDevices}

\* Ids of different tables differ, and "component:<device>" is no id.
ASSUME AcAssumption ==
    /\ AcFactories \cap AcDepartments = {} /\ AcFactories \cap AcDevices = {}
    /\ AcDepartments \cap AcDevices = {}
    /\ Components \cap (AcFactories \cup AcDepartments \cup AcDevices) = {}
    /\ NoParent \notin AcFactories \cup AcDepartments
    /\ MaxRequests \in Nat

VARIABLES rowParent,    \* department.factoryId, device.departmentId
          installed,    \* deviceComponentInstallation of each device
          bare,         \* installations the bootstrap wrote: they have no child tuple
          catalogued,   \* the component has its deviceComponentCatalog row
          tuples,       \* the tuples of the OpenFGA store
          acTodo,       \* of each slot: the request, and the call it is at
          seen,         \* of each slot: what its last read returned
          begun,        \* requests begun so far
          disturbed,    \* objects whose last handler failed or was overlapped
          crossed       \* objects on which two handlers ever overlapped

acVars == <<rowParent, installed, bare, catalogued, tuples, acTodo, seen, begun, disturbed, crossed>>

AcObjects == AcFactories \cup AcDepartments \cup AcDevices \cup Components
Tuple(o, r, u) == [object |-> o, relation |-> r, user |-> u]

\* The relations a user may be given directly on an object.
DirectRelations(o) ==
    CASE o \in AcFactories \cup AcDepartments -> {"admin", "viewer"}
      [] o \in AcDevices -> {"viewer"}
      [] OTHER -> {"reader", "writer"}

---------------------------------------------------------------------------
\* The authorization model: who holds a relation, given the tuples T.

Direct(T, u, r, o) == Tuple(o, r, u) \in T
ParentsOf(T, o) == {t.user : t \in {s \in T : s.object = o /\ s.relation = "parent"}}
ChildrenOf(T, o) == {t.user : t \in {s \in T : s.object = o /\ s.relation = "child"}}

FactoryRelation(T, u, r, f) == Direct(T, u, "admin", f) \/ (r = "viewer" /\ Direct(T, u, r, f))

DepartmentRelation(T, u, r, g) ==
    \/ Direct(T, u, "admin", g) \/ (r = "viewer" /\ Direct(T, u, r, g))
    \/ \E f \in ParentsOf(T, g) : FactoryRelation(T, u, r, f)

DeviceRelation(T, u, r, d) ==
    \/ r = "viewer" /\ Direct(T, u, r, d)
    \/ \E g \in ParentsOf(T, d) : DepartmentRelation(T, u, r, g)

ComponentReader(T, u, c) ==
    \/ Direct(T, u, "reader", c) \/ Direct(T, u, "writer", c)
    \/ \E d \in ParentsOf(T, c) : DeviceRelation(T, u, "viewer", d)

canRead(T, u, o) ==
    CASE o \in AcFactories -> FactoryRelation(T, u, "viewer", o)
      [] o \in AcDepartments -> DepartmentRelation(T, u, "viewer", o)
      [] o \in AcDevices -> DeviceRelation(T, u, "viewer", o)
      [] OTHER -> ComponentReader(T, u, o)

canManageUsers(T, u, o) ==
    CASE o \in AcFactories -> FactoryRelation(T, u, "admin", o)
      [] o \in AcDepartments -> DepartmentRelation(T, u, "admin", o)
      [] o \in AcDevices -> DeviceRelation(T, u, "admin", o)
      [] OTHER -> \E d \in ParentsOf(T, o) : DeviceRelation(T, u, "admin", d)

\* An object is navigable when it can be read or a descendant, followed along
\* the child tuples, can.
canNavigate(T, u, o) ==
    LET Below(S) == S \cup (UNION {ChildrenOf(T, x) : x \in S})
    IN  \E x \in Below(Below(Below({o}))) : canRead(T, u, x)

\* listUserAuthorizedObjectIds and checkUserObjectRelation ask the store this.
managed(u, S) == {o \in S : canManageUsers(tuples, u, o)}
navigable(u, S) == {o \in S : canNavigate(tuples, u, o)}
readable(u, S) == {o \in S : canRead(tuples, u, o)}
writable(u, S) == {o \in S : Direct(tuples, u, "writer", o)}

---------------------------------------------------------------------------
\* The handlers, as the calls they make in order.

createObjectParentTupleKeys(o, p) == {Tuple(o, "parent", p), Tuple(p, "child", o)}

CallsOf(job) ==
    CASE job = "createDepartment" -> <<"insert", "read", "reparent">>
      [] job \in {"updateDepartment", "updateDevice"} -> <<"update", "read", "reparent">>
      [] job = "createDevice" -> <<"insert", "read", "reparent", "catalog", "install", "link">>
      [] job = "deleteDevice" -> <<"rows", "unlink", "read", "forget", "delete">>
      [] job = "createCatalogEntry" -> <<"entry", "devices", "install", "link">>
      [] job = "setInstallationState" -> <<"enable", "link">>
      [] job = "assignment" -> <<"check", "read", "grant">>
      [] OTHER -> <<>>

Request(job, o, to, user, by) ==
    [job |-> job, o |-> o, to |-> to, user |-> user, by |-> by, at |-> 1]
AcIdle == Request("none", NoParent, NoParent, NoParent, NoParent)

createDepartment(g, f) == Request("createDepartment", g, f, NoParent, NoParent)
updateDepartment(g, f) == Request("updateDepartment", g, f, NoParent, NoParent)
createDevice(d, g) == Request("createDevice", d, g, NoParent, NoParent)
updateDevice(d, g) == Request("updateDevice", d, g, NoParent, NoParent)
deleteDevice(d) == Request("deleteDevice", d, NoParent, NoParent, NoParent)
createCatalogEntry == Request("createCatalogEntry", NoParent, NoParent, NoParent, NoParent)
setInstallationState(d, on) == Request("setInstallationState", d, on, NoParent, NoParent)
upsertAssignment(by, o, u, r) == Request("assignment", o, r, u, by)
removeAssignment(by, o, u) == Request("assignment", o, NoParent, u, by)

\* Rows are only written for a sysadmin; assignments also for who manages the object.
Handlers ==
       {createDepartment(g, f) : g \in AcDepartments, f \in AcFactories}
  \cup {updateDepartment(g, f) : g \in AcDepartments, f \in AcFactories}
  \cup {createDevice(d, g) : d \in AcDevices, g \in AcDepartments}
  \cup {updateDevice(d, g) : d \in AcDevices, g \in AcDepartments}
  \cup {deleteDevice(d) : d \in AcDevices}
  \cup {setInstallationState(d, on) : d \in AcDevices, on \in {"on", "off"}}
  \cup {createCatalogEntry}
  \cup (UNION {{upsertAssignment(by, o, u, r) : r \in DirectRelations(o)} :
            by \in AcUsers \cup {Sysadmin}, o \in AcObjects, u \in AcUsers})
  \cup {removeAssignment(by, o, u) : by \in AcUsers \cup {Sysadmin}, o \in AcObjects, u \in AcUsers}

\* The objects whose row or tuples a request is about: a device with its
\* component, and every device of a new catalog entry.
Named(r) == CASE r.job = "none" -> {} [] r.job = "createCatalogEntry" -> AcDevices [] OTHER -> {r.o}
Touches(r) == Named(r) \cup {Comp(d) : d \in Named(r) \cap AcDevices}

NextCall(r) == CallsOf(r.job)[r.at]
AfterCall(r) == IF r.at = Len(CallsOf(r.job)) THEN AcIdle ELSE [r EXCEPT !.at = @ + 1]

---------------------------------------------------------------------------
TupleKeys == [object : AcObjects, relation : {"parent", "child", "admin", "viewer", "reader", "writer"},
              user : AcObjects \cup AcUsers]

AcTypeOK ==
    /\ rowParent \in [AcDepartments \cup AcDevices -> AcFactories \cup AcDepartments \cup {NoParent}]
    /\ installed \in [AcDevices -> {"none", "on", "off"}]
    /\ bare \subseteq {d \in AcDevices : installed[d] # "none"}
    /\ catalogued \in BOOLEAN
    /\ tuples \subseteq TupleKeys
    /\ \A s \in AcSlots : acTodo[s].job # "none" => acTodo[s].at \in DOMAIN CallsOf(acTodo[s].job)
    /\ begun \in 0..MaxRequests
    /\ disturbed \subseteq AcObjects /\ crossed \subseteq AcObjects

\* The objects that have a row.
Existing == AcFactories \cup {x \in AcDepartments \cup AcDevices : rowParent[x] # NoParent}
            \cup {Comp(d) : d \in {x \in AcDevices : installed[x] # "none"}}

\* Databases in use: rows and tuples agree, and a user holds some relation.  An installation that
\* ensureDeviceInstallations of the bootstrap wrote has its parent tuple only (buildComponentParentTuple).
\* (An entry that is disabled by default is taken as enabled: setInstallationState disables it.)
Hierarchies == {[x \in AcDepartments \cup AcDevices |-> IF x \in AcDepartments THEN f ELSE dept] :
                   f \in AcFactories, dept \in AcDepartments \cup {NoParent}}
Holdings == {{}} \cup (UNION {{{Tuple(o, r, u)} : r \in DirectRelations(o)} : o \in Existing, u \in AcUsers})
InstallationTuples(d) == IF d \in bare THEN {Tuple(Comp(d), "parent", d)} ELSE createObjectParentTupleKeys(Comp(d), d)
StoreOf(held) ==
    held \cup (UNION {createObjectParentTupleKeys(o, rowParent[o]) :
                         o \in {x \in AcDepartments \cup AcDevices : rowParent[x] # NoParent}})
         \cup (UNION {InstallationTuples(d) : d \in {x \in AcDevices : installed[x] # "none"}})

AcInit ==
    /\ rowParent \in Hierarchies
    /\ catalogued \in BOOLEAN
    /\ installed \in {[d \in AcDevices |-> k] :
            k \in IF catalogued /\ \A d \in AcDevices : rowParent[d] # NoParent
                  THEN {"on"} ELSE {"none"}}
    /\ bare \in SUBSET {d \in AcDevices : installed[d] # "none"}
    /\ \E held \in Holdings : tuples = StoreOf(held)
    /\ acTodo = [s \in AcSlots |-> AcIdle]
    /\ seen = [s \in AcSlots |-> {}]
    /\ begun = 0 /\ disturbed = {} /\ crossed = {}

\* A request starts.  It overlaps the ones in flight on the same objects.
Begin(s) ==
    /\ acTodo[s].job = "none" /\ begun < MaxRequests
    /\ \E h \in Handlers :
        LET met == {o \in Touches(h) : \E z \in AcSlots : o \in Touches(acTodo[z])} IN
        /\ acTodo' = [acTodo EXCEPT ![s] = h]
        /\ disturbed' = disturbed \cup met
        /\ crossed' = crossed \cup met
    /\ begun' = begun + 1
    /\ seen' = [seen EXCEPT ![s] = {}]
    /\ UNCHANGED <<rowParent, installed, bare, catalogued, tuples>>

---------------------------------------------------------------------------
\* What one call does to rows and tuples.  c is the request of slot s.

Proceeds(s) == acTodo' = [acTodo EXCEPT ![s] = AfterCall(@)]
Finishes(s) == acTodo' = [acTodo EXCEPT ![s] = AcIdle]

Alone(s, o) == \A z \in AcSlots \ {s} : o \notin Touches(acTodo[z])

\* Insert or update of a row; an update of no row ends the request.
WriteRow(s, c) ==
    /\ NextCall(c) \in {"insert", "update"}
    /\ NextCall(c) = "insert" => rowParent[c.o] = NoParent
    /\ c.to \in AcDepartments => rowParent[c.to] # NoParent
    /\ IF NextCall(c) = "update" /\ rowParent[c.o] = NoParent
       THEN Finishes(s) /\ UNCHANGED <<rowParent, disturbed>>
       ELSE /\ Proceeds(s)
            /\ rowParent' = [rowParent EXCEPT ![c.o] = c.to]
            /\ disturbed' = IF Alone(s, c.o) THEN disturbed \ {c.o} ELSE disturbed
    /\ UNCHANGED <<installed, catalogued, tuples, seen>>

readTuplesForObject(s, c) ==
    /\ NextCall(c) = "read"
    /\ seen' = [seen EXCEPT ![s] = {t \in tuples : t.object = c.o}]
    /\ Proceeds(s)
    /\ UNCHANGED <<rowParent, installed, catalogued, tuples, disturbed>>

\* Mutant: the old parent keeps its tuples.
KeepsOldParent(s, c) ==
    /\ NextCall(c) = "reparent"
    /\ tuples' = tuples \cup createObjectParentTupleKeys(c.o, c.to)
    /\ Proceeds(s)
    /\ UNCHANGED <<rowParent, installed, catalogued, seen, disturbed>>

\* setObjectParentRelation's write: the parents it read, other than the
\* expected one, go with their child tuples, and a missing pair is added.  A
\* child tuple is looked for only beside a parent tuple.
Reparent(s, c) ==
    /\ NextCall(c) = "reparent"
    /\ LET old == {t \in seen[s] : t.relation = "parent"}
           wrong == {t.user : t \in old} \ {c.to}
           has == \E t \in old : t.user = c.to
       IN  tuples' = (tuples \ (UNION {createObjectParentTupleKeys(c.o, p) : p \in wrong}))
                     \cup (IF has THEN {} ELSE createObjectParentTupleKeys(c.o, c.to))
    /\ Proceeds(s)
    /\ UNCHANGED <<rowParent, installed, catalogued, seen, disturbed>>

\* deleteObjectAuthzRelations' write.
Forget(s, c) ==
    /\ NextCall(c) = "forget"
    /\ tuples' = tuples \ (seen[s] \cup {Tuple(t.user, "child", c.o) :
                              t \in {x \in seen[s] : x.relation = "parent"}})
    /\ Proceeds(s)
    /\ UNCHANGED <<rowParent, installed, catalogued, seen, disturbed>>

\* replaceDirectUserRelation's write: one relation of the user on the object.
Grant(s, c) ==
    /\ NextCall(c) = "grant"
    /\ LET mine == {t \in seen[s] : t.user = c.user /\ t.relation \in DirectRelations(c.o)}
       IN  tuples' = (tuples \ {t \in mine : t.relation # c.to})
                     \cup (IF c.to = NoParent \/ \E t \in mine : t.relation = c.to
                           THEN {} ELSE {Tuple(c.o, c.to, c.user)})
    /\ Proceeds(s)
    /\ UNCHANGED <<rowParent, installed, catalogued, seen, disturbed>>

\* assertUserCanManageScope; a refusal ends the request.  upsertAssignment of a
\* component also needs its row.
Check(s, c) ==
    /\ NextCall(c) = "check"
    /\ IF /\ c.by = Sysadmin \/ canManageUsers(tuples, c.by, c.o)
          /\ c.o \in Components /\ c.to # NoParent => installed[c.o[2]] # "none"
       THEN Proceeds(s) ELSE Finishes(s)
    /\ UNCHANGED <<rowParent, installed, catalogued, tuples, seen, disturbed>>

\* The reads of rows: of the catalog by a new device, of the devices by a new
\* catalog entry, of the device and its installations by a deletion.
ReadRows(s, c) ==
    /\ NextCall(c) \in {"catalog", "devices", "rows"}
    /\ seen' = [seen EXCEPT ![s] =
          CASE NextCall(c) = "catalog" -> IF catalogued THEN {c.o} ELSE {}
            [] NextCall(c) = "devices" -> {d \in AcDevices : rowParent[d] # NoParent}
            [] OTHER -> IF installed[c.o] = "none" THEN {} ELSE {c.o}]
    /\ IF NextCall(c) = "rows" /\ rowParent[c.o] = NoParent THEN Finishes(s) ELSE Proceeds(s)
    /\ UNCHANGED <<rowParent, installed, catalogued, tuples, disturbed>>

CatalogEntry(s, c) ==
    /\ NextCall(c) = "entry" /\ ~catalogued
    /\ catalogued' = TRUE
    /\ Proceeds(s)
    /\ UNCHANGED <<rowParent, installed, tuples, seen, disturbed>>

\* One insert of all the installations read for.  A row that exists already
\* breaks the unique index, one whose device is gone the foreign key, and with
\* it the whole insert and the request.
Install(s, c) ==
    /\ NextCall(c) = "install"
    /\ LET clash == \E d \in seen[s] : installed[d] # "none" \/ rowParent[d] = NoParent IN
       /\ installed' = [d \in AcDevices |-> IF d \in seen[s] /\ ~clash THEN "on" ELSE installed[d]]
       /\ IF clash THEN Finishes(s) ELSE Proceeds(s)
       /\ disturbed' = IF clash THEN disturbed \cup Touches(c) ELSE disturbed
    /\ UNCHANGED <<rowParent, catalogued, tuples, seen>>

\* setInstallationState: a row that exists is only switched on or off, and gets no tuple.  The
\* select and the insert are one step: an insert that lost a race breaks the unique index, and throws.
Enable(s, c) ==
    /\ NextCall(c) = "enable"
    /\ catalogued /\ rowParent[c.o] # NoParent
    /\ seen' = [seen EXCEPT ![s] = IF installed[c.o] = "none" THEN {c.o} ELSE {}]
    /\ installed' = [installed EXCEPT ![c.o] = c.to]
    /\ Proceeds(s)
    /\ UNCHANGED <<rowParent, catalogued, tuples, disturbed>>

\* writeAuthzTuples of the installations created.
Link(s, c) ==
    /\ NextCall(c) = "link"
    /\ tuples' = tuples \cup (UNION {createObjectParentTupleKeys(Comp(d), d) : d \in seen[s]})
    /\ Proceeds(s)
    /\ UNCHANGED <<rowParent, installed, catalogued, seen, disturbed>>

\* deleteDevice's loop over the installations it read: deleteObjectAuthzRelations of each.  (Its
\* read and its write are one step here; what could come between is an overlap on the component.)
Unlink(s, c) ==
    /\ NextCall(c) = "unlink"
    /\ LET own == {t \in tuples : t.object \in {Comp(d) : d \in seen[s]}}
       IN  tuples' = tuples \ (own \cup {Tuple(t.user, "child", t.object) :
                                          t \in {x \in own : x.relation = "parent"}})
    /\ Proceeds(s)
    /\ UNCHANGED <<rowParent, installed, catalogued, seen, disturbed>>

\* The row goes last, and the installations with it (on delete cascade).
DeleteRow(s, c) ==
    /\ NextCall(c) = "delete"
    /\ rowParent' = [rowParent EXCEPT ![c.o] = NoParent]
    /\ installed' = [installed EXCEPT ![c.o] = "none"]
    /\ Finishes(s)
    /\ UNCHANGED <<catalogued, tuples, seen, disturbed>>

Call(s) ==
    /\ acTodo[s].job # "none"
    /\ LET c == acTodo[s] IN
       \/ WriteRow(s, c) \/ readTuplesForObject(s, c) \/ Reparent(s, c) \/ Forget(s, c)
       \/ Grant(s, c) \/ Check(s, c) \/ ReadRows(s, c) \/ CatalogEntry(s, c) \/ Install(s, c)
       \/ Enable(s, c) \/ Link(s, c) \/ Unlink(s, c) \/ DeleteRow(s, c)
    /\ bare' = {d \in bare : installed'[d] # "none"}
    /\ UNCHANGED <<begun, crossed>>

\* A call fails (or its input is refused) and the handler throws: what it has
\* done stays done.
Throws(s) ==
    /\ acTodo[s].job # "none"
    /\ Finishes(s)
    /\ disturbed' = disturbed \cup Touches(acTodo[s])
    /\ UNCHANGED <<rowParent, installed, bare, catalogued, tuples, seen, begun, crossed>>

AcNext == \E s \in AcSlots : Begin(s) \/ Call(s) \/ Throws(s)

AcSpec == AcInit /\ [][AcNext]_acVars

---------------------------------------------------------------------------
AcQuiet == \A s \in AcSlots : acTodo[s].job = "none"

RowParentOf(o) == IF o \in Components
                  THEN IF installed[o[2]] = "none" THEN {} ELSE {o[2]}
                  ELSE {rowParent[o]} \ {NoParent}

\* Once no request is in flight, every department, device and component whose
\* last handler ran to its end and alone has in OpenFGA exactly the parent its
\* row has, and its parent names it as a child in turn, except that an
\* installation the bootstrap wrote is never named (so who holds a relation on
\* it alone cannot navigate to its device).  A department or device left wrong
\* by a failed or overlapped handler is put right by the next update that
\* completes alone; until then, as long as it is in `disturbed`, nothing is
\* said of it, and of a component so left nothing any more.  And no user holds
\* two relations on an object unless handlers overlapped on it (`crossed`):
\* read, delete and write of a grant are two calls.
TuplesMirrorRows ==
    /\ AcQuiet => \A o \in (AcObjects \ AcFactories) \ disturbed :
        /\ ParentsOf(tuples, o) = RowParentOf(o)
        /\ \A p \in AcObjects : (o \in ChildrenOf(tuples, p)) <=>
                                 (p \in RowParentOf(o) /\ o \notin {Comp(d) : d \in bare})
    /\ \A o \in AcObjects \ crossed : \A u \in AcUsers :
        Cardinality({r \in DirectRelations(o) : Direct(tuples, u, r, o)}) <= 1
=============================================================================
