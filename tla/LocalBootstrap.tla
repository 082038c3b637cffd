--------------------------- MODULE LocalBootstrap ---------------------------
(***************************************************************************)
(* The scripts bootstrap-local-db and seed-demo-data: the catalog is made   *)
(* what the manifests say, every device gets its components, and the demo    *)
(* data of the last seeding is replaced by new rows under new ids, with the  *)
(* tuples that give access to them.  No transaction holds the steps          *)
(* together: a script may die after any database call, or with some of the   *)
(* chunks of a tuple write done, and is simply run again.  Object 0 of each   *)
(* type is one made by hand; object k was made by the seeding of run k.       *)
(***************************************************************************)
EXTENDS Naturals, FiniteSets

CONSTANTS LbKeys,      \* services a manifest may name
          Manifests,   \* contents of the two manifest files
          ReadOnlyNames,   \* method names that begin with get- or list-
          MaxScripts,  \* bound: scripts started
          MaxHandMade  \* bound: what administrators do between scripts

ASSUME LbAssumption ==
    /\ \A m \in Manifests : DOMAIN m \subseteq LbKeys
    /\ MaxScripts \in Nat /\ MaxHandMade \in Nat

VARIABLES lbRows,      \* rows of the hierarchy, and of the users and their accounts
          lbTuples,    \* tuples of the OpenFGA store
          lbCatalog,   \* deviceComponentCatalog: of a key, its entry; <<>> is no row
          sysadmin,    \* its user row, its credential account, whether it is banned
          manifest,    \* the manifest files of the checkout
          script,      \* the script that runs: "seed", "bootstrap" or "none"
          lbStep,      \* its next call
          sysStep,     \* the next call of upsertSysadmin, which runs beside it
          staleKeys, leaving,   \* what it read: keys to remove, tuples to delete
          lbRun, handMade

lbVars == <<lbRows, lbTuples, lbCatalog, sysadmin, manifest, script, lbStep, sysStep,
            staleKeys, leaving, lbRun, handMade>>

LbTuple(o, r, u) == [object |-> o, relation |-> r, user |-> u]
DemoUsers == {<<"user", s>> : s \in 1..10}
Accounts == {<<"account", s>> : s \in 1..10}
isDemo(o) == o[2] # 0
ComponentRows(rows) == {o \in rows : o[1] = "component"}
DevicesIn(rows) == {o \in rows : o[1] = "device"}

\* createObjectParentTupleKeys, and the one tuple the bootstrap writes.
ParentTuple(o, p) == LbTuple(o, "parent", p)
ParentTupleKeys(o, p) == {ParentTuple(o, p), LbTuple(p, "child", o)}

-----------------------------------------------------------------------------
(* The manifests                                                            *)

validatePermissionAssignments(m) ==
    m.known /\ (m.read \cup m.write) \subseteq m.methods /\ m.read \cap m.write = {}

buildPermissionAssignments(m) ==
    [readActions |-> {x \in m.methods : x \in m.read \/ (x \notin m.write /\ x \in ReadOnlyNames)},
     writeActions |-> {x \in m.methods : x \in m.write \/ (x \notin m.read /\ x \notin ReadOnlyNames)}]

\* An entry per service with methods; one that is not valid makes the script throw.
ManifestIsValid == \A k \in DOMAIN manifest : validatePermissionAssignments(manifest[k])
loadDeviceComponentManifestEntries ==
    [k \in LbKeys |-> IF k \in DOMAIN manifest THEN buildPermissionAssignments(manifest[k]) ELSE <<>>]

-----------------------------------------------------------------------------

LbInit ==
    /\ lbRows = {<<"user", 0>>, <<"account", 0>>, <<"factory", 0>>, <<"department", 0>>, <<"device", 0>>}
    /\ lbTuples = ParentTupleKeys(<<"department", 0>>, <<"factory", 0>>)
                  \cup ParentTupleKeys(<<"device", 0>>, <<"department", 0>>)
    /\ lbCatalog = [k \in LbKeys |-> <<>>]
    /\ sysadmin = [row |-> FALSE, credential |-> FALSE, banned |-> FALSE]
    /\ manifest \in Manifests
    /\ script = "none" /\ lbStep = "none" /\ sysStep = "none"
    /\ staleKeys = {} /\ leaving = {}
    /\ lbRun = 0 /\ handMade = 0

Start(kind) ==
    /\ script = "none" /\ lbRun < MaxScripts
    /\ script' = kind /\ lbRun' = lbRun + 1
    /\ lbStep' = IF kind = "seed" THEN "clear" ELSE "upsert"
    /\ sysStep' = "user"
    /\ UNCHANGED <<lbRows, lbTuples, lbCatalog, sysadmin, manifest, staleKeys, leaving, handMade>>

\* The process dies, or a call of it throws: what was done stays.
Ends == script' = "none" /\ lbStep' = "none" /\ sysStep' = "none" /\ staleKeys' = {} /\ leaving' = {}

\* upsertCredentialUser: the user row first, then its credential account.
upsertCredentialUser ==
    /\ sysStep \in {"user", "account"}
    /\ sysadmin' = IF sysStep = "user" THEN [sysadmin EXCEPT !.row = TRUE, !.banned = FALSE]
                   ELSE [sysadmin EXCEPT !.credential = TRUE]
    /\ sysStep' = IF sysStep = "user" THEN "account" ELSE "done"
    /\ UNCHANGED <<lbRows, lbTuples, lbCatalog, manifest, script, lbStep, staleKeys, leaving, lbRun, handMade>>

\* One call of the script that changes no more than the rows.
CallDb(step, next, rows) ==
    /\ lbStep = step
    /\ lbRows' = rows
    /\ lbStep' = next
    /\ UNCHANGED <<lbTuples, lbCatalog, sysadmin, manifest, script, sysStep, staleKeys, leaving, lbRun, handMade>>

\* writeTupleChunks: all the chunks, or those of some objects before the script dies.
writeTupleChunks(step, next, gone, new) ==
    /\ lbStep = step
    /\ \/ /\ lbTuples' = (lbTuples \ gone) \cup new
          /\ lbStep' = next /\ leaving' = {}
          /\ UNCHANGED <<script, sysStep, staleKeys>>
       \/ /\ \E objects \in SUBSET {t.object : t \in gone \cup new} :
               lbTuples' = (lbTuples \ {t \in gone : t.object \in objects})
                           \cup {t \in new : t.object \in objects}
          /\ Ends
    /\ UNCHANGED <<lbRows, lbCatalog, sysadmin, manifest, lbRun, handMade>>

-----------------------------------------------------------------------------
(* seed-demo-data: the demo data of the last run goes                       *)

\* Mutant: the tuples of the installed components are forgotten.
ForgetsComponents ==
    LET objects == {o \in lbRows : isDemo(o) /\ o[1] \in {"factory", "department", "device"}} IN
    /\ lbStep = "clear"
    /\ leaving' = {t \in lbTuples : t.object \in objects \/ (t.user \in DemoUsers /\ t.user \in lbRows)}
    /\ lbStep' = "deleteTuples"
    /\ UNCHANGED <<lbRows, lbTuples, lbCatalog, sysadmin, manifest, script, sysStep, staleKeys, lbRun, handMade>>

\* The rows are selected, then every tuple is read and filtered.
clearPreviousDemoData ==
    LET objects == {o \in lbRows : isDemo(o) /\ o[1] \in {"factory", "department", "device", "component"}} IN
    /\ lbStep = "clear"
    /\ leaving' = {t \in lbTuples : t.object \in objects \/ (t.user \in DemoUsers /\ t.user \in lbRows)}
    /\ lbStep' = "deleteTuples"
    /\ UNCHANGED <<lbRows, lbTuples, lbCatalog, sysadmin, manifest, script, sysStep, staleKeys, lbRun, handMade>>

deleteAuthzTuples == writeTupleChunks("deleteTuples", "deleteDevices", leaving, {})

\* Deleting a device, a factory or a user takes what refers to it along.  (Devices are not moved
\* between hand-made and demo departments here; one left in a demo department would keep it.)
DeleteDemoRows ==
    \/ CallDb("deleteDevices", "deleteDepartments",
             {o \in lbRows : ~(isDemo(o) /\ o[1] \in {"device", "component"})})
    \/ CallDb("deleteDepartments", "deleteFactories", {o \in lbRows : ~(isDemo(o) /\ o[1] = "department")})
    \/ CallDb("deleteFactories", "deleteUsers",
             {o \in lbRows : ~(isDemo(o) /\ o[1] \in {"factory", "department"})})
    \/ CallDb("deleteUsers", "insertUsers", lbRows \ (DemoUsers \cup Accounts))

\* insertDemoUsers and insertDemoHierarchy; the sysadmin has been written by then.
insertDemoUsers ==
    \/ sysStep = "done" /\ CallDb("insertUsers", "insertAccounts", lbRows \cup DemoUsers)
    \/ CallDb("insertAccounts", "insertFactories", lbRows \cup Accounts)
insertDemoHierarchy ==
    \/ CallDb("insertFactories", "insertDepartments", lbRows \cup {<<"factory", lbRun>>})
    \/ CallDb("insertDepartments", "insertDevices", lbRows \cup {<<"department", lbRun>>})
    \/ CallDb("insertDevices", "upsert", lbRows \cup {<<"device", lbRun>>})

-----------------------------------------------------------------------------
(* syncDeviceComponentCatalog                                               *)

\* Every entry that is missing or differs, or some of them before the script dies.
upsertCatalogEntries ==
    LET desired == loadDeviceComponentManifestEntries
        stale == {k \in LbKeys : lbCatalog[k] # <<>> /\ desired[k] = <<>>} IN
    /\ lbStep = "upsert" /\ ManifestIsValid
    /\ \E keys \in SUBSET DOMAIN manifest :
         /\ lbCatalog' = [k \in LbKeys |-> IF k \in keys THEN desired[k] ELSE lbCatalog[k]]
         /\ IF keys = DOMAIN manifest
            THEN /\ lbStep' = IF stale = {} THEN "ensure" ELSE "staleTuples"
                 /\ staleKeys' = stale
                 /\ UNCHANGED <<script, sysStep, leaving>>
            ELSE Ends
    /\ UNCHANGED <<lbRows, lbTuples, sysadmin, manifest, lbRun, handMade>>

ManifestThrows ==
    /\ lbStep = "upsert" /\ ~ManifestIsValid
    /\ Ends
    /\ UNCHANGED <<lbRows, lbTuples, lbCatalog, sysadmin, manifest, lbRun, handMade>>

StaleInstallations == {o \in ComponentRows(lbRows) : o[3] \in staleKeys}

\* deleteObjectAuthzRelations of each stale installation; some may be done when the script dies.
StaleTuplesOf(objects) ==
    LET own == {t \in lbTuples : t.object \in objects} IN
    own \cup {LbTuple(t.user, "child", t.object) : t \in {s \in own : s.relation = "parent"}}

removeStaleCatalogEntries ==
    \/ /\ lbStep = "staleTuples"
       /\ \E some \in SUBSET StaleInstallations :
            /\ lbTuples' = lbTuples \ StaleTuplesOf(some)
            /\ IF some = StaleInstallations
               THEN lbStep' = "staleInstalls" /\ UNCHANGED <<script, sysStep, staleKeys, leaving>>
               ELSE Ends
       /\ UNCHANGED <<lbRows, lbCatalog, sysadmin, manifest, lbRun, handMade>>
    \/ CallDb("staleInstalls", "staleCatalog", lbRows \ StaleInstallations)
    \/ /\ lbStep = "staleCatalog"
       /\ lbCatalog' = [k \in LbKeys |-> IF k \in staleKeys THEN <<>> ELSE lbCatalog[k]]
       /\ lbRows' = lbRows \ StaleInstallations
       /\ lbStep' = "ensure" /\ staleKeys' = {}
       /\ UNCHANGED <<lbTuples, sysadmin, manifest, script, sysStep, leaving, lbRun, handMade>>

MissingInstallations ==
    {<<"component", d[2], k, lbRun>> : d \in DevicesIn(lbRows), k \in DOMAIN manifest}
    \ {<<"component", o[2], o[3], lbRun>> : o \in ComponentRows(lbRows)}

AfterSync == IF script = "seed" THEN "demoTuples" ELSE "report"

ensureDeviceInstallations ==
    \/ CallDb("ensure", "ensureTuples", lbRows \cup MissingInstallations)
    \/ writeTupleChunks("ensureTuples", AfterSync, {},
                        {ParentTuple(o, <<"device", o[2]>>) : o \in ComponentRows(lbRows)})

-----------------------------------------------------------------------------
(* The tuples of the demo data, and the end of a script                     *)

\* Ten users a factory, by slot; of those that may be chosen, the choice is `pick`.
buildDemoUserGroups(pick) ==
    [factoryAdmin |-> <<"user", 1>>, factoryViewers |-> {<<"user", s>> : s \in 2..4},
     departmentAdmin |-> <<"user", 5 + pick>>, departmentViewer |-> <<"user", 7 + pick>>,
     deviceViewer |-> <<"user", 9 + pick>>]

\* Of a factory f, its department g, its device d and the device's components.
DemoAccess(f, g, d, components, writer, group) ==
    {LbTuple(f, "admin", group.factoryAdmin)} \cup {LbTuple(f, "viewer", u) : u \in group.factoryViewers}
    \cup ParentTupleKeys(g, f)
    \cup {LbTuple(g, "admin", group.departmentAdmin), LbTuple(g, "viewer", group.departmentViewer)}
    \cup ParentTupleKeys(d, g) \cup {LbTuple(d, "viewer", group.deviceViewer)}
    \cup (UNION {ParentTupleKeys(c, d) : c \in components})
    \cup {LbTuple(c, "writer", group.departmentAdmin) : c \in writer}
    \cup {LbTuple(c, "reader", group.factoryAdmin) : c \in components \ writer}

buildDemoAuthzTuples(pick) ==
    LET components == {o \in ComponentRows(lbRows) : o[2] = lbRun}
        writer == {c \in components : \A o \in components : o = c \/ pick = 0}
    IN DemoAccess(<<"factory", lbRun>>, <<"department", lbRun>>, <<"device", lbRun>>, components, writer,
                  buildDemoUserGroups(pick))

WriteDemoTuples == \E pick \in {0, 1} : writeTupleChunks("demoTuples", "report", {}, buildDemoAuthzTuples(pick))

\* Promise.all of the two, the summary, and pool.end.
Finish ==
    /\ lbStep = "report" /\ sysStep = "done"
    /\ script' = "finished"
    /\ lbStep' = "none" /\ sysStep' = "none"
    /\ UNCHANGED <<lbRows, lbTuples, lbCatalog, sysadmin, manifest, staleKeys, leaving, lbRun, handMade>>

ScriptDies ==
    /\ script \in {"seed", "bootstrap"}
    /\ Ends
    /\ UNCHANGED <<lbRows, lbTuples, lbCatalog, sysadmin, manifest, lbRun, handMade>>

\* Between scripts: another checkout, a user given access to something, the sysadmin banned.
ByHand ==
    /\ script \in {"none", "finished"} /\ handMade < MaxHandMade
    /\ handMade' = handMade + 1 /\ script' = "none"
    /\ \/ manifest' \in Manifests \ {manifest} /\ UNCHANGED <<lbTuples, sysadmin>>
       \/ /\ \E o \in DevicesIn(lbRows) \cup ComponentRows(lbRows), s \in {0, 9} :
               /\ <<"user", s>> \in lbRows
               /\ lbTuples' = lbTuples \cup {LbTuple(o, IF o[1] = "device" THEN "viewer" ELSE "reader", <<"user", s>>)}
          /\ UNCHANGED <<manifest, sysadmin>>
       \/ sysadmin.row /\ sysadmin' = [sysadmin EXCEPT !.banned = TRUE] /\ UNCHANGED <<manifest, lbTuples>>
    /\ UNCHANGED <<lbRows, lbCatalog, lbStep, sysStep, staleKeys, leaving, lbRun>>

Rests == script = "finished" /\ script' = "none"
         /\ UNCHANGED <<lbRows, lbTuples, lbCatalog, sysadmin, manifest, lbStep, sysStep, staleKeys, leaving, lbRun, handMade>>

LbNext ==
    \/ Start("seed") \/ Start("bootstrap") \/ upsertCredentialUser
    \/ clearPreviousDemoData \/ deleteAuthzTuples \/ DeleteDemoRows
    \/ insertDemoUsers \/ insertDemoHierarchy
    \/ upsertCatalogEntries \/ ManifestThrows \/ removeStaleCatalogEntries \/ ensureDeviceInstallations
    \/ WriteDemoTuples \/ Finish \/ ScriptDies \/ ByHand \/ Rests

LbSpec == LbInit /\ [][LbNext]_lbVars

-----------------------------------------------------------------------------

LbTypeOK ==
    /\ script \in {"none", "seed", "bootstrap", "finished"}
    /\ sysadmin \in [row : BOOLEAN, credential : BOOLEAN, banned : BOOLEAN]
    /\ \A o \in lbRows : o[1] \in {"user", "account", "factory", "department", "device", "component"}
    /\ \A t \in lbTuples : t.object[1] \notin {"user", "account"}
    /\ lbRun \in 0..MaxScripts /\ handMade \in 0..MaxHandMade

\* However often the scripts died before, no tuple outlives the row it is about,
\* nor, on objects made by hand, the one it names (a seeding that died between
\* the tuples of a component and those of its device may leave the device's,
\* until the next one).  A script that came to its end leaves the catalog the
\* manifests', every device with exactly those components, each with the tuple
\* that names its device (the bootstrap writes no child tuple: what it installed
\* cannot be reached from its device), no demo data but one seeding's, and a
\* sysadmin who can sign in.
BootstrapConverges ==
    /\ \A t \in lbTuples : t.object \in lbRows /\ (t.user \in lbRows \/ isDemo(t.object))
    /\ script = "finished" =>
         /\ lbCatalog = loadDeviceComponentManifestEntries
         /\ {<<o[2], o[3]>> : o \in ComponentRows(lbRows)}
              = {d[2] : d \in DevicesIn(lbRows)} \X DOMAIN manifest
         /\ \A o \in ComponentRows(lbRows) : ParentTuple(o, <<"device", o[2]>>) \in lbTuples
         /\ Cardinality({o \in lbRows : isDemo(o) /\ o[1] = "device"}) <= 1
         /\ sysadmin = [row |-> TRUE, credential |-> TRUE, banned |-> FALSE]
=============================================================================
