---------------------------- MODULE AccessViews ----------------------------
(***************************************************************************)
(* What the queries answer a user: the pages of the advanced permissions     *)
(* (routers/access-control/queries.ts), the workspaces and the sidebars      *)
(* (routers/workspace/router.ts), the device list and a device's route       *)
(* context.  A query mixes rows read from Postgres with relations asked of    *)
(* OpenFGA, and the pages link to each other: each is an operator over the    *)
(* state of AccessControl, and the property says that the pages agree.       *)
(* Forbidden stands for the errors a query throws.  Search, filters and the   *)
(* cutting into pages are left out: a listing is the set of all its rows.     *)
(***************************************************************************)
EXTENDS AccessControl

CONSTANT Forbidden

FactoryRows == AcFactories
DepartmentRows == {g \in AcDepartments : rowParent[g] # NoParent}
DeviceRows == {d \in AcDevices : rowParent[d] # NoParent}
FactoryOf(d) == rowParent[rowParent[d]]

---------------------------------------------------------------------------
\* The advanced permissions.

\* buildNavigation: the tabs; a user who manages nothing is refused.
buildNavigation(sys, factories, departments) ==
    LET scoped == sys \/ factories # {} \/ departments # {}
    IN  IF scoped
        THEN [users |-> sys, factories |-> sys \/ factories # {}, departments |-> scoped,
              devices |-> scoped, apps |-> scoped,
              home |-> IF sys THEN "users" ELSE "devices"]
        ELSE Forbidden

readManagementAccessContext(u) ==
    IF u = Sysadmin THEN [factories |-> {}, departments |-> {}, nav |-> buildNavigation(TRUE, {}, {})]
    ELSE LET f == managed(u, AcFactories)
             g == managed(u, AcDepartments)
         IN  [factories |-> f, departments |-> g, nav |-> buildNavigation(FALSE, f, g)]

buildDepartmentAccessCondition(u, a, g) ==
    u = Sysadmin \/ g \in a.departments \/ rowParent[g] \in a.factories

buildDeviceScopeAccessCondition(u, a, d) ==
    u = Sysadmin \/ rowParent[d] \in a.departments \/ FactoryOf(d) \in a.factories

listScopeFactories(u) ==
    LET a == readManagementAccessContext(u)
    IN  IF a.nav = Forbidden \/ ~a.nav.factories THEN {}
        ELSE {f \in FactoryRows : u = Sysadmin \/ f \in a.factories}

\* Without a factory filter: with one, the count names factory without joining it, and throws.
listScopeDepartments(u) ==
    LET a == readManagementAccessContext(u)
    IN  IF a.nav = Forbidden THEN {}
        ELSE {g \in DepartmentRows : buildDepartmentAccessCondition(u, a, g)}

listScopeDevices(u) ==
    LET a == readManagementAccessContext(u)
    IN  IF a.nav = Forbidden THEN {}
        ELSE {d \in DeviceRows : buildDeviceScopeAccessCondition(u, a, d)}

\* The catalog with the installations counted in the user's scope; without a
\* scope every entry is listed, with one only those installed in it.
listScopeApps(u) ==
    LET here == {d \in listScopeDevices(u) : installed[d] # "none"}
    IN  [listed |-> IF u = Sysadmin THEN catalogued ELSE here # {},
         installCount |-> Cardinality(here),
         enabledCount |-> Cardinality({d \in here : installed[d] = "on"})]

\* The users holding a relation on a scope directly.
readScopeAssignmentRows(o) ==
    {held \in AcUsers \X DirectRelations(o) : Direct(tuples, held[1], held[2], o)}

getScopeAssignments(u, o) ==
    IF u = Sysadmin \/ canManageUsers(tuples, u, o) THEN readScopeAssignmentRows(o) ELSE Forbidden

\* getScopedAssignments: one empty list of ids empties the whole answer.
getScopedAssignments(filters) ==
    IF \E k \in DOMAIN filters : filters[k] = {} THEN {}
    ELSE {t \in tuples : t.user \in AcUsers /\ t.object \in UNION {filters[k] : k \in DOMAIN filters}
                         /\ t.relation \in DirectRelations(t.object)}

\* readManagementConsoleData: the scopes managed, with those above them.
readManagementConsoleData(u) ==
    LET comps == {c \in managed(u, Components) : installed[c[2]] # "none"}
        devs == {d \in managed(u, AcDevices) \cup {c[2] : c \in comps} : rowParent[d] # NoParent}
        depts == {g \in managed(u, AcDepartments) \cup {rowParent[d] : d \in devs} : rowParent[g] # NoParent}
        facts == managed(u, AcFactories) \cup {rowParent[g] : g \in depts}
    IN  [components |-> comps, devices |-> devs, departments |-> depts, factories |-> facts,
         assignments |-> getScopedAssignments(<<managed(u, Components), depts, devs, facts>>)]

---------------------------------------------------------------------------
\* A device as its page sees it.

\* Mutant: a switched-off installation is offered too.
OffersDisabled(u, d) ==
    IF u # Sysadmin /\ ~canNavigate(tuples, u, d) THEN Forbidden
    ELSE {<<Comp(x), IF u = Sysadmin \/ Comp(x) \in writable(u, Components) THEN "write" ELSE "read">> :
            x \in {y \in {d} : installed[y] # "none" /\ (u = Sysadmin \/ canRead(tuples, u, y)
                                                          \/ Comp(y) \in readable(u, Components))}}

\* getDeviceComponentAccessForUser: the installed components offered, with the
\* level; the gateway token is signed for exactly these.
getDeviceComponentAccessForUser(u, d) ==
    IF u # Sysadmin /\ ~canNavigate(tuples, u, d) THEN Forbidden
    ELSE {<<Comp(x), IF u = Sysadmin \/ Comp(x) \in writable(u, Components) THEN "write" ELSE "read">> :
            x \in {y \in {d} : installed[y] = "on" /\ (u = Sysadmin \/ canRead(tuples, u, y)
                                                        \/ Comp(y) \in readable(u, Components))}}

getRouteContext(u, d) ==
    IF d \notin DeviceRows THEN Forbidden ELSE getDeviceComponentAccessForUser(u, d)

listDevices(u) == IF u = Sysadmin THEN DeviceRows ELSE DeviceRows \cap navigable(u, AcDevices)

getById(u, d) == d \in DeviceRows /\ (u = Sysadmin \/ d \in navigable(u, AcDevices))

---------------------------------------------------------------------------
\* The workspaces.  An undefined list of ids means no restriction (NoParent).

Within(x, ids) == ids = NoParent \/ x \in ids

readFactorySidebarRows(factories, departments, devices) ==
    [f \in {x \in FactoryRows : Within(x, factories)} |->
        [departments |-> Cardinality({g \in DepartmentRows : rowParent[g] = f /\ Within(g, departments)}),
         devices |-> Cardinality({d \in DeviceRows : FactoryOf(d) = f /\ Within(d, devices)})]]

readDepartmentSidebarRows(f, departments, devices) ==
    [g \in {x \in DepartmentRows : rowParent[x] = f /\ Within(x, departments)} |->
        Cardinality({d \in DeviceRows : rowParent[d] = g /\ Within(d, devices)})]

\* With the apps enabled on each; the ids of the components are the selected device's alone.
readDeviceSidebarRows(g, devices, components) ==
    [d \in {x \in DeviceRows : rowParent[x] = g /\ Within(x, devices)} |->
        Cardinality({c \in {Comp(d)} : installed[d] = "on" /\ Within(c, components)})]

listFactoriesNav(u) ==
    IF u = Sysadmin THEN readFactorySidebarRows(NoParent, NoParent, NoParent)
    ELSE readFactorySidebarRows(navigable(u, AcFactories), navigable(u, AcDepartments),
                                navigable(u, AcDevices))

\* requireNavigableFactory and requireNavigableDepartment.
requireNavigable(u, o) == u = Sysadmin \/ canNavigate(tuples, u, o)

\* The departments of a factory: all of them for a reader of the factory,
\* otherwise the navigable ones.
getFactoryWorkspace(u, f) ==
    LET all == u = Sysadmin \/ canRead(tuples, u, f)
        depts == navigable(u, AcDepartments)
        here == {g \in DepartmentRows : rowParent[g] = f /\ (all \/ g \in depts)}
    IN  IF ~requireNavigable(u, f) \/ (~all /\ depts = {}) THEN Forbidden
        ELSE [g \in here |-> Cardinality({d \in DeviceRows : rowParent[d] = g
                                            /\ (all \/ d \in navigable(u, AcDevices))})]

getDepartmentWorkspace(u, g) ==
    LET all == u = Sysadmin \/ canRead(tuples, u, g)
        devs == navigable(u, AcDevices)
        above == u = Sysadmin \/ canRead(tuples, u, rowParent[g])
    IN  IF \/ ~requireNavigable(u, g)
           \/ g \notin DepartmentRows
           \/ ~all /\ devs = {}
        THEN Forbidden
        ELSE [rows |-> [d \in {x \in DeviceRows : rowParent[x] = g /\ (all \/ x \in devs)} |->
                         Cardinality({c \in {Comp(d)} : installed[d] = "on"
                                        /\ (all \/ c \in readable(u, Components))})],
              sidebar |-> readDepartmentSidebarRows(rowParent[g],
                            IF above THEN NoParent ELSE navigable(u, AcDepartments),
                            IF u = Sysadmin THEN NoParent ELSE devs)]

getDeviceWorkspace(u, d) ==
    LET access == getRouteContext(u, d)
        all == u = Sysadmin \/ canRead(tuples, u, d)
        above == u = Sysadmin \/ canRead(tuples, u, rowParent[d])
    IN  IF access = Forbidden THEN Forbidden
        ELSE [components |-> access,
              sidebar |-> readDeviceSidebarRows(rowParent[d],
                            IF above THEN NoParent ELSE navigable(u, AcDevices),
                            IF all THEN NoParent ELSE {c[1] : c \in access})]

\* The sysadmin's directories list every row.
listSysadminFactories(u) == IF u = Sysadmin THEN FactoryRows ELSE Forbidden
listSysadminDepartments(u) == IF u = Sysadmin THEN DepartmentRows ELSE Forbidden
listSysadminDevices(u) == IF u = Sysadmin THEN DeviceRows ELSE Forbidden
listSysadminApps(u) == IF u = Sysadmin THEN {d \in DeviceRows : installed[d] # "none"} ELSE Forbidden

---------------------------------------------------------------------------
\* When rows and tuples agree, the pages agree with each other and with what
\* the checks allow: every entry a user is shown opens; a factory opens with as
\* many departments and devices, and a department with as many devices, as its
\* link announces, and a device with the enabled apps its department counts for
\* it and it counts for itself (for the devices beside it, it counts wrongly);
\* the scopes listed for management are those the mutations accept; and a
\* device offers, and signs a token for, exactly the enabled components the
\* user may read, unless the component is one the bootstrap installed: then who
\* holds a relation on it alone may not open its device.
PagesAgree ==
    (AcQuiet /\ disturbed = {}) => \A u \in AcUsers \cup {Sysadmin} :
        LET nav == listFactoriesNav(u) IN
        /\ \A f \in DOMAIN nav :
            LET w == getFactoryWorkspace(u, f) IN
            /\ w # Forbidden
            /\ nav[f].departments = Cardinality(DOMAIN w)
            /\ nav[f].devices = MapThenSumSet(LAMBDA g : w[g], DOMAIN w)
            /\ \A g \in DOMAIN w :
                LET v == getDepartmentWorkspace(u, g) IN
                /\ v # Forbidden
                /\ w[g] = Cardinality(DOMAIN v.rows) /\ v.sidebar[g] = w[g]
                /\ \A d \in DOMAIN v.rows :
                    LET x == getDeviceWorkspace(u, d) IN
                    /\ x # Forbidden
                    /\ v.rows[d] = Cardinality(x.components) /\ x.sidebar[d] = v.rows[d]
                    /\ d \in listDevices(u) /\ getById(u, d)
        /\ u = Sysadmin =>
            /\ listSysadminFactories(u) = DOMAIN nav
            /\ listSysadminDepartments(u) = listScopeDepartments(u)
            /\ listSysadminDevices(u) = listScopeDevices(u)
            /\ Cardinality(listSysadminApps(u)) = listScopeApps(u).installCount
        /\ u # Sysadmin =>
            /\ listScopeFactories(u) = managed(u, AcFactories)
            /\ listScopeDepartments(u) = managed(u, AcDepartments)
            /\ listScopeDevices(u) = managed(u, AcDevices)
            /\ LET console == readManagementConsoleData(u) IN
               /\ console.devices = listScopeDevices(u)
               /\ listScopeApps(u).installCount = Cardinality(console.components)
            /\ \A o \in AcObjects : getScopeAssignments(u, o) # Forbidden <=> o \in managed(u, AcObjects)
            /\ \A d \in DeviceRows : LET offered == getRouteContext(u, d) IN
                 {c[1] : c \in IF offered = Forbidden THEN {} ELSE offered}
                   = {c \in readable(u, {Comp(d)}) : installed[d] = "on"
                                                     /\ (d \in bare => canNavigate(tuples, u, d))}
=============================================================================
