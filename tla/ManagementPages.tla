--------------------------- MODULE ManagementPages ---------------------------
(***************************************************************************)
(* The administration pages (users, factories, departments, devices, apps):  *)
(* rows rendered by the server, forms that send a whole row (MutationModal),  *)
(* the dialogs of a row (access of a scope, apps of a device), and the refresh *)
(* after every change.  A mutation's state, and a refresh, render the page,    *)
(* whose column definitions are then new ones: every cell is mounted again, and *)
(* a dialog that was open in one is closed with what was typed in it.           *)
(* One table stands for the page's; a row is the field a form edits and a flag  *)
(* (banned, active, enabled by default).  Searching for users and queries that  *)
(* fail are left out.                                                            *)
(***************************************************************************)
EXTENDS Naturals, FiniteSets, Functions

CONSTANTS MpRows,       \* ids of rows, also of users
          MpSelf,       \* the administrator's own account
          MpPages,      \* bound: the pages looked at
          Grantees,     \* users who may be given access to a scope
          MaxMpCalls,   \* bound: calls of this browser, and changes of others
          NoDialog, NotLoaded, NoRole

Queries == {"grants", "apps"}
RowValue == [main : 0..1, flag : BOOLEAN]
MpRoles == {"viewer", "admin"}

ASSUME MpAssumption ==
    /\ IsFiniteSet(MpRows) /\ MpSelf \in MpRows /\ MaxMpCalls \in Nat
    /\ \A S \in SUBSET MpRows : \A rows \in [S -> RowValue] : rows # NotLoaded
    /\ NotLoaded \notin BOOLEAN

VARIABLES mpTab,        \* the page shown, and whether it is shown to a sysadmin
          mpServer,     \* rows; direct grants of the scope looked at; apps of the device looked at
          mpRows,       \* data.table.rows, as rendered last
          mpCached,     \* the answers of getScopeAssignments and listDeviceInstallations
          mpDialog,     \* the dialog that is open
          mpCalls,      \* mutations under way
          mpRefresh,    \* router.refresh asked for; the rows the server sends
          mpRefetch,    \* queries being fetched, and whether a refresh follows
          mpRead,       \* what the server has read for them
          mpStray,      \* history: what changed without this page being told, or told too early
          mpMade

mpVars == <<mpTab, mpServer, mpRows, mpCached, mpDialog, mpCalls, mpRefresh, mpRefetch,
            mpRead, mpStray, mpMade>>

Blank == [main |-> 0, flag |-> FALSE]
scopeTabs == {"factories", "departments", "devices"}

\* tabs, filtered by the navigation the server sends: users and apps are for the sysadmin.
AccessControlShell(sysadmin) ==
    IF sysadmin THEN scopeTabs \cup {"users", "apps"} ELSE scopeTabs

MpInit ==
    /\ \E sysadmin \in BOOLEAN : \E tab \in AccessControlShell(sysadmin) \cap MpPages :
         mpTab = [name |-> tab, sysadmin |-> sysadmin]
    /\ mpServer = [rows |-> [r \in {MpSelf} |-> Blank],
                   grants |-> [u \in Grantees |-> NoRole], apps |-> TRUE]
    /\ mpRows = mpServer.rows
    /\ mpCached = [q \in Queries |-> NotLoaded]
    /\ mpDialog = NoDialog
    /\ mpCalls = {} /\ mpRefresh = [asked |-> FALSE, sent |-> NotLoaded]
    /\ mpRefetch = [q \in Queries |-> "idle"] /\ mpRead = [q \in Queries |-> NotLoaded]
    /\ mpStray = [rows |-> FALSE, grants |-> FALSE, apps |-> FALSE]
    /\ mpMade = 0

-----------------------------------------------------------------------------
(* Dialogs *)

\* What a row of each page offers: forms, and the dialogs of its scope.
usersPage(r) == {"role", "password"} \cup (IF mpRows[r].flag THEN {"unban"} ELSE {"ban"})
                \cup {"remove"} \cup (IF r = MpSelf THEN {} ELSE {"impersonate"})
editForm == IF mpTab.sysadmin THEN {"edit"} ELSE {}
factoriesPage == editForm \cup {"scope"}
departmentsPage == editForm \cup {"scope"}
devicesPage == editForm \cup {"scope", "apps"}
appsPage == editForm
columns(r) == CASE mpTab.name = "users" -> usersPage(r)
                [] mpTab.name = "factories" -> factoriesPage
                [] mpTab.name = "departments" -> departmentsPage
                [] mpTab.name = "devices" -> devicesPage
                [] mpTab.name = "apps" -> appsPage
toolbarChildren == IF mpTab.sysadmin THEN {"create"} ELSE {}
RowForms == {"edit", "role", "password", "ban"}

\* defaultValues, read when the form is mounted; the catalog's sort order is the number of apps.
createDefaults(rows) ==
    [Blank EXCEPT !.main = IF mpTab.name = "apps" THEN Cardinality(DOMAIN rows) % 2 ELSE 0]
defaultValues(form, r) ==
    IF form = "create" THEN createDefaults(mpRows)
    ELSE IF form = "ban" THEN [mpRows[r] EXCEPT !.flag = TRUE]
    ELSE mpRows[r]

Untouched == UNCHANGED <<mpTab, mpServer, mpRows, mpCached, mpCalls, mpRefresh, mpRefetch,
                         mpRead, mpStray, mpMade>>

OpenForm ==
    /\ mpDialog = NoDialog
    /\ \/ \E r \in DOMAIN mpRows : \E form \in columns(r) \cap RowForms :
            mpDialog' = [kind |-> "form", form |-> form, row |-> r, values |-> defaultValues(form, r)]
       \/ \E form \in toolbarChildren, r \in MpRows \ DOMAIN mpRows :
            mpDialog' = [kind |-> "form", form |-> form, row |-> r, values |-> defaultValues(form, r)]
    /\ Untouched

TypeInForm ==
    /\ mpDialog # NoDialog /\ mpDialog.kind = "form"
    /\ \/ mpDialog' = [mpDialog EXCEPT !.values.main = 1 - @]
       \/ mpDialog.form \in {"create", "edit"} /\ mpDialog' = [mpDialog EXCEPT !.values.flag = ~@]
    /\ Untouched

\* enabled: open; a cached answer is used while it is fresh.
OpenScopeManager(r) ==
    /\ mpDialog = NoDialog /\ "scope" \in columns(r)
    /\ mpDialog' = [kind |-> "scope", row |-> r, user |-> NoRole, role |-> "viewer"]
    /\ mpRefetch' = [mpRefetch EXCEPT !["grants"] =
         IF mpCached["grants"] = NotLoaded /\ @ = "idle" THEN "fetching" ELSE @]
    /\ UNCHANGED <<mpTab, mpServer, mpRows, mpCached, mpCalls, mpRefresh, mpRead, mpStray, mpMade>>

OpenInstallations(r) ==
    /\ mpDialog = NoDialog /\ "apps" \in columns(r)
    /\ mpDialog' = [kind |-> "apps", row |-> r]
    /\ mpRefetch' = [mpRefetch EXCEPT !["apps"] =
         IF mpCached["apps"] = NotLoaded /\ @ = "idle" THEN "fetching" ELSE @]
    /\ UNCHANGED <<mpTab, mpServer, mpRows, mpCached, mpCalls, mpRefresh, mpRead, mpStray, mpMade>>

PickAssignment ==
    /\ mpDialog # NoDialog /\ mpDialog.kind = "scope"
    /\ \E u \in Grantees, role \in MpRoles :
         mpDialog' = [mpDialog EXCEPT !.user = u, !.role = role]
    /\ Untouched

\* Closing forgets the form, the user and the role.
handleOpenChange ==
    /\ mpDialog # NoDialog
    /\ mpDialog' = NoDialog
    /\ Untouched

-----------------------------------------------------------------------------
(* Mutations *)

\* The page is rendered: what is open in a cell is gone, the toolbar's form stays,
\* and starts again if its default values are others now.
InCell == mpDialog # NoDialog /\ (mpDialog.kind # "form" \/ mpDialog.form # "create")
Rendered(rows) ==
    IF InCell THEN NoDialog
    ELSE IF mpDialog # NoDialog /\ createDefaults(rows) # createDefaults(mpRows)
    THEN [mpDialog EXCEPT !.values = createDefaults(rows)]
    ELSE mpDialog

PageMutations == {"create", "edit", "role", "password", "ban", "unban", "remove"}
isPending(kind) == \E call \in mpCalls : call.kind = kind

\* mutateAsync; the page's own mutations render it.
Mutate(kind, r, values) ==
    /\ mpMade < MaxMpCalls
    /\ mpMade' = mpMade + 1
    /\ mpCalls' = mpCalls \cup {[n |-> mpMade, kind |-> kind, row |-> r, values |-> values, state |-> "sent"]}
    /\ mpDialog' = IF kind \in PageMutations THEN Rendered(mpRows) ELSE mpDialog
    /\ UNCHANGED <<mpTab, mpServer, mpRows, mpCached, mpRefresh, mpRefetch, mpRead, mpStray>>

onSubmit ==
    /\ mpDialog # NoDialog /\ mpDialog.kind = "form"
    /\ ~isPending(mpDialog.form)
    /\ Mutate(mpDialog.form, mpDialog.row, mpDialog.values)

\* Buttons of a row: nothing disables them while their call is under way.
handleUnban(r) ==
    /\ "unban" \in columns(r)
    /\ Mutate("unban", r, [mpRows[r] EXCEPT !.flag = FALSE])
handleDelete(r) ==
    /\ "remove" \in columns(r)
    /\ Mutate("remove", r, mpRows[r])

\* A device's scope has viewers only, whatever was picked.
buildAssignmentPayload == IF mpTab.name = "devices" THEN "viewer" ELSE mpDialog.role

canSubmit == mpDialog.user # NoRole /\ ~isPending("assign")
handleAssign ==
    /\ mpDialog # NoDialog /\ mpDialog.kind = "scope" /\ canSubmit
    /\ Mutate("assign", mpDialog.user, buildAssignmentPayload)
handleRemove ==
    /\ mpDialog # NoDialog /\ mpDialog.kind = "scope" /\ mpCached["grants"] # NotLoaded
    /\ \E u \in Grantees : mpCached["grants"][u] # NoRole /\ Mutate("unassign", u, NoRole)
\* The opposite of what the row shows, which is what the button says.
handleToggle ==
    /\ mpDialog # NoDialog /\ mpDialog.kind = "apps" /\ mpTab.sysadmin /\ mpCached["apps"] # NotLoaded
    /\ Mutate("toggle", mpDialog.row, ~mpCached["apps"])

\* The page is left for the impersonated user's, whatever the answer: the client returns errors.
handleImpersonate(r) ==
    /\ "impersonate" \in columns(r)
    /\ mpTab' = [mpTab EXCEPT !.name = "left"]
    /\ mpDialog' = NoDialog
    /\ UNCHANGED <<mpServer, mpRows, mpCached, mpCalls, mpRefresh, mpRefetch, mpRead, mpStray, mpMade>>

WithRow(rows, r, values) == [x \in DOMAIN rows \cup {r} |-> IF x = r THEN values ELSE rows[x]]

\* What a call does on the server; a row that is not there fails it.
Applied(call) ==
    CASE call.kind \in {"create", "edit", "role", "ban", "unban"} ->
           [mpServer EXCEPT !.rows = WithRow(@, call.row, call.values)]
      [] call.kind = "password" -> mpServer
      [] call.kind = "remove" -> [mpServer EXCEPT !.rows = Restrict(@, DOMAIN @ \ {call.row})]
      [] call.kind = "assign" -> [mpServer EXCEPT !.grants[call.row] = call.values]
      [] call.kind = "unassign" -> [mpServer EXCEPT !.grants[call.row] = NoRole]
      [] call.kind = "toggle" -> [mpServer EXCEPT !.apps = call.values]
Refused(call) ==
    \/ call.kind \in PageMutations \ {"create"} /\ call.row \notin DOMAIN mpServer.rows
    \/ call.kind = "create" /\ call.row \in DOMAIN mpServer.rows

Becomes(call, state) == mpCalls' = (mpCalls \ {call}) \cup {[call EXCEPT !.state = state]}

CallArrives(call) ==
    /\ call.state = "sent"
    /\ IF Refused(call) THEN Becomes(call, "failed") /\ UNCHANGED mpServer
       ELSE Becomes(call, "done") /\ mpServer' = Applied(call)
    /\ UNCHANGED <<mpTab, mpRows, mpCached, mpDialog, mpRefresh, mpRefetch, mpRead, mpStray, mpMade>>

MpTouches(call) == CASE call.kind \in {"assign", "unassign"} -> "grants"
                   [] call.kind = "toggle" -> "apps"
                   [] OTHER -> "rows"

\* The answer is lost: the caller sees an error, whatever was done.
AnswerLost(call) ==
    /\ call.state \in {"sent", "done"}
    /\ Becomes(call, "failed")
    /\ mpStray' = [mpStray EXCEPT ![MpTouches(call)] = @ \/ call.state = "done"]
    /\ UNCHANGED <<mpTab, mpServer, mpRows, mpCached, mpDialog, mpRefresh, mpRefetch, mpRead, mpMade>>

\* Mutant: only a call of the page itself is followed by a refresh.
NoRefetch(call) ==
    /\ mpRefresh' = [mpRefresh EXCEPT !.asked = TRUE]
    /\ UNCHANGED <<mpRefetch, mpRead, mpStray>>

\* refetch: the query is cancelled and starts again, except that a query which has no
\* data yet is joined, though its answer may have been read before the call was made.
JoinsFirstLoad(q) == mpRefetch[q] # "idle" /\ mpCached[q] = NotLoaded
refetch(q) ==
    /\ mpRead' = IF JoinsFirstLoad(q) THEN mpRead ELSE [mpRead EXCEPT ![q] = NotLoaded]
    /\ mpStray' = [mpStray EXCEPT ![q] = @ \/ (JoinsFirstLoad(q) /\ mpRead[q] # NotLoaded)]

\* refresh: the page; refreshScope: the assignments first, the page when they are
\* here; the installations dialog asks for both.
refresh(call) ==
    /\ mpRefetch' = CASE MpTouches(call) = "grants" -> [mpRefetch EXCEPT !["grants"] = "then refresh"]
                      [] MpTouches(call) = "apps" -> [mpRefetch EXCEPT !["apps"] = "fetching"]
                      [] OTHER -> mpRefetch
    /\ IF MpTouches(call) \in Queries THEN refetch(MpTouches(call)) ELSE UNCHANGED <<mpRead, mpStray>>
    /\ mpRefresh' = [mpRefresh EXCEPT !.asked = @ \/ MpTouches(call) # "grants"]

\* The promise settles: a form is closed, also after an error.
Settles(call) ==
    /\ call.state \in {"done", "failed"}
    /\ mpCalls' = mpCalls \ {call}
    /\ mpDialog' = IF mpDialog # NoDialog /\ mpDialog.kind = "form" /\ mpDialog.form = call.kind THEN NoDialog
                   ELSE IF call.kind \in PageMutations THEN Rendered(mpRows) ELSE mpDialog
    /\ IF call.state = "done" THEN refresh(call) ELSE UNCHANGED <<mpRefresh, mpRefetch, mpRead, mpStray>>
    /\ UNCHANGED <<mpTab, mpServer, mpRows, mpCached, mpMade>>

-----------------------------------------------------------------------------
(* Refreshes *)

ServerRendersPage ==
    /\ mpTab.name # "left"
    /\ mpRefresh.asked /\ mpRefresh.sent = NotLoaded
    /\ mpRefresh' = [asked |-> FALSE, sent |-> mpServer.rows]
    /\ mpStray' = [mpStray EXCEPT !.rows = FALSE]
    /\ UNCHANGED <<mpTab, mpServer, mpRows, mpCached, mpDialog, mpCalls, mpRefetch, mpRead, mpMade>>

PageRefreshed ==
    /\ mpRefresh.sent # NotLoaded
    /\ mpRows' = mpRefresh.sent
    /\ mpRefresh' = [mpRefresh EXCEPT !.sent = NotLoaded]
    /\ mpDialog' = Rendered(mpRefresh.sent)
    /\ UNCHANGED <<mpTab, mpServer, mpCached, mpCalls, mpRefetch, mpRead, mpStray, mpMade>>

\* The server answers a query, and the answer arrives.
ServerReads(q) ==
    /\ mpRefetch[q] # "idle" /\ mpRead[q] = NotLoaded
    /\ mpRead' = [mpRead EXCEPT ![q] = mpServer[q]]
    /\ mpStray' = [mpStray EXCEPT ![q] = FALSE]
    /\ UNCHANGED <<mpTab, mpServer, mpRows, mpCached, mpDialog, mpCalls, mpRefresh, mpRefetch, mpMade>>

QueryAnswered(q) ==
    /\ mpRead[q] # NotLoaded
    /\ mpCached' = [mpCached EXCEPT ![q] = mpRead[q]]
    /\ mpRead' = [mpRead EXCEPT ![q] = NotLoaded]
    /\ mpRefetch' = [mpRefetch EXCEPT ![q] = "idle"]
    /\ mpRefresh' = [mpRefresh EXCEPT !.asked = @ \/ mpRefetch[q] = "then refresh"]
    /\ UNCHANGED <<mpTab, mpServer, mpRows, mpDialog, mpCalls, mpStray, mpMade>>

\* Another administrator's browser.
StrangerChanges ==
    /\ mpMade < MaxMpCalls
    /\ mpMade' = mpMade + 1
    /\ \/ /\ \E r \in DOMAIN mpServer.rows : mpServer' = [mpServer EXCEPT !.rows[r].main = 1 - @]
          /\ mpStray' = [mpStray EXCEPT !.rows = TRUE]
       \/ /\ \E u \in Grantees, role \in MpRoles \cup {NoRole} :
               mpServer' = [mpServer EXCEPT !.grants[u] = role]
          /\ mpStray' = [mpStray EXCEPT !.grants = TRUE]
    /\ UNCHANGED <<mpTab, mpRows, mpCached, mpDialog, mpCalls, mpRefresh, mpRefetch, mpRead>>

MpNext ==
    \/ /\ mpTab.name # "left"
       /\ \/ OpenForm \/ TypeInForm \/ PickAssignment \/ handleOpenChange \/ onSubmit
          \/ handleAssign \/ handleRemove \/ handleToggle
          \/ \E r \in DOMAIN mpRows : \/ OpenScopeManager(r) \/ OpenInstallations(r)
                                      \/ handleUnban(r) \/ handleDelete(r) \/ handleImpersonate(r)
          \/ \E call \in mpCalls : Settles(call)
          \/ ServerRendersPage \/ PageRefreshed
          \/ \E q \in Queries : ServerReads(q) \/ QueryAnswered(q)
    \/ \E call \in mpCalls : CallArrives(call) \/ AnswerLost(call)
    \/ StrangerChanges

MpSpec == MpInit /\ [][MpNext]_mpVars

-----------------------------------------------------------------------------

MpTypeOK ==
    /\ mpServer.rows \in [DOMAIN mpServer.rows -> RowValue]
    /\ mpServer.grants \in [Grantees -> MpRoles \cup {NoRole}]
    /\ DOMAIN mpRows \subseteq MpRows
    /\ \A call \in mpCalls : call.state \in {"sent", "done", "failed"}
    /\ mpDialog # NoDialog => mpDialog.kind \in {"form", "scope", "apps"}

\* When nothing is under way, the rows, the assignments and the installations the
\* page shows are the server's, whatever calls were made at the same time and
\* whatever dialog closed meanwhile, with the exceptions mpStray marks: another
\* browser or a call whose answer was lost has changed them since they were read,
\* or a call of this page joined a first load that had been read already (a grant
\* made while its dialog is loading is not shown until the dialog loads again).
PageShowsWhatWasSaved ==
    mpCalls = {} /\ mpTab.name # "left" =>
       /\ ~mpRefresh.asked /\ mpRefresh.sent = NotLoaded /\ ~mpStray.rows => mpRows = mpServer.rows
       /\ \A q \in Queries :
            mpRefetch[q] = "idle" /\ mpCached[q] # NotLoaded /\ ~mpStray[q] => mpCached[q] = mpServer[q]
=============================================================================
