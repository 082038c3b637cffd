------------------------ MODULE AdministrationProofs ------------------------
(***************************************************************************)
(* Proofs about administration: the state of OpenFGA, the pages and their   *)
(* tables, the bootstrap scripts, the access-control router and the storage  *)
(* sessions.  For each an inductive invariant, kept by every step.            *)
(***************************************************************************)
EXTENDS MCWebPlatform, FiniteSetTheorems, SequenceTheorems, WellFoundedInduction, TLAPS

-----------------------------------------------------------------------------
(* AuthzState                                                              *)

Models == {"none", "old", "current"}
BootSteps == {"null", "find", "create", "readModel", "writeModel", "build", "ready"}

\* A process that has a store has one that is there, and builds on this release's model alone.
BootFits(p) ==
    /\ boot[p].step \in {"readModel", "writeModel", "build", "ready"} => boot[p].store \in 1..Len(fgaModel)
    /\ boot[p].step \in {"build", "ready"} => fgaModel[boot[p].store] = "current"
    /\ boot[p].step = "create" => ~hadStore

\* A request waits for a promise that is there, and has the state of one that was kept.
RequestFits(r) ==
    /\ waitsFor[r] = "given" => boot[r[1]].step = "ready"
    /\ waitsFor[r] = "waiting" => boot[r[1]].step \notin {"null", "ready"}

FgaInv ==
    /\ fgaModel \in Seq(Models) /\ hadStore \in BOOLEAN
    /\ boot \in [Servers -> [step : BootSteps, store : Nat]]
    /\ waitsFor \in [Servers \X FgaCallers -> {"idle", "waiting", "failed", "given"}]
    /\ fgaFaults \in 0..MaxFgaFaults
    /\ hadStore => Len(fgaModel) = 1
    /\ \A p \in Servers : BootFits(p)
    /\ \A r \in Servers \X FgaCallers : RequestFits(r)

LEMMA FgaInitFits == FgaInit => FgaInv
<1> SUFFICES ASSUME FgaInit PROVE FgaInv
  OBVIOUS
<1>1. fgaModel \in Seq(Models) /\ (fgaModel # <<>> => Len(fgaModel) = 1)
  <2>1. CASE fgaModel = <<>> BY <2>1
  <2>2. ASSUME NEW model \in Models, fgaModel = <<model>> PROVE fgaModel \in Seq(Models) /\ Len(fgaModel) = 1
    BY <2>2
  <2> QED BY <2>1, <2>2 DEF FgaInit, Models
<1>2. hadStore \in BOOLEAN /\ (hadStore => fgaModel # <<>>)
  BY DEF FgaInit
<1>3. /\ boot \in [Servers -> [step : BootSteps, store : Nat]] /\ \A p \in Servers : boot[p].step = "null"
  BY DEF FgaInit, BootSteps
<1>4. /\ waitsFor \in [Servers \X FgaCallers -> {"idle", "waiting", "failed", "given"}]
      /\ \A r \in Servers \X FgaCallers : waitsFor[r] = "idle"
  BY DEF FgaInit
<1>5. fgaFaults \in 0..MaxFgaFaults BY FgaAssumption DEF FgaInit
<1> QED BY <1>1, <1>2, <1>3, <1>4, <1>5 DEF FgaInv, BootFits, RequestFits

\* A process moves on; its requests hear of it, or of its failure.
LEMMA BootMoves ==
  ASSUME FgaInv, NEW p \in Servers, NEW step \in BootSteps, NEW store \in Nat, Boots(p, step, store),
         NEW m, fgaModel' = m, m \in Seq(Models), Len(fgaModel) <= Len(m),
         \A s \in 1..Len(fgaModel) : fgaModel[s] = "current" => m[s] = "current",
         hadStore' = hadStore, hadStore => Len(m) = 1,
         step \in {"readModel", "writeModel", "build", "ready"} => store \in 1..Len(m),
         step \in {"build", "ready"} => m[store] = "current",
         step = "create" => ~hadStore,
         fgaFaults' \in 0..MaxFgaFaults, boot[p].step # "ready",
         \/ UNCHANGED waitsFor /\ step \notin {"null", "ready"} /\ boot[p].step # "null"
         \/ step = "ready" /\ Given(p, "given")
         \/ step = "null" /\ Given(p, "failed")
  PROVE  FgaInv'
<1>1. /\ boot' \in [Servers -> [step : BootSteps, store : Nat]]
      /\ boot'[p].step = step /\ boot'[p].store = store /\ \A q \in Servers \ {p} : boot'[q] = boot[q]
  BY DEF FgaInv, Boots
<1>2. Len(fgaModel) \in Nat /\ Len(m) \in Nat
  BY LenProperties DEF FgaInv
<1>3. \A q \in Servers : BootFits(q)'
  <2>1. BootFits(p)' BY <1>1 DEF BootFits
  <2>2. ASSUME NEW q \in Servers \ {p} PROVE BootFits(q)'
    <3>1. BootFits(q) /\ boot'[q] = boot[q] BY <1>1 DEF FgaInv
    <3>2. boot[q].store \in 1..Len(fgaModel) => boot[q].store \in 1..Len(m)
      BY <1>2
    <3> QED BY <3>1, <3>2 DEF BootFits
  <2> QED BY <2>1, <2>2
<1>4. /\ waitsFor' \in [Servers \X FgaCallers -> {"idle", "waiting", "failed", "given"}]
      /\ \A r \in Servers \X FgaCallers : RequestFits(r)'
  <2>1. CASE UNCHANGED waitsFor /\ step \notin {"null", "ready"} /\ boot[p].step # "null"
    <3>1. ASSUME NEW r \in Servers \X FgaCallers PROVE RequestFits(r)'
      <4>1. RequestFits(r) /\ r[1] \in Servers BY DEF FgaInv
      <4> QED BY <1>1, <2>1, <4>1 DEF RequestFits
    <3> QED BY <2>1, <3>1 DEF FgaInv
  <2>2. ASSUME NEW w \in {"given", "failed"}, Given(p, w), step = IF w = "given" THEN "ready" ELSE "null"
        PROVE  /\ waitsFor' \in [Servers \X FgaCallers -> {"idle", "waiting", "failed", "given"}]
               /\ \A r \in Servers \X FgaCallers : RequestFits(r)'
    <3>1. waitsFor' = [r \in Servers \X FgaCallers |->
                         IF r[1] = p /\ waitsFor[r] = "waiting" THEN w ELSE waitsFor[r]]
      BY <2>2 DEF FgaInv, Given
    <3>2. waitsFor' \in [Servers \X FgaCallers -> {"idle", "waiting", "failed", "given"}]
      BY <2>2, <3>1 DEF FgaInv
    <3>3. ASSUME NEW r \in Servers \X FgaCallers PROVE RequestFits(r)'
      <4>1. RequestFits(r) /\ r[1] \in Servers BY DEF FgaInv
      <4>2. waitsFor'[r] = IF r[1] = p /\ waitsFor[r] = "waiting" THEN w ELSE waitsFor[r]
        BY <3>1
      <4> QED BY <1>1, <2>2, <4>1, <4>2 DEF RequestFits
    <3> QED BY <3>2, <3>3
  <2> QED BY <2>1, <2>2
<1> QED BY <1>1, <1>3, <1>4 DEF FgaInv

LEMMA FgaStepFits == FgaInv /\ [FgaNext]_fgaVars => FgaInv'
<1> SUFFICES ASSUME FgaInv, FgaNext \/ UNCHANGED fgaVars PROVE FgaInv'
  OBVIOUS
<1>1. /\ fgaModel \in Seq(Models) /\ Len(fgaModel) \in Nat /\ fgaFaults \in 0..MaxFgaFaults
      /\ hadStore => Len(fgaModel) = 1
      /\ \A s \in 1..Len(fgaModel) : fgaModel[s] \in Models
  BY LenProperties, ElementOfSeq DEF FgaInv
<1>2. CASE UNCHANGED fgaVars
  BY <1>2 DEF fgaVars, FgaInv, BootFits, RequestFits
<1>3. ASSUME NEW r \in Servers \X FgaCallers, ensureAuthzState(r) PROVE FgaInv'
  <2>1. /\ r[1] \in Servers /\ UNCHANGED <<fgaModel, fgaFaults, hadStore>>
        /\ waitsFor' = [waitsFor EXCEPT ![r] = IF boot[r[1]].step = "ready" THEN "given" ELSE "waiting"]
        /\ IF boot[r[1]].step = "null" THEN Boots(r[1], "find", 0) ELSE UNCHANGED boot
    BY <1>3 DEF ensureAuthzState
  <2>2. /\ boot' \in [Servers -> [step : BootSteps, store : Nat]]
        /\ \A q \in Servers : boot'[q] = boot[q] \/ (boot[q].step = "null" /\ boot'[q].step = "find")
        /\ boot'[r[1]].step # "null"
        /\ boot[r[1]].step = "ready" <=> boot'[r[1]].step = "ready"
    <3>0. boot \in [Servers -> [step : BootSteps, store : Nat]] /\ "find" \in BootSteps
      BY DEF FgaInv, BootSteps
    <3>1. CASE boot[r[1]].step = "null"
      <4>1. boot' = [boot EXCEPT ![r[1]] = [step |-> "find", store |-> 0]]
        BY <2>1, <3>1 DEF Boots
      <4> QED BY <2>1, <3>0, <3>1, <4>1
    <3>2. CASE boot[r[1]].step # "null" BY <2>1, <3>0, <3>2
    <3> QED BY <3>1, <3>2
  <2>3. \A q \in Servers : BootFits(q)'
    BY <2>1, <2>2 DEF FgaInv, BootFits
  <2>4. /\ waitsFor' \in [Servers \X FgaCallers -> {"idle", "waiting", "failed", "given"}]
        /\ waitsFor'[r] = IF boot[r[1]].step = "ready" THEN "given" ELSE "waiting"
        /\ \A z \in Servers \X FgaCallers : z # r => waitsFor'[z] = waitsFor[z]
    BY <1>3, <2>1 DEF FgaInv
  <2>5. ASSUME NEW z \in Servers \X FgaCallers PROVE RequestFits(z)'
    <3>1. RequestFits(z) /\ z[1] \in Servers BY DEF FgaInv
    <3> QED BY <2>2, <2>4, <3>1 DEF RequestFits
  <2> QED BY <1>1, <2>1, <2>2, <2>3, <2>4, <2>5 DEF FgaInv
<1>4. ASSUME NEW p \in Servers PROVE BootFits(p) /\ boot[p].store \in Nat
  BY DEF FgaInv
<1>5. ASSUME NEW p \in Servers, findStoreIdByName(p) PROVE FgaInv'
  <2>1. boot[p].step = "find" /\ UNCHANGED <<fgaModel, waitsFor, fgaFaults, hadStore>>
    BY <1>5 DEF findStoreIdByName
  <2>2. CASE Len(fgaModel) = 0
    <3>1. Boots(p, "create", 0) /\ ~hadStore
      BY <1>1, <1>5, <2>2 DEF findStoreIdByName
    <3> QED BY <1>1, <1>5, <2>1, <3>1, BootMoves DEF BootSteps
  <2>3. CASE Len(fgaModel) # 0
    <3>1. Boots(p, "readModel", 1) /\ 1 \in 1..Len(fgaModel)
      BY <1>1, <1>5, <2>3 DEF findStoreIdByName
    <3> QED BY <1>1, <1>5, <2>1, <3>1, BootMoves DEF BootSteps
  <2> QED BY <2>2, <2>3
<1>6. ASSUME NEW p \in Servers, ensureStoreId(p) PROVE FgaInv'
  <2>1. /\ boot[p].step = "create" /\ fgaModel' = Append(fgaModel, "none")
        /\ Boots(p, "readModel", Len(fgaModel) + 1) /\ UNCHANGED <<waitsFor, fgaFaults, hadStore>>
    BY <1>6 DEF ensureStoreId
  <2>2. ~hadStore BY <1>4, <1>6, <2>1 DEF BootFits
  <2>3. /\ fgaModel' \in Seq(Models) /\ Len(fgaModel') = Len(fgaModel) + 1
        /\ \A s \in 1..Len(fgaModel) : fgaModel'[s] = fgaModel[s]
    <3>1. "none" \in Models BY DEF Models
    <3> QED BY <1>1, <2>1, <3>1, AppendProperties
  <2>4. /\ Len(fgaModel) + 1 \in 1..Len(fgaModel') /\ Len(fgaModel) + 1 \in Nat /\ Len(fgaModel) <= Len(fgaModel')
    BY <1>1, <2>3
  <2> QED BY <1>1, <1>6, <2>1, <2>2, <2>3, <2>4, BootMoves DEF BootSteps
<1>7. ASSUME NEW p \in Servers, readAuthorizationModelHash(p) \/ ModelReadFails(p) PROVE FgaInv'
  <2>1. /\ boot[p].step = "readModel" /\ UNCHANGED <<fgaModel, waitsFor, hadStore>>
        /\ fgaFaults' \in 0..MaxFgaFaults
    BY <1>1, <1>7, FgaAssumption DEF readAuthorizationModelHash, ModelReadFails
  <2>2. boot[p].store \in 1..Len(fgaModel)
    BY <1>4, <1>7, <2>1 DEF BootFits
  <2>3. CASE Boots(p, "build", boot[p].store) /\ fgaModel[boot[p].store] = "current"
    BY <1>1, <1>4, <1>7, <2>1, <2>2, <2>3, BootMoves DEF BootSteps
  <2>4. CASE Boots(p, "writeModel", boot[p].store)
    BY <1>1, <1>4, <1>7, <2>1, <2>2, <2>4, BootMoves DEF BootSteps
  <2> QED BY <1>7, <2>3, <2>4 DEF readAuthorizationModelHash, ModelReadFails
<1>8. ASSUME NEW p \in Servers, ensureAuthorizationModelId(p) PROVE FgaInv'
  <2>1. /\ boot[p].step = "writeModel" /\ fgaModel' = [fgaModel EXCEPT ![boot[p].store] = "current"]
        /\ Boots(p, "build", boot[p].store) /\ UNCHANGED <<waitsFor, fgaFaults, hadStore>>
    BY <1>8 DEF ensureAuthorizationModelId
  <2>2. boot[p].store \in 1..Len(fgaModel)
    BY <1>4, <1>8, <2>1 DEF BootFits
  <2>3. /\ fgaModel' \in Seq(Models) /\ Len(fgaModel') = Len(fgaModel)
        /\ fgaModel'[boot[p].store] = "current"
        /\ \A s \in 1..Len(fgaModel) : fgaModel[s] = "current" => fgaModel'[s] = "current"
    <3>1. "current" \in Models BY DEF Models
    <3> QED BY <1>1, <2>1, <2>2, <3>1, ExceptSeq
  <2>4. /\ Len(fgaModel) <= Len(fgaModel') /\ boot[p].store \in 1..Len(fgaModel') /\ boot[p].store \in Nat
        /\ "build" \in BootSteps /\ (hadStore => Len(fgaModel') = 1)
    BY <1>1, <1>4, <1>8, <2>2, <2>3 DEF BootSteps
  <2>5. /\ hadStore' = hadStore /\ fgaFaults' \in 0..MaxFgaFaults /\ boot[p].step # "ready"
        /\ UNCHANGED waitsFor /\ boot[p].step # "null" /\ Boots(p, "build", boot[p].store)
    BY <1>1, <2>1
  <2> QED BY <1>8, <2>3, <2>4, <2>5, BootMoves
<1>9. ASSUME NEW p \in Servers, createAuthzState(p) PROVE FgaInv'
  <2>1. /\ boot[p].step = "build" /\ Boots(p, "ready", boot[p].store) /\ Given(p, "given")
        /\ UNCHANGED <<fgaModel, fgaFaults, hadStore>>
    BY <1>9 DEF createAuthzState
  <2>2. boot[p].store \in 1..Len(fgaModel) /\ fgaModel[boot[p].store] = "current"
    BY <1>4, <1>9, <2>1 DEF BootFits
  <2> QED BY <1>1, <1>4, <1>9, <2>1, <2>2, BootMoves DEF BootSteps
<1>10. ASSUME NEW p \in Servers, BootFails(p) PROVE FgaInv'
  <2>1. /\ boot[p].step # "ready" /\ Boots(p, "null", 0) /\ Given(p, "failed")
        /\ UNCHANGED <<fgaModel, hadStore>> /\ fgaFaults' \in 0..MaxFgaFaults
    BY <1>1, <1>10, FgaAssumption DEF BootFails
  <2> QED BY <1>1, <1>10, <2>1, BootMoves DEF BootSteps
<1> QED BY <1>2, <1>3, <1>5, <1>6, <1>7, <1>8, <1>9, <1>10 DEF FgaNext

LEMMA FgaInvEnough == FgaInv => FgaTypeOK /\ RequestsGetUsableState
<1> SUFFICES ASSUME FgaInv PROVE FgaTypeOK /\ RequestsGetUsableState
  OBVIOUS
<1>1. \A s \in DOMAIN fgaModel : fgaModel[s] \in {"none", "old", "current"}
  BY ElementOfSeq, LenProperties DEF FgaInv, Models
<1>2. \A r \in Servers \X FgaCallers : r[1] \in Servers OBVIOUS
<1> QED BY <1>1, <1>2 DEF FgaInv, FgaTypeOK, RequestsGetUsableState, BootFits, RequestFits

-----------------------------------------------------------------------------
(* The administration pages                                                *)

RowTables == UNION {[S -> RowValue] : S \in SUBSET MpRows}
CallStates == {"sent", "done", "failed"}
Forms == {"create"} \cup RowForms
PageCalls == [n : Nat, kind : PageMutations, row : MpRows, values : RowValue, state : CallStates]
GrantCalls == [n : Nat, kind : {"assign", "unassign"}, row : Grantees, values : MpRoles \cup {NoRole},
               state : CallStates]
AppCalls == [n : Nat, kind : {"toggle"}, row : MpRows, values : BOOLEAN, state : CallStates]
FormDialogs == [kind : {"form"}, form : Forms, row : MpRows, values : RowValue]
ScopeDialogs == [kind : {"scope"}, row : MpRows, user : Grantees \cup {NoRole}, role : MpRoles]
AppDialogs == [kind : {"apps"}, row : MpRows]
ServerStates == [rows : RowTables, grants : [Grantees -> MpRoles \cup {NoRole}], apps : BOOLEAN]

MpTypes ==
    /\ mpServer \in ServerStates
    /\ mpRows \in RowTables
    /\ mpCached \in [Queries -> [Grantees -> MpRoles \cup {NoRole}] \cup BOOLEAN \cup {NotLoaded}]
    /\ mpCached["apps"] \in BOOLEAN \cup {NotLoaded}
    /\ mpRead \in [Queries -> [Grantees -> MpRoles \cup {NoRole}] \cup BOOLEAN \cup {NotLoaded}]
    /\ mpRead["apps"] \in BOOLEAN \cup {NotLoaded}
    /\ mpDialog # NoDialog => mpDialog \in FormDialogs \cup ScopeDialogs \cup AppDialogs
    /\ mpCalls \subseteq PageCalls \cup GrantCalls \cup AppCalls
    /\ mpRefresh \in [asked : BOOLEAN, sent : RowTables \cup {NotLoaded}]
    /\ mpRefetch \in [Queries -> {"idle", "fetching", "then refresh"}]
    /\ mpStray \in [rows : BOOLEAN, grants : BOOLEAN, apps : BOOLEAN]
    /\ mpMade \in Nat

\* A call has been applied whose caller has not been told.
Owed(x) == \E call \in mpCalls : call.state = "done" /\ MpTouches(call) = x

\* The rows are the server's, or on their way, or known to be out of date.
RowsFit ==
    \/ mpRefresh.asked \/ mpStray.rows \/ Owed("rows")
    \/ (mpRefresh.sent = NotLoaded /\ mpRows = mpServer.rows)
    \/ (mpRefresh.sent # NotLoaded /\ mpRefresh.sent = mpServer.rows)

\* So are the answers of the two queries; nothing is read for one that is idle.
GrantsFit ==
    /\ mpRefetch["grants"] = "idle" => mpRead["grants"] = NotLoaded
    /\ \/ mpStray.grants \/ Owed("grants")
       \/ mpRefetch["grants"] # "idle" /\ (mpRead["grants"] = NotLoaded \/ mpRead["grants"] = mpServer.grants)
       \/ mpRefetch["grants"] = "idle" /\ (mpCached["grants"] = NotLoaded \/ mpCached["grants"] = mpServer.grants)
AppsFit ==
    /\ mpRefetch["apps"] = "idle" => mpRead["apps"] = NotLoaded
    /\ \/ mpStray.apps \/ Owed("apps")
       \/ mpRefetch["apps"] # "idle" /\ (mpRead["apps"] = NotLoaded \/ mpRead["apps"] = mpServer.apps)
       \/ mpRefetch["apps"] = "idle" /\ (mpCached["apps"] = NotLoaded \/ mpCached["apps"] = mpServer.apps)

MpInv == MpTypes /\ RowsFit /\ GrantsFit /\ AppsFit

LEMMA TableFacts ==
  ASSUME NEW t \in RowTables
  PROVE  /\ t \in [DOMAIN t -> RowValue] /\ DOMAIN t \subseteq MpRows /\ IsFiniteSet(DOMAIN t)
         /\ t # NotLoaded
         /\ \A r \in MpRows, v \in RowValue : WithRow(t, r, v) \in RowTables
         /\ \A S : S \subseteq DOMAIN t => Restrict(t, S) \in RowTables
         /\ \A r \in DOMAIN t : \A v \in RowValue : [t EXCEPT ![r] = v] \in RowTables
<1>1. PICK S \in SUBSET MpRows : t \in [S -> RowValue] BY DEF RowTables
<1>2. DOMAIN t = S BY <1>1
<1>3. IsFiniteSet(S) BY MpAssumption, FS_Subset
<1>4. t # NotLoaded BY <1>1, MpAssumption
<1>5. ASSUME NEW r \in MpRows, NEW v \in RowValue PROVE WithRow(t, r, v) \in RowTables
  <2>1. WithRow(t, r, v) \in [S \cup {r} -> RowValue]
    BY <1>1, <1>2 DEF WithRow
  <2>2. S \cup {r} \in SUBSET MpRows OBVIOUS
  <2> QED BY <2>1, <2>2 DEF RowTables
<1>6. ASSUME NEW U, U \subseteq DOMAIN t PROVE Restrict(t, U) \in RowTables
  <2>1. Restrict(t, U) \in [U -> RowValue] /\ U \in SUBSET MpRows
    BY <1>1, <1>2, <1>6 DEF Restrict
  <2> QED BY <2>1 DEF RowTables
<1>7. ASSUME NEW r \in DOMAIN t, NEW v \in RowValue PROVE [t EXCEPT ![r] = v] \in RowTables
  <2>1. [t EXCEPT ![r] = v] \in [S -> RowValue] BY <1>1, <1>2
  <2> QED BY <2>1 DEF RowTables
<1> QED BY <1>1, <1>2, <1>3, <1>4, <1>5, <1>6, <1>7

LEMMA RowFacts ==
  ASSUME NEW v \in RowValue
  PROVE  /\ v.main \in 0..1 /\ v.flag \in BOOLEAN
         /\ \A b \in BOOLEAN : [v EXCEPT !.flag = b] \in RowValue
         /\ \A m \in 0..1 : [v EXCEPT !.main = m] \in RowValue
  BY DEF RowValue

LEMMA CreateFacts ==
  ASSUME NEW t \in RowTables
  PROVE  createDefaults(t) \in RowValue
<1>1. Cardinality(DOMAIN t) \in Nat BY TableFacts, FS_CardinalityType
<1>2. Cardinality(DOMAIN t) % 2 \in 0..1 BY <1>1
<1>3. Blank \in RowValue BY DEF Blank, RowValue
<1>4. (IF mpTab.name = "apps" THEN Cardinality(DOMAIN t) % 2 ELSE 0) \in 0..1
  BY <1>2
<1> HIDE DEF Blank
<1> QED BY <1>3, <1>4, RowFacts DEF createDefaults

\* Rendering the page leaves a dialog of its type.
LEMMA RenderedFits ==
  ASSUME MpTypes, NEW t \in RowTables, Rendered(t) # NoDialog
  PROVE  Rendered(t) \in FormDialogs \cup ScopeDialogs \cup AppDialogs
<1>1. CASE InCell BY <1>1 DEF Rendered
<1>2. CASE ~InCell /\ mpDialog # NoDialog
  <2>1. mpDialog \in FormDialogs
    BY <1>2 DEF InCell, MpTypes, FormDialogs, ScopeDialogs, AppDialogs
  <2>2. [mpDialog EXCEPT !.values = createDefaults(t)] \in FormDialogs
    BY <2>1, CreateFacts DEF FormDialogs
  <2> QED BY <1>2, <2>1, <2>2 DEF Rendered
<1>3. CASE mpDialog = NoDialog BY <1>3 DEF Rendered, InCell
<1> QED BY <1>1, <1>2, <1>3

LEMMA MpInitFits == MpInit => MpInv
<1> SUFFICES ASSUME MpInit PROVE MpInv
  OBVIOUS
<1>1. [r \in {MpSelf} |-> Blank] \in RowTables
  <2>1. [r \in {MpSelf} |-> Blank] \in [{MpSelf} -> RowValue] /\ {MpSelf} \in SUBSET MpRows
    BY MpAssumption DEF Blank, RowValue
  <2> QED BY <2>1 DEF RowTables
<1>2. mpServer \in ServerStates /\ mpRows = mpServer.rows /\ mpRows \in RowTables
  BY <1>1 DEF MpInit, ServerStates
<1>3. MpTypes BY <1>2 DEF MpInit, MpTypes, Queries
<1>4. RowsFit /\ GrantsFit /\ AppsFit
  BY <1>2 DEF MpInit, RowsFit, GrantsFit, AppsFit, Queries
<1> QED BY <1>3, <1>4 DEF MpInv

\* A step that leaves the server, the answers and the calls alone.
LEMMA DialogFits ==
  ASSUME MpInv, UNCHANGED <<mpServer, mpRows, mpCached, mpCalls, mpRefresh, mpRefetch, mpRead, mpStray, mpMade>>,
         mpDialog' # NoDialog => mpDialog' \in FormDialogs \cup ScopeDialogs \cup AppDialogs
  PROVE  MpInv'
<1>1. MpTypes' BY DEF MpInv, MpTypes
<1>2. \A x : Owed(x)' <=> Owed(x) BY DEF Owed
<1>3. RowsFit' BY <1>2 DEF MpInv, RowsFit
<1>4. GrantsFit' BY <1>2 DEF MpInv, GrantsFit
<1>5. AppsFit' BY <1>2 DEF MpInv, AppsFit
<1> QED BY <1>1, <1>3, <1>4, <1>5 DEF MpInv

\* A call is made.
LEMMA MutateFits ==
  ASSUME MpInv, NEW kind, NEW r, NEW values, Mutate(kind, r, values),
         [n |-> mpMade, kind |-> kind, row |-> r, values |-> values, state |-> "sent"]
           \in PageCalls \cup GrantCalls \cup AppCalls
  PROVE  MpInv'
<1>1. mpCalls \subseteq mpCalls' /\ mpCalls' \subseteq PageCalls \cup GrantCalls \cup AppCalls
  BY DEF Mutate, MpInv, MpTypes
<1>2. /\ mpMade' = mpMade + 1 /\ mpDialog' = IF kind \in PageMutations THEN Rendered(mpRows) ELSE mpDialog
      /\ UNCHANGED <<mpServer, mpRows, mpCached, mpRefresh, mpRefetch, mpRead, mpStray>>
  BY DEF Mutate
<1>3. mpDialog' # NoDialog => mpDialog' \in FormDialogs \cup ScopeDialogs \cup AppDialogs
  BY <1>2, RenderedFits DEF MpInv, MpTypes
<1>4. MpTypes'
  <2>1. mpMade' \in Nat
    <3>1. mpMade \in Nat BY DEF MpInv, MpTypes
    <3> QED BY <1>2, <3>1
  <2>2. MpTypes BY DEF MpInv
  <2>3. mpCached' = mpCached /\ mpServer' = mpServer /\ mpRows' = mpRows /\ mpRefresh' = mpRefresh /\ mpRefetch' = mpRefetch
        /\ mpStray' = mpStray /\ mpRead' = mpRead
    BY <1>2
  <2> HIDE DEF RowTables
  <2> QED BY <1>1, <1>3, <2>1, <2>2, <2>3 DEF MpTypes
<1>5. ASSUME NEW x, Owed(x) PROVE Owed(x)'
  BY <1>1, <1>5 DEF Owed, MpTouches
<1> QED BY <1>2, <1>4, <1>5 DEF MpInv, RowsFit, GrantsFit, AppsFit

\* A call gets another state; what was done stays owed unless it was this call.
LEMMA BecomesFits ==
  ASSUME MpTypes, NEW call \in mpCalls, NEW state \in CallStates, Becomes(call, state)
  PROVE  /\ mpCalls' \subseteq PageCalls \cup GrantCalls \cup AppCalls
         /\ \A x : Owed(x) /\ (call.state # "done" \/ MpTouches(call) # x) => Owed(x)'
         /\ state = "done" => Owed(MpTouches(call))'
<1> DEFINE new == [call EXCEPT !.state = state]
<1>1. mpCalls' = (mpCalls \ {call}) \cup {new} BY DEF Becomes
<1>2. new \in PageCalls \cup GrantCalls \cup AppCalls /\ new.kind = call.kind /\ new.state = state
  BY DEF MpTypes, PageCalls, GrantCalls, AppCalls
<1> HIDE DEF new
<1>3. mpCalls' \subseteq PageCalls \cup GrantCalls \cup AppCalls
  BY <1>1, <1>2 DEF MpTypes
<1>4. ASSUME NEW x, Owed(x), call.state # "done" \/ MpTouches(call) # x PROVE Owed(x)'
  <2>1. PICK c \in mpCalls : c.state = "done" /\ MpTouches(c) = x
    BY <1>4 DEF Owed
  <2>2. c \in mpCalls' BY <1>1, <1>4, <2>1
  <2> QED BY <2>1, <2>2 DEF Owed, MpTouches
<1>5. MpTouches(new) = MpTouches(call) BY <1>2 DEF MpTouches
<1>6. state = "done" => Owed(MpTouches(call))'
  BY <1>1, <1>2, <1>5 DEF Owed, MpTouches
<1> QED BY <1>3, <1>4, <1>6

LEMMA TouchesFacts ==
  ASSUME NEW call
  PROVE  MpTouches(call) \in {"rows", "grants", "apps"}
  BY DEF MpTouches

LEMMA MpStepFits == MpInv /\ [MpNext]_mpVars => MpInv'
<1> SUFFICES ASSUME MpInv, MpNext \/ UNCHANGED mpVars PROVE MpInv'
  OBVIOUS
<1>a. /\ mpServer \in ServerStates /\ mpRows \in RowTables
      /\ mpCached \in [Queries -> [Grantees -> MpRoles \cup {NoRole}] \cup BOOLEAN \cup {NotLoaded}]
      /\ mpCached["apps"] \in BOOLEAN \cup {NotLoaded}
      /\ mpRead \in [Queries -> [Grantees -> MpRoles \cup {NoRole}] \cup BOOLEAN \cup {NotLoaded}]
      /\ mpRead["apps"] \in BOOLEAN \cup {NotLoaded}
      /\ mpDialog # NoDialog => mpDialog \in FormDialogs \cup ScopeDialogs \cup AppDialogs
      /\ mpCalls \subseteq PageCalls \cup GrantCalls \cup AppCalls
      /\ mpRefresh \in [asked : BOOLEAN, sent : RowTables \cup {NotLoaded}]
      /\ mpRefetch \in [Queries -> {"idle", "fetching", "then refresh"}]
      /\ mpStray \in [rows : BOOLEAN, grants : BOOLEAN, apps : BOOLEAN]
      /\ mpMade \in Nat
  BY DEF MpInv, MpTypes
<1>b. MpTypes /\ RowsFit /\ GrantsFit /\ AppsFit
  BY DEF MpInv
<1>c. \A r \in DOMAIN mpRows : r \in MpRows /\ mpRows[r] \in RowValue
  <2>1. mpRows \in RowTables BY <1>a
  <2>2. mpRows \in [DOMAIN mpRows -> RowValue] /\ DOMAIN mpRows \subseteq MpRows BY <2>1, TableFacts
  <2> QED BY <2>2
<1>1. CASE UNCHANGED mpVars
  BY <1>1, DialogFits DEF mpVars, MpInv, MpTypes
<1>2. CASE OpenForm
  <2>1. ASSUME NEW form \in Forms, NEW r \in MpRows, form # "create" => r \in DOMAIN mpRows
        PROVE  [kind |-> "form", form |-> form, row |-> r, values |-> defaultValues(form, r)] \in FormDialogs
    <3>1. defaultValues(form, r) \in RowValue
      BY <1>a, <1>c, <2>1, CreateFacts, RowFacts DEF defaultValues
    <3> QED BY <3>1 DEF FormDialogs
  <2>2. toolbarChildren \subseteq {"create"} BY DEF toolbarChildren
  <2>3. "create" \in Forms /\ RowForms \subseteq Forms /\ "create" \notin RowForms
    BY DEF Forms, RowForms
  <2>4. mpDialog' \in FormDialogs
    <3>1. CASE \E r \in DOMAIN mpRows : \E form \in columns(r) \cap RowForms :
            mpDialog' = [kind |-> "form", form |-> form, row |-> r, values |-> defaultValues(form, r)]
      BY <1>c, <2>1, <2>3, <3>1
    <3>2. CASE \E form \in toolbarChildren, r \in MpRows \ DOMAIN mpRows :
            mpDialog' = [kind |-> "form", form |-> form, row |-> r, values |-> defaultValues(form, r)]
      BY <2>1, <2>2, <2>3, <3>2
    <3> QED BY <1>2, <3>1, <3>2 DEF OpenForm
  <2> QED BY <1>2, <2>4, DialogFits DEF OpenForm, Untouched
<1>3. CASE TypeInForm
  <2>1. mpDialog \in FormDialogs
    BY <1>3, <1>a DEF TypeInForm, FormDialogs, ScopeDialogs, AppDialogs
  <2>2. PICK f \in Forms, r \in MpRows, v \in RowValue : mpDialog = [kind |-> "form", form |-> f, row |-> r, values |-> v]
    BY <2>1 DEF FormDialogs
  <2>3. 1 - v.main \in 0..1 /\ (~v.flag) \in BOOLEAN
    <3>1. v.main \in 0..1 BY RowFacts
    <3>2. 1 - v.main \in 0..1 BY <3>1
    <3> QED BY <3>2
  <2>4. [v EXCEPT !.main = 1 - @] \in RowValue /\ [v EXCEPT !.flag = ~@] \in RowValue
    <3>1. [v EXCEPT !.main = 1 - @] = [v EXCEPT !.main = 1 - v.main] /\ [v EXCEPT !.flag = ~@] = [v EXCEPT !.flag = ~v.flag]
      OBVIOUS
    <3> QED BY <2>3, <3>1, RowFacts
  <2>5. /\ [mpDialog EXCEPT !.values.main = 1 - @] = [kind |-> "form", form |-> f, row |-> r, values |-> [v EXCEPT !.main = 1 - @]]
        /\ [mpDialog EXCEPT !.values.flag = ~@] = [kind |-> "form", form |-> f, row |-> r, values |-> [v EXCEPT !.flag = ~@]]
    BY <2>2
  <2>6. mpDialog' \in FormDialogs
    BY <1>3, <2>4, <2>5 DEF TypeInForm, FormDialogs
  <2> QED BY <1>3, <2>6, DialogFits DEF TypeInForm, Untouched
<1>4. CASE PickAssignment
  <2>1. mpDialog \in ScopeDialogs
    BY <1>4, <1>a DEF PickAssignment, FormDialogs, ScopeDialogs, AppDialogs
  <2>2. PICK u \in Grantees, role \in MpRoles : mpDialog' = [mpDialog EXCEPT !.user = u, !.role = role]
    BY <1>4 DEF PickAssignment
  <2>3. mpDialog' \in ScopeDialogs BY <2>1, <2>2 DEF ScopeDialogs
  <2> QED BY <1>4, <2>3, DialogFits DEF PickAssignment, Untouched
<1>5. CASE handleOpenChange
  BY <1>5, DialogFits DEF handleOpenChange, Untouched
<1>6. CASE onSubmit
  <2>1. mpDialog \in FormDialogs
    BY <1>6, <1>a DEF onSubmit, FormDialogs, ScopeDialogs, AppDialogs
  <2>2. mpDialog.form \in PageMutations /\ mpDialog.row \in MpRows /\ mpDialog.values \in RowValue
    BY <2>1 DEF FormDialogs, Forms, RowForms, PageMutations
  <2>3. [n |-> mpMade, kind |-> mpDialog.form, row |-> mpDialog.row, values |-> mpDialog.values, state |-> "sent"] \in PageCalls
    BY <1>a, <2>2 DEF PageCalls, CallStates
  <2> QED BY <1>6, <2>3, MutateFits DEF onSubmit
<1>7. CASE handleAssign
  <2>1. mpDialog \in ScopeDialogs /\ mpDialog.user # NoRole
    BY <1>7, <1>a DEF handleAssign, canSubmit, FormDialogs, ScopeDialogs, AppDialogs
  <2>2. mpDialog.user \in Grantees /\ buildAssignmentPayload \in MpRoles
    BY <2>1 DEF ScopeDialogs, buildAssignmentPayload, MpRoles
  <2>3. [n |-> mpMade, kind |-> "assign", row |-> mpDialog.user, values |-> buildAssignmentPayload, state |-> "sent"] \in GrantCalls
    BY <1>a, <2>2 DEF GrantCalls, CallStates
  <2> QED BY <1>7, <2>3, MutateFits DEF handleAssign
<1>8. CASE handleRemove
  <2>1. PICK u \in Grantees : Mutate("unassign", u, NoRole)
    BY <1>8 DEF handleRemove
  <2>2. [n |-> mpMade, kind |-> "unassign", row |-> u, values |-> NoRole, state |-> "sent"] \in GrantCalls
    BY <1>a DEF GrantCalls, CallStates
  <2> QED BY <2>1, <2>2, MutateFits
<1>9. CASE handleToggle
  <2>1. mpDialog.row \in MpRows /\ Mutate("toggle", mpDialog.row, ~mpCached["apps"])
    BY <1>9, <1>a DEF handleToggle, FormDialogs, ScopeDialogs, AppDialogs
  <2>2. (~mpCached["apps"]) \in BOOLEAN BY <1>9, <1>a DEF handleToggle
  <2>3. [n |-> mpMade, kind |-> "toggle", row |-> mpDialog.row, values |-> ~mpCached["apps"], state |-> "sent"] \in AppCalls
    BY <1>a, <2>1, <2>2 DEF AppCalls, CallStates
  <2> QED BY <2>1, <2>3, MutateFits
<1>10. ASSUME NEW r \in DOMAIN mpRows, OpenScopeManager(r) PROVE MpInv'
  <2>1. /\ mpDialog' = [kind |-> "scope", row |-> r, user |-> NoRole, role |-> "viewer"]
        /\ UNCHANGED <<mpServer, mpRows, mpCached, mpCalls, mpRefresh, mpRead, mpStray, mpMade>>
        /\ mpRefetch' = [mpRefetch EXCEPT !["grants"] =
             IF mpCached["grants"] = NotLoaded /\ @ = "idle" THEN "fetching" ELSE @]
    BY <1>10 DEF OpenScopeManager
  <2>2. mpDialog' \in ScopeDialogs
    BY <1>c, <2>1 DEF ScopeDialogs, MpRoles
  <2>3. /\ mpRefetch' \in [Queries -> {"idle", "fetching", "then refresh"}]
        /\ (\A q \in Queries : mpRefetch[q] # "idle" => mpRefetch'[q] # "idle")
    BY <1>a, <2>1 DEF Queries
  <2>4. \A x : Owed(x)' <=> Owed(x) BY <2>1 DEF Owed, MpTouches
  <2> QED BY <1>a, <1>b, <2>1, <2>2, <2>3, <2>4 DEF MpInv, MpTypes, RowsFit, GrantsFit, AppsFit, Queries
<1>11. ASSUME NEW r \in DOMAIN mpRows, OpenInstallations(r) PROVE MpInv'
  <2>1. /\ mpDialog' = [kind |-> "apps", row |-> r]
        /\ UNCHANGED <<mpServer, mpRows, mpCached, mpCalls, mpRefresh, mpRead, mpStray, mpMade>>
        /\ mpRefetch' = [mpRefetch EXCEPT !["apps"] =
             IF mpCached["apps"] = NotLoaded /\ @ = "idle" THEN "fetching" ELSE @]
    BY <1>11 DEF OpenInstallations
  <2>2. mpDialog' \in AppDialogs BY <1>c, <2>1 DEF AppDialogs
  <2>3. /\ mpRefetch' \in [Queries -> {"idle", "fetching", "then refresh"}]
        /\ (\A q \in Queries : mpRefetch[q] # "idle" => mpRefetch'[q] # "idle")
    BY <1>a, <2>1 DEF Queries
  <2>4. \A x : Owed(x)' <=> Owed(x) BY <2>1 DEF Owed, MpTouches
  <2> QED BY <1>a, <1>b, <2>1, <2>2, <2>3, <2>4 DEF MpInv, MpTypes, RowsFit, GrantsFit, AppsFit, Queries
<1>12. ASSUME NEW r \in DOMAIN mpRows, handleUnban(r) \/ handleDelete(r) PROVE MpInv'
  <2>1. PICK kind \in {"unban", "remove"}, v \in RowValue : Mutate(kind, r, v)
    BY <1>12, <1>c, RowFacts DEF handleUnban, handleDelete
  <2>2. [n |-> mpMade, kind |-> kind, row |-> r, values |-> v, state |-> "sent"] \in PageCalls
    BY <1>a, <1>c DEF PageCalls, CallStates, PageMutations
  <2> QED BY <2>1, <2>2, MutateFits
<1>13. ASSUME NEW r \in DOMAIN mpRows, handleImpersonate(r) PROVE MpInv'
  BY <1>13, DialogFits DEF handleImpersonate
<1>14. ASSUME NEW call \in mpCalls, Settles(call) PROVE MpInv'
  <2>1. /\ call.state \in {"done", "failed"} /\ mpCalls' = mpCalls \ {call}
        /\ UNCHANGED <<mpServer, mpRows, mpCached, mpMade>>
        /\ IF call.state = "done" THEN refresh(call) ELSE UNCHANGED <<mpRefresh, mpRefetch, mpRead, mpStray>>
        /\ mpDialog' \in {NoDialog, Rendered(mpRows), mpDialog}
    BY <1>14 DEF Settles
  <2>2. mpDialog' # NoDialog => mpDialog' \in FormDialogs \cup ScopeDialogs \cup AppDialogs
    <3>1. mpDialog' = NoDialog \/ mpDialog' = Rendered(mpRows) \/ mpDialog' = mpDialog
      BY <2>1
    <3>2. Rendered(mpRows) # NoDialog => Rendered(mpRows) \in FormDialogs \cup ScopeDialogs \cup AppDialogs
      BY <1>a, <1>b, RenderedFits
    <3>3. mpDialog # NoDialog => mpDialog \in FormDialogs \cup ScopeDialogs \cup AppDialogs
      BY <1>a
    <3> HIDE DEF FormDialogs
    <3> QED BY ONLY <3>1, <3>2, <3>3
  <2>3. \A x : Owed(x) /\ (call.state = "failed" \/ MpTouches(call) # x) => Owed(x)'
    <3> SUFFICES ASSUME NEW x, Owed(x), call.state = "failed" \/ MpTouches(call) # x PROVE Owed(x)'
      OBVIOUS
    <3>1. PICK c \in mpCalls : c.state = "done" /\ MpTouches(c) = x
      BY DEF Owed
    <3>2. c \in mpCalls' BY <2>1, <3>1
    <3> QED BY <3>1, <3>2 DEF Owed, MpTouches
  <2>4. CASE call.state = "failed"
    <3>1. UNCHANGED <<mpRefresh, mpRefetch, mpRead, mpStray>> BY <2>1, <2>4
    <3>2. MpTypes' BY <1>a, <2>1, <2>2, <3>1 DEF MpTypes
    <3> QED BY <1>b, <2>1, <2>3, <2>4, <3>1, <3>2 DEF MpInv, RowsFit, GrantsFit, AppsFit
  <2>5. CASE call.state = "done"
    <3>1. /\ mpRefetch' = CASE MpTouches(call) = "grants" -> [mpRefetch EXCEPT !["grants"] = "then refresh"]
                             [] MpTouches(call) = "apps" -> [mpRefetch EXCEPT !["apps"] = "fetching"]
                             [] OTHER -> mpRefetch
          /\ mpRefresh' = [mpRefresh EXCEPT !.asked = @ \/ MpTouches(call) # "grants"]
          /\ IF MpTouches(call) \in Queries THEN refetch(MpTouches(call)) ELSE UNCHANGED <<mpRead, mpStray>>
      BY <2>1, <2>5 DEF refresh
    <3>r. /\ mpRead' \in [Queries -> [Grantees -> MpRoles \cup {NoRole}] \cup BOOLEAN \cup {NotLoaded}]
          /\ mpRead'["apps"] \in BOOLEAN \cup {NotLoaded}
          /\ mpStray' \in [rows : BOOLEAN, grants : BOOLEAN, apps : BOOLEAN] /\ mpStray'.rows = mpStray.rows
          /\ (MpTouches(call) # "grants" => mpRead'["grants"] = mpRead["grants"] /\ mpStray'.grants = mpStray.grants)
          /\ (MpTouches(call) # "apps" => mpRead'["apps"] = mpRead["apps"] /\ mpStray'.apps = mpStray.apps)
          /\ (MpTouches(call) = "grants" => mpRead'["grants"] = NotLoaded \/ mpStray'.grants)
          /\ (MpTouches(call) = "apps" => mpRead'["apps"] = NotLoaded \/ mpStray'.apps)
      <4>1. CASE MpTouches(call) = "grants"
        <5>1. refetch("grants") BY <3>1, <4>1 DEF Queries
        <5>2. /\ mpRead' \in [Queries -> [Grantees -> MpRoles \cup {NoRole}] \cup BOOLEAN \cup {NotLoaded}]
              /\ mpRead'["apps"] = mpRead["apps"]
              /\ IF JoinsFirstLoad("grants") THEN mpRead'["grants"] = mpRead["grants"] ELSE mpRead'["grants"] = NotLoaded
          BY <1>a, <5>1 DEF refetch, Queries
        <5>3. /\ mpStray' \in [rows : BOOLEAN, grants : BOOLEAN, apps : BOOLEAN] /\ mpStray'.rows = mpStray.rows
              /\ mpStray'.apps = mpStray.apps
              /\ (JoinsFirstLoad("grants") /\ mpRead["grants"] # NotLoaded => mpStray'.grants)
          BY <1>a, <5>1 DEF refetch
        <5> QED BY <1>a, <4>1, <5>2, <5>3
      <4>2. CASE MpTouches(call) = "apps"
        <5>1. refetch("apps") BY <3>1, <4>2 DEF Queries
        <5>2. /\ mpRead' \in [Queries -> [Grantees -> MpRoles \cup {NoRole}] \cup BOOLEAN \cup {NotLoaded}]
              /\ mpRead'["grants"] = mpRead["grants"]
              /\ IF JoinsFirstLoad("apps") THEN mpRead'["apps"] = mpRead["apps"] ELSE mpRead'["apps"] = NotLoaded
          BY <1>a, <5>1 DEF refetch, Queries
        <5>3. /\ mpStray' \in [rows : BOOLEAN, grants : BOOLEAN, apps : BOOLEAN] /\ mpStray'.rows = mpStray.rows
              /\ mpStray'.grants = mpStray.grants
              /\ (JoinsFirstLoad("apps") /\ mpRead["apps"] # NotLoaded => mpStray'.apps)
          BY <1>a, <5>1 DEF refetch
        <5> QED BY <1>a, <4>2, <5>2, <5>3
      <4>3. CASE MpTouches(call) \notin {"grants", "apps"}
        <5>1. UNCHANGED <<mpRead, mpStray>> BY <3>1, <4>3 DEF Queries
        <5> QED BY <1>a, <4>3, <5>1
      <4> QED BY <4>1, <4>2, <4>3
    <3>2. /\ mpRefetch' \in [Queries -> {"idle", "fetching", "then refresh"}]
          /\ (\A q \in Queries : mpRefetch[q] # "idle" => mpRefetch'[q] # "idle")
          /\ (\A q \in Queries : MpTouches(call) = q => mpRefetch'[q] # "idle")
      BY <1>a, <3>1 DEF Queries
    <3>3. /\ mpRefresh' \in [asked : BOOLEAN, sent : RowTables \cup {NotLoaded}] /\ mpRefresh'.sent = mpRefresh.sent
          /\ (mpRefresh.asked => mpRefresh'.asked) /\ (MpTouches(call) = "rows" => mpRefresh'.asked)
      BY <1>a, <3>1
    <3>4. MpTypes' BY <1>a, <2>1, <2>2, <3>2, <3>3, <3>r DEF MpTypes
    <3>5. RowsFit' BY <1>b, <2>1, <2>3, <3>3, <3>r, TouchesFacts DEF RowsFit
    <3>6. GrantsFit' BY <1>b, <2>1, <2>3, <3>1, <3>2, <3>r DEF GrantsFit, Queries
    <3>7. AppsFit' BY <1>b, <2>1, <2>3, <3>1, <3>2, <3>r DEF AppsFit, Queries
    <3> QED BY <3>4, <3>5, <3>6, <3>7 DEF MpInv
  <2> QED BY <2>1, <2>4, <2>5
<1>15. CASE ServerRendersPage
  <2>1. /\ mpRefresh' = [asked |-> FALSE, sent |-> mpServer.rows] /\ mpStray' = [mpStray EXCEPT !.rows = FALSE]
        /\ UNCHANGED <<mpServer, mpRows, mpCached, mpDialog, mpCalls, mpRefetch, mpRead, mpMade>>
    BY <1>15 DEF ServerRendersPage
  <2>2. mpServer.rows \in RowTables /\ mpServer.rows # NotLoaded
    BY <1>a, TableFacts DEF ServerStates
  <2>3. /\ mpStray' \in [rows : BOOLEAN, grants : BOOLEAN, apps : BOOLEAN]
        /\ mpStray'.grants = mpStray.grants /\ mpStray'.apps = mpStray.apps
        /\ mpRefresh' \in [asked : BOOLEAN, sent : RowTables \cup {NotLoaded}] /\ mpRefresh'.sent = mpServer.rows
    BY <1>a, <2>1, <2>2
  <2>4. MpTypes' BY <1>a, <2>1, <2>3 DEF MpTypes
  <2>5. \A x : Owed(x)' <=> Owed(x) BY <2>1 DEF Owed, MpTouches
  <2> QED BY <1>b, <2>1, <2>2, <2>3, <2>4, <2>5 DEF MpInv, RowsFit, GrantsFit, AppsFit
<1>16. CASE PageRefreshed
  <2>1. /\ mpRefresh.sent # NotLoaded /\ mpRows' = mpRefresh.sent /\ mpRefresh' = [mpRefresh EXCEPT !.sent = NotLoaded]
        /\ mpDialog' = Rendered(mpRefresh.sent)
        /\ UNCHANGED <<mpServer, mpCached, mpCalls, mpRefetch, mpRead, mpStray, mpMade>>
    BY <1>16 DEF PageRefreshed
  <2>2. mpRefresh.sent \in RowTables BY <1>a, <2>1
  <2>3. mpDialog' # NoDialog => mpDialog' \in FormDialogs \cup ScopeDialogs \cup AppDialogs
    BY <1>b, <2>1, <2>2, RenderedFits
  <2>4. /\ mpRefresh' \in [asked : BOOLEAN, sent : RowTables \cup {NotLoaded}]
        /\ mpRefresh'.sent = NotLoaded /\ mpRefresh'.asked = mpRefresh.asked
    BY <1>a, <2>1
  <2>5. MpTypes' BY <1>a, <2>1, <2>2, <2>3, <2>4 DEF MpTypes
  <2>6. \A x : Owed(x)' <=> Owed(x) BY <2>1 DEF Owed, MpTouches
  <2> QED BY <1>b, <2>1, <2>4, <2>5, <2>6 DEF MpInv, RowsFit, GrantsFit, AppsFit
<1>r. ASSUME NEW q \in Queries, ServerReads(q) PROVE MpInv'
  <2>1. /\ mpRefetch[q] # "idle" /\ mpRead' = [mpRead EXCEPT ![q] = mpServer[q]]
        /\ mpStray' = [mpStray EXCEPT ![q] = FALSE]
        /\ UNCHANGED <<mpServer, mpRows, mpCached, mpDialog, mpCalls, mpRefresh, mpRefetch, mpMade>>
    BY <1>r DEF ServerReads
  <2>2. /\ mpServer.grants \in [Grantees -> MpRoles \cup {NoRole}] /\ mpServer.apps \in BOOLEAN
        /\ mpServer["grants"] = mpServer.grants /\ mpServer["apps"] = mpServer.apps
    BY <1>a DEF ServerStates
  <2>3. /\ mpRead' \in [Queries -> [Grantees -> MpRoles \cup {NoRole}] \cup BOOLEAN \cup {NotLoaded}]
        /\ mpRead'["apps"] \in BOOLEAN \cup {NotLoaded} /\ mpRead'[q] = mpServer[q]
        /\ \A p \in Queries \ {q} : mpRead'[p] = mpRead[p]
    <3>1. mpServer[q] \in [Grantees -> MpRoles \cup {NoRole}] \cup BOOLEAN \cup {NotLoaded}
      BY <2>2 DEF Queries
    <3>2. /\ mpRead' \in [Queries -> [Grantees -> MpRoles \cup {NoRole}] \cup BOOLEAN \cup {NotLoaded}]
          /\ mpRead'[q] = mpServer[q] /\ \A p \in Queries \ {q} : mpRead'[p] = mpRead[p]
      BY <1>a, <2>1, <3>1
    <3>3. mpRead'["apps"] \in BOOLEAN \cup {NotLoaded}
      BY <1>a, <2>2, <3>2 DEF Queries
    <3> QED BY <3>2, <3>3
  <2>4. /\ mpStray' \in [rows : BOOLEAN, grants : BOOLEAN, apps : BOOLEAN] /\ mpStray'.rows = mpStray.rows
        /\ (q # "grants" => mpStray'.grants = mpStray.grants) /\ (q # "apps" => mpStray'.apps = mpStray.apps)
    BY <1>a, <2>1 DEF Queries
  <2>5. MpTypes' BY <1>a, <2>1, <2>3, <2>4 DEF MpTypes
  <2>6. \A x : Owed(x)' <=> Owed(x) BY <2>1 DEF Owed, MpTouches
  <2>7. RowsFit' BY <1>b, <2>1, <2>4, <2>6 DEF RowsFit
  <2>8. GrantsFit' /\ AppsFit'
    BY <1>b, <2>1, <2>2, <2>3, <2>4, <2>6 DEF GrantsFit, AppsFit, Queries
  <2> QED BY <2>5, <2>7, <2>8 DEF MpInv
<1>17. ASSUME NEW q \in Queries, QueryAnswered(q) PROVE MpInv'
  <2>1. /\ mpRead[q] # NotLoaded
        /\ mpCached' = [mpCached EXCEPT ![q] = mpRead[q]] /\ mpRefetch' = [mpRefetch EXCEPT ![q] = "idle"]
        /\ mpRead' = [mpRead EXCEPT ![q] = NotLoaded]
        /\ mpRefresh' = [mpRefresh EXCEPT !.asked = @ \/ mpRefetch[q] = "then refresh"]
        /\ UNCHANGED <<mpServer, mpRows, mpDialog, mpCalls, mpStray, mpMade>>
    BY <1>17 DEF QueryAnswered
  <2>2. mpRead[q] \in [Grantees -> MpRoles \cup {NoRole}] \cup BOOLEAN \cup {NotLoaded}
    BY <1>a
  <2>3. /\ mpCached' \in [Queries -> [Grantees -> MpRoles \cup {NoRole}] \cup BOOLEAN \cup {NotLoaded}]
        /\ mpCached'[q] = mpRead[q] /\ (\A p \in Queries \ {q} : mpCached'[p] = mpCached[p])
        /\ mpCached'["apps"] \in BOOLEAN \cup {NotLoaded}
    <3>1. /\ mpCached' \in [Queries -> [Grantees -> MpRoles \cup {NoRole}] \cup BOOLEAN \cup {NotLoaded}]
          /\ mpCached'[q] = mpRead[q] /\ \A p \in Queries \ {q} : mpCached'[p] = mpCached[p]
      BY <1>a, <2>1, <2>2
    <3> QED BY <1>a, <3>1 DEF Queries
  <2>4. /\ mpRefetch' \in [Queries -> {"idle", "fetching", "then refresh"}] /\ mpRefetch'[q] = "idle"
        /\ \A p \in Queries \ {q} : mpRefetch'[p] = mpRefetch[p]
    BY <1>a, <2>1
  <2>5. /\ mpRefresh' \in [asked : BOOLEAN, sent : RowTables \cup {NotLoaded}]
        /\ mpRefresh'.sent = mpRefresh.sent /\ (mpRefresh.asked => mpRefresh'.asked)
    BY <1>a, <2>1
  <2>6. /\ mpRead' \in [Queries -> [Grantees -> MpRoles \cup {NoRole}] \cup BOOLEAN \cup {NotLoaded}]
        /\ mpRead'[q] = NotLoaded /\ (\A p \in Queries \ {q} : mpRead'[p] = mpRead[p])
        /\ mpRead'["apps"] \in BOOLEAN \cup {NotLoaded}
    <3>1. /\ mpRead' \in [Queries -> [Grantees -> MpRoles \cup {NoRole}] \cup BOOLEAN \cup {NotLoaded}]
          /\ mpRead'[q] = NotLoaded /\ \A p \in Queries \ {q} : mpRead'[p] = mpRead[p]
      BY <1>a, <2>1
    <3> QED BY <1>a, <3>1 DEF Queries
  <2>7. MpTypes' BY <1>a, <2>1, <2>3, <2>4, <2>5, <2>6 DEF MpTypes
  <2>8. \A x : Owed(x)' <=> Owed(x) BY <2>1 DEF Owed, MpTouches
  <2>9. RowsFit' BY <1>b, <2>1, <2>5, <2>8 DEF RowsFit
  <2>10. GrantsFit' /\ AppsFit'
    BY <1>b, <2>1, <2>3, <2>4, <2>6, <2>8 DEF GrantsFit, AppsFit, Queries
  <2> QED BY <2>7, <2>9, <2>10 DEF MpInv
<1>18. ASSUME NEW call \in mpCalls, CallArrives(call) PROVE MpInv'
  <2>1. call.state = "sent" /\ UNCHANGED <<mpRows, mpCached, mpDialog, mpRefresh, mpRefetch, mpRead, mpStray, mpMade>>
    BY <1>18 DEF CallArrives
  <2>2. CASE Refused(call)
    <3>1. Becomes(call, "failed") /\ UNCHANGED mpServer
      BY <1>18, <2>2 DEF CallArrives
    <3>2. mpCalls' \subseteq PageCalls \cup GrantCalls \cup AppCalls /\ \A x : Owed(x) => Owed(x)'
      BY <1>b, <2>1, <3>1, BecomesFits DEF CallStates
    <3>3. MpTypes' BY <1>a, <2>1, <3>1, <3>2 DEF MpTypes
    <3> QED BY <1>b, <2>1, <3>1, <3>2, <3>3 DEF MpInv, RowsFit, GrantsFit, AppsFit
  <2>3. CASE ~Refused(call)
    <3>1. Becomes(call, "done") /\ mpServer' = Applied(call)
      BY <1>18, <2>3 DEF CallArrives
    <3>2. /\ mpCalls' \subseteq PageCalls \cup GrantCalls \cup AppCalls /\ (\A x : Owed(x) => Owed(x)')
          /\ Owed(MpTouches(call))'
      BY <1>b, <2>1, <3>1, BecomesFits DEF CallStates
    <3>3. PICK rows \in RowTables, grants \in [Grantees -> MpRoles \cup {NoRole}], apps \in BOOLEAN :
            mpServer = [rows |-> rows, grants |-> grants, apps |-> apps]
      BY <1>a DEF ServerStates
    <3>4. /\ mpServer' \in ServerStates
          /\ (MpTouches(call) # "rows" => mpServer'.rows = mpServer.rows)
          /\ (MpTouches(call) # "grants" => mpServer'.grants = mpServer.grants)
          /\ (MpTouches(call) # "apps" => mpServer'.apps = mpServer.apps)
      <4>1. CASE call \in PageCalls
        <5>1. call.row \in MpRows /\ call.values \in RowValue /\ call.kind \in PageMutations
          BY <4>1 DEF PageCalls
        <5>2. MpTouches(call) = "rows"
          BY <5>1 DEF MpTouches, PageMutations
        <5>3. \E new \in RowTables : mpServer' = [mpServer EXCEPT !.rows = new]
          <6>1. WithRow(rows, call.row, call.values) \in RowTables /\ Restrict(rows, DOMAIN rows \ {call.row}) \in RowTables
            BY <5>1, TableFacts
          <6>2. [mpServer EXCEPT !.rows = rows] = mpServer /\ mpServer.rows = rows
            BY <3>3
          <6>3. CASE call.kind \in {"create", "edit", "role", "ban", "unban"}
            BY <3>1, <6>1, <6>2, <6>3 DEF Applied
          <6>4. CASE call.kind = "password"
            BY <3>1, <6>2, <6>4 DEF Applied
          <6>5. CASE call.kind = "remove"
            BY <3>1, <6>1, <6>2, <6>5 DEF Applied
          <6> QED BY <5>1, <6>3, <6>4, <6>5 DEF PageMutations
        <5>4. mpServer' \in ServerStates /\ mpServer'.grants = mpServer.grants /\ mpServer'.apps = mpServer.apps
          BY <3>3, <5>3 DEF ServerStates
        <5> QED BY <5>2, <5>4
      <4>2. CASE call \in GrantCalls
        <5>1. call.row \in Grantees /\ call.values \in MpRoles \cup {NoRole} /\ call.kind \in {"assign", "unassign"}
          BY <4>2 DEF GrantCalls
        <5>2. MpTouches(call) = "grants" BY <5>1 DEF MpTouches
        <5>3. \E v \in MpRoles \cup {NoRole} : mpServer' = [mpServer EXCEPT !.grants[call.row] = v]
          BY <3>1, <5>1 DEF Applied
        <5>4. mpServer' \in ServerStates /\ mpServer'.rows = mpServer.rows /\ mpServer'.apps = mpServer.apps
          <6>1. PICK v \in MpRoles \cup {NoRole} : mpServer' = [mpServer EXCEPT !.grants[call.row] = v]
            BY <5>3
          <6>2. mpServer' = [rows |-> rows, grants |-> [grants EXCEPT ![call.row] = v], apps |-> apps]
            BY <3>3, <6>1
          <6>3. [grants EXCEPT ![call.row] = v] \in [Grantees -> MpRoles \cup {NoRole}]
            BY <5>1
          <6> QED BY <3>3, <6>2, <6>3 DEF ServerStates
        <5> QED BY <5>2, <5>4
      <4>3. CASE call \in AppCalls
        <5>1. call.values \in BOOLEAN /\ call.kind = "toggle"
          BY <4>3 DEF AppCalls
        <5>2. MpTouches(call) = "apps" /\ mpServer' = [mpServer EXCEPT !.apps = call.values]
          BY <3>1, <5>1 DEF MpTouches, Applied
        <5>3. mpServer' = [rows |-> rows, grants |-> grants, apps |-> call.values]
          BY <3>3, <5>2
        <5> QED BY <3>3, <5>1, <5>2, <5>3 DEF ServerStates
      <4> QED BY <1>a, <4>1, <4>2, <4>3
    <3>5. MpTypes' BY <1>a, <2>1, <3>2, <3>4 DEF MpTypes
    <3> QED BY <1>b, <2>1, <3>2, <3>4, <3>5 DEF MpInv, RowsFit, GrantsFit, AppsFit
  <2> QED BY <2>2, <2>3
<1>19. ASSUME NEW call \in mpCalls, AnswerLost(call) PROVE MpInv'
  <2>1. /\ Becomes(call, "failed") /\ mpStray' = [mpStray EXCEPT ![MpTouches(call)] = @ \/ call.state = "done"]
        /\ UNCHANGED <<mpServer, mpRows, mpCached, mpDialog, mpRefresh, mpRefetch, mpRead, mpMade>>
    BY <1>19 DEF AnswerLost
  <2>2. /\ mpCalls' \subseteq PageCalls \cup GrantCalls \cup AppCalls
        /\ \A x : Owed(x) /\ (call.state # "done" \/ MpTouches(call) # x) => Owed(x)'
    BY <1>b, <2>1, BecomesFits DEF CallStates
  <2>3. /\ mpStray' \in [rows : BOOLEAN, grants : BOOLEAN, apps : BOOLEAN]
        /\ (mpStray.rows => mpStray'.rows) /\ (mpStray.grants => mpStray'.grants) /\ (mpStray.apps => mpStray'.apps)
        /\ (call.state = "done" /\ MpTouches(call) = "rows" => mpStray'.rows)
        /\ (call.state = "done" /\ MpTouches(call) = "grants" => mpStray'.grants)
        /\ (call.state = "done" /\ MpTouches(call) = "apps" => mpStray'.apps)
    BY <1>a, <2>1, TouchesFacts
  <2>4. MpTypes' BY <1>a, <2>1, <2>2, <2>3 DEF MpTypes
  <2> QED BY <1>b, <2>1, <2>2, <2>3, <2>4 DEF MpInv, RowsFit, GrantsFit, AppsFit
<1>20. CASE StrangerChanges
  <2>1. mpMade' = mpMade + 1 /\ UNCHANGED <<mpRows, mpCached, mpDialog, mpCalls, mpRefresh, mpRefetch, mpRead>>
    BY <1>20 DEF StrangerChanges
  <2>2. \A x : Owed(x)' <=> Owed(x) BY <2>1 DEF Owed, MpTouches
  <2>3. PICK rows \in RowTables, grants \in [Grantees -> MpRoles \cup {NoRole}], apps \in BOOLEAN :
          mpServer = [rows |-> rows, grants |-> grants, apps |-> apps]
    BY <1>a DEF ServerStates
  <2>4. CASE /\ \E r \in DOMAIN mpServer.rows : mpServer' = [mpServer EXCEPT !.rows[r].main = 1 - @]
             /\ mpStray' = [mpStray EXCEPT !.rows = TRUE]
    <3>1. PICK r \in DOMAIN rows : mpServer' = [mpServer EXCEPT !.rows[r].main = 1 - @]
      BY <2>3, <2>4
    <3>2. mpServer' = [rows |-> [rows EXCEPT ![r] = [rows[r] EXCEPT !.main = 1 - @]], grants |-> grants, apps |-> apps]
      BY <2>3, <3>1
    <3>3. rows[r] \in RowValue BY TableFacts
    <3>4. [rows[r] EXCEPT !.main = 1 - @] \in RowValue
      <4>1. rows[r].main \in 0..1 BY <3>3, RowFacts
      <4>2. 1 - rows[r].main \in 0..1 BY <4>1
      <4>3. [rows[r] EXCEPT !.main = 1 - @] = [rows[r] EXCEPT !.main = 1 - rows[r].main]
        OBVIOUS
      <4> QED BY <3>3, <4>2, <4>3, RowFacts
    <3>5. [rows EXCEPT ![r] = [rows[r] EXCEPT !.main = 1 - @]] \in RowTables
      BY <3>4, TableFacts
    <3>6. mpServer' \in ServerStates /\ mpServer'.grants = mpServer.grants /\ mpServer'.apps = mpServer.apps
      BY <2>3, <3>2, <3>5 DEF ServerStates
    <3>7. mpStray' \in [rows : BOOLEAN, grants : BOOLEAN, apps : BOOLEAN] /\ mpStray'.rows = TRUE
          /\ mpStray'.grants = mpStray.grants /\ mpStray'.apps = mpStray.apps
      BY <1>a, <2>4
    <3>8. MpTypes'
      <4>1. mpMade' \in Nat
        <5>1. mpMade \in Nat /\ mpMade' = mpMade + 1 BY <1>a, <2>1
        <5> QED BY <5>1
      <4> QED BY <1>a, <2>1, <3>6, <3>7, <4>1 DEF MpTypes
    <3> QED BY <1>b, <2>1, <2>2, <3>6, <3>7, <3>8 DEF MpInv, RowsFit, GrantsFit, AppsFit
  <2>5. CASE /\ \E u \in Grantees, role \in MpRoles \cup {NoRole} : mpServer' = [mpServer EXCEPT !.grants[u] = role]
             /\ mpStray' = [mpStray EXCEPT !.grants = TRUE]
    <3>1. PICK u \in Grantees, role \in MpRoles \cup {NoRole} : mpServer' = [mpServer EXCEPT !.grants[u] = role]
      BY <2>5
    <3>2. mpServer' = [rows |-> rows, grants |-> [grants EXCEPT ![u] = role], apps |-> apps]
      BY <2>3, <3>1
    <3>3. [grants EXCEPT ![u] = role] \in [Grantees -> MpRoles \cup {NoRole}]
      OBVIOUS
    <3>4. mpServer' \in ServerStates /\ mpServer'.rows = mpServer.rows /\ mpServer'.apps = mpServer.apps
      BY <2>3, <3>2, <3>3 DEF ServerStates
    <3>5. mpStray' \in [rows : BOOLEAN, grants : BOOLEAN, apps : BOOLEAN] /\ mpStray'.grants = TRUE
          /\ mpStray'.rows = mpStray.rows /\ mpStray'.apps = mpStray.apps
      BY <1>a, <2>5
    <3>6. MpTypes'
      <4>1. mpMade' \in Nat
        <5>1. mpMade \in Nat /\ mpMade' = mpMade + 1 BY <1>a, <2>1
        <5> QED BY <5>1
      <4> QED BY <1>a, <2>1, <3>4, <3>5, <4>1 DEF MpTypes
    <3> QED BY <1>b, <2>1, <2>2, <3>4, <3>5, <3>6 DEF MpInv, RowsFit, GrantsFit, AppsFit
  <2> QED BY <1>20, <2>4, <2>5 DEF StrangerChanges
<1> QED
  BY <1>1, <1>2, <1>3, <1>4, <1>5, <1>6, <1>7, <1>8, <1>9, <1>10, <1>11, <1>12, <1>13, <1>14, <1>15, <1>16, <1>r,
     <1>17, <1>18, <1>19, <1>20 DEF MpNext

LEMMA MpInvEnough == MpInv => MpTypeOK /\ PageShowsWhatWasSaved
<1> SUFFICES ASSUME MpInv PROVE MpTypeOK /\ PageShowsWhatWasSaved
  OBVIOUS
<1>1. MpTypeOK
  <2>1. mpServer.rows \in RowTables /\ mpServer.grants \in [Grantees -> MpRoles \cup {NoRole}] /\ mpRows \in RowTables
    BY DEF MpInv, MpTypes, ServerStates
  <2>2. mpServer.rows \in [DOMAIN mpServer.rows -> RowValue] /\ DOMAIN mpRows \subseteq MpRows
    BY <2>1, TableFacts
  <2>3. \A call \in mpCalls : call.state \in {"sent", "done", "failed"}
    BY DEF MpInv, MpTypes, PageCalls, GrantCalls, AppCalls, CallStates
  <2>4. mpDialog # NoDialog => mpDialog.kind \in {"form", "scope", "apps"}
    BY DEF MpInv, MpTypes, FormDialogs, ScopeDialogs, AppDialogs
  <2> QED BY <2>1, <2>2, <2>3, <2>4 DEF MpTypeOK
<1>2. PageShowsWhatWasSaved
  <2> SUFFICES ASSUME mpCalls = {}
               PROVE  /\ ~mpRefresh.asked /\ mpRefresh.sent = NotLoaded /\ ~mpStray.rows => mpRows = mpServer.rows
                      /\ \A q \in Queries :
                           mpRefetch[q] = "idle" /\ mpCached[q] # NotLoaded /\ ~mpStray[q] => mpCached[q] = mpServer[q]
    BY DEF PageShowsWhatWasSaved
  <2>1. \A x : ~Owed(x) BY DEF Owed
  <2> QED BY <2>1 DEF MpInv, RowsFit, GrantsFit, AppsFit, Queries
<1> QED BY <1>1, <1>2

-----------------------------------------------------------------------------
(* The tables of the administration pages                                  *)

FilterValues == UNION {ValuesOf(c) : c \in DtColumns}
Filters == [value : FilterValues, typed : BOOLEAN]
UrlFits(filters) == filters \in [HasId -> FilterValues \cup {NoFilter}]
                    /\ \A c \in HasId : filters[c] \in ValuesOf(c) \cup {NoFilter}
ControlsFit(filters) ==
    /\ filters \in [DtColumns -> Filters \cup {NoFilter}]
    /\ \A c \in DtColumns : filters[c] # NoFilter => filters[c].value \in ValuesOf(c)

DtTypes ==
    /\ \E page \in Nat \ {0}, size \in PageSizes : \E filters :
         UrlFits(filters) /\ dtUrl = [page |-> page, perPage |-> size, filters |-> filters]
    /\ ControlsFit(dtFilters)
    /\ dtDue = <<>> \/ \E updates : dtDue = <<updates>>

\* A control whose filter the query string does not follow yet has an update that is due.
DueFits ==
    dtDue # <<>> => LET updates == dtDue[1] IN
        /\ DOMAIN updates \subseteq DtColumns
        /\ \A c \in DOMAIN updates : updates[c] = dtFilters[c]
        /\ \A c \in HasId : dtFilters[c] # NoFilter => c \in DOMAIN updates
Awaits(c) == dtDue # <<>> /\ c \in DOMAIN dtDue[1]
FollowsFit ==
    \A c \in HasId : ~Awaits(c) =>
        IF dtFilters[c] = NoFilter THEN dtUrl.filters[c] = NoFilter \/ c \in dtDropped
        ELSE /\ dtUrl.filters[c] # NoFilter
             /\ Reread(c, dtUrl.filters[c]) = Reread(c, dtFilters[c].value)
PagedFits == dtUrl.page > 1 => dtPagedUnder = dtUrl.filters

DtInv == DtTypes /\ DueFits /\ FollowsFit /\ PagedFits

LEMMA KindFacts ==
  ASSUME NEW c \in DtColumns
  PROVE  /\ DtKind[c] \in {"text", "number"} => ValuesOf(c) = Texts
         /\ DtKind[c] \in {"select", "multiSelect"} => ValuesOf(c) = (SUBSET Options) \ {{}}
         /\ DtKind[c] \in {"range", "dateRange"} => ValuesOf(c) = Ranges
         /\ \A v \in ValuesOf(c) : Reread(c, v) \in ValuesOf(c) /\ Reread(c, Reread(c, v)) = Reread(c, v)
         /\ ValuesOf(c) \subseteq FilterValues
         /\ NoFilter \notin ValuesOf(c)
         /\ \A v \in ValuesOf(c), b \in BOOLEAN : [value |-> v, typed |-> b] # NoFilter
<1>1. /\ DtKind[c] \in {"text", "number"} => ValuesOf(c) = Texts
      /\ DtKind[c] \in {"select", "multiSelect"} => ValuesOf(c) = (SUBSET Options) \ {{}}
      /\ DtKind[c] \in {"range", "dateRange"} => ValuesOf(c) = Ranges
  BY DEF ValuesOf
<1>2. \A v \in ValuesOf(c) : Reread(c, v) \in ValuesOf(c) /\ Reread(c, Reread(c, v)) = Reread(c, v)
  BY <1>1, DtAssumption DEF Reread
<1>3. ValuesOf(c) \subseteq FilterValues BY DEF FilterValues
<1> QED BY <1>1, <1>2, <1>3, DtAssumption

LEMMA DtInitFits == DtInit => DtInv
<1> SUFFICES ASSUME DtInit PROVE DtInv
  OBVIOUS
<1>1. PICK size \in PageSizes, filters \in [HasId -> {NoFilter}] : dtUrl = [page |-> 1, perPage |-> size, filters |-> filters]
  BY DEF DtInit
<1>2. UrlFits(filters) BY DEF UrlFits
<1>3. dtFilters = [c \in DtColumns |-> NoFilter] /\ dtDue = <<>> /\ dtDropped = {}
  BY DEF DtInit
<1>4. ControlsFit(dtFilters) BY <1>3 DEF ControlsFit
<1>5. DtTypes BY <1>1, <1>2, <1>3, <1>4 DEF DtTypes
<1>6. FollowsFit BY <1>1, <1>3, DtAssumption DEF FollowsFit
<1>7. dtUrl.page = 1 BY <1>1
<1>8. PagedFits BY <1>7 DEF PagedFits
<1> QED BY <1>3, <1>5, <1>6, <1>8 DEF DtInv, DueFits

\* The controls change: the updates are put off.
LEMMA ChangeOfFilters ==
  ASSUME DtInv, NEW next, ControlsFit(next), onColumnFiltersChange(next), UNCHANGED <<dtUrl, dtPagedUnder>>
  PROVE  DtInv'
<1> DEFINE updates == processColumnFilters(dtFilters, next)
<1>1. /\ dtFilters' = next /\ dtDue' = <<updates>>
      /\ dtDropped' = dtDropped \cup
           {c \in HasId : /\ dtDue # <<>>
                          /\ c \in DOMAIN dtDue[1] /\ dtDue[1][c] = NoFilter
                          /\ c \notin DOMAIN updates}
  BY DEF onColumnFiltersChange, debouncedSetFilterValues
<1>2. /\ DOMAIN updates = {d \in DtColumns : \/ next[d] # NoFilter /\ d \in HasId
                                             \/ dtFilters[d] # NoFilter /\ next[d] = NoFilter}
      /\ \A c \in DOMAIN updates : updates[c] = next[c]
  BY DEF processColumnFilters
<1> HIDE DEF updates
<1>3. dtDue'[1] = updates /\ dtDue' # <<>> BY <1>1
<1>4. DtTypes' BY <1>1 DEF DtInv, DtTypes
<1>5. DueFits' BY <1>1, <1>2, <1>3, DtAssumption DEF DueFits
<1>6. FollowsFit'
  <2> SUFFICES ASSUME NEW c \in HasId, c \notin DOMAIN updates
               PROVE  /\ next[c] = NoFilter
                      /\ dtUrl.filters[c] = NoFilter \/ c \in dtDropped'
    BY <1>1, <1>3 DEF FollowsFit, Awaits
  <2>1. next[c] = NoFilter /\ dtFilters[c] = NoFilter
    BY <1>2, DtAssumption
  <2>2. CASE Awaits(c)
    <3>1. dtDue[1][c] = NoFilter
      BY <2>1, <2>2 DEF DtInv, DueFits, Awaits
    <3> QED BY <1>1, <2>1, <2>2, <3>1 DEF Awaits
  <2>3. CASE ~Awaits(c)
    <3>1. dtUrl.filters[c] = NoFilter \/ c \in dtDropped
      BY <2>1, <2>3 DEF DtInv, FollowsFit
    <3> QED BY <1>1, <2>1, <3>1
  <2> QED BY <2>2, <2>3
<1>7. PagedFits' BY DEF DtInv, PagedFits
<1> QED BY <1>4, <1>5, <1>6, <1>7 DEF DtInv

LEMMA SetFits ==
  ASSUME DtInv, NEW c \in DtColumns, NEW value \in ValuesOf(c) \cup {NoFilter}, setFilterValue(c, value)
  PROVE  DtInv'
<1> DEFINE new == IF value = NoFilter THEN NoFilter ELSE [value |-> value, typed |-> TRUE]
           next == [dtFilters EXCEPT ![c] = new]
<1>1. new \in Filters \cup {NoFilter} /\ (new # NoFilter => new.value \in ValuesOf(c))
  BY KindFacts DEF Filters
<1>2. onColumnFiltersChange(next) /\ UNCHANGED <<dtUrl, dtPagedUnder>>
  BY DEF setFilterValue
<1> HIDE DEF new
<1>3. ControlsFit(next) BY <1>1 DEF DtInv, DtTypes, ControlsFit
<1> HIDE DEF next
<1> QED BY <1>2, <1>3, ChangeOfFilters

LEMMA DtStepFits == DtInv /\ [DtNext]_dtVars => DtInv'
<1> SUFFICES ASSUME DtInv, DtNext \/ UNCHANGED dtVars PROVE DtInv'
  OBVIOUS
<1>a. PICK page \in Nat \ {0}, size \in PageSizes : \E filters :
        UrlFits(filters) /\ dtUrl = [page |-> page, perPage |-> size, filters |-> filters]
  BY DEF DtInv, DtTypes
<1>b. PICK filters : UrlFits(filters) /\ dtUrl = [page |-> page, perPage |-> size, filters |-> filters]
  BY <1>a
<1>c. dtUrl.page = page /\ dtUrl.perPage = size /\ dtUrl.filters = filters
  BY <1>b
<1>d. ControlsFit(dtFilters)
  BY DEF DtInv, DtTypes
<1>1. CASE UNCHANGED dtVars
  BY <1>1 DEF dtVars, DtInv, DtTypes, DueFits, FollowsFit, Awaits, PagedFits
<1>2. ASSUME NEW c \in DtColumns, DataTableToolbarFilter(c) PROVE DtInv'
  BY <1>2, KindFacts, SetFits DEF DataTableToolbarFilter
<1>3. ASSUME NEW c \in DtColumns, onItemSelect(c) PROVE DtInv'
  <2>1. ValuesOf(c) = (SUBSET Options) \ {{}} /\ DtKind[c] \in {"select", "multiSelect"}
    BY <1>3, KindFacts DEF onItemSelect
  <2>2. selectedValues(c) \in SUBSET Options
    BY <1>d, <2>1 DEF selectedValues, ControlsFit
  <2>3. PICK option \in Options :
          LET picked == CASE option \in selectedValues(c) /\ DtKind[c] = "multiSelect" -> selectedValues(c) \ {option}
                          [] option \notin selectedValues(c) /\ DtKind[c] = "multiSelect" -> selectedValues(c) \cup {option}
                          [] option \in selectedValues(c) /\ DtKind[c] = "select" -> {}
                          [] OTHER -> {option}
          IN setFilterValue(c, IF picked = {} THEN NoFilter ELSE picked)
    BY <1>3 DEF onItemSelect
  <2> DEFINE picked == CASE option \in selectedValues(c) /\ DtKind[c] = "multiSelect" -> selectedValues(c) \ {option}
                         [] option \notin selectedValues(c) /\ DtKind[c] = "multiSelect" -> selectedValues(c) \cup {option}
                         [] option \in selectedValues(c) /\ DtKind[c] = "select" -> {}
                         [] OTHER -> {option}
  <2>4. picked \in SUBSET Options BY <2>1, <2>2
  <2>5. setFilterValue(c, IF picked = {} THEN NoFilter ELSE picked)
    BY <2>3
  <2> HIDE DEF picked
  <2>6. (IF picked = {} THEN NoFilter ELSE picked) \in ValuesOf(c) \cup {NoFilter}
    <3>1. CASE picked = {} BY <3>1
    <3>2. CASE picked # {}
      <4>1. picked \in (SUBSET Options) \ {{}} BY <2>4, <3>2
      <4> QED BY <2>1, <3>2, <4>1
    <3> QED BY <3>1, <3>2
  <2> QED BY <2>5, <2>6, SetFits
<1>4. ASSUME NEW c \in DtColumns, DtKind[c] = "range"
      PROVE  ValuesOf(c) = Ranges /\ rangeOf(c) \in Ranges
  <2>1. ValuesOf(c) = Ranges BY <1>4, KindFacts
  <2>2. <<0, Highest>> \in Ranges BY DtAssumption DEF Ranges
  <2> QED BY <1>d, <2>1, <2>2 DEF rangeOf, getIsValidRange, ControlsFit
<1>5. ASSUME NEW c \in DtColumns, onFromInputChange(c) PROVE DtInv'
  <2>1. ValuesOf(c) = Ranges /\ rangeOf(c) \in Ranges
    BY <1>4, <1>5 DEF onFromInputChange
  <2>2. PICK n \in 0..rangeOf(c)[2] : setFilterValue(c, <<n, rangeOf(c)[2]>>)
    BY <1>5 DEF onFromInputChange
  <2>3. <<n, rangeOf(c)[2]>> \in Ranges BY <2>1, DtAssumption DEF Ranges
  <2> QED BY <2>1, <2>2, <2>3, SetFits
<1>6. ASSUME NEW c \in DtColumns, onToInputChange(c) PROVE DtInv'
  <2>1. ValuesOf(c) = Ranges /\ rangeOf(c) \in Ranges
    BY <1>4, <1>6 DEF onToInputChange
  <2>2. PICK n \in rangeOf(c)[1]..Highest : setFilterValue(c, <<rangeOf(c)[1], n>>)
    BY <1>6 DEF onToInputChange
  <2>3. <<rangeOf(c)[1], n>> \in Ranges BY <2>1, DtAssumption DEF Ranges
  <2> QED BY <2>1, <2>2, <2>3, SetFits
<1>7. ASSUME NEW c \in DtColumns, onSliderValueChange(c) PROVE DtInv'
  BY <1>7, <1>4, SetFits DEF onSliderValueChange
<1>8. ASSUME NEW c \in DtColumns, onSelect(c) PROVE DtInv'
  BY <1>8, SetFits DEF onSelect
<1>9. ASSUME NEW c \in DtColumns, onResetColumn(c) PROVE DtInv'
  BY <1>9, SetFits DEF onResetColumn
<1>10. CASE onReset
  <2>1. ControlsFit([c \in DtColumns |-> NoFilter]) BY DEF ControlsFit
  <2> QED BY <1>10, <2>1, ChangeOfFilters DEF onReset
<1>11. CASE DebounceEnds
  <2> DEFINE updates == dtDue[1]
             query == [c \in HasId |-> IF c \notin DOMAIN updates THEN filters[c]
                                       ELSE IF updates[c] = NoFilter THEN NoFilter ELSE updates[c].value]
  <2>1. /\ dtDue # <<>> /\ dtDropped' = dtDropped \ DOMAIN updates /\ dtDue' = <<>>
        /\ UNCHANGED <<dtFilters, dtPagedUnder>>
    BY <1>11 DEF DebounceEnds
  <2>2. dtUrl' = [page |-> 1, perPage |-> size, filters |-> query]
    BY <1>11, <1>b, <1>c DEF DebounceEnds
  <2>3. /\ DOMAIN updates \subseteq DtColumns
        /\ \A c \in DOMAIN updates : updates[c] = dtFilters[c]
        /\ \A c \in HasId : dtFilters[c] # NoFilter => c \in DOMAIN updates
    BY <2>1 DEF DtInv, DueFits
  <2>4. \A c \in HasId : query[c] = IF c \notin DOMAIN updates THEN filters[c]
                                    ELSE IF dtFilters[c] = NoFilter THEN NoFilter ELSE dtFilters[c].value
    BY <2>3
  <2>5. DOMAIN query = HasId /\ query = [c \in HasId |-> query[c]]
    OBVIOUS
  <2> HIDE DEF updates, query
  <2>6. \A c \in HasId : query[c] \in ValuesOf(c) \cup {NoFilter}
    BY <1>b, <1>d, <2>4, DtAssumption DEF UrlFits, ControlsFit
  <2>7. UrlFits(query)
    <3>1. \A c \in HasId : query[c] \in FilterValues \cup {NoFilter}
      BY <2>6, KindFacts, DtAssumption
    <3> QED BY <2>5, <2>6, <3>1 DEF UrlFits
  <2>8. dtUrl'.page = 1 /\ dtUrl'.filters = query BY <2>2
  <2>9. DtTypes' BY <1>a, <1>d, <2>1, <2>2, <2>7 DEF DtTypes
  <2>10. FollowsFit'
    <3> SUFFICES ASSUME NEW c \in HasId
                 PROVE  IF dtFilters[c] = NoFilter THEN query[c] = NoFilter \/ c \in dtDropped'
                        ELSE query[c] # NoFilter /\ Reread(c, query[c]) = Reread(c, dtFilters[c].value)
      BY <2>1, <2>8 DEF FollowsFit, Reread
    <3>1. CASE c \in DOMAIN updates /\ dtFilters[c] # NoFilter
      <4>1. query[c] = dtFilters[c].value /\ dtFilters[c].value \in ValuesOf(c)
        BY <1>d, <2>4, <3>1, DtAssumption DEF ControlsFit
      <4> QED BY <3>1, <4>1, KindFacts, DtAssumption
    <3>2. CASE c \in DOMAIN updates /\ dtFilters[c] = NoFilter
      BY <2>4, <3>2
    <3>3. CASE c \notin DOMAIN updates
      <4>1. dtFilters[c] = NoFilter /\ query[c] = filters[c]
        BY <2>3, <2>4, <3>3
      <4>2. filters[c] = NoFilter \/ c \in dtDropped
        BY <1>c, <3>3, <4>1 DEF DtInv, FollowsFit, Awaits, updates
      <4> QED BY <2>1, <3>3, <4>1, <4>2
    <3> QED BY <3>1, <3>2, <3>3
  <2>11. DueFits' /\ PagedFits' BY <2>1, <2>8 DEF DueFits, PagedFits
  <2> QED BY <2>9, <2>10, <2>11 DEF DtInv
<1>12. CASE onPaginationChange
  <2>1. /\ dtPagedUnder' = dtUrl.filters /\ UNCHANGED <<dtFilters, dtDue, dtDropped>>
        /\ \/ \E p \in {1, PageCount, dtUrl.page - 1, dtUrl.page + 1} :
                 p \in (1..PageCount) \ {dtUrl.page} /\ dtUrl' = [dtUrl EXCEPT !.page = p]
           \/ \E n \in PageSizes :
                dtUrl' = [dtUrl EXCEPT !.perPage = n, !.page = (((dtUrl.page - 1) * dtUrl.perPage) \div n) + 1]
    BY <1>12 DEF onPaginationChange
  <2>2. PICK p \in Nat \ {0}, n \in PageSizes : dtUrl' = [page |-> p, perPage |-> n, filters |-> filters]
    <3>1. CASE \E p \in (1..PageCount) : dtUrl' = [dtUrl EXCEPT !.page = p]
      <4>1. PICK p \in (1..PageCount) : dtUrl' = [dtUrl EXCEPT !.page = p]
        BY <3>1
      <4>2. p \in Nat \ {0} /\ dtUrl' = [page |-> p, perPage |-> size, filters |-> filters]
        BY <1>b, <4>1, DtAssumption
      <4> QED BY <4>2
    <3>2. CASE \E n \in PageSizes :
                dtUrl' = [dtUrl EXCEPT !.perPage = n, !.page = (((dtUrl.page - 1) * dtUrl.perPage) \div n) + 1]
      <4>1. PICK n \in PageSizes :
              dtUrl' = [dtUrl EXCEPT !.perPage = n, !.page = (((dtUrl.page - 1) * dtUrl.perPage) \div n) + 1]
        BY <3>2
      <4> DEFINE p == (((page - 1) * size) \div n) + 1
      <4>2. p \in Nat \ {0}
        <5>0. PageSizes \subseteq Nat \ {0} BY DtAssumption
        <5>1. page - 1 \in Nat /\ size \in Nat /\ n \in Nat \ {0}
          BY <5>0
        <5>2. (page - 1) * size \in Nat BY <5>1
        <5>3. ASSUME NEW x \in Nat, NEW y \in Nat \ {0} PROVE x \div y \in Nat
          OBVIOUS
        <5> DEFINE x == (page - 1) * size
        <5>4. x \div n \in Nat
          <6> HIDE DEF x
          <6> QED BY <5>1, <5>2, <5>3 DEF x
        <5> HIDE DEF x
        <5>5. (x \div n) + 1 \in Nat \ {0} BY <5>4
        <5> QED BY <5>5 DEF x
      <4>3. dtUrl' = [dtUrl EXCEPT !.perPage = n, !.page = p]
        BY <1>c, <4>1
      <4> HIDE DEF p
      <4>4. dtUrl' = [page |-> p, perPage |-> n, filters |-> filters]
        BY <1>b, <4>3
      <4> QED BY <4>2, <4>4
    <3> QED BY <2>1, <3>1, <3>2
  <2>3. dtUrl'.filters = filters BY <2>2
  <2>4. DtTypes' BY <1>b, <1>d, <2>1, <2>2 DEF DtInv, DtTypes
  <2> QED BY <1>c, <2>1, <2>3, <2>4 DEF DtInv, DueFits, FollowsFit, Awaits, PagedFits, Reread
<1>13. CASE ServerRenders
  BY <1>13 DEF ServerRenders, DtInv, DtTypes, DueFits, FollowsFit, Awaits, PagedFits
<1>14. CASE Mounts
  <2>1. dtFilters' = initialColumnFilters /\ dtDue' = <<>> /\ UNCHANGED <<dtUrl, dtPagedUnder>>
    BY <1>14 DEF Mounts
  <2> DEFINE held == initialColumnFilters
  <2>2. /\ DOMAIN held = DtColumns /\ held = [c \in DtColumns |-> held[c]]
        /\ \A c \in DtColumns : held[c] = IF c \notin HasId THEN NoFilter
                                         ELSE IF filters[c] = NoFilter THEN NoFilter
                                         ELSE [value |-> Reread(c, filters[c]), typed |-> FALSE]
    BY <1>c DEF initialColumnFilters
  <2> HIDE DEF held
  <2>3. \A c \in HasId : filters[c] \in ValuesOf(c) \cup {NoFilter}
    BY <1>b DEF UrlFits
  <2>4. ASSUME NEW c \in DtColumns
        PROVE  held[c] \in Filters \cup {NoFilter} /\ (held[c] # NoFilter => held[c].value \in ValuesOf(c))
    <3>1. CASE c \in HasId /\ filters[c] # NoFilter
      <4>1. Reread(c, filters[c]) \in ValuesOf(c)
        BY <2>3, <3>1, KindFacts
      <4>2. held[c] = [value |-> Reread(c, filters[c]), typed |-> FALSE]
        BY <2>2, <3>1
      <4> QED BY <4>1, <4>2, KindFacts DEF Filters
    <3> QED BY <2>2, <3>1
  <2>5. ControlsFit(held) BY <2>2, <2>4 DEF ControlsFit
  <2>6. DtTypes' BY <1>a, <2>1, <2>5 DEF DtTypes, held
  <2>7. FollowsFit'
    <3> SUFFICES ASSUME NEW c \in HasId
                 PROVE  IF held[c] = NoFilter THEN filters[c] = NoFilter
                        ELSE filters[c] # NoFilter /\ Reread(c, filters[c]) = Reread(c, held[c].value)
      BY <1>c, <2>1 DEF FollowsFit, held, Reread
    <3>0. c \in DtColumns BY DtAssumption
    <3>1. CASE filters[c] = NoFilter BY <2>2, <3>0, <3>1
    <3>2. CASE filters[c] # NoFilter
      <4>1. filters[c] \in ValuesOf(c) BY <2>3, <3>2
      <4>2. Reread(c, filters[c]) \in ValuesOf(c) /\ Reread(c, Reread(c, filters[c])) = Reread(c, filters[c])
        BY <3>0, <4>1, KindFacts
      <4>3. held[c] = [value |-> Reread(c, filters[c]), typed |-> FALSE]
        BY <2>2, <3>0, <3>2
      <4>4. held[c] # NoFilter /\ held[c].value = Reread(c, filters[c])
        <5>1. held[c].value = Reread(c, filters[c]) BY <4>3
        <5>2. [value |-> Reread(c, filters[c]), typed |-> FALSE] # NoFilter
          BY <3>0, <4>2, KindFacts
        <5> QED BY <4>3, <5>1, <5>2
      <4> QED BY <3>2, <4>2, <4>4
    <3> QED BY <3>1, <3>2
  <2> QED BY <2>1, <2>6, <2>7 DEF DtInv, DueFits, PagedFits
<1> QED
  BY <1>1, <1>2, <1>3, <1>5, <1>6, <1>7, <1>8, <1>9, <1>10, <1>11, <1>12, <1>13, <1>14 DEF DtNext

LEMMA DtInvEnough == DtInv => DtTypeOK /\ UrlFollowsControls
<1> SUFFICES ASSUME DtInv PROVE DtTypeOK /\ UrlFollowsControls
  OBVIOUS
<1>1. DtTypeOK
  <2>1. PICK page \in Nat \ {0}, size \in PageSizes : \E filters :
          UrlFits(filters) /\ dtUrl = [page |-> page, perPage |-> size, filters |-> filters]
    BY DEF DtInv, DtTypes
  <2>2. PICK filters : UrlFits(filters) /\ dtUrl = [page |-> page, perPage |-> size, filters |-> filters]
    BY <2>1
  <2>3. dtUrl.page \in Nat \ {0} /\ dtUrl.filters = filters BY <2>2
  <2> QED BY <2>2, <2>3 DEF DtInv, DtTypes, DtTypeOK, UrlFits, ControlsFit
<1>2. UrlFollowsControls
  BY DEF DtInv, FollowsFit, Awaits, PagedFits, UrlFollowsControls
<1> QED BY <1>1, <1>2

-----------------------------------------------------------------------------
(* The bootstrap scripts                                                   *)

Kinds == {"user", "account", "factory", "department", "device", "component"}
HandMade == {<<"user", 0>>, <<"account", 0>>, <<"factory", 0>>, <<"department", 0>>, <<"device", 0>>}
Running == {"seed", "bootstrap"}

\* A component's row has its device's row and its catalog entry's, and one seeding's device is left.
HierarchyFits(rows, catalog) ==
    /\ HandMade \subseteq rows
    /\ \A o \in rows : o[1] \in Kinds /\ (o[1] = "device" => o = <<"device", o[2]>>)
    /\ \A o \in rows : o[1] = "component" =>
         <<"device", o[2]>> \in rows /\ o[3] \in LbKeys /\ catalog[o[3]] # <<>>
    /\ \A o, p \in rows : o[1] = "device" /\ p[1] = "device" /\ isDemo(o) /\ isDemo(p) => o = p

\* A tuple is about a row; on an object made by hand it names one of those or a demo user.
TuplesFit(rows, given) ==
    \A t \in given : /\ t.object \in rows /\ t.object[1] \notin {"user", "account"}
                     /\ isDemo(t.object) \/ t.user \in HandMade \/ (t.user \in DemoUsers /\ t.user \in rows)

ByHandOnly(given) == \A t \in given : ~isDemo(t.object) /\ t.user \in HandMade

\* What the deletions of a seeding rest on.
ClearingFits ==
    /\ lbStep = "deleteTuples" => ByHandOnly(lbTuples \ leaving)
    /\ lbStep \in {"deleteDevices", "deleteDepartments", "deleteFactories", "deleteUsers"} => ByHandOnly(lbTuples)
    /\ lbStep \in {"deleteDepartments", "deleteFactories", "deleteUsers", "insertUsers", "insertAccounts",
                   "insertFactories", "insertDepartments", "insertDevices"} =>
         \A o \in lbRows : o[1] = "device" => ~isDemo(o)

\* What a seeding has inserted when it writes its tuples.
SeedingFits ==
    /\ lbStep \in {"insertDepartments", "insertDevices"} => <<"factory", lbRun>> \in lbRows
    /\ lbStep = "insertDevices" => <<"department", lbRun>> \in lbRows
    /\ (script = "seed" /\ lbStep \in {"upsert", "staleTuples", "staleInstalls", "staleCatalog", "ensure",
                                       "ensureTuples", "demoTuples"}) =>
         {<<"factory", lbRun>>, <<"department", lbRun>>, <<"device", lbRun>>} \subseteq lbRows
    /\ lbStep = "demoTuples" => script = "seed"

Desired == loadDeviceComponentManifestEntries

\* How far the catalog is the manifests', and what is left to remove.
CatalogFits ==
    /\ lbStep \in {"staleTuples", "staleInstalls", "staleCatalog"} =>
         /\ \A k \in DOMAIN manifest : lbCatalog[k] = Desired[k]
         /\ staleKeys = {k \in LbKeys : lbCatalog[k] # <<>> /\ Desired[k] = <<>>}
    /\ lbStep = "staleInstalls" => \A t \in lbTuples : t.object \notin StaleInstallations
    /\ lbStep = "staleCatalog" => StaleInstallations = {}
    /\ (lbStep \in {"ensure", "ensureTuples", "demoTuples", "report"} \/ script = "finished") => lbCatalog = Desired

\* Every device has its components, and then their tuples.
InstallationsFit ==
    /\ (lbStep \in {"ensureTuples", "demoTuples", "report"} \/ script = "finished") =>
         \A d \in lbRows : d[1] = "device" =>
           \A k \in DOMAIN manifest : \E o \in lbRows : o[1] = "component" /\ o[2] = d[2] /\ o[3] = k
    /\ (lbStep \in {"demoTuples", "report"} \/ script = "finished") =>
         \A o \in lbRows : o[1] = "component" => ParentTuple(o, <<"device", o[2]>>) \in lbTuples

SysadminFits ==
    /\ sysadmin \in [row : BOOLEAN, credential : BOOLEAN, banned : BOOLEAN]
    /\ sysStep = "account" => sysadmin.row /\ ~sysadmin.banned
    /\ (sysStep = "done" \/ script = "finished") => sysadmin = [row |-> TRUE, credential |-> TRUE, banned |-> FALSE]

ScriptFits ==
    /\ script \in {"none", "finished"} \cup Running
    /\ script \notin Running => lbStep = "none" /\ sysStep = "none"
    /\ script \in Running => lbRun # 0
    /\ manifest \in Manifests
    /\ lbRun \in 0..MaxScripts /\ handMade \in 0..MaxHandMade
    /\ lbCatalog = [k \in LbKeys |-> lbCatalog[k]]

LbInv ==
    /\ HierarchyFits(lbRows, lbCatalog)
    /\ TuplesFit(lbRows, lbTuples)
    /\ ClearingFits
    /\ SeedingFits
    /\ CatalogFits
    /\ InstallationsFit
    /\ SysadminFits
    /\ ScriptFits

LEMMA HandMadeFacts ==
  /\ \A o \in HandMade : ~isDemo(o) /\ o[1] \in Kinds /\ o[1] # "component" /\ o \notin DemoUsers /\ o \notin Accounts
  /\ \A o \in DemoUsers : o[1] = "user" /\ isDemo(o)
  /\ \A o \in Accounts : o[1] = "account" /\ isDemo(o)
<1>1. \A o \in DemoUsers : o[1] = "user" /\ isDemo(o)
  BY DEF DemoUsers, isDemo
<1>2. \A o \in Accounts : o[1] = "account" /\ isDemo(o)
  BY DEF Accounts, isDemo
<1>3. \A o \in HandMade : ~isDemo(o) /\ o[1] \in Kinds /\ o[1] # "component"
  BY DEF HandMade, isDemo, Kinds
<1> QED BY <1>1, <1>2, <1>3

LEMMA LbInitFits == LbInit => LbInv
<1> SUFFICES ASSUME LbInit PROVE LbInv
  OBVIOUS
<1>1. lbRows = HandMade /\ lbCatalog = [k \in LbKeys |-> <<>>] /\ script = "none" /\ lbStep = "none" /\ sysStep = "none"
  BY DEF LbInit, HandMade
<1>2. HierarchyFits(lbRows, lbCatalog)
  BY <1>1 DEF HierarchyFits, HandMade, Kinds, isDemo
<1>3. TuplesFit(lbRows, lbTuples)
  <2>1. \A t \in lbTuples : /\ t.object \in {<<"factory", 0>>, <<"department", 0>>, <<"device", 0>>}
                           /\ t.user \in {<<"factory", 0>>, <<"department", 0>>, <<"device", 0>>}
    BY DEF LbInit, ParentTupleKeys, ParentTuple, LbTuple
  <2> QED BY <1>1, <2>1 DEF TuplesFit, HandMade
<1>4. SysadminFits BY <1>1 DEF LbInit, SysadminFits
<1>5. ScriptFits BY <1>1, LbAssumption DEF LbInit, ScriptFits, Running
<1> QED BY <1>1, <1>2, <1>3, <1>4, <1>5 DEF LbInv, ClearingFits, SeedingFits, CatalogFits, InstallationsFit

\* A script that ends, dies or is not running leaves rows and tuples that fit.
LEMMA EndsFits ==
  ASSUME LbInv, HierarchyFits(lbRows', lbCatalog'), TuplesFit(lbRows', lbTuples'),
         script' = "none", lbStep' = "none", sysStep' = "none",
         sysadmin' \in [row : BOOLEAN, credential : BOOLEAN, banned : BOOLEAN],
         manifest' \in Manifests, lbRun' \in 0..MaxScripts, handMade' \in 0..MaxHandMade,
         lbCatalog' = [k \in LbKeys |-> lbCatalog'[k]]
  PROVE  LbInv'
BY DEF LbInv, ClearingFits, SeedingFits, CatalogFits, InstallationsFit, SysadminFits, ScriptFits, Running

\* What no step of a script changes.
LEMMA ScriptStays ==
  ASSUME LbInv, UNCHANGED <<manifest, lbRun, handMade, script>>, script \in Running,
         lbCatalog' = [k \in LbKeys |-> lbCatalog'[k]]
  PROVE  ScriptFits' /\ Desired' = Desired
<1>1. Desired' = Desired
  BY DEF Desired, loadDeviceComponentManifestEntries
<1> QED BY <1>1 DEF LbInv, ScriptFits, Running

LEMMA StartFits ==
  ASSUME LbInv, NEW kind \in Running, Start(kind)
  PROVE  LbInv'
<1>1. /\ script = "none" /\ lbRun < MaxScripts /\ script' = kind /\ lbRun' = lbRun + 1 /\ lbStep' \in {"clear", "upsert"}
      /\ (kind = "seed" => lbStep' = "clear") /\ sysStep' = "user"
      /\ UNCHANGED <<lbRows, lbTuples, lbCatalog, sysadmin, manifest, staleKeys, leaving, handMade>>
  BY DEF Start
<1>2. lbRun' \in 0..MaxScripts /\ lbRun' # 0
  BY <1>1, LbAssumption DEF LbInv, ScriptFits
<1>3. ScriptFits' BY <1>1, <1>2 DEF LbInv, ScriptFits, Running
<1>4. SysadminFits' BY <1>1 DEF LbInv, SysadminFits, Running
<1> QED
  BY <1>1, <1>3, <1>4 DEF LbInv, ClearingFits, SeedingFits, CatalogFits, InstallationsFit, Running

LEMMA SysadminStep ==
  ASSUME LbInv, upsertCredentialUser
  PROVE  LbInv'
<1>1. /\ sysStep \in {"user", "account"}
      /\ UNCHANGED <<lbRows, lbTuples, lbCatalog, manifest, script, lbStep, staleKeys, leaving, lbRun, handMade>>
  BY DEF upsertCredentialUser
<1>2. script \in Running BY <1>1 DEF LbInv, ScriptFits
<1>3. SysadminFits'
  <2>1. PICK r, c, b \in BOOLEAN : sysadmin = [row |-> r, credential |-> c, banned |-> b]
    BY DEF LbInv, SysadminFits
  <2>2. CASE sysStep = "user"
    <3>1. sysadmin' = [row |-> TRUE, credential |-> c, banned |-> FALSE] /\ sysStep' = "account"
      BY <2>1, <2>2 DEF upsertCredentialUser
    <3> QED BY <1>1, <1>2, <3>1 DEF SysadminFits, Running
  <2>3. CASE sysStep = "account"
    <3>1. sysadmin' = [row |-> r, credential |-> TRUE, banned |-> b] /\ sysStep' = "done" /\ r = TRUE /\ b = FALSE
      BY <2>1, <2>3 DEF upsertCredentialUser, LbInv, SysadminFits
    <3> QED BY <1>1, <1>2, <3>1 DEF SysadminFits, Running
  <2> QED BY <1>1, <2>2, <2>3
<1>4. ScriptFits' BY <1>1, <1>2, ScriptStays DEF LbInv, ScriptFits
<1>5. Desired' = Desired /\ StaleInstallations' = StaleInstallations
  BY <1>1 DEF Desired, loadDeviceComponentManifestEntries, StaleInstallations
<1> QED
  BY <1>1, <1>3, <1>4, <1>5 DEF LbInv, ClearingFits, SeedingFits, CatalogFits, InstallationsFit

\* A step of a script that goes on: what it leaves alone.
LEMMA GoesOn ==
  ASSUME LbInv, lbStep # "none", UNCHANGED <<sysadmin, manifest, script, sysStep, lbRun, handMade>>,
         lbCatalog' = [k \in LbKeys |-> lbCatalog'[k]]
  PROVE  script \in Running /\ ScriptFits' /\ SysadminFits' /\ Desired' = Desired
<1>1. script \in Running BY DEF LbInv, ScriptFits
<1>2. SysadminFits' BY DEF LbInv, SysadminFits
<1> QED BY <1>1, <1>2, ScriptStays

LEMMA FewerTuples ==
  ASSUME NEW rows, NEW given, TuplesFit(rows, given), NEW fewer, fewer \subseteq given
  PROVE  TuplesFit(rows, fewer)
BY DEF TuplesFit

LEMMA MoreTuples ==
  ASSUME NEW rows, NEW given, TuplesFit(rows, given), NEW new, TuplesFit(rows, new)
  PROVE  TuplesFit(rows, given \cup new)
BY DEF TuplesFit

\* A write of tuples, done or broken off.
LEMMA ChunksFit ==
  ASSUME LbInv, NEW step, NEW next, NEW gone, NEW new, writeTupleChunks(step, next, gone, new),
         TuplesFit(lbRows, new)
  PROVE  /\ lbStep = step /\ TuplesFit(lbRows, lbTuples')
         /\ UNCHANGED <<lbRows, lbCatalog, sysadmin, manifest, lbRun, handMade>>
         /\ \/ LbInv'
            \/ /\ lbTuples' = (lbTuples \ gone) \cup new /\ lbStep' = next /\ leaving' = {}
               /\ UNCHANGED <<script, sysStep, staleKeys>>
<1>1. lbStep = step /\ UNCHANGED <<lbRows, lbCatalog, sysadmin, manifest, lbRun, handMade>>
  BY DEF writeTupleChunks
<1>2. CASE /\ lbTuples' = (lbTuples \ gone) \cup new /\ lbStep' = next /\ leaving' = {}
           /\ UNCHANGED <<script, sysStep, staleKeys>>
  <2>1. TuplesFit(lbRows, lbTuples')
    BY <1>2, FewerTuples, MoreTuples DEF LbInv
  <2> QED BY <1>1, <1>2, <2>1
<1>3. CASE /\ \E chosen \in SUBSET {t.object : t \in gone \cup new} :
               lbTuples' = (lbTuples \ {t \in gone : t.object \in chosen})
                           \cup {t \in new : t.object \in chosen}
           /\ Ends
  <2>1. PICK chosen : lbTuples' = (lbTuples \ {t \in gone : t.object \in chosen})
                           \cup {t \in new : t.object \in chosen}
    BY <1>3
  <2> DEFINE rest == lbTuples \ {t \in gone : t.object \in chosen}
             more == {t \in new : t.object \in chosen}
  <2>2. TuplesFit(lbRows, rest) BY FewerTuples DEF LbInv
  <2>3. TuplesFit(lbRows, more) BY FewerTuples
  <2>4. TuplesFit(lbRows, rest \cup more)
    <3> HIDE DEF rest, more
    <3> QED BY <2>2, <2>3, MoreTuples
  <2>5. TuplesFit(lbRows, lbTuples') /\ TuplesFit(lbRows', lbTuples')
    BY <1>1, <2>1, <2>4
  <2>6. LbInv'
    BY <1>1, <1>3, <2>5, EndsFits DEF LbInv, Ends, SysadminFits, ScriptFits
  <2> QED BY <1>1, <2>5, <2>6
<1> QED BY <1>2, <1>3 DEF writeTupleChunks

LEMMA ClearFits ==
  ASSUME LbInv, clearPreviousDemoData
  PROVE  LbInv'
<1> DEFINE cleared == {o \in lbRows : isDemo(o) /\ o[1] \in {"factory", "department", "device", "component"}}
<1>1. /\ lbStep = "clear" /\ lbStep' = "deleteTuples"
      /\ leaving' = {t \in lbTuples : t.object \in cleared \/ (t.user \in DemoUsers /\ t.user \in lbRows)}
      /\ UNCHANGED <<lbRows, lbTuples, lbCatalog, sysadmin, manifest, script, sysStep, staleKeys, lbRun, handMade>>
  BY DEF clearPreviousDemoData
<1>2. script \in Running /\ ScriptFits' /\ SysadminFits'
  BY <1>1, GoesOn DEF LbInv, ScriptFits
<1>3. ByHandOnly(lbTuples' \ leaving')
  <2> SUFFICES ASSUME NEW t \in lbTuples, t \notin leaving' PROVE ~isDemo(t.object) /\ t.user \in HandMade
    BY <1>1 DEF ByHandOnly
  <2>1. t.object \notin cleared /\ ~(t.user \in DemoUsers /\ t.user \in lbRows)
    BY <1>1
  <2>2. t.object \in lbRows /\ t.object[1] \in {"factory", "department", "device", "component"}
    BY DEF LbInv, TuplesFit, HierarchyFits, Kinds
  <2> QED BY <2>1, <2>2 DEF LbInv, TuplesFit
<1> QED
  BY <1>1, <1>2, <1>3 DEF LbInv, ClearingFits, SeedingFits, CatalogFits, InstallationsFit, Running

LEMMA DeleteTuplesFits ==
  ASSUME LbInv, deleteAuthzTuples
  PROVE  LbInv'
<1>1. TuplesFit(lbRows, {}) BY DEF TuplesFit
<1>2. lbStep = "deleteTuples" /\ UNCHANGED <<lbRows, lbCatalog, sysadmin, manifest, lbRun, handMade>>
      /\ TuplesFit(lbRows, lbTuples')
  BY <1>1, ChunksFit DEF deleteAuthzTuples
<1>3. \/ LbInv'
      \/ /\ lbTuples' = (lbTuples \ leaving) \cup {} /\ lbStep' = "deleteDevices"
         /\ UNCHANGED <<script, sysStep, staleKeys>>
  BY <1>1, ChunksFit DEF deleteAuthzTuples
<1> SUFFICES ASSUME lbTuples' = lbTuples \ leaving, lbStep' = "deleteDevices", UNCHANGED <<script, sysStep, staleKeys>>
             PROVE  LbInv'
  BY <1>3
<1>4. script \in Running /\ ScriptFits' /\ SysadminFits'
  BY <1>2, GoesOn DEF LbInv, ScriptFits
<1>5. ByHandOnly(lbTuples') BY <1>2 DEF LbInv, ClearingFits
<1> QED
  BY <1>2, <1>4, <1>5 DEF LbInv, ClearingFits, SeedingFits, CatalogFits, InstallationsFit, Running

\* Rows that no tuple is about go, with what refers to them.
LEMMA DeleteRowsFits ==
  ASSUME LbInv, DeleteDemoRows
  PROVE  LbInv'
<1> DEFINE early == {"deleteDevices", "deleteDepartments", "deleteFactories", "deleteUsers"}
<1>1. /\ lbStep \in early
      /\ UNCHANGED <<lbTuples, lbCatalog, sysadmin, manifest, script, sysStep, staleKeys, leaving, lbRun, handMade>>
  BY DEF DeleteDemoRows, CallDb
<1>2. script \in Running /\ ScriptFits' /\ SysadminFits'
  BY <1>1, GoesOn DEF LbInv, ScriptFits
<1>3. ByHandOnly(lbTuples) BY <1>1 DEF LbInv, ClearingFits
<1>4. \A o \in lbRows : ~isDemo(o) => o \in lbRows'
  BY HandMadeFacts DEF DeleteDemoRows, CallDb
<1>5. lbRows' \subseteq lbRows BY DEF DeleteDemoRows, CallDb
<1>6. \/ /\ lbStep = "deleteDevices" /\ lbStep' = "deleteDepartments"
         /\ \A o \in lbRows : o \in lbRows' <=> ~(isDemo(o) /\ o[1] \in {"device", "component"})
      \/ /\ lbStep \in early \ {"deleteDevices"}
         /\ lbStep' \in {"deleteFactories", "deleteUsers", "insertUsers"}
         /\ \A o \in lbRows : o[1] \in {"device", "component"} => o \in lbRows'
  BY HandMadeFacts DEF DeleteDemoRows, CallDb
<1>7. HandMade \subseteq lbRows'
  BY <1>4, HandMadeFacts DEF LbInv, HierarchyFits
<1>8. \A o \in lbRows' : o[1] = "component" => <<"device", o[2]>> \in lbRows'
  <2> SUFFICES ASSUME NEW o \in lbRows', o[1] = "component" PROVE <<"device", o[2]>> \in lbRows'
    OBVIOUS
  <2>1. o \in lbRows /\ <<"device", o[2]>> \in lbRows
    BY <1>5 DEF LbInv, HierarchyFits
  <2>2. <<"device", o[2]>>[1] = "device" /\ (isDemo(<<"device", o[2]>>) <=> isDemo(o))
    BY DEF isDemo
  <2> QED BY <1>6, <2>1, <2>2
<1>9. HierarchyFits(lbRows', lbCatalog')
  BY <1>1, <1>5, <1>7, <1>8 DEF LbInv, HierarchyFits
<1>10. TuplesFit(lbRows', lbTuples')
  BY <1>1, <1>3, <1>4 DEF LbInv, TuplesFit, ByHandOnly
<1>11. \A o \in lbRows' : o[1] = "device" => ~isDemo(o)
  BY <1>5, <1>6 DEF LbInv, ClearingFits
<1>12. lbStep' \in {"deleteDepartments", "deleteFactories", "deleteUsers", "insertUsers"}
  BY <1>6
<1>13. ClearingFits' BY <1>1, <1>3, <1>11, <1>12 DEF ClearingFits
<1> QED
  BY <1>1, <1>2, <1>9, <1>10, <1>12, <1>13 DEF LbInv, SeedingFits, CatalogFits, InstallationsFit, Running

\* Rows are added, none of them a device or a component.
LEMMA InsertsFit ==
  ASSUME LbInv, NEW step, NEW next, NEW new, CallDb(step, next, lbRows \cup new), step # "none",
         \A o \in new : o[1] \in {"user", "account", "factory", "department"}
  PROVE  /\ lbStep = step /\ lbStep' = next /\ script \in Running
         /\ UNCHANGED <<lbTuples, lbCatalog, manifest, script, staleKeys, leaving, lbRun>>
         /\ lbRows' = lbRows \cup new
         /\ ScriptFits' /\ SysadminFits' /\ HierarchyFits(lbRows', lbCatalog') /\ TuplesFit(lbRows', lbTuples')
<1>1. /\ lbStep = step /\ lbStep' = next /\ lbRows' = lbRows \cup new
      /\ UNCHANGED <<lbTuples, lbCatalog, sysadmin, manifest, script, sysStep, staleKeys, leaving, lbRun, handMade>>
  BY DEF CallDb
<1>2. script \in Running /\ ScriptFits' /\ SysadminFits'
  BY <1>1, GoesOn DEF LbInv, ScriptFits
<1>3. HierarchyFits(lbRows', lbCatalog')
  BY <1>1 DEF LbInv, HierarchyFits, Kinds
<1>4. TuplesFit(lbRows', lbTuples') BY <1>1 DEF LbInv, TuplesFit
<1> QED BY <1>1, <1>2, <1>3, <1>4

LEMMA InsertUsersFits ==
  ASSUME LbInv, insertDemoUsers
  PROVE  LbInv'
<1>1. PICK step, next, new :
        /\ CallDb(step, next, lbRows \cup new)
        /\ step \in {"insertUsers", "insertAccounts"} /\ next \in {"insertAccounts", "insertFactories"}
        /\ \A o \in new : o[1] \in {"user", "account"}
  BY HandMadeFacts DEF insertDemoUsers
<1>2. /\ lbStep = step /\ lbStep' = next /\ script \in Running
      /\ UNCHANGED <<lbTuples, lbCatalog, manifest, script, staleKeys, leaving, lbRun>>
      /\ lbRows' = lbRows \cup new
      /\ ScriptFits' /\ SysadminFits' /\ HierarchyFits(lbRows', lbCatalog') /\ TuplesFit(lbRows', lbTuples')
  BY <1>1, InsertsFit
<1>3. \A o \in lbRows' : o[1] = "device" => ~isDemo(o)
  BY <1>1, <1>2 DEF LbInv, ClearingFits
<1> QED
  BY <1>1, <1>2, <1>3 DEF LbInv, ClearingFits, SeedingFits, CatalogFits, InstallationsFit, Running

LEMMA InsertHierarchyFits ==
  ASSUME LbInv, insertDemoHierarchy
  PROVE  LbInv'
<1>1. ASSUME NEW step, NEW next, NEW kind,
             CallDb(step, next, lbRows \cup {<<kind, lbRun>>}),
             \/ step = "insertFactories" /\ next = "insertDepartments" /\ kind = "factory"
             \/ step = "insertDepartments" /\ next = "insertDevices" /\ kind = "department"
      PROVE  LbInv'
  <2>1. /\ lbStep = step /\ lbStep' = next /\ script \in Running
        /\ UNCHANGED <<lbTuples, lbCatalog, manifest, script, staleKeys, leaving, lbRun>>
        /\ lbRows' = lbRows \cup {<<kind, lbRun>>}
        /\ ScriptFits' /\ SysadminFits' /\ HierarchyFits(lbRows', lbCatalog') /\ TuplesFit(lbRows', lbTuples')
    <3>1. step # "none" /\ \A o \in {<<kind, lbRun>>} : o[1] \in {"user", "account", "factory", "department"}
      BY <1>1
    <3> QED BY <1>1, <3>1, InsertsFit
  <2>2. \A o \in lbRows' : o[1] = "device" => ~isDemo(o)
    BY <1>1, <2>1 DEF LbInv, ClearingFits
  <2>3. SeedingFits' BY <1>1, <2>1 DEF LbInv, SeedingFits
  <2> QED
    BY <1>1, <2>1, <2>2, <2>3 DEF LbInv, ClearingFits, CatalogFits, InstallationsFit, Running
<1>2. ASSUME CallDb("insertDevices", "upsert", lbRows \cup {<<"device", lbRun>>}) PROVE LbInv'
  <2>1. /\ lbStep = "insertDevices" /\ lbStep' = "upsert" /\ lbRows' = lbRows \cup {<<"device", lbRun>>}
        /\ UNCHANGED <<lbTuples, lbCatalog, sysadmin, manifest, script, sysStep, staleKeys, leaving, lbRun, handMade>>
    BY <1>2 DEF CallDb
  <2>2. script \in Running /\ ScriptFits' /\ SysadminFits'
    BY <2>1, GoesOn DEF LbInv, ScriptFits
  <2>3. \A o \in lbRows : o[1] = "device" => ~isDemo(o)
    BY <2>1 DEF LbInv, ClearingFits
  <2>4. HierarchyFits(lbRows', lbCatalog')
    <3>1. <<"device", lbRun>>[1] = "device" /\ <<"device", lbRun>>[2] = lbRun
      OBVIOUS
    <3> QED BY <2>1, <2>3, <3>1 DEF LbInv, HierarchyFits, Kinds
  <2>5. TuplesFit(lbRows', lbTuples') BY <2>1 DEF LbInv, TuplesFit
  <2>6. SeedingFits' BY <2>1 DEF LbInv, SeedingFits
  <2> QED
    BY <2>1, <2>2, <2>4, <2>5, <2>6 DEF LbInv, ClearingFits, CatalogFits, InstallationsFit, Running
<1> QED BY <1>1, <1>2 DEF insertDemoHierarchy

LEMMA DesiredFacts ==
  ASSUME LbInv
  PROVE  /\ Desired = [k \in LbKeys |-> Desired[k]] /\ DOMAIN manifest \subseteq LbKeys
         /\ \A k \in DOMAIN manifest : Desired[k] # <<>>
         /\ \A k \in LbKeys \ DOMAIN manifest : Desired[k] = <<>>
<1>1. DOMAIN manifest \subseteq LbKeys
  BY LbAssumption DEF LbInv, ScriptFits
<1>2. Desired = [k \in LbKeys |-> IF k \in DOMAIN manifest THEN buildPermissionAssignments(manifest[k]) ELSE <<>>]
  BY DEF Desired, loadDeviceComponentManifestEntries
<1>3. ASSUME NEW m PROVE buildPermissionAssignments(m) # <<>>
  <2>1. \A r, w : [readActions |-> r, writeActions |-> w] # <<>>
    <3>1. \A r, w : "readActions" \in DOMAIN [readActions |-> r, writeActions |-> w]
      OBVIOUS
    <3>2. "readActions" \notin DOMAIN <<>> OBVIOUS
    <3> QED BY <3>1, <3>2
  <2> QED BY <2>1 DEF buildPermissionAssignments
<1> QED BY <1>1, <1>2, <1>3

LEMMA UpsertFits ==
  ASSUME LbInv, upsertCatalogEntries
  PROVE  LbInv'
<1> DEFINE stale == {k \in LbKeys : lbCatalog[k] # <<>> /\ Desired[k] = <<>>}
<1>1. PICK keys \in SUBSET DOMAIN manifest :
        /\ lbCatalog' = [k \in LbKeys |-> IF k \in keys THEN Desired[k] ELSE lbCatalog[k]]
        /\ IF keys = DOMAIN manifest
           THEN /\ lbStep' = IF stale = {} THEN "ensure" ELSE "staleTuples"
                /\ staleKeys' = stale
                /\ UNCHANGED <<script, sysStep, leaving>>
           ELSE Ends
  BY DEF upsertCatalogEntries, Desired
<1>2. lbStep = "upsert" /\ UNCHANGED <<lbRows, lbTuples, sysadmin, manifest, lbRun, handMade>>
  BY DEF upsertCatalogEntries
<1>3. lbCatalog' = [k \in LbKeys |-> lbCatalog'[k]] BY <1>1
<1>4. \A k \in LbKeys : lbCatalog[k] # <<>> => lbCatalog'[k] # <<>>
  BY <1>1, DesiredFacts
<1>5. HierarchyFits(lbRows', lbCatalog') /\ TuplesFit(lbRows', lbTuples')
  BY <1>2, <1>4 DEF LbInv, HierarchyFits
<1>6. CASE keys # DOMAIN manifest
  BY <1>1, <1>2, <1>3, <1>5, <1>6, EndsFits DEF LbInv, Ends, SysadminFits, ScriptFits
<1>7. CASE keys = DOMAIN manifest
  <2>1. /\ lbStep' = IF stale = {} THEN "ensure" ELSE "staleTuples"
        /\ staleKeys' = stale
        /\ UNCHANGED <<script, sysStep, leaving>>
    BY <1>1, <1>7
  <2>2. script \in Running /\ ScriptFits' /\ SysadminFits' /\ Desired' = Desired
    BY <1>2, <1>3, <2>1, GoesOn
  <2>3. \A k \in LbKeys : lbCatalog'[k] = IF k \in DOMAIN manifest THEN Desired[k] ELSE lbCatalog[k]
    BY <1>1, <1>7
  <2>4. stale = {k \in LbKeys : lbCatalog'[k] # <<>> /\ Desired[k] = <<>>}
    BY <2>3, DesiredFacts
  <2>5. CASE stale = {}
    <3>1. \A k \in LbKeys : lbCatalog'[k] = Desired[k]
      BY <2>3, <2>5, DesiredFacts
    <3>2. lbCatalog' = Desired BY <1>3, <3>1, DesiredFacts
    <3> QED BY <1>2, <1>5, <2>1, <2>2, <2>5, <3>2
      DEF LbInv, ClearingFits, SeedingFits, CatalogFits, InstallationsFit, Running
  <2>6. CASE stale # {}
    <3>1. lbStep' = "staleTuples" BY <2>1, <2>6
    <3>2. CatalogFits'
      <4>1. \A k \in DOMAIN manifest : lbCatalog'[k] = Desired[k]
        BY <2>3, DesiredFacts
      <4> HIDE DEF stale
      <4> QED BY <1>2, <2>1, <2>2, <2>4, <3>1, <4>1 DEF CatalogFits, Running
    <3> QED
      BY <1>2, <1>5, <2>1, <2>2, <3>1, <3>2 DEF LbInv, ClearingFits, SeedingFits, InstallationsFit, Running
  <2> QED BY <2>5, <2>6
<1> QED BY <1>6, <1>7

\* Installations whose catalog entry goes: their tuples, their rows, the entry.
LEMMA StaleFits ==
  ASSUME LbInv, removeStaleCatalogEntries
  PROVE  LbInv'
<1>1. ASSUME lbStep = "staleTuples",
             NEW some \in SUBSET StaleInstallations,
             lbTuples' = lbTuples \ StaleTuplesOf(some),
             IF some = StaleInstallations
             THEN lbStep' = "staleInstalls" /\ UNCHANGED <<script, sysStep, staleKeys, leaving>>
             ELSE Ends,
             UNCHANGED <<lbRows, lbCatalog, sysadmin, manifest, lbRun, handMade>>
      PROVE  LbInv'
  <2>1. TuplesFit(lbRows', lbTuples') /\ HierarchyFits(lbRows', lbCatalog')
    BY <1>1, FewerTuples DEF LbInv
  <2>2. CASE some # StaleInstallations
    BY <1>1, <2>1, <2>2, EndsFits DEF LbInv, Ends, SysadminFits, ScriptFits
  <2>3. CASE some = StaleInstallations
    <3>1. lbStep' = "staleInstalls" /\ UNCHANGED <<script, sysStep, staleKeys, leaving>>
      BY <1>1, <2>3
    <3>2. script \in Running /\ ScriptFits' /\ SysadminFits' /\ Desired' = Desired
      BY <1>1, <3>1, GoesOn DEF LbInv, ScriptFits
    <3>3. StaleInstallations' = StaleInstallations
      BY <1>1, <3>1 DEF StaleInstallations, ComponentRows
    <3>4. \A t \in lbTuples' : t.object \notin StaleInstallations
      BY <1>1, <2>3 DEF StaleTuplesOf
    <3> QED BY <1>1, <2>1, <3>1, <3>2, <3>3, <3>4
      DEF LbInv, ClearingFits, SeedingFits, CatalogFits, InstallationsFit, Running
  <2> QED BY <2>2, <2>3
<1>2. ASSUME CallDb("staleInstalls", "staleCatalog", lbRows \ StaleInstallations) PROVE LbInv'
  <2>1. /\ lbStep = "staleInstalls" /\ lbStep' = "staleCatalog" /\ lbRows' = lbRows \ StaleInstallations
        /\ UNCHANGED <<lbTuples, lbCatalog, sysadmin, manifest, script, sysStep, staleKeys, leaving, lbRun, handMade>>
    BY <1>2 DEF CallDb
  <2>2. script \in Running /\ ScriptFits' /\ SysadminFits' /\ Desired' = Desired
    BY <2>1, GoesOn DEF LbInv, ScriptFits
  <2>3. \A o \in StaleInstallations : o[1] = "component"
    BY DEF StaleInstallations, ComponentRows
  <2>4. \A o \in HandMade \cup DemoUsers : o \notin StaleInstallations
    BY <2>3, HandMadeFacts
  <2>5. HierarchyFits(lbRows', lbCatalog')
    <3>1. \A n : <<"device", n>>[1] = "device" OBVIOUS
    <3> QED BY <2>1, <2>3, <2>4, <3>1 DEF LbInv, HierarchyFits
  <2>6. TuplesFit(lbRows', lbTuples')
    <3>1. \A t \in lbTuples : t.object \notin StaleInstallations
      BY <2>1 DEF LbInv, CatalogFits
    <3> QED BY <2>1, <2>4, <3>1 DEF LbInv, TuplesFit
  <2>7. StaleInstallations' = {}
    BY <2>1 DEF StaleInstallations, ComponentRows
  <2>8. SeedingFits'
    <3>1. \A n : <<"factory", n>>[1] = "factory" /\ <<"department", n>>[1] = "department" /\ <<"device", n>>[1] = "device"
      OBVIOUS
    <3> QED BY <2>1, <2>3, <3>1 DEF LbInv, SeedingFits
  <2> QED
    BY <2>1, <2>2, <2>5, <2>6, <2>7, <2>8 DEF LbInv, ClearingFits, CatalogFits, InstallationsFit, Running
<1>3. ASSUME lbStep = "staleCatalog",
             lbCatalog' = [k \in LbKeys |-> IF k \in staleKeys THEN <<>> ELSE lbCatalog[k]],
             lbRows' = lbRows \ StaleInstallations,
             lbStep' = "ensure", staleKeys' = {},
             UNCHANGED <<lbTuples, sysadmin, manifest, script, sysStep, leaving, lbRun, handMade>>
      PROVE  LbInv'
  <2>1. StaleInstallations = {} /\ lbRows' = lbRows
    BY <1>3 DEF LbInv, CatalogFits
  <2>2. script \in Running /\ ScriptFits' /\ SysadminFits' /\ Desired' = Desired
    BY <1>3, GoesOn
  <2>3. /\ \A k \in DOMAIN manifest : lbCatalog[k] = Desired[k]
        /\ staleKeys = {k \in LbKeys : lbCatalog[k] # <<>> /\ Desired[k] = <<>>}
    BY <1>3 DEF LbInv, CatalogFits
  <2>4. \A k \in LbKeys : lbCatalog'[k] = Desired[k]
    BY <1>3, <2>3, DesiredFacts
  <2>5. lbCatalog' = Desired BY <1>3, <2>4, DesiredFacts
  <2>6. HierarchyFits(lbRows', lbCatalog')
    <3>1. \A o \in lbRows : o[1] = "component" => o[3] \notin staleKeys
      BY <2>1 DEF StaleInstallations, ComponentRows
    <3> QED BY <1>3, <2>1, <3>1 DEF LbInv, HierarchyFits
  <2>7. TuplesFit(lbRows', lbTuples') BY <1>3, <2>1 DEF LbInv
  <2> QED BY <1>3, <2>1, <2>2, <2>5, <2>6, <2>7
    DEF LbInv, ClearingFits, SeedingFits, CatalogFits, InstallationsFit, Running
<1> QED BY <1>1, <1>2, <1>3 DEF removeStaleCatalogEntries

LEMMA EnsureFits ==
  ASSUME LbInv, ensureDeviceInstallations
  PROVE  LbInv'
<1>1. ASSUME CallDb("ensure", "ensureTuples", lbRows \cup MissingInstallations) PROVE LbInv'
  <2>1. /\ lbStep = "ensure" /\ lbStep' = "ensureTuples" /\ lbRows' = lbRows \cup MissingInstallations
        /\ UNCHANGED <<lbTuples, lbCatalog, sysadmin, manifest, script, sysStep, staleKeys, leaving, lbRun, handMade>>
    BY <1>1 DEF CallDb
  <2>2. script \in Running /\ ScriptFits' /\ SysadminFits' /\ Desired' = Desired
    BY <2>1, GoesOn DEF LbInv, ScriptFits
  <2>3. \A o \in MissingInstallations : /\ o[1] = "component" /\ o[3] \in DOMAIN manifest
                                        /\ \E d \in lbRows : d[1] = "device" /\ o[2] = d[2]
    BY DEF MissingInstallations, DevicesIn
  <2>4. lbCatalog = Desired BY <2>1 DEF LbInv, CatalogFits
  <2>5. HierarchyFits(lbRows', lbCatalog')
    <3>1. \A o \in MissingInstallations : o[1] = "component" /\ <<"device", o[2]>> \in lbRows
                                          /\ o[3] \in LbKeys /\ lbCatalog[o[3]] # <<>>
      <4> SUFFICES ASSUME NEW o \in MissingInstallations
                   PROVE  o[1] = "component" /\ <<"device", o[2]>> \in lbRows /\ o[3] \in LbKeys /\ lbCatalog[o[3]] # <<>>
        OBVIOUS
      <4>1. PICK d \in lbRows : d[1] = "device" /\ o[2] = d[2] BY <2>3
      <4>2. d = <<"device", o[2]>> BY <4>1 DEF LbInv, HierarchyFits
      <4>3. o[3] \in DOMAIN manifest /\ o[1] = "component" BY <2>3
      <4> QED BY <2>4, <4>2, <4>3, DesiredFacts
    <3> QED BY <2>1, <3>1 DEF LbInv, HierarchyFits, Kinds
  <2>6. TuplesFit(lbRows', lbTuples') BY <2>1 DEF LbInv, TuplesFit
  <2>7. ASSUME NEW d \in lbRows', d[1] = "device", NEW k \in DOMAIN manifest
        PROVE  \E o \in lbRows' : o[1] = "component" /\ o[2] = d[2] /\ o[3] = k
    <3>1. d \in DevicesIn(lbRows) BY <2>1, <2>3, <2>7 DEF DevicesIn
    <3> DEFINE made == <<"component", d[2], k, lbRun>>
    <3>2. made[1] = "component" /\ made[2] = d[2] /\ made[3] = k OBVIOUS
    <3>3. CASE made \in MissingInstallations BY <2>1, <3>2, <3>3
    <3>4. CASE made \notin MissingInstallations
      <4>1. PICK o \in ComponentRows(lbRows) : made = <<"component", o[2], o[3], lbRun>>
        BY <3>1, <3>4 DEF MissingInstallations
      <4>2. o \in lbRows' /\ o[1] = "component" /\ o[2] = d[2] /\ o[3] = k
        BY <2>1, <4>1 DEF ComponentRows
      <4> QED BY <4>2
    <3> QED BY <3>3, <3>4
  <2>8. SeedingFits' BY <2>1 DEF LbInv, SeedingFits
  <2>9. InstallationsFit'
    BY <2>1, <2>2, <2>7 DEF InstallationsFit, Running
  <2> QED
    BY <2>1, <2>2, <2>4, <2>5, <2>6, <2>8, <2>9 DEF LbInv, ClearingFits, CatalogFits
<1>2. ASSUME writeTupleChunks("ensureTuples", AfterSync, {},
                              {ParentTuple(o, <<"device", o[2]>>) : o \in ComponentRows(lbRows)})
      PROVE  LbInv'
  <2> DEFINE new == {ParentTuple(o, <<"device", o[2]>>) : o \in ComponentRows(lbRows)}
  <2>1. TuplesFit(lbRows, new)
    <3> SUFFICES ASSUME NEW o \in lbRows, o[1] = "component"
                 PROVE  isDemo(o) \/ <<"device", o[2]>> \in HandMade
      BY DEF TuplesFit, ParentTuple, LbTuple, ComponentRows
    <3> QED BY DEF isDemo, HandMade
  <2>2. /\ lbStep = "ensureTuples" /\ TuplesFit(lbRows, lbTuples')
        /\ UNCHANGED <<lbRows, lbCatalog, sysadmin, manifest, lbRun, handMade>>
    BY <1>2, <2>1, ChunksFit
  <2>3. \/ LbInv'
        \/ /\ lbTuples' = (lbTuples \ {}) \cup new /\ lbStep' = AfterSync
           /\ UNCHANGED <<script, sysStep, staleKeys>>
    BY <1>2, <2>1, ChunksFit
  <2> SUFFICES ASSUME lbTuples' = lbTuples \cup new, lbStep' = AfterSync, UNCHANGED <<script, sysStep, staleKeys>>
               PROVE  LbInv'
    BY <2>3
  <2>4. script \in Running /\ ScriptFits' /\ SysadminFits' /\ Desired' = Desired
    BY <2>2, GoesOn DEF LbInv, ScriptFits
  <2>5. lbStep' \in {"demoTuples", "report"} /\ (lbStep' = "demoTuples" => script = "seed")
    BY DEF AfterSync
  <2>6. \A o \in lbRows : o[1] = "component" => ParentTuple(o, <<"device", o[2]>>) \in lbTuples'
    BY DEF ComponentRows
  <2> HIDE DEF new
  <2>7. InstallationsFit' BY <2>2, <2>6 DEF LbInv, InstallationsFit
  <2>8. SeedingFits' BY <2>2, <2>5 DEF LbInv, SeedingFits
  <2>9. CatalogFits' BY <2>2, <2>4, <2>5 DEF LbInv, CatalogFits
  <2>10. HierarchyFits(lbRows', lbCatalog') /\ TuplesFit(lbRows', lbTuples')
    BY <2>2 DEF LbInv
  <2>11. ClearingFits' BY <2>5 DEF ClearingFits
  <2> QED BY <2>4, <2>7, <2>8, <2>9, <2>10, <2>11 DEF LbInv
<1> QED BY <1>1, <1>2 DEF ensureDeviceInstallations

\* The tuples of a seeding are about its own objects.
LEMMA AccessIsOfTheDemo ==
  ASSUME NEW f, NEW g, NEW d, NEW components, NEW writer, writer \subseteq components, NEW group
  PROVE  \A t \in DemoAccess(f, g, d, components, writer, group) : t.object \in {f, g, d} \cup components
<1> DEFINE here == {f, g, d} \cup components
<1>1. \A o, r, u : LbTuple(o, r, u).object = o BY DEF LbTuple
<1>2. \A o, u : \A t \in ParentTupleKeys(o, u) : t.object \in {o, u}
  BY <1>1 DEF ParentTupleKeys, ParentTuple
<1> SUFFICES ASSUME NEW t \in DemoAccess(f, g, d, components, writer, group), t.object \notin here PROVE FALSE
  OBVIOUS
<1>3. /\ \A r, u : t # LbTuple(f, r, u) /\ t # LbTuple(g, r, u) /\ t # LbTuple(d, r, u)
      /\ \A c \in components : \A r, u : t # LbTuple(c, r, u)
      /\ t \notin ParentTupleKeys(g, f) /\ t \notin ParentTupleKeys(d, g)
      /\ \A c \in components : t \notin ParentTupleKeys(c, d)
  BY <1>1, <1>2
<1> QED BY <1>3 DEF DemoAccess

LEMMA DemoTuplesFit ==
  ASSUME LbInv, WriteDemoTuples
  PROVE  LbInv'
<1>1. PICK pick \in {0, 1} : writeTupleChunks("demoTuples", "report", {}, buildDemoAuthzTuples(pick))
  BY DEF WriteDemoTuples
<1> DEFINE new == buildDemoAuthzTuples(pick)
           f == <<"factory", lbRun>>
           g == <<"department", lbRun>>
           d == <<"device", lbRun>>
           components == {o \in ComponentRows(lbRows) : o[2] = lbRun}
<1>2. lbStep = "demoTuples" BY <1>1 DEF writeTupleChunks
<1>3. script = "seed" /\ lbRun # 0 /\ {f, g, d} \subseteq lbRows
  BY <1>2 DEF LbInv, SeedingFits, ScriptFits, Running
<1>4. \A t \in new : t.object \in {f, g, d} \cup components
  <2> DEFINE writer == {c \in components : \A o \in components : o = c \/ pick = 0}
             group == buildDemoUserGroups(pick)
  <2>1. new = DemoAccess(f, g, d, components, writer, group) /\ writer \subseteq components
    BY DEF buildDemoAuthzTuples
  <2> HIDE DEF new, f, g, d, components, writer, group
  <2> QED BY <2>1, AccessIsOfTheDemo
<1>5. \A o \in {f, g, d} \cup components : o \in lbRows /\ o[2] = lbRun /\ o[1] \notin {"user", "account"}
  BY <1>3 DEF ComponentRows
<1> HIDE DEF new, f, g, d, components
<1>6. TuplesFit(lbRows, new) BY <1>3, <1>4, <1>5 DEF TuplesFit, isDemo
<1>7. /\ TuplesFit(lbRows, lbTuples')
      /\ UNCHANGED <<lbRows, lbCatalog, sysadmin, manifest, lbRun, handMade>>
  BY <1>1, <1>6, ChunksFit DEF new
<1>8. \/ LbInv'
      \/ /\ lbTuples' = (lbTuples \ {}) \cup new /\ lbStep' = "report"
         /\ UNCHANGED <<script, sysStep, staleKeys>>
  BY <1>1, <1>6, ChunksFit DEF new
<1> SUFFICES ASSUME lbTuples' = lbTuples \cup new, lbStep' = "report", UNCHANGED <<script, sysStep, staleKeys>>
             PROVE  LbInv'
  BY <1>8
<1>9. ScriptFits' /\ SysadminFits' /\ Desired' = Desired
  BY <1>2, <1>7, GoesOn DEF LbInv, ScriptFits
<1>10. HierarchyFits(lbRows', lbCatalog') /\ TuplesFit(lbRows', lbTuples')
  BY <1>7 DEF LbInv
<1>11. InstallationsFit' BY <1>2, <1>7 DEF LbInv, InstallationsFit
<1>12. CatalogFits' BY <1>2, <1>7, <1>9 DEF LbInv, CatalogFits
<1> QED BY <1>9, <1>10, <1>11, <1>12 DEF LbInv, ClearingFits, SeedingFits

LEMMA ByHandFits ==
  ASSUME LbInv, ByHand
  PROVE  LbInv'
<1>1. /\ script' = "none" /\ handMade' = handMade + 1 /\ handMade < MaxHandMade /\ script \in {"none", "finished"}
      /\ UNCHANGED <<lbRows, lbCatalog, lbStep, sysStep, staleKeys, leaving, lbRun>>
  BY DEF ByHand
<1>2. handMade' \in 0..MaxHandMade
  BY <1>1, LbAssumption DEF LbInv, ScriptFits
<1>3. lbStep' = "none" /\ sysStep' = "none"
  BY <1>1 DEF LbInv, ScriptFits, Running
<1>4. manifest' \in Manifests BY DEF ByHand, LbInv, ScriptFits
<1>5. sysadmin' \in [row : BOOLEAN, credential : BOOLEAN, banned : BOOLEAN]
  BY DEF ByHand, LbInv, SysadminFits
<1>6. TuplesFit(lbRows, lbTuples')
  <2> SUFFICES ASSUME NEW o \in DevicesIn(lbRows) \cup ComponentRows(lbRows), NEW s \in {0, 9}, NEW r,
                      <<"user", s>> \in lbRows
               PROVE  TuplesFit(lbRows, lbTuples \cup {LbTuple(o, r, <<"user", s>>)})
    BY DEF ByHand, LbInv
  <2>1. <<"user", s>> \in HandMade \/ <<"user", s>> \in DemoUsers
    BY DEF HandMade, DemoUsers
  <2>2. o \in lbRows /\ o[1] \notin {"user", "account"}
    BY DEF DevicesIn, ComponentRows
  <2>3. LbTuple(o, r, <<"user", s>>).object = o /\ LbTuple(o, r, <<"user", s>>).user = <<"user", s>>
    BY DEF LbTuple
  <2>4. TuplesFit(lbRows, {LbTuple(o, r, <<"user", s>>)})
    BY <2>1, <2>2, <2>3 DEF TuplesFit
  <2> QED BY <2>4, MoreTuples DEF LbInv
<1>7. lbCatalog' = [k \in LbKeys |-> lbCatalog'[k]] /\ lbRun' \in 0..MaxScripts /\ HierarchyFits(lbRows', lbCatalog')
      /\ TuplesFit(lbRows', lbTuples')
  BY <1>1, <1>6 DEF LbInv, ScriptFits
<1> QED BY <1>1, <1>2, <1>3, <1>4, <1>5, <1>7, EndsFits

LEMMA LbStepFits ==
  ASSUME LbInv, [LbNext]_lbVars
  PROVE  LbInv'
<1>1. CASE UNCHANGED lbVars
  <2>1. Desired' = Desired /\ StaleInstallations' = StaleInstallations
    BY <1>1 DEF lbVars, Desired, loadDeviceComponentManifestEntries, StaleInstallations, ComponentRows
  <2>2. HierarchyFits(lbRows, lbCatalog)' /\ TuplesFit(lbRows, lbTuples)' /\ ClearingFits' /\ SeedingFits'
    BY <1>1 DEF lbVars, LbInv, ClearingFits, SeedingFits, HierarchyFits, TuplesFit
  <2>3. CatalogFits' /\ InstallationsFit'
    BY <1>1, <2>1 DEF lbVars, LbInv, CatalogFits, InstallationsFit
  <2>4. SysadminFits' /\ ScriptFits'
    BY <1>1 DEF lbVars, LbInv, SysadminFits, ScriptFits
  <2> QED BY <2>2, <2>3, <2>4 DEF LbInv
<1>2. CASE ManifestThrows \/ ScriptDies
  BY <1>2, EndsFits DEF LbInv, ManifestThrows, ScriptDies, Ends, SysadminFits, ScriptFits
<1>3. CASE Rests
  <2>1. lbStep' = "none" /\ sysStep' = "none"
    BY <1>3 DEF Rests, LbInv, ScriptFits, Running
  <2> QED BY <1>3, <2>1, EndsFits DEF LbInv, Rests, SysadminFits, ScriptFits
<1>4. CASE Finish
  <2>1. /\ lbStep = "report" /\ sysStep = "done" /\ script' = "finished" /\ lbStep' = "none" /\ sysStep' = "none"
        /\ UNCHANGED <<lbRows, lbTuples, lbCatalog, sysadmin, manifest, staleKeys, leaving, lbRun, handMade>>
    BY <1>4 DEF Finish
  <2>2. Desired' = Desired
    BY <2>1 DEF Desired, loadDeviceComponentManifestEntries
  <2>3. ScriptFits' /\ SysadminFits'
    BY <2>1 DEF LbInv, ScriptFits, SysadminFits, Running
  <2>4. CatalogFits' /\ InstallationsFit'
    BY <2>1, <2>2 DEF LbInv, CatalogFits, InstallationsFit
  <2> QED BY <2>1, <2>3, <2>4 DEF LbInv, ClearingFits, SeedingFits
<1> QED
  BY <1>1, <1>2, <1>3, <1>4, StartFits, SysadminStep, ClearFits, DeleteTuplesFits, DeleteRowsFits, InsertUsersFits,
     InsertHierarchyFits, UpsertFits, StaleFits, EnsureFits, DemoTuplesFit, ByHandFits DEF LbNext, Running

LEMMA LbInvEnough == LbInv => LbTypeOK /\ BootstrapConverges
<1> SUFFICES ASSUME LbInv PROVE LbTypeOK /\ BootstrapConverges
  OBVIOUS
<1>1. LbTypeOK
  BY DEF LbTypeOK, LbInv, ScriptFits, SysadminFits, HierarchyFits, TuplesFit, Kinds, Running
<1>2. \A t \in lbTuples : t.object \in lbRows /\ (t.user \in lbRows \/ isDemo(t.object))
  BY DEF LbInv, TuplesFit, HierarchyFits
<1>3. Cardinality({o \in lbRows : isDemo(o) /\ o[1] = "device"}) <= 1
  <2> DEFINE S == {o \in lbRows : isDemo(o) /\ o[1] = "device"}
  <2>1. \A x, y \in S : x = y BY DEF LbInv, HierarchyFits
  <2>2. CASE S = {} BY <2>2, FS_EmptySet
  <2>3. ASSUME NEW x \in S PROVE Cardinality(S) <= 1
    <3>1. S = {x} BY <2>1
    <3>2. Cardinality({x}) = 1 BY FS_Singleton
    <3> QED BY <3>1, <3>2
  <2> QED BY <2>2, <2>3
<1>4. ASSUME script = "finished"
      PROVE  {<<o[2], o[3]>> : o \in ComponentRows(lbRows)} = {d[2] : d \in DevicesIn(lbRows)} \X DOMAIN manifest
  <2>1. lbCatalog = Desired BY <1>4 DEF LbInv, CatalogFits
  <2>2. ASSUME NEW o \in lbRows, o[1] = "component"
        PROVE  <<"device", o[2]>> \in DevicesIn(lbRows) /\ o[3] \in DOMAIN manifest
    <3>1. <<"device", o[2]>> \in lbRows /\ o[3] \in LbKeys /\ lbCatalog[o[3]] # <<>>
      BY <2>2 DEF LbInv, HierarchyFits
    <3> QED BY <2>1, <3>1, DesiredFacts DEF DevicesIn
  <2>3. ASSUME NEW d \in lbRows, d[1] = "device", NEW k \in DOMAIN manifest
        PROVE  \E o \in ComponentRows(lbRows) : <<o[2], o[3]>> = <<d[2], k>>
    BY <1>4, <2>3 DEF LbInv, InstallationsFit, ComponentRows
  <2>4. ASSUME NEW o \in ComponentRows(lbRows)
        PROVE  o[2] \in {d[2] : d \in DevicesIn(lbRows)} /\ o[3] \in DOMAIN manifest
    <3>1. <<"device", o[2]>> \in DevicesIn(lbRows) /\ <<"device", o[2]>>[2] = o[2] /\ o[3] \in DOMAIN manifest
      BY <2>2 DEF ComponentRows
    <3> QED BY <3>1
  <2>5. \A d \in DevicesIn(lbRows), k \in DOMAIN manifest :
          \E o \in ComponentRows(lbRows) : <<o[2], o[3]>> = <<d[2], k>>
    BY <2>3 DEF DevicesIn
  <2> DEFINE C == ComponentRows(lbRows)
             D == DevicesIn(lbRows)
             M == DOMAIN manifest
  <2> HIDE DEF C, D, M
  <2>6. (\A o \in C : o[2] \in {d[2] : d \in D} /\ o[3] \in M)
        /\ (\A d \in D, k \in M : \E o \in C : <<o[2], o[3]>> = <<d[2], k>>)
    BY <2>4, <2>5 DEF C, D, M
  <2>7. {<<o[2], o[3]>> : o \in C} = {d[2] : d \in D} \X M BY <2>6
  <2> QED BY <2>7 DEF C, D, M
<1>5. ASSUME script = "finished"
      PROVE  /\ lbCatalog = loadDeviceComponentManifestEntries
             /\ \A o \in ComponentRows(lbRows) : ParentTuple(o, <<"device", o[2]>>) \in lbTuples
             /\ sysadmin = [row |-> TRUE, credential |-> TRUE, banned |-> FALSE]
  BY <1>5 DEF LbInv, CatalogFits, InstallationsFit, SysadminFits, ComponentRows, Desired
<1> QED BY <1>1, <1>2, <1>3, <1>4, <1>5 DEF BootstrapConverges

-----------------------------------------------------------------------------
(* Rows and tuples of access control                                       *)

\* The rows that have a parent column, and the jobs that write it.
Kin == AcDepartments \cup AcDevices
Parenting == {"createDepartment", "updateDepartment", "createDevice", "updateDevice"}

\* The two tuples that give o the parent p.
Up(o, p) == Tuple(o, "parent", p) \in tuples
Down(o, p) == Tuple(p, "child", o) \in tuples

\* What a request of each job is about.
Asks(r) ==
    /\ r.job \in {"createDepartment", "updateDepartment"} => r.o \in AcDepartments /\ r.to \in AcFactories
    /\ r.job \in {"createDevice", "updateDevice"} => r.o \in AcDevices /\ r.to \in AcDepartments
    /\ r.job = "deleteDevice" => r.o \in AcDevices
    /\ r.job = "setInstallationState" => r.o \in AcDevices /\ r.to \in {"on", "off"}
    /\ r.job = "assignment" => /\ r.o \in AcObjects /\ r.user \in AcUsers
                               /\ r.to # NoParent => r.to \in DirectRelations(r.o)

Jobs == {"none", "createDepartment", "updateDepartment", "createDevice", "updateDevice", "deleteDevice",
         "createCatalogEntry", "setInstallationState", "assignment"}

AcRequests == [job : Jobs, o : AcObjects \cup {NoParent},
               to : AcFactories \cup AcDepartments \cup {NoParent, "on", "off", "admin", "viewer", "reader", "writer"},
               user : AcUsers \cup {NoParent}, by : AcUsers \cup {NoParent, Sysadmin}, at : 1..6]

RequestsAsk ==
    /\ acTodo \in [AcSlots -> AcRequests]
    /\ seen \in [AcSlots -> SUBSET (TupleKeys \cup AcDevices)]
    /\ \A s \in AcSlots : Asks(acTodo[s])

\* A parent tuple of a department or device always has its child tuple; those of a component only
\* name its own device, and a child tuple has its parent tuple.
PairsFit ==
    /\ \A o \in Kin : \A p \in AcObjects \cup AcUsers :
        /\ Up(o, p) <=> Down(o, p)
        /\ Up(o, p) => p \in AcFactories \cup AcDepartments
    /\ \A d \in AcDevices : \A p \in AcObjects \cup AcUsers :
        (Up(Comp(d), p) => p = d) /\ (Down(Comp(d), p) => p = d /\ Up(Comp(d), p))

\* An object whose requests do not overlap now has at most one.
Sole(o) == o \notin disturbed \/ o \notin crossed
SoleFits ==
    \A o \in AcObjects : Sole(o) =>
        \A s, z \in AcSlots : o \in Touches(acTodo[s]) /\ o \in Touches(acTodo[z]) => s = z

\* What a request has read is its own object's; without overlap it is what the store still holds,
\* child tuples aside.
SeenFit(s, r) ==
    /\ NextCall(r) \in {"reparent", "forget", "grant"} =>
        /\ \A t \in seen[s] : t \in TupleKeys /\ t.object = r.o
        /\ Sole(r.o) => \A t \in TupleKeys : t.object = r.o /\ t.relation # "child" => (t \in seen[s] <=> t \in tuples)
    /\ NextCall(r) \in {"unlink", "install", "link"} => seen[s] \subseteq Named(r) \cap AcDevices
SeenFits == \A s \in AcSlots : acTodo[s].job # "none" => SeenFit(s, acTodo[s])

\* The parent row of o is written and its tuples are not yet, or the other way round.
Rewrites(r, o) == r.o = o /\ r.job \in Parenting /\ NextCall(r) \in {"read", "reparent"}
Deletes(r, o) == r.o = o /\ r.job = "deleteDevice" /\ NextCall(r) = "delete"
RowMirrored(o) ==
    /\ \A s \in AcSlots : Rewrites(acTodo[s], o) => rowParent[o] = acTodo[s].to
    /\ \A s \in AcSlots : Deletes(acTodo[s], o) => \A p \in AcObjects \cup AcUsers : ~Up(o, p)
    /\ (\A s \in AcSlots : ~Rewrites(acTodo[s], o) /\ ~Deletes(acTodo[s], o))
         => \A p \in AcObjects \cup AcUsers : Up(o, p) <=> (p = rowParent[o] /\ p # NoParent)
RowsMirrored == \A o \in Kin : o \notin disturbed => RowMirrored(o)

\* The same of the installation on d.
Links(s, d) == acTodo[s].job # "none" /\ NextCall(acTodo[s]) = "link" /\ d \in seen[s]
Unlinked(r, d) == r.o = d /\ r.job = "deleteDevice" /\ NextCall(r) \in {"read", "forget", "delete"}
Whole(d) == installed[d] # "none" /\ d \notin bare
InstallMirrored(d) ==
    /\ \A s \in AcSlots : Links(s, d) => Whole(d)
    /\ \A s \in AcSlots : Unlinked(acTodo[s], d) => ~Up(Comp(d), d) /\ ~Down(Comp(d), d)
    /\ \A s \in AcSlots : acTodo[s].o = d /\ acTodo[s].job = "deleteDevice" /\ NextCall(acTodo[s]) = "unlink"
                            => (d \in seen[s] <=> installed[d] # "none")
    /\ (\A s \in AcSlots : ~Links(s, d) /\ ~Unlinked(acTodo[s], d))
         => (Up(Comp(d), d) <=> installed[d] # "none") /\ (Down(Comp(d), d) <=> Whole(d))
InstallsMirrored == \A d \in AcDevices : Comp(d) \notin disturbed => InstallMirrored(d)

\* Without overlap a user holds one relation on an object.
OneRelation == \A o \in AcObjects : o \notin crossed =>
    \A u \in AcUsers : \A q, r \in DirectRelations(o) : Direct(tuples, u, q, o) /\ Direct(tuples, u, r, o) => q = r

AcInv == AcTypeOK /\ RequestsAsk /\ PairsFit /\ SoleFits /\ SeenFits /\ RowsMirrored /\ InstallsMirrored /\ OneRelation

-----------------------------------------------------------------------------
LEMMA CompFacts ==
    /\ \A d, e : Comp(d) = Comp(e) => d = e
    /\ \A d : Comp(d)[2] = d
    /\ \A d \in AcDevices : Comp(d) \in Components /\ Comp(d) \in AcObjects /\ Comp(d) \notin Kin /\ Comp(d) \notin AcFactories
    /\ \A o \in Components : \E d \in AcDevices : o = Comp(d)
    /\ AcObjects = AcFactories \cup Kin \cup Components
<1>1. \A d, e : Comp(d) = Comp(e) => d = e BY DEF Comp
<1>2. \A d : Comp(d)[2] = d BY DEF Comp
<1>3. \A d \in AcDevices : Comp(d) \in Components BY DEF Components
<1>4. \A o \in Components : \E d \in AcDevices : o = Comp(d) BY DEF Components
<1>5. AcObjects = AcFactories \cup Kin \cup Components BY DEF AcObjects, Kin
<1>6. Components \cap (AcFactories \cup Kin) = {} BY AcAssumption DEF Kin
<1> QED BY <1>1, <1>2, <1>3, <1>4, <1>5, <1>6

\* Two tuples are the same when their fields are.
LEMMA TupleFacts ==
    /\ \A o, r, u, o2, r2, u2 : Tuple(o, r, u) = Tuple(o2, r2, u2) <=> o = o2 /\ r = r2 /\ u = u2
    /\ \A o, r, u : Tuple(o, r, u).object = o /\ Tuple(o, r, u).relation = r /\ Tuple(o, r, u).user = u
    /\ \A t \in TupleKeys : t = Tuple(t.object, t.relation, t.user) /\ t.object \in AcObjects
                            /\ t.user \in AcObjects \cup AcUsers
    /\ \A o \in AcObjects, u \in AcObjects \cup AcUsers :
          Tuple(o, "parent", u) \in TupleKeys /\ Tuple(o, "child", u) \in TupleKeys
  BY DEF Tuple, TupleKeys

\* What a request touches.
LEMMA RequestTouches ==
    ASSUME NEW r \in AcRequests, Asks(r)
    PROVE  /\ r.job = "none" => Touches(r) = {}
           /\ Named(r) \subseteq AcObjects /\ Touches(r) \subseteq AcObjects
           /\ \A o \in Kin \cup AcFactories : o \in Touches(r) <=> o \in Named(r)
           /\ \A d \in AcDevices : Comp(d) \in Touches(r) <=> (d \in Named(r) \/ Comp(d) \in Named(r))
           /\ r.job \notin {"none", "createCatalogEntry"} => Named(r) = {r.o} /\ r.o \in AcObjects
           /\ r.job = "createCatalogEntry" => Named(r) = AcDevices
           /\ \A q : q.job = r.job /\ q.o = r.o => Touches(q) = Touches(r) /\ Named(q) = Named(r)
<1>1. r.job \in Jobs BY DEF AcRequests
<1>2. /\ r.job = "none" => Named(r) = {}
      /\ r.job \notin {"none", "createCatalogEntry"} => Named(r) = {r.o}
      /\ r.job = "createCatalogEntry" => Named(r) = AcDevices
  BY <1>1 DEF Named
<1>3. r.job \notin {"none", "createCatalogEntry"} => r.o \in AcObjects
  BY <1>1 DEF Asks, Jobs, AcObjects
<1>4. Named(r) \subseteq AcObjects BY <1>2, <1>3, <1>1 DEF AcObjects
<1>5. \A o : o \in Touches(r) <=> (o \in Named(r) \/ \E d \in Named(r) \cap AcDevices : o = Comp(d))
  BY DEF Touches
<1>6. ASSUME NEW q, q.job = r.job, q.o = r.o PROVE Touches(q) = Touches(r) /\ Named(q) = Named(r)
  BY <1>6 DEF Touches, Named
<1>7. Touches(r) \subseteq AcObjects BY <1>4, <1>5, CompFacts
<1>8. \A o \in Kin \cup AcFactories : o \in Touches(r) <=> o \in Named(r)
  BY <1>5, CompFacts
<1>9. \A d \in AcDevices : Comp(d) \in Touches(r) <=> (d \in Named(r) \/ Comp(d) \in Named(r))
  BY <1>5, CompFacts
<1>10. r.job = "none" => Touches(r) = {} BY <1>2, <1>5
<1> QED BY <1>2, <1>3, <1>4, <1>6, <1>7, <1>8, <1>9, <1>10

LEMMA IdleFacts ==
    /\ AcIdle \in AcRequests /\ AcIdle.job = "none" /\ Asks(AcIdle) /\ Touches(AcIdle) = {}
<1>1. AcIdle \in AcRequests /\ AcIdle.job = "none"
  BY DEF AcIdle, Request, AcRequests, Jobs
<1>2. Asks(AcIdle) BY <1>1 DEF Asks
<1> QED BY <1>1, <1>2, RequestTouches

\* The call after each call.
Goes(n, r, call) == n.job = r.job /\ n.o = r.o /\ n.to = r.to /\ n.user = r.user /\ n.by = r.by
                    /\ n.at \in DOMAIN CallsOf(n.job) /\ NextCall(n) = call /\ n \in AcRequests
LEMMA CallTable ==
    ASSUME NEW r \in AcRequests, r.job # "none", r.at \in DOMAIN CallsOf(r.job)
    PROVE  LET n == AfterCall(r) IN
           /\ NextCall(r) \in {"insert", "update"} => r.job \in Parenting /\ Goes(n, r, "read")
           /\ NextCall(r) = "read" =>
                \/ r.job \in Parenting /\ Goes(n, r, "reparent")
                \/ r.job = "deleteDevice" /\ Goes(n, r, "forget")
                \/ r.job = "assignment" /\ Goes(n, r, "grant")
           /\ NextCall(r) = "reparent" => r.job \in Parenting /\ (n = AcIdle \/ Goes(n, r, "catalog"))
           /\ NextCall(r) = "forget" => r.job = "deleteDevice" /\ Goes(n, r, "delete")
           /\ NextCall(r) = "grant" => r.job = "assignment" /\ n = AcIdle
           /\ NextCall(r) = "check" => r.job = "assignment" /\ Goes(n, r, "read")
           /\ NextCall(r) = "catalog" => r.job = "createDevice" /\ Goes(n, r, "install")
           /\ NextCall(r) = "devices" => r.job = "createCatalogEntry" /\ Goes(n, r, "install")
           /\ NextCall(r) = "rows" => r.job = "deleteDevice" /\ Goes(n, r, "unlink")
           /\ NextCall(r) = "entry" => r.job = "createCatalogEntry" /\ Goes(n, r, "devices")
           /\ NextCall(r) = "install" => r.job \in {"createDevice", "createCatalogEntry"} /\ Goes(n, r, "link")
           /\ NextCall(r) = "enable" => r.job = "setInstallationState" /\ Goes(n, r, "link")
           /\ NextCall(r) = "link" => r.job \in {"createDevice", "createCatalogEntry", "setInstallationState"} /\ n = AcIdle
           /\ NextCall(r) = "unlink" => r.job = "deleteDevice" /\ Goes(n, r, "read")
           /\ NextCall(r) = "delete" => r.job = "deleteDevice"
<1> DEFINE n == AfterCall(r)
<1> HIDE DEF n
<1>1. n = IF r.at = Len(CallsOf(r.job)) THEN AcIdle ELSE [r EXCEPT !.at = r.at + 1]
  BY DEF n, AfterCall
<1>2. NextCall(r) = CallsOf(r.job)[r.at] /\ NextCall(n) = CallsOf(n.job)[n.at]
  BY DEF NextCall
<1>3. r.at \in 1..6 /\ r.job \in Jobs BY DEF AcRequests
<1>4. ASSUME r.at + 1 \in 1..6, r.at # Len(CallsOf(r.job))
      PROVE  n.job = r.job /\ n.o = r.o /\ n.to = r.to /\ n.user = r.user /\ n.by = r.by /\ n.at = r.at + 1 /\ n \in AcRequests
  BY <1>1, <1>4 DEF AcRequests
<1>5. ASSUME NEW call, NEW C, CallsOf(r.job) = C, r.at + 1 \in DOMAIN C, r.at + 1 \in 1..6, r.at # Len(C), C[r.at + 1] = call
      PROVE  Goes(n, r, call)
  BY <1>4, <1>5, <1>2 DEF Goes
<1>6. CASE r.job = "createDepartment"
  <2>1. CallsOf(r.job) = <<"insert", "read", "reparent">> BY <1>6 DEF CallsOf
  <2>2. r.at = 1 \/ r.at = 2 \/ r.at = 3 BY <2>1
  <2>3. CASE r.at = 1 BY <2>1, <2>3, <1>5, <1>2, <1>6 DEF n, Parenting
  <2>4. CASE r.at = 2 BY <2>1, <2>4, <1>5, <1>2, <1>6 DEF n, Parenting
  <2>5. CASE r.at = 3 BY <2>1, <2>5, <1>1, <1>2, <1>6 DEF n, Parenting
  <2> QED BY <2>2, <2>3, <2>4, <2>5
<1>7. CASE r.job \in {"updateDepartment", "updateDevice"}
  <2>1. CallsOf(r.job) = <<"update", "read", "reparent">> BY <1>7 DEF CallsOf
  <2>2. r.at = 1 \/ r.at = 2 \/ r.at = 3 BY <2>1
  <2>3. CASE r.at = 1 BY <2>1, <2>3, <1>5, <1>2, <1>7 DEF n, Parenting
  <2>4. CASE r.at = 2 BY <2>1, <2>4, <1>5, <1>2, <1>7 DEF n, Parenting
  <2>5. CASE r.at = 3 BY <2>1, <2>5, <1>1, <1>2, <1>7 DEF n, Parenting
  <2> QED BY <2>2, <2>3, <2>4, <2>5
<1>8. CASE r.job = "createDevice"
  <2>1. CallsOf(r.job) = <<"insert", "read", "reparent", "catalog", "install", "link">> BY <1>8 DEF CallsOf
  <2>2. r.at = 1 \/ r.at = 2 \/ r.at = 3 \/ r.at = 4 \/ r.at = 5 \/ r.at = 6 BY <2>1
  <2>3. CASE r.at = 1 BY <2>1, <2>3, <1>5, <1>2, <1>8 DEF n, Parenting
  <2>4. CASE r.at = 2 BY <2>1, <2>4, <1>5, <1>2, <1>8 DEF n, Parenting
  <2>5. CASE r.at = 3 BY <2>1, <2>5, <1>5, <1>2, <1>8 DEF n, Parenting
  <2>6. CASE r.at = 4 BY <2>1, <2>6, <1>5, <1>2, <1>8 DEF n, Parenting
  <2>7. CASE r.at = 5 BY <2>1, <2>7, <1>5, <1>2, <1>8 DEF n, Parenting
  <2>8. CASE r.at = 6 BY <2>1, <2>8, <1>1, <1>2, <1>8 DEF n, Parenting
  <2> QED BY <2>2, <2>3, <2>4, <2>5, <2>6, <2>7, <2>8
<1>9. CASE r.job = "deleteDevice"
  <2>1. CallsOf(r.job) = <<"rows", "unlink", "read", "forget", "delete">> BY <1>9 DEF CallsOf
  <2>2. r.at = 1 \/ r.at = 2 \/ r.at = 3 \/ r.at = 4 \/ r.at = 5 BY <2>1
  <2>3. CASE r.at = 1 BY <2>1, <2>3, <1>5, <1>2, <1>9 DEF n
  <2>4. CASE r.at = 2 BY <2>1, <2>4, <1>5, <1>2, <1>9 DEF n
  <2>5. CASE r.at = 3 BY <2>1, <2>5, <1>5, <1>2, <1>9 DEF n
  <2>6. CASE r.at = 4 BY <2>1, <2>6, <1>5, <1>2, <1>9 DEF n
  <2>7. CASE r.at = 5 BY <2>1, <2>7, <1>1, <1>2, <1>9 DEF n
  <2> QED BY <2>2, <2>3, <2>4, <2>5, <2>6, <2>7
<1>10. CASE r.job = "createCatalogEntry"
  <2>1. CallsOf(r.job) = <<"entry", "devices", "install", "link">> BY <1>10 DEF CallsOf
  <2>2. r.at = 1 \/ r.at = 2 \/ r.at = 3 \/ r.at = 4 BY <2>1
  <2>3. CASE r.at = 1 BY <2>1, <2>3, <1>5, <1>2, <1>10 DEF n
  <2>4. CASE r.at = 2 BY <2>1, <2>4, <1>5, <1>2, <1>10 DEF n
  <2>5. CASE r.at = 3 BY <2>1, <2>5, <1>5, <1>2, <1>10 DEF n
  <2>6. CASE r.at = 4 BY <2>1, <2>6, <1>1, <1>2, <1>10 DEF n
  <2> QED BY <2>2, <2>3, <2>4, <2>5, <2>6
<1>11. CASE r.job = "setInstallationState"
  <2>1. CallsOf(r.job) = <<"enable", "link">> BY <1>11 DEF CallsOf
  <2>2. r.at = 1 \/ r.at = 2 BY <2>1
  <2>3. CASE r.at = 1 BY <2>1, <2>3, <1>5, <1>2, <1>11 DEF n
  <2>4. CASE r.at = 2 BY <2>1, <2>4, <1>1, <1>2, <1>11 DEF n
  <2> QED BY <2>2, <2>3, <2>4
<1>12. CASE r.job = "assignment"
  <2>1. CallsOf(r.job) = <<"check", "read", "grant">> BY <1>12 DEF CallsOf
  <2>2. r.at = 1 \/ r.at = 2 \/ r.at = 3 BY <2>1
  <2>3. CASE r.at = 1 BY <2>1, <2>3, <1>5, <1>2, <1>12 DEF n
  <2>4. CASE r.at = 2 BY <2>1, <2>4, <1>5, <1>2, <1>12 DEF n
  <2>5. CASE r.at = 3 BY <2>1, <2>5, <1>1, <1>2, <1>12 DEF n
  <2> QED BY <2>2, <2>3, <2>4, <2>5
<1> QED BY <1>3, <1>6, <1>7, <1>8, <1>9, <1>10, <1>11, <1>12 DEF Jobs

-----------------------------------------------------------------------------
\* What one request in flight owes an object that no other is about.
OwnRow(s, o) ==
    /\ Rewrites(acTodo[s], o) => rowParent[o] = acTodo[s].to
    /\ Deletes(acTodo[s], o) => \A p \in AcObjects \cup AcUsers : ~Up(o, p)
    /\ ~Rewrites(acTodo[s], o) /\ ~Deletes(acTodo[s], o)
         => \A p \in AcObjects \cup AcUsers : Up(o, p) <=> (p = rowParent[o] /\ p # NoParent)
Unlinks(r, d) == r.o = d /\ r.job = "deleteDevice" /\ NextCall(r) = "unlink"
OwnInstall(s, d) ==
    /\ Links(s, d) => Whole(d)
    /\ Unlinked(acTodo[s], d) => ~Up(Comp(d), d) /\ ~Down(Comp(d), d)
    /\ Unlinks(acTodo[s], d) => (d \in seen[s] <=> installed[d] # "none")
    /\ ~Links(s, d) /\ ~Unlinked(acTodo[s], d)
         => (Up(Comp(d), d) <=> installed[d] # "none") /\ (Down(Comp(d), d) <=> Whole(d))
OneOn(o) == \A u \in AcUsers : \A q, r \in DirectRelations(o) :
    Direct(tuples, u, q, o) /\ Direct(tuples, u, r, o) => q = r

\* A request owes only to what it touches.
LEMMA OwesTouched ==
    ASSUME NEW r \in AcRequests, Asks(r), r.job # "none" => r.at \in DOMAIN CallsOf(r.job)
    PROVE  /\ \A o \in Kin : Rewrites(r, o) \/ Deletes(r, o) => o \in Touches(r)
           /\ \A d \in AcDevices : Unlinked(r, d) \/ Unlinks(r, d) => Comp(d) \in Touches(r)
           /\ \A d \in AcDevices : d \in Named(r) => Comp(d) \in Touches(r)
           /\ r.job # "none" /\ NextCall(r) \in {"reparent", "forget", "grant"} => r.o \in Touches(r) /\ r.o \in AcObjects
<1>1. r.job \in Parenting \cup {"deleteDevice", "assignment"} => Named(r) = {r.o} /\ r.o \in AcObjects /\ r.o \in Touches(r)
  BY RequestTouches DEF Parenting, Touches
<1>2. \A o \in Kin : Rewrites(r, o) \/ Deletes(r, o) => o \in Touches(r)
  BY <1>1 DEF Rewrites, Deletes
<1>3. \A d \in AcDevices : d \in Named(r) => Comp(d) \in Touches(r)
  BY RequestTouches
<1>4. \A d \in AcDevices : Unlinked(r, d) \/ Unlinks(r, d) => Comp(d) \in Touches(r)
  BY <1>1, <1>3 DEF Unlinked, Unlinks
<1>5. r.job # "none" /\ NextCall(r) \in {"reparent", "forget", "grant"} => r.job \in Parenting \cup {"deleteDevice", "assignment"}
  BY CallTable
<1> QED BY <1>1, <1>2, <1>3, <1>4, <1>5

\* Outside what c touches nothing changes.
ElsewhereSame(c) ==
    /\ \A o \in Kin : o \notin Touches(c) => rowParent'[o] = rowParent[o]
    /\ \A o \in Kin \cup Components, p \in AcObjects \cup AcUsers : o \notin Touches(c) =>
          (Up(o, p)' <=> Up(o, p)) /\ (Down(o, p)' <=> Down(o, p))
    /\ \A t \in TupleKeys : t.object \notin Touches(c) /\ t.relation # "child" => (t \in tuples' <=> t \in tuples)
    /\ \A d \in AcDevices : Comp(d) \notin Touches(c) => installed'[d] = installed[d] /\ (d \in bare' <=> d \in bare)
    /\ \A o \in AcObjects : o \notin Touches(c) => (o \in disturbed' <=> o \in disturbed)

\* The step of one request: it is enough to look at what it touches and no other request does.
LEMMA CallKeeps ==
    ASSUME AcInv, NEW s \in AcSlots, NEW c \in AcRequests, c = acTodo[s], c.job # "none",
           AcTypeOK', PairsFit',
           NEW n \in AcRequests, acTodo' = [acTodo EXCEPT ![s] = n],
           n = AcIdle \/ (n.job = c.job /\ n.o = c.o /\ n.to = c.to /\ n.user = c.user),
           seen' \in [AcSlots -> SUBSET (TupleKeys \cup AcDevices)],
           \A z \in AcSlots : z # s => seen'[z] = seen[z],
           ElsewhereSame(c), crossed' = crossed,
           \A o \in AcObjects : o \in Touches(c) /\ o \notin disturbed' => o \notin disturbed \/ Alone(s, o),
           n.job # "none" => SeenFit(s, n)',
           \A o \in Kin : o \in Touches(c) /\ o \notin disturbed' => OwnRow(s, o)',
           \A d \in AcDevices : Comp(d) \in Touches(c) /\ Comp(d) \notin disturbed' => OwnInstall(s, d)',
           \A o \in AcObjects : o \in Touches(c) /\ o \notin crossed => OneOn(o)'
    PROVE  AcInv'
<1>1. /\ acTodo \in [AcSlots -> AcRequests] /\ acTodo' \in [AcSlots -> AcRequests]
      /\ acTodo'[s] = n /\ \A z \in AcSlots : z # s => acTodo'[z] = acTodo[z]
      /\ \A z \in AcSlots : Asks(acTodo[z]) /\ (acTodo[z].job # "none" => acTodo[z].at \in DOMAIN CallsOf(acTodo[z].job))
  BY DEF AcInv, RequestsAsk, AcTypeOK
<1>2. Asks(n)
  <2>1. CASE n = AcIdle BY <2>1, IdleFacts
  <2>2. CASE n.job = c.job /\ n.o = c.o /\ n.to = c.to /\ n.user = c.user
    <3>1. Asks(c) BY <1>1
    <3> QED BY <2>2, <3>1 DEF Asks
  <2> QED BY <2>1, <2>2
<1>3. RequestsAsk' BY <1>1, <1>2 DEF RequestsAsk
<1>4. Touches(n) \subseteq Touches(c)
  <2>1. CASE n = AcIdle BY <2>1, IdleFacts
  <2>2. CASE n.job = c.job /\ n.o = c.o BY <2>2, RequestTouches, <1>1
  <2> QED BY <2>1, <2>2
<1>5. \A z \in AcSlots : Touches(acTodo[z]) \subseteq AcObjects
  BY <1>1, RequestTouches
<1>6. ASSUME NEW o \in AcObjects, NEW z \in AcSlots, z # s, o \in Touches(c), o \in Touches(acTodo[z])
      PROVE  o \in disturbed' /\ o \in crossed'
  <2>1. o \in disturbed /\ o \in crossed
    BY <1>6 DEF AcInv, SoleFits, Sole
  <2>2. ~Alone(s, o) BY <1>6 DEF Alone
  <2> QED BY <2>1, <2>2, <1>6
<1>7. ASSUME NEW o \in AcObjects, Sole(o)', NEW z \in AcSlots, z # s, o \in Touches(acTodo[z]) PROVE Sole(o) /\ o \notin Touches(c)
  <2>1. o \notin Touches(c) BY <1>6, <1>7 DEF Sole
  <2> QED BY <2>1, <1>7 DEF Sole, ElsewhereSame
<1>8. SoleFits'
  <2> SUFFICES ASSUME NEW o \in AcObjects, Sole(o)', NEW y \in AcSlots, NEW z \in AcSlots,
                      o \in Touches(acTodo'[y]), o \in Touches(acTodo'[z]), y # z
               PROVE  FALSE
    BY DEF SoleFits
  <2>1. CASE y # s /\ z # s
    <3>1. o \in Touches(acTodo[y]) /\ o \in Touches(acTodo[z]) BY <2>1, <1>1
    <3>2. Sole(o) BY <3>1, <2>1, <1>7
    <3> QED BY <3>1, <3>2 DEF AcInv, SoleFits
  <2>2. CASE y = s
    <3>1. o \in Touches(c) /\ o \in Touches(acTodo[z]) /\ z # s BY <2>2, <1>1, <1>4
    <3> QED BY <3>1, <1>7
  <2>3. CASE z = s
    <3>1. o \in Touches(c) /\ o \in Touches(acTodo[y]) /\ y # s BY <2>3, <1>1, <1>4
    <3> QED BY <3>1, <1>7
  <2> QED BY <2>1, <2>2, <2>3
<1>9. SeenFits'
  <2> SUFFICES ASSUME NEW z \in AcSlots, acTodo'[z].job # "none" PROVE SeenFit(z, acTodo[z])'
    BY DEF SeenFits
  <2>1. CASE z = s BY <2>1, <1>1 DEF SeenFit
  <2>2. CASE z # s
    <3> PICK r \in AcRequests : r = acTodo[z] BY <1>1
    <3>1. acTodo'[z] = r /\ r.job # "none" /\ Asks(r) /\ seen'[z] = seen[z] BY <2>2, <1>1
    <3>2. SeenFit(z, r) BY <3>1 DEF AcInv, SeenFits
    <3>3. ASSUME NextCall(r) \in {"reparent", "forget", "grant"}, Sole(r.o)', NEW t \in TupleKeys, t.object = r.o, t.relation # "child"
          PROVE  t \in seen'[z] <=> t \in tuples'
      <4>1. r.o \in Touches(r) /\ r.o \in AcObjects BY <3>1, <3>3, OwesTouched, <1>1
      <4>2. Sole(r.o) /\ r.o \notin Touches(c) BY <4>1, <3>3, <1>7, <2>2
      <4>3. t \in tuples' <=> t \in tuples BY <4>2, <3>3 DEF ElsewhereSame
      <4> QED BY <4>2, <4>3, <3>1, <3>2, <3>3 DEF SeenFit
    <3>4. SeenFit(z, r)' BY <3>1, <3>2, <3>3 DEF SeenFit
    <3> QED BY <3>4, <3>1 DEF SeenFit
  <2> QED BY <2>1, <2>2
<1>10. RowsMirrored'
  <2> SUFFICES ASSUME NEW o \in Kin, o \notin disturbed' PROVE RowMirrored(o)'
    BY DEF RowsMirrored
  <2>0. o \in AcObjects BY CompFacts
  <2>1. \A z \in AcSlots : Rewrites(acTodo[z], o) \/ Deletes(acTodo[z], o) => o \in Touches(acTodo[z])
    BY <1>1, OwesTouched
  <2>2. CASE o \in Touches(c)
    <3>1. \A z \in AcSlots : z # s => ~Rewrites(acTodo'[z], o) /\ ~Deletes(acTodo'[z], o)
      BY <2>0, <2>1, <2>2, <1>1, <1>6
    <3>2. OwnRow(s, o)' BY <2>2
    <3> QED BY <3>1, <3>2 DEF RowMirrored, OwnRow
  <2>3. CASE o \notin Touches(c)
    <3>1. o \notin disturbed /\ rowParent'[o] = rowParent[o] /\ \A p \in AcObjects \cup AcUsers : Up(o, p)' <=> Up(o, p)
      BY <2>0, <2>3 DEF ElsewhereSame
    <3>2. RowMirrored(o) BY <3>1 DEF AcInv, RowsMirrored
    <3>3. o \notin Touches(n) BY <2>3, <1>4
    <3>4. ~Rewrites(n, o) /\ ~Deletes(n, o)
      <4>1. n.job # "none" => n.at \in DOMAIN CallsOf(n.job) BY <1>1 DEF AcTypeOK
      <4> QED BY <3>3, <1>2, <4>1, OwesTouched
    <3>5. \A z \in AcSlots : /\ Rewrites(acTodo'[z], o) <=> Rewrites(acTodo[z], o)
                             /\ Deletes(acTodo'[z], o) <=> Deletes(acTodo[z], o)
                             /\ Rewrites(acTodo[z], o) => acTodo'[z].to = acTodo[z].to
      BY <3>4, <2>1, <2>3, <1>1
    <3> QED BY <3>1, <3>2, <3>5 DEF RowMirrored
  <2> QED BY <2>2, <2>3
<1>11. InstallsMirrored'
  <2> SUFFICES ASSUME NEW d \in AcDevices, Comp(d) \notin disturbed' PROVE InstallMirrored(d)'
    BY DEF InstallsMirrored
  <2>0. Comp(d) \in AcObjects BY CompFacts
  <2>1. ASSUME NEW z \in AcSlots, Unlinked(acTodo[z], d) \/ Unlinks(acTodo[z], d) \/ Links(z, d) PROVE Comp(d) \in Touches(acTodo[z])
    <3>1. CASE Links(z, d)
      BY <3>1, OwesTouched, <1>1 DEF AcInv, SeenFits, SeenFit, Links
    <3> QED BY <1>1, <2>1, <3>1, OwesTouched
  <2>2. CASE Comp(d) \in Touches(c)
    <3>1. \A z \in AcSlots : z # s => ~Unlinked(acTodo'[z], d) /\ ~Unlinks(acTodo'[z], d) /\ ~Links(z, d)'
      BY <2>0, <2>1, <2>2, <1>1, <1>6 DEF Links
    <3>2. OwnInstall(s, d)' BY <2>2
    <3> QED BY <3>1, <3>2 DEF InstallMirrored, OwnInstall, Unlinks
  <2>3. CASE Comp(d) \notin Touches(c)
    <3>0. d \in AcObjects \cup AcUsers BY CompFacts DEF Kin
    <3>1. Comp(d) \notin disturbed /\ installed'[d] = installed[d] /\ (Whole(d)' <=> Whole(d))
          /\ (Up(Comp(d), d)' <=> Up(Comp(d), d)) /\ (Down(Comp(d), d)' <=> Down(Comp(d), d))
      BY <2>0, <2>3, <3>0, CompFacts DEF ElsewhereSame, Whole
    <3>2. InstallMirrored(d) BY <3>1 DEF AcInv, InstallsMirrored
    <3>3. Comp(d) \notin Touches(n) BY <2>3, <1>4
    <3>4. ~Unlinked(n, d) /\ ~Unlinks(n, d) /\ ~Links(s, d)'
      <4>1. n.job # "none" => n.at \in DOMAIN CallsOf(n.job) BY <1>1 DEF AcTypeOK
      <4>2. ~Unlinked(n, d) /\ ~Unlinks(n, d) /\ d \notin Named(n) BY <3>3, <1>2, <4>1, OwesTouched
      <4>3. n.job # "none" /\ NextCall(n) = "link" => seen'[s] \subseteq Named(n)
        BY DEF SeenFit
      <4> QED BY <4>2, <4>3, <1>1 DEF Links
    <3>5. \A z \in AcSlots : /\ Unlinked(acTodo'[z], d) <=> Unlinked(acTodo[z], d)
                             /\ Unlinks(acTodo'[z], d) <=> Unlinks(acTodo[z], d)
                             /\ Links(z, d)' <=> Links(z, d)
                             /\ Unlinks(acTodo[z], d) => seen'[z] = seen[z]
      <4>1. ~Unlinked(acTodo[s], d) /\ ~Unlinks(acTodo[s], d) /\ ~Links(s, d)
        BY <2>1, <2>3
      <4> QED BY <4>1, <3>4, <1>1 DEF Links
    <3> QED BY <3>1, <3>2, <3>5 DEF InstallMirrored, Unlinks
  <2> QED BY <2>2, <2>3
<1>12. OneRelation'
  <2> SUFFICES ASSUME NEW o \in AcObjects, o \notin crossed, o \notin Touches(c) PROVE OneOn(o)'
    BY DEF OneRelation, OneOn
  <2>1. OneOn(o) BY DEF AcInv, OneRelation, OneOn
  <2>2. ASSUME NEW u \in AcUsers, NEW q \in DirectRelations(o) PROVE Tuple(o, q, u) \in tuples' <=> Tuple(o, q, u) \in tuples
    <3>1. Tuple(o, q, u) \in TupleKeys /\ q # "child"
      BY DEF TupleKeys, Tuple, DirectRelations
    <3> QED BY <3>1, TupleFacts DEF ElsewhereSame
  <2> QED BY <2>1, <2>2 DEF OneOn, Direct
<1> QED BY <1>3, <1>8, <1>9, <1>10, <1>11, <1>12 DEF AcInv

\* What a request in flight may count on.
LEMMA OwnBefore ==
    ASSUME AcInv, NEW s \in AcSlots, NEW c \in AcRequests, c = acTodo[s], c.job # "none"
    PROVE  /\ Asks(c) /\ c.at \in DOMAIN CallsOf(c.job) /\ SeenFit(s, c)
           /\ \A o \in Kin : o \in Touches(c) /\ o \notin disturbed => OwnRow(s, o)
           /\ \A d \in AcDevices : Comp(d) \in Touches(c) /\ Comp(d) \notin disturbed => OwnInstall(s, d)
           /\ \A o \in AcObjects : o \notin crossed => OneOn(o)
<1>1. /\ acTodo \in [AcSlots -> AcRequests]
      /\ \A z \in AcSlots : Asks(acTodo[z]) /\ (acTodo[z].job # "none" => acTodo[z].at \in DOMAIN CallsOf(acTodo[z].job))
  BY DEF AcInv, RequestsAsk, AcTypeOK
<1>2. SeenFit(s, c) BY DEF AcInv, SeenFits, SeenFit
<1>3. ASSUME NEW o \in Kin, o \in Touches(c), o \notin disturbed PROVE OwnRow(s, o)
  <2>1. o \in AcObjects /\ RowMirrored(o) BY <1>3, CompFacts DEF AcInv, RowsMirrored
  <2>2. \A z \in AcSlots : Rewrites(acTodo[z], o) \/ Deletes(acTodo[z], o) => z = s
    <3>1. \A z \in AcSlots : Rewrites(acTodo[z], o) \/ Deletes(acTodo[z], o) => o \in Touches(acTodo[z])
      BY <1>1, OwesTouched
    <3> QED BY <3>1, <2>1, <1>3 DEF AcInv, SoleFits, Sole
  <2> QED BY <2>1, <2>2 DEF RowMirrored, OwnRow
<1>4. ASSUME NEW d \in AcDevices, Comp(d) \in Touches(c), Comp(d) \notin disturbed PROVE OwnInstall(s, d)
  <2>1. Comp(d) \in AcObjects /\ InstallMirrored(d) BY <1>4, CompFacts DEF AcInv, InstallsMirrored
  <2>2. \A z \in AcSlots : Unlinked(acTodo[z], d) \/ Links(z, d) => z = s
    <3>1. \A z \in AcSlots : Unlinked(acTodo[z], d) => Comp(d) \in Touches(acTodo[z])
      BY <1>1, OwesTouched
    <3>2. \A z \in AcSlots : Links(z, d) => Comp(d) \in Touches(acTodo[z])
      BY OwesTouched, <1>1 DEF AcInv, SeenFits, SeenFit, Links
    <3> QED BY <3>1, <3>2, <2>1, <1>4 DEF AcInv, SoleFits, Sole
  <2> QED BY <2>1, <2>2 DEF InstallMirrored, OwnInstall, Unlinks
<1>5. \A o \in AcObjects : o \notin crossed => OneOn(o)
  BY DEF AcInv, OneRelation, OneOn
<1> QED BY <1>1, <1>2, <1>3, <1>4, <1>5

\* n is what is left of request c.
Remains(n, c) ==
    /\ n \in AcRequests /\ (n.job # "none" => n.at \in DOMAIN CallsOf(n.job))
    /\ n = AcIdle \/ (n.job = c.job /\ n.o = c.o /\ n.to = c.to /\ n.user = c.user)
LEMMA RemainsFacts ==
    /\ \A c : Remains(AcIdle, c)
    /\ \A n, c, call : Goes(n, c, call) => Remains(n, c)
  BY IdleFacts DEF Remains, Goes
LEMMA TodoTyped ==
    ASSUME AcInv, NEW s \in AcSlots, NEW n, NEW c, Remains(n, c), acTodo' = [acTodo EXCEPT ![s] = n]
    PROVE  \A z \in AcSlots : acTodo'[z].job # "none" => acTodo'[z].at \in DOMAIN CallsOf(acTodo'[z].job)
<1>1. acTodo'[s] = n /\ \A z \in AcSlots : z # s => acTodo'[z] = acTodo[z]
  BY DEF AcInv, RequestsAsk
<1> QED BY <1>1 DEF Remains, AcInv, AcTypeOK

\* A call that changes neither rows nor tuples.
LEMMA QuietCall ==
    ASSUME AcInv, NEW s \in AcSlots, NEW c \in AcRequests, c = acTodo[s], c.job # "none",
           NEW n, Remains(n, c), acTodo' = [acTodo EXCEPT ![s] = n],
           seen' \in [AcSlots -> SUBSET (TupleKeys \cup AcDevices)],
           \A z \in AcSlots : z # s => seen'[z] = seen[z],
           UNCHANGED <<rowParent, installed, bare, tuples, disturbed, crossed, begun>>, catalogued' \in BOOLEAN,
           n.job # "none" => SeenFit(s, n)',
           \A o \in Kin : (Rewrites(n, o) <=> Rewrites(c, o)) /\ (Deletes(n, o) <=> Deletes(c, o)),
           \A d \in AcDevices : /\ Unlinked(n, d) <=> Unlinked(c, d)
                                /\ ~(NextCall(c) = "link")
                                /\ n.job # "none" => ~(NextCall(n) = "link")
                                /\ Unlinks(n, d) => (d \in seen'[s] <=> installed[d] # "none")
    PROVE  AcInv'
<1>1. acTodo'[s] = n BY DEF AcInv, RequestsAsk
<1>2. AcTypeOK'
  <2>1. \A z \in AcSlots : acTodo'[z].job # "none" => acTodo'[z].at \in DOMAIN CallsOf(acTodo'[z].job)
    BY TodoTyped
  <2> QED BY <2>1 DEF AcInv, AcTypeOK
<1>3. PairsFit' BY DEF AcInv, PairsFit, Up, Down
<1>4. ElsewhereSame(c) BY DEF ElsewhereSame, Up, Down
<1>5. ASSUME NEW o \in Kin, o \in Touches(c), o \notin disturbed' PROVE OwnRow(s, o)'
  <2>1. OwnRow(s, o) BY <1>5, OwnBefore
  <2>2. Rewrites(c, o) => n.to = c.to
    <3>1. Rewrites(n, o) => n # AcIdle BY IdleFacts DEF Rewrites, Parenting
    <3> QED BY <3>1 DEF Remains
  <2> QED BY <1>1, <2>1, <2>2 DEF OwnRow, Up
<1>6. ASSUME NEW d \in AcDevices, Comp(d) \in Touches(c), Comp(d) \notin disturbed' PROVE OwnInstall(s, d)'
  <2>1. OwnInstall(s, d) BY <1>6, OwnBefore
  <2>2. ~Links(s, d) /\ ~Links(s, d)' BY <1>1 DEF Links
  <2> QED BY <1>1, <2>1, <2>2 DEF OwnInstall, Up, Down, Whole
<1>7. ASSUME NEW o \in AcObjects, o \in Touches(c), o \notin crossed PROVE OneOn(o)'
  BY <1>7, OwnBefore DEF OneOn
<1>8. \A o \in AcObjects : o \in Touches(c) /\ o \notin disturbed' => o \notin disturbed \/ Alone(s, o)
  OBVIOUS
<1> QED BY <1>2, <1>3, <1>4, <1>5, <1>6, <1>7, <1>8, CallKeeps DEF Remains

-----------------------------------------------------------------------------
LEMMA ReadKeeps ==
    ASSUME AcInv, NEW s \in AcSlots, NEW c \in AcRequests, c = acTodo[s], c.job # "none",
           readTuplesForObject(s, c), UNCHANGED <<begun, crossed, bare>>
    PROVE  AcInv'
<1> PICK n : n = AfterCall(c) OBVIOUS
<1>1. NextCall(c) = "read" /\ acTodo' = [acTodo EXCEPT ![s] = n]
      /\ seen' = [seen EXCEPT ![s] = {t \in tuples : t.object = c.o}]
  BY DEF readTuplesForObject, Proceeds
<1>2. /\ Asks(c) /\ c.at \in DOMAIN CallsOf(c.job) /\ SeenFit(s, c) BY OwnBefore
<1>3. \/ c.job \in Parenting /\ Goes(n, c, "reparent")
      \/ c.job = "deleteDevice" /\ Goes(n, c, "forget")
      \/ c.job = "assignment" /\ Goes(n, c, "grant")
  BY <1>1, <1>2, CallTable
<1>4. Remains(n, c) /\ NextCall(n) \in {"reparent", "forget", "grant"} /\ n.job = c.job /\ n.o = c.o
  BY <1>3, RemainsFacts DEF Goes
<1>5. tuples \subseteq TupleKeys /\ seen \in [AcSlots -> SUBSET (TupleKeys \cup AcDevices)] /\ catalogued \in BOOLEAN
  BY DEF AcInv, AcTypeOK, RequestsAsk
<1>6. seen' \in [AcSlots -> SUBSET (TupleKeys \cup AcDevices)] /\ (\A z \in AcSlots : z # s => seen'[z] = seen[z])
      /\ seen'[s] = {t \in tuples : t.object = c.o}
  BY <1>1, <1>5
<1>7. tuples' = tuples /\ UNCHANGED <<rowParent, installed, disturbed, catalogued>>
  BY DEF readTuplesForObject
<1>8. SeenFit(s, n)' BY <1>4, <1>5, <1>6, <1>7 DEF SeenFit
<1>9. \A o \in Kin : (Rewrites(n, o) <=> Rewrites(c, o)) /\ (Deletes(n, o) <=> Deletes(c, o))
  BY <1>1, <1>3 DEF Rewrites, Deletes, Goes, Parenting
<1>10. \A d \in AcDevices : (Unlinked(n, d) <=> Unlinked(c, d)) /\ ~Unlinks(n, d)
  BY <1>1, <1>3 DEF Unlinked, Unlinks, Goes, Parenting
<1> QED BY <1>1, <1>4, <1>5, <1>6, <1>7, <1>8, <1>9, <1>10, QuietCall

LEMMA CheckKeeps ==
    ASSUME AcInv, NEW s \in AcSlots, NEW c \in AcRequests, c = acTodo[s], c.job # "none",
           Check(s, c), UNCHANGED <<begun, crossed, bare>>
    PROVE  AcInv'
<1> PICK n : n = acTodo'[s] OBVIOUS
<1>0. acTodo \in [AcSlots -> AcRequests] /\ catalogued \in BOOLEAN /\ seen \in [AcSlots -> SUBSET (TupleKeys \cup AcDevices)]
  BY DEF AcInv, RequestsAsk, AcTypeOK
<1>1. NextCall(c) = "check" /\ acTodo' = [acTodo EXCEPT ![s] = n] /\ (n = AcIdle \/ n = AfterCall(c))
      /\ UNCHANGED <<rowParent, installed, catalogued, tuples, seen, disturbed>>
  BY <1>0 DEF Check, Proceeds, Finishes
<1>2. /\ Asks(c) /\ c.at \in DOMAIN CallsOf(c.job) BY OwnBefore
<1>3. c.job = "assignment" /\ (n = AcIdle \/ Goes(n, c, "read"))
  BY <1>1, <1>2, CallTable
<1>4. Remains(n, c) /\ (n.job # "none" => n.job = "assignment" /\ NextCall(n) = "read") /\ n.job \in {"none", "assignment"}
  BY <1>3, RemainsFacts, IdleFacts DEF Goes
<1>5. n.job # "none" => SeenFit(s, n)' BY <1>4 DEF SeenFit
<1>6. \A o \in Kin : (Rewrites(n, o) <=> Rewrites(c, o)) /\ (Deletes(n, o) <=> Deletes(c, o))
  BY <1>3, <1>4 DEF Rewrites, Deletes, Parenting
<1>7. \A d \in AcDevices : (Unlinked(n, d) <=> Unlinked(c, d)) /\ ~Unlinks(n, d)
  BY <1>3, <1>4 DEF Unlinked, Unlinks
<1> QED BY <1>0, <1>1, <1>4, <1>5, <1>6, <1>7, QuietCall

LEMMA ReadRowsKeeps ==
    ASSUME AcInv, NEW s \in AcSlots, NEW c \in AcRequests, c = acTodo[s], c.job # "none",
           ReadRows(s, c), UNCHANGED <<begun, crossed, bare>>
    PROVE  AcInv'
<1> PICK n : n = acTodo'[s] OBVIOUS
<1>0. acTodo \in [AcSlots -> AcRequests] /\ catalogued \in BOOLEAN /\ seen \in [AcSlots -> SUBSET (TupleKeys \cup AcDevices)]
  BY DEF AcInv, RequestsAsk, AcTypeOK
<1>1. NextCall(c) \in {"catalog", "devices", "rows"} /\ acTodo' = [acTodo EXCEPT ![s] = n]
      /\ (n = AcIdle \/ n = AfterCall(c)) /\ (n = AcIdle /\ n # AfterCall(c) => NextCall(c) = "rows")
      /\ UNCHANGED <<rowParent, installed, catalogued, tuples, disturbed>>
  BY <1>0 DEF ReadRows, Proceeds, Finishes
<1>2. /\ Asks(c) /\ c.at \in DOMAIN CallsOf(c.job) BY OwnBefore
<1>3. \/ NextCall(c) = "catalog" /\ c.job = "createDevice" /\ Goes(n, c, "install")
      \/ NextCall(c) = "devices" /\ c.job = "createCatalogEntry" /\ Goes(n, c, "install")
      \/ NextCall(c) = "rows" /\ c.job = "deleteDevice" /\ (n = AcIdle \/ Goes(n, c, "unlink"))
  BY <1>1, <1>2, CallTable
<1>4. Remains(n, c) /\ (n.job # "none" => n.job = c.job /\ n.o = c.o /\ NextCall(n) \in {"install", "unlink"})
      /\ (n.job # "none" /\ NextCall(c) # "rows" => NextCall(n) = "install")
  BY <1>3, RemainsFacts, IdleFacts DEF Goes
<1>5. /\ seen'[s] \subseteq AcDevices /\ \A z \in AcSlots : z # s => seen'[z] = seen[z]
      /\ seen' \in [AcSlots -> SUBSET (TupleKeys \cup AcDevices)]
      /\ NextCall(c) # "devices" => seen'[s] \subseteq {c.o}
      /\ NextCall(c) = "rows" => (c.o \in seen'[s] <=> installed[c.o] # "none")
  <2> DEFINE S == CASE NextCall(c) = "catalog" -> IF catalogued THEN {c.o} ELSE {}
            [] NextCall(c) = "devices" -> {d \in AcDevices : rowParent[d] # NoParent}
            [] OTHER -> IF installed[c.o] = "none" THEN {} ELSE {c.o}
  <2>1. seen' = [seen EXCEPT ![s] = S] BY DEF ReadRows
  <2>2. S \subseteq AcDevices /\ (NextCall(c) # "devices" => S \subseteq {c.o}) /\ (NextCall(c) = "rows" => (c.o \in S <=> installed[c.o] # "none"))
    <3>1. NextCall(c) # "devices" => c.o \in AcDevices BY <1>3, <1>2 DEF Asks
    <3> QED BY <3>1, <1>1
  <2> HIDE DEF S
  <2> QED BY <2>1, <2>2, <1>0
<1>6. n.job # "none" => SeenFit(s, n)'
  <2> SUFFICES ASSUME n.job # "none" PROVE SeenFit(s, n)'
    OBVIOUS
  <2>1. Asks(n) BY <1>2, <1>4, IdleFacts DEF Asks, Remains
  <2>2. n \in AcRequests BY <1>4 DEF Remains
  <2>3. Named(n) = IF NextCall(c) = "devices" THEN AcDevices ELSE {c.o}
    BY <1>3, <1>4, <2>1, <2>2, RequestTouches
  <2> QED BY <2>3, <1>4, <1>5 DEF SeenFit
<1>7. \A o \in Kin : (Rewrites(n, o) <=> Rewrites(c, o)) /\ (Deletes(n, o) <=> Deletes(c, o))
  <2>1. n.job = "none" => n.job \notin Parenting \cup {"deleteDevice"} BY DEF Parenting
  <2> QED BY <1>1, <1>4, <2>1 DEF Rewrites, Deletes
<1>8. \A d \in AcDevices : /\ Unlinked(n, d) <=> Unlinked(c, d)
                           /\ Unlinks(n, d) => (d \in seen'[s] <=> installed[d] # "none")
  <2>1. \A d \in AcDevices : ~Unlinked(n, d) /\ ~Unlinked(c, d)
    BY <1>1, <1>4 DEF Unlinked
  <2>2. ASSUME NEW d \in AcDevices, Unlinks(n, d) PROVE d \in seen'[s] <=> installed[d] # "none"
    <3>1. NextCall(c) = "rows" /\ d = c.o BY <2>2, <1>4 DEF Unlinks
    <3> QED BY <3>1, <1>5
  <2> QED BY <2>1, <2>2
<1>9. NextCall(c) # "link" /\ (n.job # "none" => NextCall(n) # "link")
  BY <1>1, <1>4
<1>10. UNCHANGED <<rowParent, installed, bare, tuples, disturbed, crossed, begun>> /\ catalogued' \in BOOLEAN
  BY <1>0, <1>1
<1>11. acTodo' = [acTodo EXCEPT ![s] = n] /\ Remains(n, c) BY <1>1, <1>4
<1> QED BY <1>5, <1>6, <1>7, <1>8, <1>9, <1>10, <1>11, QuietCall

LEMMA CatalogEntryKeeps ==
    ASSUME AcInv, NEW s \in AcSlots, NEW c \in AcRequests, c = acTodo[s], c.job # "none",
           CatalogEntry(s, c), UNCHANGED <<begun, crossed, bare>>
    PROVE  AcInv'
<1> PICK n : n = AfterCall(c) OBVIOUS
<1>0. seen \in [AcSlots -> SUBSET (TupleKeys \cup AcDevices)]
  BY DEF AcInv, RequestsAsk
<1>1. NextCall(c) = "entry" /\ acTodo' = [acTodo EXCEPT ![s] = n] /\ catalogued' = TRUE
      /\ UNCHANGED <<rowParent, installed, tuples, seen, disturbed>>
  BY DEF CatalogEntry, Proceeds
<1>2. /\ Asks(c) /\ c.at \in DOMAIN CallsOf(c.job) BY OwnBefore
<1>3. c.job = "createCatalogEntry" /\ Goes(n, c, "devices")
  BY <1>1, <1>2, CallTable
<1>4. Remains(n, c) /\ n.job = "createCatalogEntry" /\ NextCall(n) = "devices"
  BY <1>3, RemainsFacts DEF Goes
<1>5. SeenFit(s, n)' BY <1>4 DEF SeenFit
<1>6. \A o \in Kin : (Rewrites(n, o) <=> Rewrites(c, o)) /\ (Deletes(n, o) <=> Deletes(c, o))
  BY <1>3, <1>4 DEF Rewrites, Deletes, Parenting
<1>7. \A d \in AcDevices : (Unlinked(n, d) <=> Unlinked(c, d)) /\ ~Unlinks(n, d)
  BY <1>3, <1>4 DEF Unlinked, Unlinks
<1> QED BY <1>0, <1>1, <1>4, <1>5, <1>6, <1>7, QuietCall

\* A call that writes rows only.
LEMMA RowsCall ==
    ASSUME AcInv, NEW s \in AcSlots, NEW c \in AcRequests, c = acTodo[s], c.job # "none",
           NEW n, Remains(n, c), acTodo' = [acTodo EXCEPT ![s] = n],
           seen' \in [AcSlots -> SUBSET (TupleKeys \cup AcDevices)],
           \A z \in AcSlots : z # s => seen'[z] = seen[z],
           UNCHANGED <<catalogued, tuples, crossed, begun>>,
           rowParent' \in [AcDepartments \cup AcDevices -> AcFactories \cup AcDepartments \cup {NoParent}],
           installed' \in [AcDevices -> {"none", "on", "off"}], disturbed' \subseteq AcObjects,
           bare' \subseteq {d \in AcDevices : installed'[d] # "none"},
           \A o \in Kin : o \notin Touches(c) => rowParent'[o] = rowParent[o],
           \A d \in AcDevices : Comp(d) \notin Touches(c) => installed'[d] = installed[d] /\ (d \in bare' <=> d \in bare),
           \A o \in AcObjects : o \notin Touches(c) => (o \in disturbed' <=> o \in disturbed),
           \A o \in AcObjects : o \in Touches(c) /\ o \notin disturbed' => o \notin disturbed \/ Alone(s, o),
           n.job # "none" => SeenFit(s, n)',
           \A o \in Kin : o \in Touches(c) /\ o \notin disturbed' => OwnRow(s, o)',
           \A d \in AcDevices : Comp(d) \in Touches(c) /\ Comp(d) \notin disturbed' => OwnInstall(s, d)'
    PROVE  AcInv'
<1>2. AcTypeOK'
  <2>1. \A z \in AcSlots : acTodo'[z].job # "none" => acTodo'[z].at \in DOMAIN CallsOf(acTodo'[z].job)
    BY TodoTyped
  <2> QED BY <2>1 DEF AcInv, AcTypeOK
<1>3. PairsFit' BY DEF AcInv, PairsFit, Up, Down
<1>4. ElsewhereSame(c) BY DEF ElsewhereSame, Up, Down
<1>7. ASSUME NEW o \in AcObjects, o \in Touches(c), o \notin crossed PROVE OneOn(o)'
  BY <1>7, OwnBefore DEF OneOn
<1>8. n \in AcRequests /\ (n = AcIdle \/ (n.job = c.job /\ n.o = c.o /\ n.to = c.to /\ n.user = c.user)) /\ crossed' = crossed
  BY DEF Remains
<1> QED BY <1>2, <1>3, <1>4, <1>7, <1>8, CallKeeps

RowTypes ==
    /\ rowParent \in [AcDepartments \cup AcDevices -> AcFactories \cup AcDepartments \cup {NoParent}]
    /\ installed \in [AcDevices -> {"none", "on", "off"}] /\ catalogued \in BOOLEAN
    /\ bare \subseteq {d \in AcDevices : installed[d] # "none"}
    /\ tuples \subseteq TupleKeys /\ disturbed \subseteq AcObjects /\ crossed \subseteq AcObjects
    /\ acTodo \in [AcSlots -> AcRequests] /\ seen \in [AcSlots -> SUBSET (TupleKeys \cup AcDevices)]
LEMMA RowTypesFact == AcInv => RowTypes
  BY DEF AcInv, AcTypeOK, RequestsAsk, RowTypes

LEMMA WriteRowKeeps ==
    ASSUME AcInv, NEW s \in AcSlots, NEW c \in AcRequests, c = acTodo[s], c.job # "none",
           WriteRow(s, c), UNCHANGED <<begun, crossed, bare>>
    PROVE  AcInv'
<1>0. RowTypes BY RowTypesFact
<1>1. NextCall(c) \in {"insert", "update"} /\ UNCHANGED <<installed, catalogued, tuples, seen>>
  BY DEF WriteRow
<1>2. /\ Asks(c) /\ c.at \in DOMAIN CallsOf(c.job) BY OwnBefore
<1>3. c.job \in Parenting /\ Goes(AfterCall(c), c, "read")
  BY <1>1, <1>2, CallTable
<1>4. c.o \in Kin /\ c.to \in AcFactories \cup AcDepartments /\ Named(c) = {c.o}
  BY <1>2, <1>3, RequestTouches DEF Asks, Parenting, Kin
<1>5. \A o \in Kin : ~Rewrites(c, o) /\ ~Deletes(c, o)
  BY <1>1 DEF Rewrites, Deletes
<1>6. \A d \in AcDevices : ~Unlinked(c, d) /\ ~Unlinks(c, d) /\ ~Links(s, d)
  BY <1>1 DEF Unlinked, Unlinks, Links
<1>7. CASE Finishes(s) /\ UNCHANGED <<rowParent, disturbed>>
  <2>1. \A o \in Kin : ~Rewrites(AcIdle, o) /\ ~Deletes(AcIdle, o)
    BY IdleFacts DEF Rewrites, Deletes, Parenting
  <2>2. \A d \in AcDevices : ~Unlinked(AcIdle, d) /\ ~Unlinks(AcIdle, d)
    BY IdleFacts DEF Unlinked, Unlinks
  <2>3. acTodo' = [acTodo EXCEPT ![s] = AcIdle] BY <1>7 DEF Finishes
  <2>4. UNCHANGED <<rowParent, installed, bare, tuples, disturbed, crossed, begun>> /\ catalogued' \in BOOLEAN
        /\ seen' \in [AcSlots -> SUBSET (TupleKeys \cup AcDevices)]
    BY <1>0, <1>1, <1>7 DEF RowTypes
  <2>5. NextCall(c) # "link" BY <1>1
  <2> QED BY <1>1, <1>5, <1>6, <2>1, <2>2, <2>3, <2>4, <2>5, IdleFacts, RemainsFacts, QuietCall
<1>8. CASE /\ Proceeds(s) /\ rowParent' = [rowParent EXCEPT ![c.o] = c.to]
           /\ disturbed' = IF Alone(s, c.o) THEN disturbed \ {c.o} ELSE disturbed
  <2> PICK n : n = AfterCall(c) OBVIOUS
  <2>1. Goes(n, c, "read") /\ acTodo' = [acTodo EXCEPT ![s] = n] /\ acTodo'[s] = n
    BY <1>0, <1>3, <1>8 DEF Proceeds, RowTypes
  <2>2. n.job = c.job /\ n.o = c.o /\ n.to = c.to /\ NextCall(n) = "read" /\ Remains(n, c)
    BY <2>1, RemainsFacts DEF Goes
  <2>3. \A o \in Kin : o \in Touches(c) <=> o = c.o
    BY <1>2, <1>4, RequestTouches
  <2>4. rowParent' \in [AcDepartments \cup AcDevices -> AcFactories \cup AcDepartments \cup {NoParent}]
        /\ rowParent'[c.o] = c.to /\ \A o \in Kin : o # c.o => rowParent'[o] = rowParent[o]
    BY <1>0, <1>4, <1>8 DEF RowTypes, Kin
  <2>5. OwnRow(s, c.o)'
    <3>1. Rewrites(n, c.o) /\ ~Deletes(n, c.o) BY <1>3, <2>2 DEF Rewrites, Deletes, Parenting
    <3> QED BY <2>1, <2>2, <2>4, <3>1 DEF OwnRow
  <2>6. ASSUME NEW d \in AcDevices, Comp(d) \in Touches(c), Comp(d) \notin disturbed' PROVE OwnInstall(s, d)'
    <3>1. Comp(d) \notin disturbed BY <2>6, <1>8, <1>4, CompFacts
    <3>2. OwnInstall(s, d) BY <3>1, <2>6, OwnBefore
    <3>3. ~Unlinked(n, d) /\ ~Unlinks(n, d) /\ ~Links(s, d)'
      BY <1>3, <2>1, <2>2 DEF Unlinked, Unlinks, Links, Parenting
    <3> QED BY <3>2, <3>3, <1>1, <1>6, <2>1 DEF OwnInstall, Up, Down, Whole
  <2>7. SeenFit(s, n)' BY <2>2 DEF SeenFit
  <2>8. seen' \in [AcSlots -> SUBSET (TupleKeys \cup AcDevices)] /\ (\A z \in AcSlots : z # s => seen'[z] = seen[z])
        /\ installed' \in [AcDevices -> {"none", "on", "off"}] /\ disturbed' \subseteq AcObjects
    BY <1>0, <1>1, <1>8 DEF RowTypes
  <2>9. c.o \in Touches(c) BY <2>3, <1>4
  <2>10. /\ \A o \in AcObjects : o \notin Touches(c) => (o \in disturbed' <=> o \in disturbed)
         /\ \A o \in AcObjects : o \in Touches(c) /\ o \notin disturbed' => o \notin disturbed \/ Alone(s, o)
    BY <1>8, <2>9
  <2>11. /\ \A o \in Kin : o \notin Touches(c) => rowParent'[o] = rowParent[o]
         /\ \A o \in Kin : o \in Touches(c) /\ o \notin disturbed' => OwnRow(s, o)'
    BY <2>3, <2>4, <2>5
  <2>12. UNCHANGED <<catalogued, tuples, crossed, begun, bare>> /\ (\A d \in AcDevices : installed'[d] = installed[d])
         /\ bare' \subseteq {d \in AcDevices : installed'[d] # "none"}
    BY <1>0, <1>1 DEF RowTypes
  <2> QED BY <2>1, <2>2, <2>4, <2>6, <2>7, <2>8, <2>10, <2>11, <2>12, RowsCall
<1> QED BY <1>7, <1>8 DEF WriteRow

LEMMA InstallKeeps ==
    ASSUME AcInv, NEW s \in AcSlots, NEW c \in AcRequests, c = acTodo[s], c.job # "none",
           Install(s, c), UNCHANGED <<begun, crossed, bare>>
    PROVE  AcInv'
<1>0. RowTypes BY RowTypesFact
<1> DEFINE clash == \E d \in seen[s] : installed[d] # "none" \/ rowParent[d] = NoParent
<1>1. /\ NextCall(c) = "install" /\ UNCHANGED <<rowParent, catalogued, tuples, seen>>
      /\ installed' = [d \in AcDevices |-> IF d \in seen[s] /\ ~clash THEN "on" ELSE installed[d]]
      /\ IF clash THEN Finishes(s) ELSE Proceeds(s)
      /\ disturbed' = IF clash THEN disturbed \cup Touches(c) ELSE disturbed
  BY DEF Install
<1>2. /\ Asks(c) /\ c.at \in DOMAIN CallsOf(c.job) /\ SeenFit(s, c) BY OwnBefore
<1>3. c.job \in {"createDevice", "createCatalogEntry"} /\ Goes(AfterCall(c), c, "link")
  BY <1>1, <1>2, CallTable
<1>4. seen[s] \subseteq Named(c) \cap AcDevices
  BY <1>1, <1>2 DEF SeenFit
<1>5. Touches(c) \subseteq AcObjects /\ \A d \in AcDevices : d \in Named(c) => Comp(d) \in Touches(c)
  BY <1>2, RequestTouches
<1>6. /\ installed' \in [AcDevices -> {"none", "on", "off"}] /\ disturbed' \subseteq AcObjects
      /\ \A d \in AcDevices : d \notin seen[s] => installed'[d] = installed[d]
      /\ rowParent' \in [AcDepartments \cup AcDevices -> AcFactories \cup AcDepartments \cup {NoParent}]
      /\ seen' \in [AcSlots -> SUBSET (TupleKeys \cup AcDevices)] /\ (\A z \in AcSlots : seen'[z] = seen[z])
  BY <1>0, <1>1, <1>5 DEF RowTypes
<1>7. /\ \A d \in AcDevices : Comp(d) \notin Touches(c) => installed'[d] = installed[d]
      /\ \A o \in Kin : rowParent'[o] = rowParent[o]
      /\ \A o \in AcObjects : o \notin Touches(c) => (o \in disturbed' <=> o \in disturbed)
      /\ \A o \in AcObjects : o \notin disturbed' => o \notin disturbed
      /\ UNCHANGED <<catalogued, tuples, crossed, begun, bare>>
      /\ bare' \subseteq {d \in AcDevices : installed'[d] # "none"}
  BY <1>0, <1>1, <1>4, <1>5, <1>6 DEF RowTypes
<1>8. CASE clash
  <2>1. acTodo' = [acTodo EXCEPT ![s] = AcIdle] /\ Touches(c) \subseteq disturbed' BY <1>1, <1>8 DEF Finishes
  <2>2. Remains(AcIdle, c) /\ AcIdle.job = "none" BY IdleFacts, RemainsFacts
  <2> HIDE DEF clash
  <2> QED BY <2>1, <2>2, <1>6, <1>7, RowsCall
<1>9. CASE ~clash
  <2> PICK n : n = AfterCall(c) OBVIOUS
  <2>1. Goes(n, c, "link") /\ acTodo' = [acTodo EXCEPT ![s] = n] /\ acTodo'[s] = n
    BY <1>0, <1>1, <1>3, <1>9 DEF Proceeds, RowTypes
  <2>2. n.job = c.job /\ n.o = c.o /\ NextCall(n) = "link" /\ Remains(n, c) /\ n.job # "none"
    BY <2>1, RemainsFacts DEF Goes
  <2>3. \A d \in seen[s] : installed'[d] = "on" /\ d \notin bare BY <1>0, <1>1, <1>4, <1>9 DEF RowTypes
  <2> HIDE DEF clash
  <2>4. SeenFit(s, n)'
    <3>1. Named(n) = Named(c) BY <2>2, <1>2, RequestTouches
    <3> QED BY <3>1, <2>2, <1>4, <1>6 DEF SeenFit
  <2>5. ASSUME NEW o \in Kin, o \in Touches(c), o \notin disturbed' PROVE OwnRow(s, o)'
    <3>1. OwnRow(s, o) BY <2>5, <1>7, OwnBefore, CompFacts
    <3>2. ~Rewrites(c, o) /\ ~Deletes(c, o) /\ ~Rewrites(n, o) /\ ~Deletes(n, o)
      BY <1>1, <2>2 DEF Rewrites, Deletes
    <3> QED BY <3>1, <3>2, <1>7, <2>1 DEF OwnRow, Up
  <2>6. ASSUME NEW d \in AcDevices, Comp(d) \in Touches(c), Comp(d) \notin disturbed' PROVE OwnInstall(s, d)'
    <3>1. OwnInstall(s, d) BY <2>6, <1>7, OwnBefore, CompFacts
    <3>2. ~Unlinked(c, d) /\ ~Unlinks(c, d) /\ ~Links(s, d) BY <1>1 DEF Unlinked, Unlinks, Links
    <3>3. ~Unlinked(n, d) /\ ~Unlinks(n, d) /\ (Links(s, d)' <=> d \in seen[s])
      BY <2>1, <2>2, <1>6 DEF Unlinked, Unlinks, Links
    <3>4. CASE d \in seen[s]
      <4>1. Whole(d)' BY <2>3, <3>4, <1>7 DEF Whole
      <4> QED BY <3>3, <3>4, <4>1, <2>1 DEF OwnInstall
    <3>5. CASE d \notin seen[s]
      BY <3>1, <3>2, <3>3, <3>5, <1>6, <1>7, <2>1 DEF OwnInstall, Up, Down, Whole
    <3> QED BY <3>4, <3>5
  <2> QED BY <2>1, <2>2, <2>4, <2>5, <2>6, <1>6, <1>7, RowsCall
<1> QED BY <1>8, <1>9

LEMMA EnableKeeps ==
    ASSUME AcInv, NEW s \in AcSlots, NEW c \in AcRequests, c = acTodo[s], c.job # "none",
           Enable(s, c), UNCHANGED <<begun, crossed, bare>>
    PROVE  AcInv'
<1>0. RowTypes BY RowTypesFact
<1> PICK n : n = AfterCall(c) OBVIOUS
<1>1. /\ NextCall(c) = "enable" /\ UNCHANGED <<rowParent, catalogued, tuples, disturbed>>
      /\ seen' = [seen EXCEPT ![s] = IF installed[c.o] = "none" THEN {c.o} ELSE {}]
      /\ installed' = [installed EXCEPT ![c.o] = c.to]
      /\ acTodo' = [acTodo EXCEPT ![s] = n] /\ acTodo'[s] = n
  BY <1>0 DEF Enable, Proceeds, RowTypes
<1>2. /\ Asks(c) /\ c.at \in DOMAIN CallsOf(c.job) BY OwnBefore
<1>3. c.job = "setInstallationState" /\ Goes(n, c, "link")
  BY <1>1, <1>2, CallTable
<1>4. n.job = c.job /\ n.o = c.o /\ NextCall(n) = "link" /\ Remains(n, c) /\ n.job # "none"
  BY <1>3, RemainsFacts DEF Goes
<1>5. c.o \in AcDevices /\ c.to \in {"on", "off"} /\ Named(c) = {c.o} /\ Named(n) = {c.o}
  BY <1>2, <1>3, <1>4, RequestTouches DEF Asks
<1>6. /\ installed' \in [AcDevices -> {"none", "on", "off"}]
      /\ installed'[c.o] = c.to /\ \A d \in AcDevices : d # c.o => installed'[d] = installed[d]
  BY <1>0, <1>1, <1>5 DEF RowTypes
<1>7. /\ seen' \in [AcSlots -> SUBSET (TupleKeys \cup AcDevices)] /\ (\A z \in AcSlots : z # s => seen'[z] = seen[z])
      /\ seen'[s] = IF installed[c.o] = "none" THEN {c.o} ELSE {}
  BY <1>0, <1>1, <1>5 DEF RowTypes
<1>8. \A d \in AcDevices : Comp(d) \in Touches(c) <=> d = c.o
  <2>1. c.o \notin Components BY <1>5, CompFacts DEF Kin
  <2> QED BY <2>1, <1>2, <1>5, RequestTouches, CompFacts
<1>9. SeenFit(s, n)' BY <1>4, <1>5, <1>7 DEF SeenFit
<1>10. ASSUME NEW o \in Kin, o \in Touches(c), o \notin disturbed' PROVE OwnRow(s, o)'
  <2>1. OwnRow(s, o) BY <1>10, <1>1, OwnBefore
  <2>2. ~Rewrites(c, o) /\ ~Deletes(c, o) /\ ~Rewrites(n, o) /\ ~Deletes(n, o)
    BY <1>1, <1>4 DEF Rewrites, Deletes
  <2> QED BY <2>1, <2>2, <1>1 DEF OwnRow, Up
<1>11. ASSUME NEW d \in AcDevices, Comp(d) \in Touches(c), Comp(d) \notin disturbed' PROVE OwnInstall(s, d)'
  <2>0. d = c.o BY <1>8, <1>11
  <2>1. OwnInstall(s, d) BY <1>11, <1>1, OwnBefore
  <2>2. ~Unlinked(c, d) /\ ~Unlinks(c, d) /\ ~Links(s, d) BY <1>1 DEF Unlinked, Unlinks, Links
  <2>3. ~Unlinked(n, d) /\ ~Unlinks(n, d) /\ (Links(s, d)' <=> installed[d] = "none") /\ installed'[d] # "none"
    BY <1>1, <1>4, <1>5, <1>6, <1>7, <2>0 DEF Unlinked, Unlinks, Links
  <2>4. /\ d \in bare => installed[d] # "none"
        /\ Whole(d)' <=> d \notin bare
    BY <1>0, <2>3 DEF RowTypes, Whole
  <2> QED BY <2>1, <2>2, <2>3, <2>4, <1>1 DEF OwnInstall, Up, Down, Whole
<1>12. UNCHANGED <<catalogued, tuples, crossed, begun>> /\ disturbed' = disturbed /\ rowParent' = rowParent
       /\ disturbed \subseteq AcObjects
       /\ rowParent \in [AcDepartments \cup AcDevices -> AcFactories \cup AcDepartments \cup {NoParent}]
  BY <1>0, <1>1 DEF RowTypes
<1>13. \A d \in AcDevices : Comp(d) \notin Touches(c) => installed'[d] = installed[d]
  BY <1>6, <1>8
<1>14. Remains(n, c) /\ acTodo' = [acTodo EXCEPT ![s] = n] /\ bare' = bare
       /\ bare' \subseteq {d \in AcDevices : installed'[d] # "none"}
  BY <1>0, <1>1, <1>4, <1>5, <1>6 DEF RowTypes
<1>15. /\ rowParent' \in [AcDepartments \cup AcDevices -> AcFactories \cup AcDepartments \cup {NoParent}]
       /\ disturbed' \subseteq AcObjects /\ \A o \in Kin : rowParent'[o] = rowParent[o]
       /\ UNCHANGED <<catalogued, tuples, crossed, begun>>
       /\ \A o \in AcObjects : o \notin disturbed' <=> o \notin disturbed
       /\ installed' \in [AcDevices -> {"none", "on", "off"}]
       /\ seen' \in [AcSlots -> SUBSET (TupleKeys \cup AcDevices)] /\ (\A z \in AcSlots : z # s => seen'[z] = seen[z])
  BY <1>6, <1>7, <1>12
<1> QED BY <1>9, <1>10, <1>11, <1>13, <1>14, <1>15, RowsCall

LEMMA DeleteRowKeeps ==
    ASSUME AcInv, NEW s \in AcSlots, NEW c \in AcRequests, c = acTodo[s], c.job # "none",
           DeleteRow(s, c), UNCHANGED <<begun, crossed>>, bare' = bare \ {c.o}
    PROVE  AcInv'
<1>0. RowTypes BY RowTypesFact
<1>1. /\ NextCall(c) = "delete" /\ UNCHANGED <<catalogued, tuples, seen, disturbed>>
      /\ rowParent' = [rowParent EXCEPT ![c.o] = NoParent]
      /\ installed' = [installed EXCEPT ![c.o] = "none"]
      /\ acTodo' = [acTodo EXCEPT ![s] = AcIdle] /\ acTodo'[s] = AcIdle
  BY <1>0 DEF DeleteRow, Finishes, RowTypes
<1>2. /\ Asks(c) /\ c.at \in DOMAIN CallsOf(c.job) BY OwnBefore
<1>3. c.job = "deleteDevice" BY <1>1, <1>2, CallTable
<1>4. c.o \in AcDevices /\ c.o \in Kin /\ Named(c) = {c.o} /\ c.o \notin Components
  BY <1>2, <1>3, RequestTouches, CompFacts DEF Asks, Kin
<1>5. /\ \A d \in AcDevices : Comp(d) \in Touches(c) <=> d = c.o
      /\ \A o \in Kin : o \in Touches(c) <=> o = c.o
  BY <1>2, <1>4, RequestTouches, CompFacts
<1>6. /\ installed' \in [AcDevices -> {"none", "on", "off"}]
      /\ installed'[c.o] = "none" /\ \A d \in AcDevices : d # c.o => installed'[d] = installed[d]
      /\ rowParent' \in [AcDepartments \cup AcDevices -> AcFactories \cup AcDepartments \cup {NoParent}]
      /\ rowParent'[c.o] = NoParent /\ \A o \in Kin : o # c.o => rowParent'[o] = rowParent[o]
  BY <1>0, <1>1, <1>4 DEF RowTypes, Kin
<1>7. c.o \notin disturbed' => OwnRow(s, c.o)'
  <2> SUFFICES ASSUME c.o \notin disturbed' PROVE OwnRow(s, c.o)'
    OBVIOUS
  <2>1. OwnRow(s, c.o) BY <1>1, <1>4, <1>5, OwnBefore
  <2>2. Deletes(c, c.o) BY <1>1, <1>3 DEF Deletes
  <2>3. ~Rewrites(AcIdle, c.o) /\ ~Deletes(AcIdle, c.o) BY IdleFacts DEF Rewrites, Deletes, Parenting
  <2>4. \A p \in AcObjects \cup AcUsers : ~Up(c.o, p) BY <2>1, <2>2 DEF OwnRow
  <2> QED BY <2>3, <2>4, <1>1, <1>6 DEF OwnRow, Up
<1>8. Comp(c.o) \notin disturbed' => OwnInstall(s, c.o)'
  <2> SUFFICES ASSUME Comp(c.o) \notin disturbed' PROVE OwnInstall(s, c.o)'
    OBVIOUS
  <2>1. OwnInstall(s, c.o) BY <1>1, <1>4, <1>5, OwnBefore
  <2>2. Unlinked(c, c.o) BY <1>1, <1>3 DEF Unlinked
  <2>3. ~Unlinked(AcIdle, c.o) /\ ~Unlinks(AcIdle, c.o) /\ ~Links(s, c.o)'
    BY IdleFacts, <1>1 DEF Unlinked, Unlinks, Links
  <2>4. ~Up(Comp(c.o), c.o) /\ ~Down(Comp(c.o), c.o) BY <2>1, <2>2 DEF OwnInstall
  <2> QED BY <2>3, <2>4, <1>1, <1>6 DEF OwnInstall, Up, Down, Whole
<1>9. UNCHANGED <<catalogued, tuples, crossed, begun>> /\ disturbed' = disturbed
      /\ disturbed \subseteq AcObjects /\ seen' \in [AcSlots -> SUBSET (TupleKeys \cup AcDevices)]
      /\ (\A z \in AcSlots : z # s => seen'[z] = seen[z])
  BY <1>0, <1>1 DEF RowTypes
<1>10. /\ \A o \in Kin : o \in Touches(c) /\ o \notin disturbed' => OwnRow(s, o)'
       /\ \A d \in AcDevices : Comp(d) \in Touches(c) /\ Comp(d) \notin disturbed' => OwnInstall(s, d)'
  BY <1>5, <1>7, <1>8
<1>11. /\ \A d \in AcDevices : Comp(d) \notin Touches(c) => installed'[d] = installed[d] /\ (d \in bare' <=> d \in bare)
       /\ \A o \in Kin : o \notin Touches(c) => rowParent'[o] = rowParent[o]
       /\ bare' \subseteq {d \in AcDevices : installed'[d] # "none"}
  BY <1>0, <1>5, <1>6 DEF RowTypes
<1>12. Remains(AcIdle, c) /\ AcIdle.job = "none" BY IdleFacts, RemainsFacts
<1>13. /\ rowParent' \in [AcDepartments \cup AcDevices -> AcFactories \cup AcDepartments \cup {NoParent}]
       /\ installed' \in [AcDevices -> {"none", "on", "off"}] /\ disturbed' \subseteq AcObjects
       /\ acTodo' = [acTodo EXCEPT ![s] = AcIdle]
       /\ \A o \in AcObjects : o \in disturbed' <=> o \in disturbed
  BY <1>1, <1>6, <1>9
<1> HIDE DEF AcInv
<1> QED BY <1>9, <1>10, <1>11, <1>12, <1>13, RowsCall

LEMMA ThrowsKeeps ==
    ASSUME AcInv, NEW s \in AcSlots, NEW c \in AcRequests, c = acTodo[s], Throws(s)
    PROVE  AcInv'
<1>0. RowTypes BY RowTypesFact
<1>1. /\ c.job # "none" /\ acTodo' = [acTodo EXCEPT ![s] = AcIdle]
      /\ disturbed' = disturbed \cup Touches(c)
      /\ UNCHANGED <<rowParent, installed, bare, catalogued, tuples, seen, begun, crossed>>
  BY DEF Throws, Finishes
<1>2. Touches(c) \subseteq AcObjects
  <2>1. Asks(c) BY DEF AcInv, RequestsAsk
  <2> QED BY <2>1, RequestTouches
<1>3. Remains(AcIdle, c) /\ AcIdle.job = "none" BY IdleFacts, RemainsFacts
<1>4. /\ rowParent' \in [AcDepartments \cup AcDevices -> AcFactories \cup AcDepartments \cup {NoParent}]
      /\ installed' \in [AcDevices -> {"none", "on", "off"}] /\ disturbed' \subseteq AcObjects
      /\ seen' \in [AcSlots -> SUBSET (TupleKeys \cup AcDevices)]
      /\ bare' \subseteq {d \in AcDevices : installed'[d] # "none"}
  BY <1>0, <1>1, <1>2 DEF RowTypes
<1> QED BY <1>1, <1>3, <1>4, RowsCall

-----------------------------------------------------------------------------
\* A call that writes tuples only.
LEMMA TuplesCall ==
    ASSUME AcInv, NEW s \in AcSlots, NEW c \in AcRequests, c = acTodo[s], c.job # "none",
           NEW n, Remains(n, c), acTodo' = [acTodo EXCEPT ![s] = n],
           UNCHANGED <<rowParent, installed, bare, catalogued, seen, disturbed, begun, crossed>>,
           n.job # "none" => NextCall(n) \in {"catalog", "delete", "read"},
           tuples' \subseteq TupleKeys, PairsFit',
           \A o \in Kin \cup Components, p \in AcObjects \cup AcUsers : o \notin Touches(c) =>
              (Up(o, p)' <=> Up(o, p)) /\ (Down(o, p)' <=> Down(o, p)),
           \A t \in TupleKeys : t.object \notin Touches(c) /\ t.relation # "child" => (t \in tuples' <=> t \in tuples),
           \A o \in Kin : o \in Touches(c) /\ o \notin disturbed => OwnRow(s, o)',
           \A d \in AcDevices : Comp(d) \in Touches(c) /\ Comp(d) \notin disturbed => OwnInstall(s, d)',
           \A o \in AcObjects : o \in Touches(c) /\ o \notin crossed => OneOn(o)'
    PROVE  AcInv'
<1>0. RowTypes BY RowTypesFact
<1>2. AcTypeOK'
  <2>1. \A z \in AcSlots : acTodo'[z].job # "none" => acTodo'[z].at \in DOMAIN CallsOf(acTodo'[z].job)
    BY TodoTyped
  <2> QED BY <2>1 DEF AcInv, AcTypeOK
<1>4. ElsewhereSame(c) BY DEF ElsewhereSame
<1>5. n.job # "none" => SeenFit(s, n)' BY DEF SeenFit
<1>6. seen' \in [AcSlots -> SUBSET (TupleKeys \cup AcDevices)] /\ (\A z \in AcSlots : z # s => seen'[z] = seen[z])
      /\ crossed' = crossed
  BY <1>0 DEF RowTypes
<1>7. \A o \in AcObjects : o \in Touches(c) /\ o \notin disturbed' => o \notin disturbed \/ Alone(s, o)
  OBVIOUS
<1>8. n \in AcRequests /\ (n = AcIdle \/ (n.job = c.job /\ n.o = c.o /\ n.to = c.to /\ n.user = c.user))
  BY DEF Remains
<1>9. /\ \A o \in Kin : o \in Touches(c) /\ o \notin disturbed' => OwnRow(s, o)'
      /\ \A d \in AcDevices : Comp(d) \in Touches(c) /\ Comp(d) \notin disturbed' => OwnInstall(s, d)'
  OBVIOUS
<1> QED BY <1>2, <1>4, <1>5, <1>6, <1>7, <1>8, <1>9, CallKeeps

\* The two tuples of a pair.
LEMMA PairFacts ==
    \A o, p, t : t \in createObjectParentTupleKeys(o, p) <=> (t = Tuple(o, "parent", p) \/ t = Tuple(p, "child", o))
  BY DEF createObjectParentTupleKeys

LEMMA ReparentKeeps ==
    ASSUME AcInv, NEW s \in AcSlots, NEW c \in AcRequests, c = acTodo[s], c.job # "none",
           Reparent(s, c), UNCHANGED <<begun, crossed, bare>>
    PROVE  AcInv'
<1>0. RowTypes BY RowTypesFact
<1> PICK n : n = AfterCall(c) OBVIOUS
<1> DEFINE Wrong(p) == Tuple(c.o, "parent", p) \in seen[s] /\ p # c.to
           Has == Tuple(c.o, "parent", c.to) \in seen[s]
<1>1. NextCall(c) = "reparent" /\ acTodo' = [acTodo EXCEPT ![s] = n] /\ acTodo'[s] = n
      /\ UNCHANGED <<rowParent, installed, catalogued, seen, disturbed>>
  BY <1>0 DEF Reparent, Proceeds, RowTypes
<1>2. /\ Asks(c) /\ c.at \in DOMAIN CallsOf(c.job) /\ SeenFit(s, c) BY OwnBefore
<1>3. c.job \in Parenting /\ (n = AcIdle \/ Goes(n, c, "catalog"))
  BY <1>1, <1>2, CallTable
<1>4. c.o \in Kin /\ c.o \in AcObjects /\ c.to \in AcFactories \cup AcDepartments /\ c.to # NoParent /\ c.to \in AcObjects
      /\ Named(c) = {c.o} /\ c.o \notin Components
  BY <1>2, <1>3, RequestTouches, AcAssumption, CompFacts DEF Asks, Parenting, Kin, AcObjects
<1>5. Remains(n, c) /\ (n.job # "none" => n.job = c.job /\ n.o = c.o /\ NextCall(n) = "catalog")
  BY <1>3, RemainsFacts, IdleFacts DEF Goes
<1>6. \A t \in seen[s] : t \in TupleKeys /\ t.object = c.o
  BY <1>1, <1>2 DEF SeenFit
<1>7. \A t : t \in tuples' <=> \/ t \in tuples /\ ~\E p : Wrong(p) /\ (t = Tuple(c.o, "parent", p) \/ t = Tuple(p, "child", c.o))
                               \/ ~Has /\ (t = Tuple(c.o, "parent", c.to) \/ t = Tuple(c.to, "child", c.o))
  <2> DEFINE old == {t \in seen[s] : t.relation = "parent"}
             wrong == {t.user : t \in old} \ {c.to}
             has == \E t \in old : t.user = c.to
  <2>1. tuples' = (tuples \ (UNION {createObjectParentTupleKeys(c.o, p) : p \in wrong}))
                     \cup (IF has THEN {} ELSE createObjectParentTupleKeys(c.o, c.to))
    BY DEF Reparent
  <2>2. \A p : p \in wrong <=> Wrong(p)
    <3>1. \A p : p \in wrong <=> p # c.to /\ \E t \in seen[s] : t.relation = "parent" /\ t.user = p
      OBVIOUS
    <3>2. \A p : (\E t \in seen[s] : t.relation = "parent" /\ t.user = p) <=> Tuple(c.o, "parent", p) \in seen[s]
      BY <1>6, TupleFacts
    <3> QED BY <3>1, <3>2
  <2>3. has <=> Has BY <1>6, TupleFacts
  <2> HIDE DEF wrong, has, Wrong, Has
  <2> QED BY <2>1, <2>2, <2>3, PairFacts
<1> HIDE DEF Wrong, Has
<1>8. \A o, p : Up(o, p)' <=> (Up(o, p) /\ ~(o = c.o /\ Wrong(p))) \/ (~Has /\ o = c.o /\ p = c.to)
  BY <1>7, TupleFacts DEF Up
<1>9. \A o, p : Down(o, p)' <=> (Down(o, p) /\ ~(o = c.o /\ Wrong(p))) \/ (~Has /\ o = c.o /\ p = c.to)
  BY <1>7, TupleFacts DEF Down
<1>10. \A t \in TupleKeys : t.relation \notin {"parent", "child"} => (t \in tuples' <=> t \in tuples)
  BY <1>7, TupleFacts
<1>11. \A t \in TupleKeys : t.object # c.o /\ t.relation # "child" => (t \in tuples' <=> t \in tuples)
  BY <1>7, TupleFacts
<1>12. tuples' \subseteq TupleKeys
  <2>1. Tuple(c.o, "parent", c.to) \in TupleKeys /\ Tuple(c.to, "child", c.o) \in TupleKeys
    BY <1>4, TupleFacts
  <2> QED BY <2>1, <1>7, <1>0 DEF RowTypes
<1>13. PairsFit'
  <2>1. \A o \in Kin : \A p \in AcObjects \cup AcUsers : (Up(o, p)' <=> Down(o, p)') /\ (Up(o, p)' => p \in AcFactories \cup AcDepartments)
    BY <1>8, <1>9, <1>4 DEF AcInv, PairsFit
  <2>2. \A d \in AcDevices : \A p \in AcObjects \cup AcUsers :
          (Up(Comp(d), p)' => p = d) /\ (Down(Comp(d), p)' => p = d /\ Up(Comp(d), p)')
    BY <1>8, <1>9, <1>4, CompFacts DEF AcInv, PairsFit
  <2> QED BY <2>1, <2>2 DEF PairsFit
<1>14. c.o \in Touches(c) /\ \A o \in Kin : o \in Touches(c) <=> o = c.o
  BY <1>2, <1>4, RequestTouches
<1>15. ASSUME c.o \notin disturbed PROVE OwnRow(s, c.o)'
  <2>1. OwnRow(s, c.o) BY <1>14, <1>15, <1>4, OwnBefore
  <2>2. rowParent[c.o] = c.to BY <2>1, <1>1, <1>3 DEF OwnRow, Rewrites
  <2>3. \A p \in AcObjects \cup AcUsers : Up(c.o, p) <=> Tuple(c.o, "parent", p) \in seen[s]
    <3>1. Sole(c.o) BY <1>15 DEF Sole
    <3>2. \A p \in AcObjects \cup AcUsers : Tuple(c.o, "parent", p) \in TupleKeys BY <1>4, TupleFacts
    <3> QED BY <3>1, <3>2, <1>1, <1>2, TupleFacts DEF SeenFit, Up
  <2>4. \A p \in AcObjects \cup AcUsers : Up(c.o, p)' <=> p = c.to
    BY <2>3, <1>8, <1>4 DEF Wrong, Has
  <2>5. ~Rewrites(n, c.o) /\ ~Deletes(n, c.o)
    BY <1>5 DEF Rewrites, Deletes, Parenting
  <2> QED BY <2>2, <2>4, <2>5, <1>1, <1>4 DEF OwnRow
<1>16. ASSUME NEW d \in AcDevices, Comp(d) \in Touches(c), Comp(d) \notin disturbed PROVE OwnInstall(s, d)'
  <2>1. OwnInstall(s, d) BY <1>16, OwnBefore
  <2>2. ~Unlinked(c, d) /\ ~Unlinks(c, d) /\ ~Links(s, d) BY <1>1 DEF Unlinked, Unlinks, Links
  <2>3. ~Unlinked(n, d) /\ ~Unlinks(n, d) /\ ~Links(s, d)'
    BY <1>5, <1>1 DEF Unlinked, Unlinks, Links
  <2>4. (Up(Comp(d), d)' <=> Up(Comp(d), d)) /\ (Down(Comp(d), d)' <=> Down(Comp(d), d))
    BY <1>8, <1>9, <1>4, CompFacts
  <2>5. Whole(d)' <=> Whole(d) BY <1>1 DEF Whole
  <2> QED BY <2>1, <2>2, <2>3, <2>4, <2>5, <1>1 DEF OwnInstall
<1>17. ASSUME NEW o \in AcObjects, o \notin crossed PROVE OneOn(o)'
  <2>1. OneOn(o) BY <1>17, OwnBefore
  <2>2. \A u \in AcUsers, q \in DirectRelations(o) : Tuple(o, q, u) \in TupleKeys /\ q \notin {"parent", "child"}
    BY DEF TupleKeys, Tuple, DirectRelations
  <2> QED BY <2>1, <2>2, <1>10, TupleFacts DEF OneOn, Direct
<1>18. \A o \in Kin \cup Components, p \in AcObjects \cup AcUsers : o \notin Touches(c) =>
              (Up(o, p)' <=> Up(o, p)) /\ (Down(o, p)' <=> Down(o, p))
  BY <1>8, <1>9, <1>14
<1>19. \A t \in TupleKeys : t.object \notin Touches(c) /\ t.relation # "child" => (t \in tuples' <=> t \in tuples)
  BY <1>11, <1>14
<1>20. \A o \in Kin : o \in Touches(c) /\ o \notin disturbed => OwnRow(s, o)'
  BY <1>14, <1>15
<1> QED BY <1>1, <1>5, <1>12, <1>13, <1>16, <1>17, <1>18, <1>19, <1>20, TuplesCall

LEMMA ForgetKeeps ==
    ASSUME AcInv, NEW s \in AcSlots, NEW c \in AcRequests, c = acTodo[s], c.job # "none",
           Forget(s, c), UNCHANGED <<begun, crossed, bare>>
    PROVE  AcInv'
<1>0. RowTypes BY RowTypesFact
<1> PICK n : n = AfterCall(c) OBVIOUS
<1>1. NextCall(c) = "forget" /\ acTodo' = [acTodo EXCEPT ![s] = n] /\ acTodo'[s] = n
      /\ UNCHANGED <<rowParent, installed, catalogued, seen, disturbed>>
  BY <1>0 DEF Forget, Proceeds, RowTypes
<1>2. /\ Asks(c) /\ c.at \in DOMAIN CallsOf(c.job) /\ SeenFit(s, c) BY OwnBefore
<1>3. c.job = "deleteDevice" /\ Goes(n, c, "delete")
  BY <1>1, <1>2, CallTable
<1>4. c.o \in AcDevices /\ c.o \in Kin /\ c.o \in AcObjects /\ Named(c) = {c.o} /\ c.o \notin Components
      /\ c.o \notin AcFactories \cup AcDepartments
  BY <1>2, <1>3, RequestTouches, AcAssumption, CompFacts DEF Asks, Kin, AcObjects
<1>5. Remains(n, c) /\ n.job = "deleteDevice" /\ n.o = c.o /\ NextCall(n) = "delete"
  BY <1>3, RemainsFacts DEF Goes
<1>6. \A t \in seen[s] : t \in TupleKeys /\ t.object = c.o
  BY <1>1, <1>2 DEF SeenFit
<1>7. \A t : t \in tuples' <=> /\ t \in tuples /\ t \notin seen[s]
                               /\ ~\E p : Tuple(c.o, "parent", p) \in seen[s] /\ t = Tuple(p, "child", c.o)
  <2>1. \A t : t \in {Tuple(x.user, "child", c.o) : x \in {y \in seen[s] : y.relation = "parent"}}
                 <=> \E p : Tuple(c.o, "parent", p) \in seen[s] /\ t = Tuple(p, "child", c.o)
    <3>1. \A t : t \in {Tuple(x.user, "child", c.o) : x \in {y \in seen[s] : y.relation = "parent"}}
                 <=> \E x \in seen[s] : x.relation = "parent" /\ t = Tuple(x.user, "child", c.o)
      OBVIOUS
    <3>2. \A x \in seen[s] : x.relation = "parent" => x = Tuple(c.o, "parent", x.user)
      BY <1>6, TupleFacts
    <3> QED BY <3>1, <3>2, TupleFacts
  <2> QED BY <2>1 DEF Forget
<1>8. \A o, p : Up(o, p)' <=> Up(o, p) /\ Tuple(o, "parent", p) \notin seen[s]
  BY <1>7, TupleFacts DEF Up
<1>9. \A o, p : Down(o, p)' <=> Down(o, p) /\ Tuple(p, "child", o) \notin seen[s] /\ ~(o = c.o /\ Tuple(c.o, "parent", p) \in seen[s])
  BY <1>7, TupleFacts DEF Down
<1>10. \A o, p : Tuple(o, "parent", p) \in seen[s] => o = c.o
  BY <1>6, TupleFacts
<1>11. \A o, p : Tuple(p, "child", o) \in seen[s] => p = c.o
  BY <1>6, TupleFacts
<1>12. tuples' \subseteq tuples /\ tuples' \subseteq TupleKeys
  BY <1>7, <1>0 DEF RowTypes
<1>13. \A o \in Kin : ~Down(o, c.o) /\ ~Up(o, c.o)
  BY <1>4 DEF AcInv, PairsFit
<1>14. PairsFit'
  <2>1. ASSUME NEW o \in Kin, NEW p \in AcObjects \cup AcUsers
        PROVE (Up(o, p)' <=> Down(o, p)') /\ (Up(o, p)' => p \in AcFactories \cup AcDepartments)
    <3>1. (Up(o, p) <=> Down(o, p)) /\ (Up(o, p) => p \in AcFactories \cup AcDepartments)
      BY DEF AcInv, PairsFit
    <3>2. Up(o, p)' <=> Up(o, p) /\ ~(o = c.o /\ Tuple(c.o, "parent", p) \in seen[s])
      BY <1>8, <1>10
    <3>3. Down(o, p)' <=> Down(o, p) /\ ~(o = c.o /\ Tuple(c.o, "parent", p) \in seen[s])
      BY <1>9, <1>11, <1>13
    <3> QED BY <3>1, <3>2, <3>3
  <2>2. \A d \in AcDevices : \A p \in AcObjects \cup AcUsers :
          (Up(Comp(d), p)' => p = d) /\ (Down(Comp(d), p)' => p = d /\ Up(Comp(d), p)')
    BY <1>8, <1>9, <1>10, <1>4, CompFacts DEF AcInv, PairsFit
  <2> QED BY <2>1, <2>2 DEF PairsFit
<1>15. /\ c.o \in Touches(c) /\ \A o \in Kin : o \in Touches(c) <=> o = c.o
       /\ \A d \in AcDevices : Comp(d) \in Touches(c) <=> d = c.o
  BY <1>2, <1>4, RequestTouches, CompFacts
<1>16. ASSUME c.o \notin disturbed PROVE OwnRow(s, c.o)'
  <2>1. Sole(c.o) BY <1>16 DEF Sole
  <2>2. \A p \in AcObjects \cup AcUsers : Tuple(c.o, "parent", p) \in TupleKeys BY <1>4, TupleFacts
  <2>3. \A p \in AcObjects \cup AcUsers : ~Up(c.o, p)'
    BY <2>1, <2>2, <1>1, <1>2, <1>8, TupleFacts DEF SeenFit, Up
  <2>4. ~Rewrites(n, c.o) /\ Deletes(n, c.o)
    BY <1>5 DEF Rewrites, Deletes, Parenting
  <2> QED BY <2>3, <2>4, <1>1 DEF OwnRow
<1>17. ASSUME NEW d \in AcDevices, Comp(d) \in Touches(c), Comp(d) \notin disturbed PROVE OwnInstall(s, d)'
  <2>0. d = c.o BY <1>15, <1>17
  <2>1. OwnInstall(s, d) BY <1>17, OwnBefore
  <2>2. Unlinked(c, d) BY <1>1, <1>3, <2>0 DEF Unlinked
  <2>3. Unlinked(n, d) /\ ~Unlinks(n, d) /\ ~Links(s, d)'
    BY <1>5, <1>1, <2>0 DEF Unlinked, Unlinks, Links
  <2>4. ~Up(Comp(d), d)' /\ ~Down(Comp(d), d)'
    BY <2>1, <2>2, <1>8, <1>9 DEF OwnInstall
  <2> QED BY <2>3, <2>4, <1>1 DEF OwnInstall
<1>18. ASSUME NEW o \in AcObjects, o \notin crossed PROVE OneOn(o)'
  <2>1. OneOn(o) BY <1>18, OwnBefore
  <2> QED BY <2>1, <1>12 DEF OneOn, Direct
<1>19. \A o \in Kin \cup Components, p \in AcObjects \cup AcUsers : o \notin Touches(c) =>
              (Up(o, p)' <=> Up(o, p)) /\ (Down(o, p)' <=> Down(o, p))
  <2> SUFFICES ASSUME NEW o \in Kin \cup Components, NEW p \in AcObjects \cup AcUsers, o \notin Touches(c)
               PROVE  (Up(o, p)' <=> Up(o, p)) /\ (Down(o, p)' <=> Down(o, p))
    OBVIOUS
  <2>1. o # c.o BY <1>15
  <2>2. Up(o, p)' <=> Up(o, p) BY <2>1, <1>8, <1>10
  <2>3. ~Down(o, c.o)
    <3>1. CASE o \in Kin BY <3>1, <1>13
    <3>2. CASE o \in Components
      <4>1. PICK d \in AcDevices : o = Comp(d) BY <3>2, CompFacts
      <4>2. d # c.o BY <4>1, <1>15
      <4> QED BY <4>1, <4>2, <1>4 DEF AcInv, PairsFit
    <3> QED BY <3>1, <3>2
  <2>4. Down(o, p)' <=> Down(o, p) BY <2>1, <2>3, <1>9, <1>11
  <2> QED BY <2>2, <2>4
<1>20. \A t \in TupleKeys : t.object \notin Touches(c) /\ t.relation # "child" => (t \in tuples' <=> t \in tuples)
  BY <1>7, <1>6, <1>15, TupleFacts
<1>21. \A o \in Kin : o \in Touches(c) /\ o \notin disturbed => OwnRow(s, o)'
  BY <1>15, <1>16
<1> QED BY <1>1, <1>5, <1>12, <1>14, <1>17, <1>18, <1>19, <1>20, <1>21, TuplesCall

LEMMA GrantKeeps ==
    ASSUME AcInv, NEW s \in AcSlots, NEW c \in AcRequests, c = acTodo[s], c.job # "none",
           Grant(s, c), UNCHANGED <<begun, crossed, bare>>
    PROVE  AcInv'
<1>0. RowTypes BY RowTypesFact
<1>1. NextCall(c) = "grant" /\ acTodo' = [acTodo EXCEPT ![s] = AfterCall(c)]
      /\ UNCHANGED <<rowParent, installed, catalogued, seen, disturbed>>
  BY DEF Grant, Proceeds
<1>2. /\ Asks(c) /\ c.at \in DOMAIN CallsOf(c.job) /\ SeenFit(s, c) BY OwnBefore
<1>3. c.job = "assignment" /\ AfterCall(c) = AcIdle
  BY <1>1, <1>2, CallTable
<1>4. acTodo' = [acTodo EXCEPT ![s] = AcIdle] /\ acTodo'[s] = AcIdle
  BY <1>0, <1>1, <1>3 DEF RowTypes
<1>5. c.o \in AcObjects /\ c.user \in AcUsers /\ (c.to # NoParent => c.to \in DirectRelations(c.o)) /\ Named(c) = {c.o}
  BY <1>2, <1>3, RequestTouches DEF Asks
<1>6. \A t \in seen[s] : t \in TupleKeys /\ t.object = c.o
  BY <1>1, <1>2 DEF SeenFit
<1>7. \A r \in DirectRelations(c.o) : r \notin {"parent", "child"} /\ Tuple(c.o, r, c.user) \in TupleKeys
  BY <1>5 DEF DirectRelations, Tuple, TupleKeys
<1> DEFINE Mine(t) == t \in seen[s] /\ t.user = c.user /\ t.relation \in DirectRelations(c.o)
           Added == c.to # NoParent /\ ~\E t : Mine(t) /\ t.relation = c.to
<1>8. \A t : t \in tuples' <=> (t \in tuples /\ ~(Mine(t) /\ t.relation # c.to)) \/ (Added /\ t = Tuple(c.o, c.to, c.user))
  <2> DEFINE mine == {t \in seen[s] : t.user = c.user /\ t.relation \in DirectRelations(c.o)}
  <2>1. tuples' = (tuples \ {t \in mine : t.relation # c.to})
                     \cup (IF c.to = NoParent \/ \E t \in mine : t.relation = c.to
                           THEN {} ELSE {Tuple(c.o, c.to, c.user)})
    BY DEF Grant
  <2>2. \A t : t \in mine <=> Mine(t) OBVIOUS
  <2> HIDE DEF mine, Mine
  <2> QED BY <2>1, <2>2
<1>9. Added => Tuple(c.o, c.to, c.user) \in TupleKeys /\ c.to \notin {"parent", "child"} /\ c.to \in DirectRelations(c.o)
  BY <1>5, <1>7
<1>10. \A t : Mine(t) => t \in TupleKeys /\ t.object = c.o /\ t.relation \notin {"parent", "child"} /\ t.user = c.user
  BY <1>6, <1>7
<1> HIDE DEF Mine, Added
<1>11. tuples' \subseteq TupleKeys BY <1>8, <1>9, <1>0 DEF RowTypes
<1>12. /\ \A o, p : (Up(o, p)' <=> Up(o, p)) /\ (Down(o, p)' <=> Down(o, p))
  <2>1. \A o, p : Up(o, p)' <=> Up(o, p) BY <1>8, <1>9, <1>10, TupleFacts DEF Up
  <2>2. \A o, p : Down(o, p)' <=> Down(o, p) BY <1>8, <1>9, <1>10, TupleFacts DEF Down
  <2> QED BY <2>1, <2>2
<1>13. \A t \in TupleKeys : t.object # c.o => (t \in tuples' <=> t \in tuples)
  BY <1>8, <1>10, TupleFacts
<1>14. PairsFit' BY <1>12 DEF AcInv, PairsFit
<1>15. c.o \in Touches(c) BY <1>5 DEF Touches
<1>16. Remains(AcIdle, c) /\ AcIdle.job = "none" BY IdleFacts, RemainsFacts
<1>17. ASSUME NEW o \in Kin, o \in Touches(c), o \notin disturbed PROVE OwnRow(s, o)'
  <2>1. OwnRow(s, o) BY <1>17, OwnBefore
  <2>2. ~Rewrites(c, o) /\ ~Deletes(c, o) /\ ~Rewrites(AcIdle, o) /\ ~Deletes(AcIdle, o)
    BY <1>3, <1>16 DEF Rewrites, Deletes, Parenting
  <2> QED BY <2>1, <2>2, <1>1, <1>4, <1>12 DEF OwnRow
<1>18. ASSUME NEW d \in AcDevices, Comp(d) \in Touches(c), Comp(d) \notin disturbed PROVE OwnInstall(s, d)'
  <2>1. OwnInstall(s, d) BY <1>18, OwnBefore
  <2>2. ~Unlinked(c, d) /\ ~Unlinks(c, d) /\ ~Links(s, d) BY <1>1 DEF Unlinked, Unlinks, Links
  <2>3. ~Unlinked(AcIdle, d) /\ ~Unlinks(AcIdle, d) /\ ~Links(s, d)'
    BY <1>16, <1>4 DEF Unlinked, Unlinks, Links
  <2>4. Whole(d)' <=> Whole(d) BY <1>1 DEF Whole
  <2> QED BY <2>1, <2>2, <2>3, <2>4, <1>1, <1>4, <1>12 DEF OwnInstall
<1>19. ASSUME NEW o \in AcObjects, o \notin crossed PROVE OneOn(o)'
  <2>1. OneOn(o) BY <1>19, OwnBefore
  <2>2. \A u \in AcUsers, q \in DirectRelations(o) : Tuple(o, q, u) \in TupleKeys /\ q # "child"
    BY DEF TupleKeys, Tuple, DirectRelations
  <2>3. CASE o # c.o
    <3>1. \A u \in AcUsers, q \in DirectRelations(o) : Tuple(o, q, u) \in tuples' <=> Tuple(o, q, u) \in tuples
      BY <2>2, <2>3, <1>13, TupleFacts
    <3> QED BY <2>1, <3>1 DEF OneOn, Direct
  <2>4. CASE o = c.o
    <3>1. ASSUME NEW u \in AcUsers, u # c.user, NEW q \in DirectRelations(o) PROVE Tuple(o, q, u) \in tuples' => Tuple(o, q, u) \in tuples
      BY <3>1, <1>8, TupleFacts
    <3>2. Sole(o) BY <1>19 DEF Sole
    <3>3. \A q \in DirectRelations(o) : Tuple(o, q, c.user) \in tuples => Tuple(o, q, c.user) \in seen[s]
      BY <3>2, <2>2, <2>4, <1>1, <1>2, <1>5, TupleFacts DEF SeenFit
    <3>4. \A q \in DirectRelations(o) : Tuple(o, q, c.user) \in tuples => Mine(Tuple(o, q, c.user))
      BY <3>3, <2>4, TupleFacts DEF Mine
    <3>5. \A q \in DirectRelations(o) : Tuple(o, q, c.user) \in tuples' => q = c.to
      BY <3>4, <1>8, TupleFacts
    <3> QED BY <2>1, <3>1, <3>5 DEF OneOn, Direct
  <2> QED BY <2>3, <2>4
<1>20. \A t \in TupleKeys : t.object \notin Touches(c) /\ t.relation # "child" => (t \in tuples' <=> t \in tuples)
  BY <1>13, <1>15
<1> QED BY <1>1, <1>4, <1>11, <1>12, <1>14, <1>16, <1>17, <1>18, <1>19, <1>20, TuplesCall

LEMMA LinkKeeps ==
    ASSUME AcInv, NEW s \in AcSlots, NEW c \in AcRequests, c = acTodo[s], c.job # "none",
           Link(s, c), UNCHANGED <<begun, crossed, bare>>
    PROVE  AcInv'
<1>0. RowTypes BY RowTypesFact
<1>1. NextCall(c) = "link" /\ acTodo' = [acTodo EXCEPT ![s] = AfterCall(c)]
      /\ UNCHANGED <<rowParent, installed, catalogued, seen, disturbed>>
  BY DEF Link, Proceeds
<1>2. /\ Asks(c) /\ c.at \in DOMAIN CallsOf(c.job) /\ SeenFit(s, c) BY OwnBefore
<1>3. c.job \in {"createDevice", "createCatalogEntry", "setInstallationState"} /\ AfterCall(c) = AcIdle
  BY <1>1, <1>2, CallTable
<1>4. acTodo' = [acTodo EXCEPT ![s] = AcIdle] /\ acTodo'[s] = AcIdle
  BY <1>0, <1>1, <1>3 DEF RowTypes
<1>5. seen[s] \subseteq Named(c) \cap AcDevices
  BY <1>1, <1>2 DEF SeenFit
<1>6. \A t : t \in tuples' <=> t \in tuples \/ \E d \in seen[s] : t = Tuple(Comp(d), "parent", d) \/ t = Tuple(d, "child", Comp(d))
  BY PairFacts DEF Link
<1>7. \A o, p : Up(o, p)' <=> Up(o, p) \/ \E d \in seen[s] : o = Comp(d) /\ p = d
  BY <1>6, TupleFacts DEF Up
<1>8. \A o, p : Down(o, p)' <=> Down(o, p) \/ \E d \in seen[s] : o = Comp(d) /\ p = d
  BY <1>6, TupleFacts DEF Down
<1>9. \A t \in TupleKeys : t.relation \notin {"parent", "child"} => (t \in tuples' <=> t \in tuples)
  BY <1>6, TupleFacts
<1>10. \A d \in AcDevices : d \in AcObjects /\ Comp(d) \in AcObjects BY CompFacts DEF Kin
<1>11. tuples' \subseteq TupleKeys
  <2>1. \A d \in AcDevices : Tuple(Comp(d), "parent", d) \in TupleKeys /\ Tuple(d, "child", Comp(d)) \in TupleKeys
    BY <1>10, TupleFacts
  <2> QED BY <2>1, <1>5, <1>6, <1>0 DEF RowTypes
<1>12. \A o \in Kin, p \in AcObjects \cup AcUsers : (Up(o, p)' <=> Up(o, p)) /\ (Down(o, p)' <=> Down(o, p))
  BY <1>5, <1>7, <1>8, CompFacts
<1>13. PairsFit'
  <2>1. \A o \in Kin : \A p \in AcObjects \cup AcUsers : (Up(o, p)' <=> Down(o, p)') /\ (Up(o, p)' => p \in AcFactories \cup AcDepartments)
    BY <1>12 DEF AcInv, PairsFit
  <2>2. \A d \in AcDevices : \A p \in AcObjects \cup AcUsers :
          (Up(Comp(d), p)' => p = d) /\ (Down(Comp(d), p)' => p = d /\ Up(Comp(d), p)')
    BY <1>7, <1>8, CompFacts DEF AcInv, PairsFit
  <2> QED BY <2>1, <2>2 DEF PairsFit
<1>14. \A d \in seen[s] : Comp(d) \in Touches(c) /\ d \in AcDevices
  BY <1>2, <1>5, RequestTouches
<1>15. Remains(AcIdle, c) /\ AcIdle.job = "none" BY IdleFacts, RemainsFacts
<1>16. ASSUME NEW o \in Kin, o \in Touches(c), o \notin disturbed PROVE OwnRow(s, o)'
  <2>1. OwnRow(s, o) BY <1>16, OwnBefore
  <2>2. ~Rewrites(c, o) /\ ~Deletes(c, o) /\ ~Rewrites(AcIdle, o) /\ ~Deletes(AcIdle, o)
    BY <1>1, <1>15 DEF Rewrites, Deletes, Parenting
  <2> QED BY <2>1, <2>2, <1>1, <1>4, <1>12 DEF OwnRow
<1>17. ASSUME NEW d \in AcDevices, Comp(d) \in Touches(c), Comp(d) \notin disturbed PROVE OwnInstall(s, d)'
  <2>1. OwnInstall(s, d) BY <1>17, OwnBefore
  <2>2. ~Unlinked(c, d) /\ ~Unlinks(c, d) /\ (Links(s, d) <=> d \in seen[s]) BY <1>1 DEF Unlinked, Unlinks, Links
  <2>3. ~Unlinked(AcIdle, d) /\ ~Unlinks(AcIdle, d) /\ ~Links(s, d)'
    BY <1>15, <1>4 DEF Unlinked, Unlinks, Links
  <2>4. CASE d \in seen[s]
    <3>1. Whole(d) /\ Whole(d)' BY <2>1, <2>2, <2>4, <1>1 DEF OwnInstall, Whole
    <3>2. Up(Comp(d), d)' /\ Down(Comp(d), d)' BY <2>4, <1>7, <1>8
    <3> QED BY <3>1, <3>2, <2>3, <1>1, <1>4 DEF OwnInstall, Whole
  <2>5. CASE d \notin seen[s]
    <3>1. (Up(Comp(d), d)' <=> Up(Comp(d), d)) /\ (Down(Comp(d), d)' <=> Down(Comp(d), d))
      BY <2>5, <1>7, <1>8
    <3> QED BY <3>1, <2>1, <2>2, <2>3, <2>5, <1>1, <1>4 DEF OwnInstall, Whole
  <2> QED BY <2>4, <2>5
<1>18. ASSUME NEW o \in AcObjects, o \notin crossed PROVE OneOn(o)'
  <2>1. OneOn(o) BY <1>18, OwnBefore
  <2>2. \A u \in AcUsers, q \in DirectRelations(o) : Tuple(o, q, u) \in TupleKeys /\ q \notin {"parent", "child"}
    BY DEF TupleKeys, Tuple, DirectRelations
  <2> QED BY <2>1, <2>2, <1>9, TupleFacts DEF OneOn, Direct
<1>19. \A o \in Kin \cup Components, p \in AcObjects \cup AcUsers : o \notin Touches(c) =>
              (Up(o, p)' <=> Up(o, p)) /\ (Down(o, p)' <=> Down(o, p))
  BY <1>7, <1>8, <1>14
<1>20. \A t \in TupleKeys : t.object \notin Touches(c) /\ t.relation # "child" => (t \in tuples' <=> t \in tuples)
  BY <1>6, <1>14, TupleFacts
<1> QED BY <1>1, <1>4, <1>11, <1>13, <1>15, <1>16, <1>17, <1>18, <1>19, <1>20, TuplesCall

LEMMA UnlinkKeeps ==
    ASSUME AcInv, NEW s \in AcSlots, NEW c \in AcRequests, c = acTodo[s], c.job # "none",
           Unlink(s, c), UNCHANGED <<begun, crossed, bare>>
    PROVE  AcInv'
<1>0. RowTypes BY RowTypesFact
<1> PICK n : n = AfterCall(c) OBVIOUS
<1>1. NextCall(c) = "unlink" /\ acTodo' = [acTodo EXCEPT ![s] = n] /\ acTodo'[s] = n
      /\ UNCHANGED <<rowParent, installed, catalogued, seen, disturbed>>
  BY <1>0 DEF Unlink, Proceeds, RowTypes
<1>2. /\ Asks(c) /\ c.at \in DOMAIN CallsOf(c.job) /\ SeenFit(s, c) BY OwnBefore
<1>3. c.job = "deleteDevice" /\ Goes(n, c, "read")
  BY <1>1, <1>2, CallTable
<1>4. c.o \in AcDevices /\ c.o \in Kin /\ Named(c) = {c.o} /\ c.o \notin Components
  BY <1>2, <1>3, RequestTouches, CompFacts DEF Asks, Kin
<1>5. Remains(n, c) /\ n.job = "deleteDevice" /\ n.o = c.o /\ NextCall(n) = "read"
  BY <1>3, RemainsFacts DEF Goes
<1>6. seen[s] \subseteq {c.o} BY <1>1, <1>2, <1>4 DEF SeenFit
<1>7. \A t : t \in tuples' <=> /\ t \in tuples /\ ~\E d \in seen[s] : t.object = Comp(d)
                               /\ ~\E d \in seen[s] : \E p : Up(Comp(d), p) /\ t = Tuple(p, "child", Comp(d))
  <2> DEFINE own == {t \in tuples : t.object \in {Comp(d) : d \in seen[s]}}
  <2>1. \A t : t \in own <=> t \in tuples /\ \E d \in seen[s] : t.object = Comp(d)
    OBVIOUS
  <2>2. tuples' = tuples \ (own \cup {Tuple(t.user, "child", t.object) : t \in {x \in own : x.relation = "parent"}})
    BY DEF Unlink
  <2> HIDE DEF own
  <2>3. \A t : t \in {Tuple(x.user, "child", x.object) : x \in {y \in own : y.relation = "parent"}}
                 <=> \E x \in own : x.relation = "parent" /\ t = Tuple(x.user, "child", x.object)
    OBVIOUS
  <2>4. \A x \in own : x \in TupleKeys /\ (x.relation = "parent" => x = Tuple(x.object, "parent", x.user))
    BY <2>1, <1>0, TupleFacts DEF RowTypes
  <2>5. \A t : (\E x \in own : x.relation = "parent" /\ t = Tuple(x.user, "child", x.object))
                 <=> \E d \in seen[s] : \E p : Up(Comp(d), p) /\ t = Tuple(p, "child", Comp(d))
    BY <2>1, <2>4, TupleFacts DEF Up
  <2> QED BY <2>1, <2>2, <2>3, <2>5
<1>8. \A o, p : Up(o, p)' <=> Up(o, p) /\ ~\E d \in seen[s] : o = Comp(d)
  BY <1>7, TupleFacts DEF Up
<1>9. \A o, p \in AcObjects \cup AcUsers :
        Down(o, p)' <=> Down(o, p) /\ ~\E d \in seen[s] : p = Comp(d) \/ (o = Comp(d) /\ p = d)
  <2>1. \A o, p : Down(o, p)' <=> Down(o, p) /\ ~\E d \in seen[s] : p = Comp(d) \/ (o = Comp(d) /\ Up(o, p))
    BY <1>7, TupleFacts DEF Down
  <2>2. \A d \in seen[s] : d \in AcDevices BY <1>4, <1>6
  <2>3. \A p \in AcObjects \cup AcUsers : \A d \in seen[s] : Down(Comp(d), p) => p = d /\ Up(Comp(d), p)
    BY <2>2 DEF AcInv, PairsFit
  <2>4. \A p \in AcObjects \cup AcUsers : \A d \in seen[s] : Up(Comp(d), p) => p = d
    BY <2>2 DEF AcInv, PairsFit
  <2> QED BY <2>1, <2>3, <2>4
<1>10. tuples' \subseteq tuples /\ tuples' \subseteq TupleKeys
  BY <1>7, <1>0 DEF RowTypes
<1>11. Comp(c.o) \in Components /\ Comp(c.o) \in AcObjects /\ Comp(c.o) \notin Kin /\ Comp(c.o) \notin AcFactories
       /\ Comp(c.o) \notin AcDevices
  BY <1>4, CompFacts DEF Kin
<1>12. \A o \in Kin \cup Components : ~Down(o, Comp(c.o))
  <2>1. ASSUME NEW o \in Kin PROVE ~Down(o, Comp(c.o))
    BY <1>11 DEF AcInv, PairsFit, Kin
  <2>2. ASSUME NEW o \in Components PROVE ~Down(o, Comp(c.o))
    <3>1. PICK d \in AcDevices : o = Comp(d) BY CompFacts
    <3> QED BY <3>1, <1>11 DEF AcInv, PairsFit
  <2> QED BY <2>1, <2>2
<1>13. /\ c.o \in Touches(c) /\ \A o \in Kin : o \in Touches(c) <=> o = c.o
       /\ \A d \in AcDevices : Comp(d) \in Touches(c) <=> d = c.o
  BY <1>2, <1>4, RequestTouches, CompFacts
<1>14. \A o \in Kin \cup Components, p \in AcObjects \cup AcUsers : o # Comp(c.o) =>
              (Up(o, p)' <=> Up(o, p)) /\ (Down(o, p)' <=> Down(o, p))
  BY <1>6, <1>8, <1>9, <1>12, CompFacts
<1>15. PairsFit'
  <2>1. \A o \in Kin : \A p \in AcObjects \cup AcUsers : (Up(o, p)' <=> Down(o, p)') /\ (Up(o, p)' => p \in AcFactories \cup AcDepartments)
    BY <1>14, <1>11 DEF AcInv, PairsFit
  <2>2. ASSUME NEW d \in AcDevices, NEW p \in AcObjects \cup AcUsers
        PROVE  (Up(Comp(d), p)' => p = d) /\ (Down(Comp(d), p)' => p = d /\ Up(Comp(d), p)')
    <3>1. (Up(Comp(d), p) => p = d) /\ (Down(Comp(d), p) => p = d /\ Up(Comp(d), p)) BY DEF AcInv, PairsFit
    <3>2. Comp(d) \in AcObjects BY CompFacts
    <3>3. (\E x \in seen[s] : Comp(d) = Comp(x)) => \E x \in seen[s] : Comp(d) = Comp(x) /\ d = x
      BY <1>4, <1>6, CompFacts
    <3> QED BY <3>1, <3>2, <3>3, <1>8, <1>9
  <2> QED BY <2>1, <2>2 DEF PairsFit
<1>16. ASSUME NEW o \in Kin, o \in Touches(c), o \notin disturbed PROVE OwnRow(s, o)'
  <2>1. OwnRow(s, o) BY <1>16, OwnBefore
  <2>2. ~Rewrites(c, o) /\ ~Deletes(c, o) /\ ~Rewrites(n, o) /\ ~Deletes(n, o)
    BY <1>1, <1>5 DEF Rewrites, Deletes, Parenting
  <2>3. \A p \in AcObjects \cup AcUsers : Up(o, p)' <=> Up(o, p)
    BY <1>14, <1>11
  <2> QED BY <2>1, <2>2, <2>3, <1>1 DEF OwnRow
<1>17. ASSUME NEW d \in AcDevices, Comp(d) \in Touches(c), Comp(d) \notin disturbed PROVE OwnInstall(s, d)'
  <2>0. d = c.o BY <1>13, <1>17
  <2>1. OwnInstall(s, d) BY <1>17, OwnBefore
  <2>2. ~Unlinked(c, d) /\ Unlinks(c, d) /\ ~Links(s, d)
    BY <1>1, <1>3, <2>0 DEF Unlinked, Unlinks, Links
  <2>3. Unlinked(n, d) /\ ~Unlinks(n, d) /\ ~Links(s, d)'
    BY <1>5, <1>1, <2>0 DEF Unlinked, Unlinks, Links
  <2>4. ~Up(Comp(d), d)' /\ ~Down(Comp(d), d)'
    <3>0. d \in AcObjects /\ Comp(d) \in AcObjects BY CompFacts DEF Kin
    <3>1. CASE d \in seen[s] BY <3>0, <3>1, <1>8, <1>9
    <3>2. CASE d \notin seen[s]
      <4>1. ~Up(Comp(d), d) /\ ~Down(Comp(d), d) BY <2>1, <2>2, <3>2 DEF OwnInstall, Whole
      <4> QED BY <3>0, <4>1, <1>8, <1>9
    <3> QED BY <3>1, <3>2
  <2> QED BY <2>3, <2>4, <1>1 DEF OwnInstall
<1>18. ASSUME NEW o \in AcObjects, o \notin crossed PROVE OneOn(o)'
  <2>1. OneOn(o) BY <1>18, OwnBefore
  <2> QED BY <2>1, <1>10 DEF OneOn, Direct
<1>19. \A o \in Kin \cup Components, p \in AcObjects \cup AcUsers : o \notin Touches(c) =>
              (Up(o, p)' <=> Up(o, p)) /\ (Down(o, p)' <=> Down(o, p))
  BY <1>14, <1>13, <1>4
<1>20. \A t \in TupleKeys : t.object \notin Touches(c) /\ t.relation # "child" => (t \in tuples' <=> t \in tuples)
  <2>1. Comp(c.o) \in Touches(c) BY <1>13, <1>4
  <2> QED BY <2>1, <1>6, <1>7, TupleFacts
<1> QED BY <1>1, <1>5, <1>10, <1>15, <1>16, <1>17, <1>18, <1>19, <1>20, TuplesCall

-----------------------------------------------------------------------------
\* A request as it begins asks of the right objects, and stands before its first call.
LEMMA HandlersAsk ==
    ASSUME NEW h \in Handlers
    PROVE  h \in AcRequests /\ Asks(h) /\ h.job # "none" /\ h.at = 1 /\ h.at \in DOMAIN CallsOf(h.job)
           /\ NextCall(h) \in {"insert", "update", "rows", "entry", "enable", "check"}
<1>1. ASSUME NEW g \in AcDepartments, NEW f \in AcFactories, h = createDepartment(g, f) \/ h = updateDepartment(g, f)
      PROVE  h \in AcRequests /\ Asks(h) /\ h.job \in {"createDepartment", "updateDepartment"} /\ h.at = 1
  BY <1>1 DEF createDepartment, updateDepartment, Request, AcRequests, Asks, Jobs, AcObjects
<1>2. ASSUME NEW d \in AcDevices, NEW g \in AcDepartments, h = createDevice(d, g) \/ h = updateDevice(d, g)
      PROVE  h \in AcRequests /\ Asks(h) /\ h.job \in {"createDevice", "updateDevice"} /\ h.at = 1
  BY <1>2 DEF createDevice, updateDevice, Request, AcRequests, Asks, Jobs, AcObjects
<1>3. ASSUME NEW d \in AcDevices, h = deleteDevice(d)
      PROVE  h \in AcRequests /\ Asks(h) /\ h.job = "deleteDevice" /\ h.at = 1
  BY <1>3 DEF deleteDevice, Request, AcRequests, Asks, Jobs, AcObjects
<1>4. ASSUME NEW d \in AcDevices, NEW on \in {"on", "off"}, h = setInstallationState(d, on)
      PROVE  h \in AcRequests /\ Asks(h) /\ h.job = "setInstallationState" /\ h.at = 1
  BY <1>4 DEF setInstallationState, Request, AcRequests, Asks, Jobs, AcObjects
<1>5. ASSUME h = createCatalogEntry
      PROVE  h \in AcRequests /\ Asks(h) /\ h.job = "createCatalogEntry" /\ h.at = 1
  BY <1>5 DEF createCatalogEntry, Request, AcRequests, Asks, Jobs
<1>6. ASSUME NEW o \in AcObjects, NEW by \in AcUsers \cup {Sysadmin}, NEW u \in AcUsers, NEW r \in DirectRelations(o) \cup {NoParent},
             h = Request("assignment", o, r, u, by)
      PROVE  h \in AcRequests /\ Asks(h) /\ h.job = "assignment" /\ h.at = 1
  <2>1. DirectRelations(o) \subseteq {"admin", "viewer", "reader", "writer"} BY DEF DirectRelations
  <2> QED BY <1>6, <2>1 DEF Request, AcRequests, Asks, Jobs
<1>7. /\ CallsOf("createDepartment") = <<"insert", "read", "reparent">>
      /\ CallsOf("updateDepartment") = <<"update", "read", "reparent">>
      /\ CallsOf("updateDevice") = <<"update", "read", "reparent">>
      /\ CallsOf("createDevice") = <<"insert", "read", "reparent", "catalog", "install", "link">>
      /\ CallsOf("deleteDevice") = <<"rows", "unlink", "read", "forget", "delete">>
      /\ CallsOf("createCatalogEntry") = <<"entry", "devices", "install", "link">>
      /\ CallsOf("setInstallationState") = <<"enable", "link">>
      /\ CallsOf("assignment") = <<"check", "read", "grant">>
  BY DEF CallsOf
<1>8. \A j \in Jobs \ {"none"} : 1 \in DOMAIN CallsOf(j) /\ CallsOf(j)[1] \in {"insert", "update", "rows", "entry", "enable", "check"}
  BY <1>7 DEF Jobs
<1>9. h \in AcRequests /\ Asks(h) /\ h.job \in Jobs \ {"none"} /\ h.at = 1
  <2>1. \/ \E g \in AcDepartments, f \in AcFactories : h = createDepartment(g, f) \/ h = updateDepartment(g, f)
        \/ \E d \in AcDevices, g \in AcDepartments : h = createDevice(d, g) \/ h = updateDevice(d, g)
        \/ \E d \in AcDevices : h = deleteDevice(d)
        \/ \E d \in AcDevices, on \in {"on", "off"} : h = setInstallationState(d, on)
        \/ h = createCatalogEntry
        \/ \E o \in AcObjects, by \in AcUsers \cup {Sysadmin}, u \in AcUsers : \E r \in DirectRelations(o) : h = upsertAssignment(by, o, u, r)
        \/ \E o \in AcObjects, by \in AcUsers \cup {Sysadmin}, u \in AcUsers : h = removeAssignment(by, o, u)
    BY DEF Handlers
  <2>2. ASSUME NEW o \in AcObjects, NEW by \in AcUsers \cup {Sysadmin}, NEW u \in AcUsers, NEW r \in DirectRelations(o) \cup {NoParent},
               h = upsertAssignment(by, o, u, r) \/ h = removeAssignment(by, o, u)
        PROVE  h \in AcRequests /\ Asks(h) /\ h.job = "assignment" /\ h.at = 1
    BY <2>2, <1>6 DEF upsertAssignment, removeAssignment
  <2> QED BY <2>1, <2>2, <1>1, <1>2, <1>3, <1>4, <1>5 DEF Jobs
<1> QED BY <1>8, <1>9 DEF NextCall

LEMMA BeginKeeps ==
    ASSUME AcInv, NEW s \in AcSlots, Begin(s)
    PROVE  AcInv'
<1>0. RowTypes BY RowTypesFact
<1>1. PICK h \in Handlers :
        LET met == {o \in Touches(h) : \E z \in AcSlots : o \in Touches(acTodo[z])} IN
        /\ acTodo' = [acTodo EXCEPT ![s] = h]
        /\ disturbed' = disturbed \cup met
        /\ crossed' = crossed \cup met
  BY DEF Begin
<1>2. h \in AcRequests /\ Asks(h) /\ h.job # "none" /\ h.at \in DOMAIN CallsOf(h.job)
      /\ NextCall(h) \in {"insert", "update", "rows", "entry", "enable", "check"}
  BY HandlersAsk
<1>3. acTodo[s].job = "none" /\ begun < MaxRequests /\ begun' = begun + 1 /\ seen' = [seen EXCEPT ![s] = {}]
      /\ UNCHANGED <<rowParent, installed, bare, catalogued, tuples>>
  BY DEF Begin
<1>4. acTodo'[s] = h /\ acTodo' \in [AcSlots -> AcRequests] /\ \A z \in AcSlots : z # s => acTodo'[z] = acTodo[z]
  BY <1>0, <1>1, <1>2 DEF RowTypes
<1>5. seen'[s] = {} /\ seen' \in [AcSlots -> SUBSET (TupleKeys \cup AcDevices)] /\ \A z \in AcSlots : z # s => seen'[z] = seen[z]
  BY <1>0, <1>3 DEF RowTypes
<1>6. Touches(h) \subseteq AcObjects BY <1>2, RequestTouches
<1>7. \A o \in AcObjects : /\ (o \in disturbed => o \in disturbed') /\ (o \in crossed => o \in crossed')
                           /\ \A z \in AcSlots : o \in Touches(h) /\ o \in Touches(acTodo[z]) => o \in disturbed' /\ o \in crossed'
  BY <1>1
<1>8. disturbed' \subseteq AcObjects /\ crossed' \subseteq AcObjects
  BY <1>0, <1>1, <1>6 DEF RowTypes
<1>9. AcTypeOK'
  <2>1. \A z \in AcSlots : acTodo'[z].job # "none" => acTodo'[z].at \in DOMAIN CallsOf(acTodo'[z].job)
    BY <1>2, <1>4 DEF AcInv, AcTypeOK
  <2>2. begun' \in 0..MaxRequests
    BY <1>3, AcAssumption DEF AcInv, AcTypeOK
  <2> QED BY <2>1, <2>2, <1>3, <1>8 DEF AcInv, AcTypeOK
<1>10. RequestsAsk' BY <1>2, <1>4, <1>5 DEF RequestsAsk, AcInv
<1>11. PairsFit' BY <1>3 DEF AcInv, PairsFit, Up, Down
<1>12. \A o \in AcObjects : Sole(o)' => Sole(o) BY <1>7 DEF Sole
<1>13. SoleFits'
  <2> SUFFICES ASSUME NEW o \in AcObjects, Sole(o)', NEW y \in AcSlots, NEW z \in AcSlots,
                      o \in Touches(acTodo'[y]), o \in Touches(acTodo'[z]), y # z
               PROVE  FALSE
    BY DEF SoleFits
  <2>1. Sole(o) BY <1>12
  <2>2. CASE y # s /\ z # s BY <2>1, <2>2, <1>4 DEF AcInv, SoleFits
  <2>3. CASE y = s BY <2>3, <1>4, <1>7 DEF Sole
  <2>4. CASE z = s BY <2>4, <1>4, <1>7 DEF Sole
  <2> QED BY <2>2, <2>3, <2>4
<1>14. SeenFits'
  <2> SUFFICES ASSUME NEW z \in AcSlots, acTodo'[z].job # "none" PROVE SeenFit(z, acTodo[z])'
    BY DEF SeenFits
  <2>1. CASE z = s BY <2>1, <1>2, <1>4 DEF SeenFit
  <2>2. CASE z # s
    <3> PICK r \in AcRequests : r = acTodo[z] BY <1>0 DEF RowTypes
    <3>1. acTodo'[z] = r /\ r.job # "none" /\ Asks(r) /\ seen'[z] = seen[z]
      BY <2>2, <1>4, <1>5 DEF AcInv, RequestsAsk
    <3>2. SeenFit(z, r) BY <3>1 DEF AcInv, SeenFits
    <3>3. NextCall(r) \in {"reparent", "forget", "grant"} => r.o \in AcObjects
      BY <3>1, OwesTouched DEF AcInv, AcTypeOK
    <3>4. SeenFit(z, r)' BY <3>1, <3>2, <3>3, <1>3, <1>12 DEF SeenFit
    <3> QED BY <3>4, <3>1 DEF SeenFit
  <2> QED BY <2>1, <2>2
<1>15. RowsMirrored'
  <2> SUFFICES ASSUME NEW o \in Kin, o \notin disturbed' PROVE RowMirrored(o)'
    BY DEF RowsMirrored
  <2>1. o \notin disturbed BY <1>7, CompFacts
  <2>2. RowMirrored(o) BY <2>1 DEF AcInv, RowsMirrored
  <2>3. ~Rewrites(h, o) /\ ~Deletes(h, o) BY <1>2 DEF Rewrites, Deletes
  <2>4. ~Rewrites(acTodo[s], o) /\ ~Deletes(acTodo[s], o) BY <1>3 DEF Rewrites, Deletes, Parenting
  <2>5. \A z \in AcSlots : /\ Rewrites(acTodo'[z], o) <=> Rewrites(acTodo[z], o)
                           /\ Deletes(acTodo'[z], o) <=> Deletes(acTodo[z], o)
                           /\ Rewrites(acTodo[z], o) => acTodo'[z].to = acTodo[z].to
    BY <2>3, <2>4, <1>4
  <2> QED BY <2>2, <2>5, <1>3 DEF RowMirrored, Up
<1>16. InstallsMirrored'
  <2> SUFFICES ASSUME NEW d \in AcDevices, Comp(d) \notin disturbed' PROVE InstallMirrored(d)'
    BY DEF InstallsMirrored
  <2>1. Comp(d) \notin disturbed BY <1>7, CompFacts
  <2>2. InstallMirrored(d) BY <2>1 DEF AcInv, InstallsMirrored
  <2>3. ~Unlinked(h, d) /\ ~Unlinks(h, d) /\ ~Links(s, d)' BY <1>2, <1>4 DEF Unlinked, Unlinks, Links
  <2>4. ~Unlinked(acTodo[s], d) /\ ~Unlinks(acTodo[s], d) /\ ~Links(s, d) BY <1>3 DEF Unlinked, Unlinks, Links
  <2>5. \A z \in AcSlots : /\ Unlinked(acTodo'[z], d) <=> Unlinked(acTodo[z], d)
                           /\ Unlinks(acTodo'[z], d) <=> Unlinks(acTodo[z], d)
                           /\ Links(z, d)' <=> Links(z, d)
                           /\ Unlinks(acTodo[z], d) => seen'[z] = seen[z]
    BY <2>3, <2>4, <1>4, <1>5 DEF Links
  <2> QED BY <2>2, <2>5, <1>3 DEF InstallMirrored, Unlinks, Up, Down, Whole
<1>17. OneRelation' BY <1>3, <1>7 DEF AcInv, OneRelation
<1> QED BY <1>9, <1>10, <1>11, <1>13, <1>14, <1>15, <1>16, <1>17 DEF AcInv

\* Every step of the backend keeps it.
LEMMA AcStepFits == AcInv /\ [AcNext]_acVars => AcInv'
<1> SUFFICES ASSUME AcInv, [AcNext]_acVars PROVE AcInv'
  OBVIOUS
<1>1. CASE UNCHANGED acVars
  <2>1. UNCHANGED <<rowParent, installed, bare, catalogued, tuples, acTodo, seen, begun, disturbed, crossed>>
    BY <1>1 DEF acVars
  <2>2. AcTypeOK' /\ RequestsAsk' /\ PairsFit' /\ SoleFits'
    BY <2>1 DEF AcInv, AcTypeOK, RequestsAsk, PairsFit, Up, Down, SoleFits, Sole
  <2>3. SeenFits' /\ OneRelation'
    BY <2>1 DEF AcInv, SeenFits, SeenFit, Sole, OneRelation
  <2>4. RowsMirrored' /\ InstallsMirrored'
    BY <2>1 DEF AcInv, RowsMirrored, RowMirrored, InstallsMirrored, InstallMirrored, Up, Down, Links, Whole
  <2> QED BY <2>2, <2>3, <2>4 DEF AcInv
<1>2. ASSUME NEW s \in AcSlots, Begin(s) PROVE AcInv'
  BY <1>2, BeginKeeps
<1>3. ASSUME NEW s \in AcSlots, Throws(s) PROVE AcInv'
  <2> PICK c \in AcRequests : c = acTodo[s] BY RowTypesFact DEF RowTypes
  <2> QED BY <1>3, ThrowsKeeps
<1>4. ASSUME NEW s \in AcSlots, Call(s) PROVE AcInv'
  <2> PICK c \in AcRequests : c = acTodo[s] BY RowTypesFact DEF RowTypes
  <2>1. c.job # "none" /\ UNCHANGED <<begun, crossed>> /\ bare' = {d \in bare : installed'[d] # "none"}
    BY <1>4 DEF Call
  <2>2. \/ WriteRow(s, c) \/ readTuplesForObject(s, c) \/ Reparent(s, c) \/ Forget(s, c)
        \/ Grant(s, c) \/ Check(s, c) \/ ReadRows(s, c) \/ CatalogEntry(s, c) \/ Install(s, c)
        \/ Enable(s, c) \/ Link(s, c) \/ Unlink(s, c) \/ DeleteRow(s, c)
    BY <1>4 DEF Call
  <2>3. RowTypes /\ Asks(c) /\ c.at \in DOMAIN CallsOf(c.job) BY <2>1, RowTypesFact, OwnBefore
  <2>4. CASE DeleteRow(s, c)
    <3>1. NextCall(c) = "delete" /\ installed' = [installed EXCEPT ![c.o] = "none"] BY <2>4 DEF DeleteRow
    <3>2. c.o \in AcDevices BY <2>1, <2>3, <3>1, CallTable DEF Asks
    <3>3. bare' = bare \ {c.o} BY <2>1, <2>3, <3>1, <3>2 DEF RowTypes
    <3> QED BY <2>1, <2>4, <3>3, DeleteRowKeeps
  <2>5. CASE Enable(s, c)
    <3>1. NextCall(c) = "enable" /\ installed' = [installed EXCEPT ![c.o] = c.to] BY <2>5 DEF Enable
    <3>2. c.o \in AcDevices /\ c.to # "none" BY <2>1, <2>3, <3>1, CallTable DEF Asks
    <3>3. bare' = bare BY <2>1, <2>3, <3>1, <3>2 DEF RowTypes
    <3> QED BY <2>1, <2>5, <3>3, EnableKeeps
  <2>6. CASE Install(s, c)
    <3>1. \A d \in AcDevices : installed[d] # "none" => installed'[d] # "none" BY <2>6 DEF Install
    <3>2. bare' = bare BY <2>1, <2>3, <3>1 DEF RowTypes
    <3> QED BY <2>1, <2>6, <3>2, InstallKeeps
  <2>7. CASE \/ WriteRow(s, c) \/ readTuplesForObject(s, c) \/ Reparent(s, c) \/ Forget(s, c)
             \/ Grant(s, c) \/ Check(s, c) \/ ReadRows(s, c) \/ CatalogEntry(s, c) \/ Link(s, c) \/ Unlink(s, c)
    <3>1. installed' = installed
      BY <2>7 DEF WriteRow, readTuplesForObject, Reparent, Forget, Grant, Check, ReadRows, CatalogEntry, Link, Unlink
    <3>2. bare' = bare BY <2>1, <2>3, <3>1 DEF RowTypes
    <3> QED BY <2>1, <2>7, <3>2, WriteRowKeeps, ReadKeeps, ReparentKeeps, ForgetKeeps, GrantKeeps, CheckKeeps,
               ReadRowsKeeps, CatalogEntryKeeps, LinkKeeps, UnlinkKeeps
  <2> QED BY <2>2, <2>4, <2>5, <2>6, <2>7
<1> QED BY <1>1, <1>2, <1>3, <1>4 DEF AcNext

-----------------------------------------------------------------------------
LEMMA AcInitFits == AcInit => AcInv
<1> SUFFICES ASSUME AcInit PROVE AcInv
  OBVIOUS
<1>1. /\ acTodo = [s \in AcSlots |-> AcIdle] /\ seen = [s \in AcSlots |-> {}]
      /\ begun = 0 /\ disturbed = {} /\ crossed = {} /\ catalogued \in BOOLEAN
  BY DEF AcInit
<1>2. rowParent \in [AcDepartments \cup AcDevices -> AcFactories \cup AcDepartments \cup {NoParent}]
      /\ (\A g \in AcDepartments : rowParent[g] \in AcFactories)
  <2>0. rowParent \in Hierarchies BY DEF AcInit
  <2>1. PICK f \in AcFactories, dept \in AcDepartments \cup {NoParent} :
          rowParent = [x \in AcDepartments \cup AcDevices |-> IF x \in AcDepartments THEN f ELSE dept]
    BY <2>0 DEF Hierarchies
  <2> QED BY <2>1
<1>3. installed \in [AcDevices -> {"none", "on", "off"}] /\ bare \subseteq {d \in AcDevices : installed[d] # "none"}
  <2>1. PICK k \in {"none", "on", "off"} : installed = [d \in AcDevices |-> k]
    BY DEF AcInit
  <2>2. bare \subseteq {d \in AcDevices : installed[d] # "none"} BY DEF AcInit
  <2> QED BY <2>1, <2>2
<1>4. PICK held \in Holdings : tuples = StoreOf(held) BY DEF AcInit
<1>5. \A t : t \in tuples <=>
        \/ t \in held
        \/ \E o \in Kin : rowParent[o] # NoParent /\ (t = Tuple(o, "parent", rowParent[o]) \/ t = Tuple(rowParent[o], "child", o))
        \/ \E d \in AcDevices : /\ installed[d] # "none"
                               /\ (t = Tuple(Comp(d), "parent", d) \/ (d \notin bare /\ t = Tuple(d, "child", Comp(d))))
  <2>1. \A d, t : t \in InstallationTuples(d)
                   <=> t = Tuple(Comp(d), "parent", d) \/ (d \notin bare /\ t = Tuple(d, "child", Comp(d)))
    BY PairFacts DEF InstallationTuples
  <2> QED BY <1>4, <2>1, PairFacts DEF Kin, StoreOf
<1>6. \/ held = {}
      \/ \E o \in AcObjects, u \in AcUsers : \E r \in DirectRelations(o) : held = {Tuple(o, r, u)}
  <2>1. Existing \subseteq AcObjects
    <3>1. {Comp(d) : d \in {x \in AcDevices : installed[x] # "none"}} \subseteq Components BY DEF Components
    <3> QED BY <3>1 DEF Existing, AcObjects
  <2>2. \/ held = {}
        \/ \E o \in Existing, u \in AcUsers : \E r \in DirectRelations(o) : held = {Tuple(o, r, u)}
    BY <1>4 DEF Holdings
  <2> QED BY <2>1, <2>2
<1>7. \A o \in AcObjects, u \in AcUsers : \A r \in DirectRelations(o) : Tuple(o, r, u) \in TupleKeys /\ r \notin {"parent", "child"}
  BY DEF DirectRelations, Tuple, TupleKeys
<1>8. /\ \A t \in held : t \in TupleKeys /\ t.relation \notin {"parent", "child"}
      /\ \A t, v : t \in held /\ v \in held => t = v
  BY <1>6, <1>7, TupleFacts
<1>9. \A o, p : Up(o, p) <=> \/ o \in Kin /\ rowParent[o] # NoParent /\ p = rowParent[o]
                             \/ \E d \in AcDevices : installed[d] # "none" /\ o = Comp(d) /\ p = d
  BY <1>5, <1>8, TupleFacts DEF Up
<1>10. \A o, p : Down(o, p) <=> \/ o \in Kin /\ rowParent[o] # NoParent /\ p = rowParent[o]
                                \/ \E d \in AcDevices : Whole(d) /\ o = Comp(d) /\ p = d
  BY <1>5, <1>8, TupleFacts DEF Down, Whole
<1>11. \A o \in Kin : rowParent[o] \in AcFactories \cup AcDepartments \cup {NoParent}
  BY <1>2 DEF Kin
<1>12. tuples \subseteq TupleKeys
  <2>1. \A o \in Kin : rowParent[o] # NoParent => o \in AcObjects /\ rowParent[o] \in AcObjects
    BY <1>11, CompFacts DEF Kin
  <2>2. \A d \in AcDevices : d \in AcObjects /\ Comp(d) \in AcObjects BY CompFacts DEF Kin
  <2> QED BY <2>1, <2>2, <1>5, <1>8, TupleFacts
<1>13. AcTypeOK
  <2>1. \A s \in AcSlots : acTodo[s].job = "none" BY <1>1, IdleFacts
  <2>2. begun \in 0..MaxRequests BY <1>1, AcAssumption
  <2> QED BY <2>1, <2>2, <1>1, <1>2, <1>3, <1>12 DEF AcTypeOK
<1>14. RequestsAsk BY <1>1, IdleFacts DEF RequestsAsk
<1>15. PairsFit
  <2>1. \A o \in Kin : \A p \in AcObjects \cup AcUsers : (Up(o, p) <=> Down(o, p)) /\ (Up(o, p) => p \in AcFactories \cup AcDepartments)
    BY <1>9, <1>10, <1>11, CompFacts
  <2>2. \A d \in AcDevices : \A p \in AcObjects \cup AcUsers :
          (Up(Comp(d), p) => p = d) /\ (Down(Comp(d), p) => p = d /\ Up(Comp(d), p))
    BY <1>9, <1>10, CompFacts DEF Whole
  <2> QED BY <2>1, <2>2 DEF PairsFit
<1>16. \A s \in AcSlots : acTodo[s].job = "none" /\ Touches(acTodo[s]) = {}
  BY <1>1, IdleFacts
<1>17. SoleFits /\ SeenFits BY <1>16 DEF SoleFits, SeenFits
<1>18. RowsMirrored
  <2>1. \A s \in AcSlots, o \in Kin : ~Rewrites(acTodo[s], o) /\ ~Deletes(acTodo[s], o)
    BY <1>16 DEF Rewrites, Deletes, Parenting
  <2>2. \A o \in Kin : \A p \in AcObjects \cup AcUsers : Up(o, p) <=> (p = rowParent[o] /\ p # NoParent)
    BY <1>9, CompFacts
  <2> QED BY <2>1, <2>2 DEF RowsMirrored, RowMirrored
<1>19. InstallsMirrored
  <2>1. \A s \in AcSlots, d \in AcDevices : ~Unlinked(acTodo[s], d) /\ ~Unlinks(acTodo[s], d) /\ ~Links(s, d)
    BY <1>16 DEF Unlinked, Unlinks, Links
  <2>2. \A d \in AcDevices : (Up(Comp(d), d) <=> installed[d] # "none") /\ (Down(Comp(d), d) <=> Whole(d))
    BY <1>9, <1>10, CompFacts
  <2> QED BY <2>1, <2>2 DEF InstallsMirrored, InstallMirrored, Unlinks
<1>20. OneRelation
  <2>1. ASSUME NEW o \in AcObjects, NEW u \in AcUsers, NEW q \in DirectRelations(o), Tuple(o, q, u) \in tuples
        PROVE  Tuple(o, q, u) \in held
    <3>1. q \notin {"parent", "child"} BY <1>7
    <3> QED BY <3>1, <2>1, <1>5, TupleFacts
  <2> QED BY <2>1, <1>8, TupleFacts DEF OneRelation, Direct
<1> QED BY <1>13, <1>14, <1>15, <1>17, <1>18, <1>19, <1>20 DEF AcInv

\* With no request in flight every debt is paid.
LEMMA AcInvEnough == AcInv => AcTypeOK /\ TuplesMirrorRows
<1> SUFFICES ASSUME AcInv PROVE TuplesMirrorRows
  BY DEF AcInv
<1>0. RowTypes BY RowTypesFact
<1>1. \A o, p : p \in ParentsOf(tuples, o) <=> Up(o, p)
  <2>1. \A o, p : p \in ParentsOf(tuples, o) <=> \E t \in tuples : t.object = o /\ t.relation = "parent" /\ t.user = p
    BY DEF ParentsOf
  <2> QED BY <2>1, <1>0, TupleFacts DEF RowTypes, Up
<1>2. \A o, p : o \in ChildrenOf(tuples, p) <=> Down(o, p)
  <2>1. \A o, p : o \in ChildrenOf(tuples, p) <=> \E t \in tuples : t.object = p /\ t.relation = "child" /\ t.user = o
    BY DEF ChildrenOf
  <2> QED BY <2>1, <1>0, TupleFacts DEF RowTypes, Down
<1>3. \A o, p : Up(o, p) => p \in AcObjects \cup AcUsers
  <2>1. \A o, p : Up(o, p) => Tuple(o, "parent", p) \in TupleKeys BY <1>0 DEF Up, RowTypes
  <2> QED BY <2>1, TupleFacts
<1>4. ASSUME AcQuiet, NEW o \in Kin, o \notin disturbed
      PROVE  /\ ParentsOf(tuples, o) = RowParentOf(o)
             /\ \A p \in AcObjects : (o \in ChildrenOf(tuples, p)) <=> (p \in RowParentOf(o) /\ o \notin {Comp(x) : x \in bare})
  <2>1. \A s \in AcSlots : ~Rewrites(acTodo[s], o) /\ ~Deletes(acTodo[s], o)
    BY <1>4 DEF AcQuiet, Rewrites, Deletes, Parenting
  <2>2. \A p \in AcObjects \cup AcUsers : Up(o, p) <=> (p = rowParent[o] /\ p # NoParent)
    BY <2>1, <1>4 DEF AcInv, RowsMirrored, RowMirrored
  <2>3. rowParent[o] # NoParent => rowParent[o] \in AcObjects
    BY <1>0, CompFacts DEF RowTypes, Kin
  <2>4. \A p : p \in RowParentOf(o) <=> p = rowParent[o] /\ p # NoParent
    <3>1. o \notin Components BY CompFacts
    <3> QED BY <3>1 DEF RowParentOf
  <2>5. \A p : Up(o, p) <=> p \in RowParentOf(o)
    BY <2>2, <2>3, <2>4, <1>3
  <2>6. \A p \in AcObjects : Down(o, p) <=> Up(o, p)
    BY DEF AcInv, PairsFit
  <2>7. o \notin {Comp(x) : x \in bare} BY <1>0, CompFacts DEF RowTypes
  <2> QED BY <2>5, <2>6, <2>7, <1>1, <1>2
<1>5. ASSUME AcQuiet, NEW o \in Components, o \notin disturbed
      PROVE  /\ ParentsOf(tuples, o) = RowParentOf(o)
             /\ \A p \in AcObjects : (o \in ChildrenOf(tuples, p)) <=> (p \in RowParentOf(o) /\ o \notin {Comp(x) : x \in bare})
  <2>0. PICK d \in AcDevices : o = Comp(d) BY CompFacts
  <2>1. \A s \in AcSlots : ~Unlinked(acTodo[s], d) /\ ~Links(s, d)
    BY <1>5 DEF AcQuiet, Unlinked, Links
  <2>2. (Up(o, d) <=> installed[d] # "none") /\ (Down(o, d) <=> Whole(d))
    BY <2>0, <2>1, <1>5 DEF AcInv, InstallsMirrored, InstallMirrored
  <2>3. \A p \in AcObjects \cup AcUsers : Up(o, p) \/ Down(o, p) => p = d
    BY <2>0 DEF AcInv, PairsFit
  <2>4. \A p : p \in RowParentOf(o) <=> p = d /\ installed[d] # "none"
    <3>1. o[2] = d BY <2>0, CompFacts
    <3> QED BY <3>1 DEF RowParentOf
  <2>5. o \in {Comp(x) : x \in bare} <=> d \in bare
    BY <2>0, <1>0, CompFacts DEF RowTypes
  <2>6. d \in AcObjects BY CompFacts DEF Kin
  <2> QED BY <2>2, <2>3, <2>4, <2>5, <2>6, <1>1, <1>2, <1>3 DEF Whole
<1>6. ASSUME NEW o \in AcObjects, o \notin crossed, NEW u \in AcUsers
      PROVE  Cardinality({r \in DirectRelations(o) : Direct(tuples, u, r, o)}) <= 1
  <2> DEFINE R == {r \in DirectRelations(o) : Direct(tuples, u, r, o)}
  <2>1. \A q, r \in R : q = r BY <1>6 DEF AcInv, OneRelation
  <2>2. CASE R = {} BY <2>2, FS_EmptySet
  <2>3. CASE R # {}
    <3>1. PICK r \in R : TRUE BY <2>3
    <3>2. R = {r} BY <2>1, <3>1
    <3> HIDE DEF R
    <3>3. Cardinality(R) = 1 BY <3>2, FS_Singleton
    <3> QED BY <3>3 DEF R
  <2> QED BY <2>2, <2>3
<1>7. (AcObjects \ AcFactories) \subseteq Kin \cup Components BY CompFacts
<1> QED BY <1>4, <1>5, <1>6, <1>7 DEF TuplesMirrorRows

-----------------------------------------------------------------------------
(* Storage sessions                                                        *)

\* What the requests share: nothing is handed out over a bucket that is not there.
BucketFits ==
    /\ check \in [PsServers -> {"null", "head", "create", "done"}]
    /\ bucket \in BOOLEAN /\ psFaults \in 0..MaxPsFaults
    /\ \A s \in signed : s.ask.op # "list"
    /\ \A p \in PsServers : check[p] = "done" => bucket
    /\ provider # "MINIO" => bucket
    /\ (signed # {} \/ listing # NoListing => bucket)

\* A request waits only on a check under way and fails only for a fault since it began.
AskRecord(a) == \E r, step, n : a = [ask |-> r, step |-> step, begun |-> n]
AskWaits(a, c) ==
    /\ a.step \in {"idle", "waiting", "call", "failed"}
    /\ a.step = "call" => bucket
    /\ a.step = "waiting" => check[c[1]] \in {"head", "create"}
AskCounts(a) ==
    /\ a.begun \in 0..MaxPsFaults /\ a.begun <= psFaults
    /\ a.step = "failed" => psFaults > a.begun
AskFits(a, c) == AskRecord(a) /\ AskWaits(a, c) /\ AskCounts(a)

PsInv ==
    /\ BucketFits /\ DOMAIN asks = Slots
    /\ \A c \in Slots : AskFits(asks[c], c)

LEMMA PsInvEnough == PsInv => PsTypeOK
  BY DEF PsInv, BucketFits, AskFits, AskRecord, AskWaits, AskCounts, PsTypeOK

\* A caller without a request.
LEMMA IdleAsk ==
    /\ Idle.step = "idle" /\ AskRecord(Idle)
    /\ psFaults \in Nat => AskCounts(Idle)
<1>1. Idle.step = "idle" /\ Idle.begun = 0 BY DEF Idle
<1>2. AskRecord(Idle) BY DEF Idle, AskRecord
<1>3. psFaults \in Nat => AskCounts(Idle)
  BY <1>1, PsAssumption DEF AskCounts
<1> QED BY <1>1, <1>2, <1>3

\* Faults are only ever added.
LEMMA CountsGrow ==
    ASSUME NEW a, AskCounts(a), psFaults \in Nat, psFaults' \in Nat, psFaults' >= psFaults
    PROVE  AskCounts(a)'
<1>1. a.begun \in Nat /\ MaxPsFaults \in Nat BY PsAssumption DEF AskCounts
<1> QED BY <1>1 DEF AskCounts

LEMMA PsInitFits == PsInit => PsInv
<1> SUFFICES ASSUME PsInit PROVE PsInv
  OBVIOUS
<1>1. BucketFits
  <2>1. psFaults \in 0..MaxPsFaults BY PsAssumption DEF PsInit
  <2>2. bucket \in BOOLEAN /\ (provider # "MINIO" => bucket) BY DEF PsInit
  <2>3. check \in [PsServers -> {"null", "head", "create", "done"}] /\ \A p \in PsServers : check[p] # "done"
    BY DEF PsInit
  <2> QED BY <2>1, <2>2, <2>3 DEF PsInit, BucketFits
<1>2. \A c \in Slots : asks[c] = Idle BY DEF PsInit
<1>3. \A c \in Slots : AskFits(Idle, c)
  <2>1. psFaults \in Nat BY DEF PsInit
  <2> QED BY <2>1, IdleAsk DEF AskFits, AskWaits
<1> QED BY <1>1, <1>2, <1>3 DEF PsInv, PsInit

LEMMA PsStepFits == PsInv /\ [PsNext]_psVars => PsInv'
<1> SUFFICES ASSUME PsInv, [PsNext]_psVars PROVE PsInv'
  OBVIOUS
<1>0. BucketFits /\ DOMAIN asks = Slots /\ (\A c \in Slots : AskFits(asks[c], c))
  BY DEF PsInv
\* A request put in place of another, with the rest of the state as good for the others as it was.
<1>1. ASSUME NEW c \in Slots, NEW a, asks' = [asks EXCEPT ![c] = a], BucketFits', AskFits(a, c)',
             psFaults' >= psFaults, bucket => bucket',
             \A p \in PsServers : check[p] \in {"head", "create"} => check'[p] \in {"head", "create"}
      PROVE  PsInv'
  <2>1. DOMAIN asks' = Slots /\ asks'[c] = a /\ \A z \in Slots : z # c => asks'[z] = asks[z]
    BY <1>0, <1>1
  <2>2. ASSUME NEW z \in Slots, z # c PROVE AskFits(asks[z], z)'
    <3> PICK b : b = asks[z] OBVIOUS
    <3>1. AskFits(b, z) /\ asks'[z] = b /\ z[1] \in PsServers BY <1>0, <2>1, <2>2, PsAssumption
    <3>2. psFaults \in Nat /\ psFaults' \in Nat BY <1>0, <1>1, PsAssumption DEF BucketFits
    <3>3. AskFits(b, z)'
      BY <3>1, <3>2, <1>1, CountsGrow DEF AskFits, AskWaits, AskRecord
    <3> QED BY <3>1, <3>3 DEF AskFits
  <2>3. AskFits(asks[c], c)' BY <2>1, <1>1 DEF AskFits
  <2> QED BY <2>1, <2>2, <2>3, <1>1 DEF PsInv
\* The check of a process settles, and everyone waiting on it goes on or fails.
<1>2. ASSUME NEW p \in PsServers, NEW how \in {"call", "failed"}, NEW v \in {"done", "null"},
             check' = [check EXCEPT ![p] = v], Told(p, how), BucketFits',
             psFaults' >= psFaults, bucket => bucket', how = "call" => bucket', how = "failed" => psFaults' > psFaults
      PROVE  PsInv'
  <2>1. asks' = [c \in Slots |-> IF c[1] = p /\ asks[c].step = "waiting" THEN [asks[c] EXCEPT !.step = how] ELSE asks[c]]
    BY <1>2 DEF Told
  <2>2. DOMAIN asks' = Slots BY <2>1
  <2>3. ASSUME NEW c \in Slots PROVE AskFits(asks[c], c)'
    <3> PICK a : a = asks[c] OBVIOUS
    <3>1. AskFits(a, c) /\ c[1] \in PsServers BY <1>0, PsAssumption
    <3>2. psFaults \in Nat /\ psFaults' \in Nat BY <1>0, <1>2, PsAssumption DEF BucketFits
    <3>3. CASE c[1] = p /\ a.step = "waiting"
      <4> PICK b : b = [a EXCEPT !.step = how] OBVIOUS
      <4>1. asks'[c] = b BY <2>1, <3>3
      <4>2. b.step = how /\ b.begun = a.begun /\ AskRecord(b)
        BY <3>1 DEF AskFits, AskRecord
      <4>3. a.begun \in Nat /\ a.begun <= psFaults /\ a.begun \in 0..MaxPsFaults BY <3>1, PsAssumption DEF AskFits, AskCounts
      <4>4. a.begun <= psFaults' /\ (how = "failed" => psFaults' > a.begun)
        BY <4>3, <3>2, <1>2
      <4>5. AskCounts(b)' BY <4>2, <4>3, <4>4 DEF AskCounts
      <4>6. AskFits(b, c)'
        BY <4>2, <4>5, <1>2 DEF AskFits, AskWaits, AskRecord
      <4> QED BY <4>1, <4>6
    <3>4. CASE ~(c[1] = p /\ a.step = "waiting")
      <4>1. asks'[c] = a BY <2>1, <3>4
      <4>2. a.step = "waiting" => check'[c[1]] = check[c[1]]
        BY <3>1, <3>4, <1>0, <1>2 DEF BucketFits
      <4>3. a.begun \in Nat BY <3>1, PsAssumption DEF AskFits, AskCounts
      <4>4. AskFits(a, c)'
        BY <3>1, <3>2, <4>2, <1>2, CountsGrow DEF AskFits, AskWaits, AskRecord
      <4> QED BY <4>1, <4>4
    <3> QED BY <3>3, <3>4
  <2> QED BY <2>2, <2>3, <1>2 DEF PsInv
<1>3. CASE UNCHANGED psVars
  BY <1>3 DEF psVars, PsInv, BucketFits, AskFits, AskWaits, AskCounts, AskRecord
<1>4. ASSUME NEW p \in PsServers, HeadBucket(p) PROVE PsInv'
  <2>1. check[p] = "head" /\ UNCHANGED <<provider, bucket, objects, signed, listing, asked>>
    BY <1>4 DEF HeadBucket
  <2>2. CASE bucket /\ Settled(p) /\ UNCHANGED psFaults
    <3>1. BucketFits' BY <1>0, <2>1, <2>2 DEF BucketFits, Settled
    <3>2. psFaults' >= psFaults BY <2>2, <1>0, PsAssumption DEF BucketFits
    <3> QED BY <3>1, <3>2, <2>1, <2>2, <1>2 DEF Settled
  <2>3. CASE /\ psFaults < MaxPsFaults /\ psFaults' = psFaults + 1 /\ Rejected(p)
    <3>0. psFaults' \in 0..MaxPsFaults /\ psFaults' > psFaults /\ psFaults' >= psFaults
      BY <2>3, <1>0, PsAssumption DEF BucketFits
    <3>1. BucketFits' BY <1>0, <2>1, <2>3, <3>0 DEF BucketFits, Rejected
    <3> QED BY <3>0, <3>1, <2>1, <2>3, <1>2 DEF Rejected
  <2>4. CASE check' = [check EXCEPT ![p] = "create"] /\ UNCHANGED asks /\ psFaults' \in 0..MaxPsFaults /\ psFaults' >= psFaults
    <3>1. BucketFits' BY <1>0, <2>1, <2>4 DEF BucketFits
    <3>2. \A q \in PsServers : check[q] \in {"head", "create"} => check'[q] \in {"head", "create"}
      BY <1>0, <2>4 DEF BucketFits
    <3>3. \A c \in Slots : AskFits(asks[c], c)'
      <4> SUFFICES ASSUME NEW c \in Slots PROVE AskFits(asks[c], c)'
        OBVIOUS
      <4> PICK a : a = asks[c] OBVIOUS
      <4>1. AskFits(a, c) /\ asks'[c] = a /\ c[1] \in PsServers BY <1>0, <2>4, PsAssumption
      <4>2. psFaults \in Nat /\ psFaults' \in Nat BY <1>0, <2>4, PsAssumption DEF BucketFits
      <4>3. AskFits(a, c)' BY <4>1, <4>2, <3>2, <2>1, <2>4, CountsGrow DEF AskFits, AskWaits, AskRecord
      <4> QED BY <4>1, <4>3
    <3> QED BY <3>1, <3>3, <1>0, <2>4 DEF PsInv
  <2>5. psFaults \in 0..MaxPsFaults /\ psFaults >= psFaults /\ (psFaults < MaxPsFaults => psFaults + 1 \in 0..MaxPsFaults /\ psFaults + 1 >= psFaults)
    BY <1>0, PsAssumption DEF BucketFits
  <2> QED BY <1>4, <2>2, <2>3, <2>4, <2>5 DEF HeadBucket
<1>5. ASSUME NEW p \in PsServers, CreateBucket(p) PROVE PsInv'
  <2>1. check[p] = "create" /\ UNCHANGED <<provider, objects, signed, listing, asked>>
    BY <1>5 DEF CreateBucket
  <2>2. CASE bucket' = TRUE /\ Settled(p) /\ UNCHANGED psFaults
    <3>1. BucketFits' BY <1>0, <2>1, <2>2 DEF BucketFits, Settled
    <3>2. psFaults' >= psFaults BY <2>2, <1>0, PsAssumption DEF BucketFits
    <3> QED BY <3>1, <3>2, <2>1, <2>2, <1>2 DEF Settled
  <2>3. CASE psFaults < MaxPsFaults /\ psFaults' = psFaults + 1 /\ Rejected(p) /\ UNCHANGED bucket
    <3>0. psFaults' \in 0..MaxPsFaults /\ psFaults' > psFaults /\ psFaults' >= psFaults
      BY <2>3, <1>0, PsAssumption DEF BucketFits
    <3>1. BucketFits' BY <1>0, <2>1, <2>3, <3>0 DEF BucketFits, Rejected
    <3> QED BY <3>0, <3>1, <2>1, <2>3, <1>2 DEF Rejected
  <2> QED BY <1>5, <2>2, <2>3 DEF CreateBucket
<1>6. ASSUME NEW c \in Slots, NEW r, Begins(c, r) PROVE PsInv'
  <2>1. ensureBucketExists(c, r) /\ UNCHANGED <<provider, bucket, objects, signed, listing, psFaults>>
    BY <1>6 DEF Begins
  <2> DEFINE step == CASE ensureBucketExistsEnabled /\ check[c[1]] = "rejected" -> "failed"
                       [] ensureBucketExistsEnabled /\ check[c[1]] # "done" -> "waiting"
                       [] OTHER -> "call"
  <2> PICK a : a = [ask |-> r, step |-> step, begun |-> psFaults] OBVIOUS
  <2>2. asks' = [asks EXCEPT ![c] = a] /\ check' = IF ensureBucketExistsEnabled /\ check[c[1]] = "null"
                   THEN [check EXCEPT ![c[1]] = "head"] ELSE check
    BY <2>1 DEF ensureBucketExists
  <2>3. c[1] \in PsServers /\ check[c[1]] \in {"null", "head", "create", "done"}
    BY <1>0, PsAssumption DEF BucketFits
  <2>4. BucketFits' /\ \A q \in PsServers : check[q] \in {"head", "create"} => check'[q] \in {"head", "create"}
    <3>1. CASE ensureBucketExistsEnabled /\ check[c[1]] = "null"
      <4>1. check' = [check EXCEPT ![c[1]] = "head"] BY <2>2, <3>1
      <4> QED BY <4>1, <1>0, <2>1, <2>3, <3>1 DEF BucketFits
    <3>2. CASE ~(ensureBucketExistsEnabled /\ check[c[1]] = "null")
      <4>1. check' = check BY <2>2, <3>2
      <4> QED BY <4>1, <1>0, <2>1 DEF BucketFits
    <3> QED BY <3>1, <3>2
  <2>5. step \in {"waiting", "call"} /\ (step = "call" => ~ensureBucketExistsEnabled \/ check[c[1]] = "done")
        /\ (step = "waiting" => ensureBucketExistsEnabled /\ check[c[1]] \in {"null", "head", "create"})
    BY <2>3
  <2>6. a.step = step /\ a.begun = psFaults /\ AskRecord(a)
    BY DEF AskRecord
  <2> HIDE DEF step
  <2>7. step = "call" => bucket'
    BY <2>5, <2>1, <2>3, <1>0 DEF BucketFits, ensureBucketExistsEnabled
  <2>8. step = "waiting" => check'[c[1]] \in {"head", "create"}
    BY <2>5, <2>2, <2>3, <1>0 DEF BucketFits
  <2>9. psFaults' = psFaults /\ psFaults \in 0..MaxPsFaults /\ psFaults <= psFaults /\ psFaults' >= psFaults
    BY <2>1, <1>0, PsAssumption DEF BucketFits
  <2>10. AskCounts(a)' BY <2>5, <2>6, <2>9 DEF AskCounts
  <2>11. AskFits(a, c)'
    BY <2>5, <2>6, <2>7, <2>8, <2>10 DEF AskFits, AskWaits, AskRecord
  <2> QED BY <2>1, <2>2, <2>4, <2>9, <2>11, <1>1
<1>7. psFaults >= psFaults /\ psFaults \in 0..MaxPsFaults /\ psFaults \in Nat BY <1>0, PsAssumption DEF BucketFits
<1>8. ASSUME NEW c \in Slots, psFaults' = psFaults PROVE AskFits(Idle, c)'
  <2>1. AskCounts(Idle)' BY <1>7, <1>8, IdleAsk, CountsGrow
  <2> QED BY <2>1, IdleAsk DEF AskFits, AskWaits, AskRecord, Idle
<1>9. ASSUME NEW c \in Slots, getSignedUrlForUpload(c) \/ getSignedUrlForDownload(c) PROVE PsInv'
  <2>1. /\ asks[c].step = "call" /\ asks[c].ask.op # "list" /\ asks' = [asks EXCEPT ![c] = Idle]
        /\ \E m : signed' = signed \cup {[method |-> m, key |-> KeyOf(asks[c].ask), endpoint |-> resolveClient(asks[c].ask), ask |-> asks[c].ask]}
        /\ UNCHANGED <<provider, bucket, objects, check, listing, asked, psFaults>>
    BY <1>9 DEF getSignedUrlForUpload, getSignedUrlForDownload, Signs
  <2>2. bucket BY <1>0, <2>1 DEF AskFits, AskWaits
  <2>3. \A s \in signed' : s.ask.op # "list"
    BY <2>1, <1>0 DEF BucketFits
  <2>4. BucketFits' BY <1>0, <2>1, <2>2, <2>3 DEF BucketFits
  <2>5. AskFits(Idle, c)' BY <1>8, <2>1
  <2> QED BY <1>1, <1>7, <2>1, <2>4, <2>5
<1>10. ASSUME NEW c \in Slots, listAvailable(c) PROVE PsInv'
  <2>1. /\ asks[c].step = "call" /\ asks' = [asks EXCEPT ![c] = Idle]
        /\ UNCHANGED <<provider, bucket, objects, check, signed, asked, psFaults>>
    BY <1>10 DEF listAvailable
  <2>2. bucket BY <1>0, <2>1 DEF AskFits, AskWaits
  <2>4. BucketFits' BY <1>0, <2>1, <2>2 DEF BucketFits
  <2>5. AskFits(Idle, c)' BY <1>8, <2>1
  <2> QED BY <1>1, <1>7, <2>1, <2>4, <2>5
<1>11. ASSUME NEW c \in Slots, ListFails(c) PROVE PsInv'
  <2>1. /\ asks[c].step = "call" /\ psFaults < MaxPsFaults /\ psFaults' = psFaults + 1
        /\ asks' = [asks EXCEPT ![c].step = "failed"]
        /\ UNCHANGED <<provider, bucket, objects, check, signed, listing, asked>>
    BY <1>11 DEF ListFails
  <2> PICK b : b = asks[c] OBVIOUS
  <2> PICK a : a = [b EXCEPT !.step = "failed"] OBVIOUS
  <2>2. asks' = [asks EXCEPT ![c] = a] BY <2>1
  <2>3. AskFits(b, c) BY <1>0
  <2>4. a.step = "failed" /\ a.begun = b.begun /\ AskRecord(a)
    BY <2>3 DEF AskFits, AskRecord
  <2>5. b.begun \in 0..MaxPsFaults /\ b.begun <= psFaults BY <2>3 DEF AskFits, AskCounts
  <2>6. psFaults' \in 0..MaxPsFaults /\ psFaults' >= psFaults /\ psFaults' > b.begun /\ b.begun <= psFaults'
    BY <2>1, <2>5, <1>7, PsAssumption
  <2>7. BucketFits' BY <1>0, <2>1, <2>6 DEF BucketFits
  <2>8. AskCounts(a)' BY <2>4, <2>5, <2>6 DEF AskCounts
  <2>9. AskFits(a, c)' BY <2>4, <2>8 DEF AskFits, AskWaits, AskRecord
  <2> QED BY <1>1, <2>1, <2>2, <2>6, <2>7, <2>9
<1>12. ASSUME NEW s \in signed, PutObject(s) PROVE PsInv'
  BY <1>12, <1>0 DEF PutObject, PsInv, BucketFits, AskFits, AskWaits, AskCounts, AskRecord
<1>13. CASE PsNext
  <2>1. ASSUME NEW c \in Slots, NEW h, NEW d, NEW op, NEW path, createDeviceSession(c, h, op, d, path) PROVE PsInv'
    BY <2>1, <1>6 DEF createDeviceSession
  <2>2. ASSUME NEW c \in Slots, NEW h, NEW d, NEW path, createPackageDownloadSession(c, h, d, path) PROVE PsInv'
    BY <2>2, <1>6 DEF createPackageDownloadSession
  <2>3. ASSUME NEW c \in Slots, NEW h, NEW path, createPackageUploadSession(c, h, path) PROVE PsInv'
    BY <2>3, <1>6 DEF createPackageUploadSession
  <2>4. ASSUME NEW c \in Slots, NEW name, listPackages(c, name) PROVE PsInv'
    BY <2>4, <1>6 DEF listPackages
  <2> QED BY <1>13, <1>4, <1>5, <1>9, <1>10, <1>11, <1>12, <2>1, <2>2, <2>3, <2>4 DEF PsNext
<1> QED BY <1>3, <1>13
=============================================================================
