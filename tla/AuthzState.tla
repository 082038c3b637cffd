----------------------------- MODULE AuthzState -----------------------------
(***************************************************************************)
(* openfga-state.ts: each process of the web application finds or makes its *)
(* OpenFGA store and authorization model on first use and keeps the promise  *)
(* of it for all its requests; a failure clears the promise, and the next    *)
(* request tries again.  Processes start together and share the server.      *)
(***************************************************************************)
EXTENDS Naturals, Sequences

CONSTANTS Servers,      \* processes of the web application
          FgaCallers,   \* requests of a process
          MaxFgaFaults  \* bound: calls of OpenFGA that fail

ASSUME FgaAssumption == MaxFgaFaults \in Nat

VARIABLES fgaModel,     \* the latest model of each store with the configured name
          boot,         \* of each process: what authzStatePromise does; its store
          waitsFor,     \* of each request: idle, waiting, failed, or the state it was given
          fgaFaults,
          hadStore      \* history: the store was there before the processes were

fgaVars == <<fgaModel, boot, waitsFor, fgaFaults, hadStore>>

FgaInit ==
    /\ fgaModel \in {<<>>} \cup {<<model>> : model \in {"none", "old", "current"}}
    /\ hadStore = (fgaModel # <<>>)
    /\ boot = [p \in Servers |-> [step |-> "null", store |-> 0]]
    /\ waitsFor = [r \in Servers \X FgaCallers |-> "idle"]
    /\ fgaFaults = 0

Boots(p, step, store) == boot' = [boot EXCEPT ![p] = [step |-> step, store |-> store]]
Given(p, what) == waitsFor' = [r \in DOMAIN waitsFor |->
    IF r[1] = p /\ waitsFor[r] = "waiting" THEN what ELSE waitsFor[r]]

\* A settled promise is taken as it is, one under way is awaited with the others.
ensureAuthzState(r) ==
    LET p == r[1] IN
    /\ waitsFor[r] \in {"idle", "failed"}
    /\ waitsFor' = [waitsFor EXCEPT ![r] = IF boot[p].step = "ready" THEN "given" ELSE "waiting"]
    /\ IF boot[p].step = "null" THEN Boots(p, "find", 0) ELSE UNCHANGED boot
    /\ UNCHANGED <<fgaModel, fgaFaults, hadStore>>

\* listStores, page by page: the first store of that name.
findStoreIdByName(p) ==
    /\ boot[p].step = "find"
    /\ IF Len(fgaModel) = 0 THEN Boots(p, "create", 0) ELSE Boots(p, "readModel", 1)
    /\ UNCHANGED <<fgaModel, waitsFor, fgaFaults, hadStore>>

ensureStoreId(p) ==
    /\ boot[p].step = "create"
    /\ fgaModel' = Append(fgaModel, "none")
    /\ Boots(p, "readModel", Len(fgaModel) + 1)
    /\ UNCHANGED <<waitsFor, fgaFaults, hadStore>>

\* Mutant: any model that is there will do.
AcceptsAnyModel(p) ==
    /\ boot[p].step = "readModel"
    /\ Boots(p, IF fgaModel[boot[p].store] # "none" THEN "build" ELSE "writeModel", boot[p].store)
    /\ UNCHANGED <<fgaModel, waitsFor, fgaFaults, hadStore>>

\* readLatestAuthorizationModel, whose failure only means that the model is written; the hash decides.
readAuthorizationModelHash(p) ==
    /\ boot[p].step = "readModel"
    /\ Boots(p, IF fgaModel[boot[p].store] = "current" THEN "build" ELSE "writeModel", boot[p].store)
    /\ UNCHANGED <<fgaModel, waitsFor, fgaFaults, hadStore>>

ensureAuthorizationModelId(p) ==
    /\ boot[p].step = "writeModel"
    /\ fgaModel' = [fgaModel EXCEPT ![boot[p].store] = "current"]
    /\ Boots(p, "build", boot[p].store)
    /\ UNCHANGED <<waitsFor, fgaFaults, hadStore>>

createAuthzState(p) ==
    /\ boot[p].step = "build"
    /\ Boots(p, "ready", boot[p].store)
    /\ Given(p, "given")
    /\ UNCHANGED <<fgaModel, fgaFaults, hadStore>>

\* A call fails: the promise is cleared and everyone who awaited it is told.
BootFails(p) ==
    /\ boot[p].step \in {"find", "create", "writeModel"} /\ fgaFaults < MaxFgaFaults
    /\ fgaFaults' = fgaFaults + 1
    /\ Boots(p, "null", 0)
    /\ Given(p, "failed")
    /\ UNCHANGED <<fgaModel, hadStore>>

ModelReadFails(p) ==
    /\ boot[p].step = "readModel" /\ fgaFaults < MaxFgaFaults
    /\ fgaFaults' = fgaFaults + 1
    /\ Boots(p, "writeModel", boot[p].store)
    /\ UNCHANGED <<fgaModel, waitsFor, hadStore>>

FgaNext ==
    \/ \E r \in Servers \X FgaCallers : ensureAuthzState(r)
    \/ \E p \in Servers : \/ findStoreIdByName(p) \/ ensureStoreId(p) \/ readAuthorizationModelHash(p)
                          \/ ensureAuthorizationModelId(p) \/ createAuthzState(p)
                          \/ BootFails(p) \/ ModelReadFails(p)

FgaSpec == FgaInit /\ [][FgaNext]_fgaVars

-----------------------------------------------------------------------------

FgaTypeOK ==
    /\ \A s \in DOMAIN fgaModel : fgaModel[s] \in {"none", "old", "current"}
    /\ waitsFor \in [Servers \X FgaCallers -> {"idle", "waiting", "failed", "given"}]
    /\ fgaFaults \in 0..MaxFgaFaults

\* A request is only ever given the state of a store whose model is this
\* release's, whichever process wrote it and whatever failed before; nobody is
\* left waiting on a promise that was cleared; and processes that start together
\* over a store that exists make no second one.  (Without one, each may.)
RequestsGetUsableState ==
    /\ \A r \in Servers \X FgaCallers :
         /\ waitsFor[r] = "given" => boot[r[1]].step = "ready" /\ fgaModel[boot[r[1]].store] = "current"
         /\ waitsFor[r] = "waiting" => boot[r[1]].step \notin {"null", "ready"}
    /\ hadStore => Len(fgaModel) = 1
=============================================================================
