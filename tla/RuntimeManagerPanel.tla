------------------------- MODULE RuntimeManagerPanel -------------------------
(***************************************************************************)
(* trakrai-runtime-manager-ui: the panel that defines, controls and removes *)
(* the services of a device.  useRuntimeManager keeps one query per service *)
(* definition (cached, stale after an invalidation) and six mutations; the  *)
(* panel lays a draft over the definition it was started from.  The device  *)
(* answers in any order and other pages change it too; a request whose      *)
(* answer is lost fails by timeout whatever the device did.                 *)
(***************************************************************************)
EXTENDS Integers

CONSTANTS
  Services,     \* names of services
  Versions,     \* contents a definition may have, 0 is no definition
  MaxRmTurns,     \* bound on what users and the connection do
  NoService     \* ''

\* A device has a definition of a service or none, and no service has the empty name.
ASSUME RmAssumption ==
  /\ {0, 1} \subseteq Versions /\ Versions \subseteq Nat
  /\ MaxRmTurns \in Nat
  /\ NoService \notin Services

VARIABLES
  definitionServiceName,
  definitionCache,   \* per name: data (-1 undefined), invalidated, the request under way
  definitionDraft,   \* the definition it was started from (sourceKey) and its text; <<>> is null
  mutation,          \* the mutation that is pending: kind, name, version; <<>> is none
  reachable,         \* transportState === 'connected'
  rmTurns,             \* bound: what users and the connection did so far
  installed,         \* the device's definitions
  unseen             \* history: services changed by others, by a request that failed here, or
                     \*   while the answer to their first load was under way

rmVars == <<definitionServiceName, definitionCache, definitionDraft, mutation, reachable, rmTurns,
            installed, unseen>>

NotAsked == [data |-> -1, invalidated |-> FALSE, fetch |-> "idle", answer |-> -1]

RmInit ==
  /\ definitionServiceName = NoService
  /\ definitionCache = [n \in Services |-> NotAsked]
  /\ definitionDraft = <<>>
  /\ mutation = <<>>
  /\ reachable = TRUE /\ rmTurns = 0
  /\ installed \in [Services -> {0, 1}]
  /\ unseen = {}

-----------------------------------------------------------------------------
(* useDeviceServiceQuery: what an observed query does                       *)

\* A mounted, enabled query is fetched when it has no data or was invalidated.
NeedsFetch(entry) == entry.data = -1 \/ entry.invalidated
Asked(entry) == [entry EXCEPT !.fetch = "asked", !.answer = -1]

\* The cache once `n` is the observed query: `again` asks for it whatever it holds.
Observed(cache, n, enabled, again) ==
  IF n # NoService /\ enabled /\ (again \/ (NeedsFetch(cache[n]) /\ cache[n].fetch = "idle"))
  THEN [cache EXCEPT ![n] = Asked(@)] ELSE cache

isBusy == mutation # <<>> \/ \E n \in {definitionServiceName} \ {NoService} : definitionCache[n].fetch # "idle"

\* The definition shown: what the observed query holds.
activeDefinition ==
  IF definitionServiceName = NoService \/ definitionCache[definitionServiceName].data <= 0 THEN <<>>
  ELSE <<definitionServiceName, definitionCache[definitionServiceName].data>>

\* What the editor holds: the draft, while the definition it was started from is the one shown.
definitionText ==
  IF definitionDraft # <<>> /\ definitionDraft[1] = activeDefinition THEN definitionDraft[2]
  ELSE activeDefinition

-----------------------------------------------------------------------------
(* Handlers                                                                 *)

loadServiceDefinition(n) ==
  /\ ~isBusy
  /\ definitionServiceName' = n
  /\ definitionCache' = Observed(definitionCache, n, reachable, n = definitionServiceName)
  /\ UNCHANGED <<definitionDraft, mutation, reachable, installed, unseen>>

\* The text area, which is never disabled, and the template and clear buttons.
setDefinitionText(text) ==
  /\ definitionDraft' = <<activeDefinition, text>>
  /\ UNCHANGED <<definitionServiceName, definitionCache, mutation, reachable, installed, unseen>>

\* handleSaveDefinition, upsertServiceDefinition: the name saved is the one in the text.
handleSaveDefinition ==
  /\ ~isBusy /\ definitionText # <<>>
  /\ definitionServiceName' = definitionText[1]
  /\ definitionCache' = Observed(definitionCache, definitionText[1], reachable, FALSE)
  /\ mutation' = <<"upsert-service", definitionText[1], definitionText[2], "sent">>
  /\ UNCHANGED <<definitionDraft, reachable, installed, unseen>>

handleRemoveDefinition ==
  /\ ~isBusy /\ definitionText # <<>>
  /\ mutation' = <<"remove-service", definitionText[1], 0, "sent">>
  /\ UNCHANGED <<definitionServiceName, definitionCache, definitionDraft, reachable, installed, unseen>>

\* runServiceAction and updateService: a row's buttons.
runServiceAction(n) ==
  /\ ~isBusy
  /\ mutation' = <<"restart-service", n, installed[n], "sent">>
  /\ UNCHANGED <<definitionServiceName, definitionCache, definitionDraft, reachable, installed, unseen>>

\* Mutant: a change refreshes the status alone.
RefreshesStatusOnly(removed) ==
  /\ definitionServiceName' = IF removed /\ mutation[2] = definitionServiceName THEN NoService
                              ELSE definitionServiceName
  /\ UNCHANGED definitionCache

\* A first load, with no data to keep meanwhile, is not cancelled by a refetch: it is joined.
FirstLoad(n) == definitionCache[n].data = -1 /\ definitionCache[n].fetch # "idle"

\* invalidateQueries, which cancels and repeats a request under way, and what is left observed.
handleActionSuccess(removed) ==
  LET n == mutation[2]
      marked == [definitionCache EXCEPT ![n].invalidated = TRUE]
  IN
  /\ definitionServiceName' = IF removed /\ n = definitionServiceName THEN NoService
                              ELSE definitionServiceName
  /\ definitionCache' = Observed(marked, IF n = definitionServiceName THEN n ELSE NoService, reachable,
                               ~FirstLoad(n))

-----------------------------------------------------------------------------
(* The device and the transport                                             *)

\* handleUpsertService, handleRemoveService, handleServiceAction: the device does what it was
\* asked to, or refuses.  Every command has its goroutine, so they end in any order.
DeviceChanges(does) ==
  LET n == mutation[2] IN
  /\ mutation # <<>> /\ mutation[4] = "sent"
  /\ installed' = [installed EXCEPT ![n] = IF does /\ mutation[1] # "restart-service" THEN mutation[3] ELSE @]
  /\ mutation' = [mutation EXCEPT ![4] = IF does THEN "done" ELSE "refused"]
  /\ UNCHANGED <<definitionServiceName, definitionCache, definitionDraft, reachable, unseen>>

MutationSucceeds ==
  /\ mutation # <<>> /\ mutation[4] = "done"
  /\ mutation' = <<>>
  /\ handleActionSuccess(mutation[1] = "remove-service")
  /\ LET n == mutation[2] IN
     unseen' = IF FirstLoad(n) /\ definitionCache[n].fetch = "answered" THEN unseen \cup {n} ELSE unseen
  /\ UNCHANGED <<definitionDraft, reachable, installed>>

\* Refused, failed after the change (the state file not written), or its answer lost.
MutationFails ==
  /\ mutation # <<>> /\ mutation[4] # "sent"
  /\ mutation' = <<>>
  /\ unseen' = IF mutation[4] = "done" THEN unseen \cup {mutation[2]} ELSE unseen
  /\ UNCHANGED <<definitionServiceName, definitionCache, definitionDraft, reachable, installed>>

DeviceAnswersDefinition(n) ==
  /\ definitionCache[n].fetch = "asked"
  /\ definitionCache' = [definitionCache EXCEPT ![n].fetch = "answered", ![n].answer = installed[n]]
  /\ UNCHANGED <<definitionServiceName, definitionDraft, mutation, reachable, installed, unseen>>

\* A definition arrives; an unknown service is an error and leaves what there was.
DefinitionArrives(n) ==
  /\ definitionCache[n].fetch = "answered"
  /\ definitionCache' = [definitionCache EXCEPT ![n] =
       IF @.answer = 0 THEN [@ EXCEPT !.fetch = "idle", !.answer = -1]
       ELSE [data |-> @.answer, invalidated |-> FALSE, fetch |-> "idle", answer |-> -1]]
  /\ UNCHANGED <<definitionServiceName, definitionDraft, mutation, reachable, installed, unseen>>

\* Its answer is lost: a request that fails keeps the mark of an invalidation.
DefinitionLost(n) ==
  /\ definitionCache[n].fetch # "idle"
  /\ definitionCache' = [definitionCache EXCEPT ![n].fetch = "idle", ![n].answer = -1]
  /\ UNCHANGED <<definitionServiceName, definitionDraft, mutation, reachable, installed, unseen>>

\* The connection goes: what is under way fails later, by its timeout, and whether the device
\* was reached nobody here knows.
ConnectionLost(does) ==
  LET cut == mutation # <<>> /\ mutation[4] = "sent" IN
  /\ reachable
  /\ reachable' = FALSE
  /\ definitionCache' = [n \in Services |->
       IF definitionCache[n].fetch = "idle" THEN definitionCache[n]
       ELSE [definitionCache[n] EXCEPT !.fetch = "lost", !.answer = -1]]
  /\ installed' = IF cut /\ does /\ mutation[1] # "restart-service"
                  THEN [installed EXCEPT ![mutation[2]] = mutation[3]] ELSE installed
  /\ mutation' = IF mutation = <<>> THEN mutation ELSE [mutation EXCEPT ![4] = "lost"]
  /\ unseen' = IF mutation = <<>> THEN unseen ELSE unseen \cup {mutation[2]}
  /\ UNCHANGED <<definitionServiceName, definitionDraft>>

\* It comes back: an enabled query that is stale is asked for again.
Reconnects ==
  /\ ~reachable
  /\ reachable' = TRUE
  /\ definitionCache' = Observed(definitionCache, definitionServiceName, TRUE, FALSE)
  /\ UNCHANGED <<definitionServiceName, definitionDraft, mutation, installed, unseen>>

\* Another page changes the service.
ElsewhereChanges(n, v) ==
  /\ v # installed[n]
  /\ installed' = [installed EXCEPT ![n] = v]
  /\ unseen' = unseen \cup {n}
  /\ UNCHANGED <<definitionServiceName, definitionCache, definitionDraft, mutation, reachable>>

RmTurn ==
  \/ \E n \in Services : loadServiceDefinition(n)
  \/ \E n \in Services, v \in Versions \ {0} : setDefinitionText(<<n, v>>)
  \/ handleSaveDefinition
  \/ handleRemoveDefinition
  \/ \E n \in Services : runServiceAction(n)
  \/ \E does \in BOOLEAN : ConnectionLost(does)
  \/ \E n \in Services, v \in Versions : ElsewhereChanges(n, v)

RmNext ==
  \/ rmTurns < MaxRmTurns /\ rmTurns' = rmTurns + 1 /\ RmTurn
  \/ /\ UNCHANGED rmTurns
     /\ \/ \E does \in BOOLEAN : DeviceChanges(does)
        \/ MutationSucceeds
        \/ MutationFails
        \/ \E n \in Services : DeviceAnswersDefinition(n)
        \/ \E n \in Services : DefinitionArrives(n)
        \/ \E n \in Services : DefinitionLost(n)
        \/ Reconnects

RmSpec == RmInit /\ [][RmNext]_rmVars

-----------------------------------------------------------------------------

\* The shape of the state.
RmTypeOK ==
  /\ definitionServiceName \in Services \cup {NoService}
  /\ definitionCache \in [Services -> [data : Versions \cup {-1}, invalidated : BOOLEAN,
                                       fetch : {"idle", "asked", "answered", "lost"}, answer : Versions \cup {-1}]]
  /\ reachable \in BOOLEAN /\ rmTurns \in 0..MaxRmTurns
  /\ installed \in [Services -> Versions]
  /\ unseen \subseteq Services

\* What the editor is laid over is what the device runs: a definition that is
\* cached, not marked and not being asked for again is the device's own, in
\* whatever order saves, removals and answers came, unless a change was made
\* that this page was never told of, or one was acknowledged while the answer
\* to the first load of that definition, which it does not repeat, was on its
\* way (unseen).
ShowsWhatIsInstalled ==
  \A n \in Services \ unseen :
    LET entry == definitionCache[n] IN
    entry.data > 0 /\ ~entry.invalidated /\ entry.fetch = "idle"
      /\ (mutation = <<>> \/ mutation[2] # n) => entry.data = installed[n]
=============================================================================
