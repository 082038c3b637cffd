-------------------------- MODULE DevicePagesProofs --------------------------
(***************************************************************************)
(* Proofs about the pages of a device, for any services, jobs, cameras,     *)
(* documents, frames and bounds: the runtime manager, the audio-manager and  *)
(* cloud-transfer panels, the ROI configurator and its canvas, the PTZ panel.  *)
(* Each has an inductive invariant, kept by every step of the page, its device   *)
(* and its connection; together they say that what the pages show and send keeps  *)
(* to the device's own state through lost, late and repeated answers.            *)
(***************************************************************************)
EXTENDS MCWebLive, SequenceTheorems, FiniteSetTheorems, WellFoundedInduction, TLAPS

-----------------------------------------------------------------------------
(* The runtime manager                                                      *)

Entries == [data : Versions \cup {-1}, invalidated : BOOLEAN,
            fetch : {"idle", "asked", "answered", "lost"}, answer : Versions \cup {-1}]

Kinds == {"upsert-service", "remove-service", "restart-service"}
Pending == Kinds \X Services \X Versions \X {"sent", "done", "refused", "lost"}
Texts == Services \X Versions

\* The types of the variables the type invariant leaves out.
RmTypes ==
  /\ RmTypeOK
  /\ definitionCache \in [Services -> Entries]
  /\ mutation = <<>> \/ mutation \in Pending
  /\ definitionDraft = <<>> \/ definitionDraft \in ({<<>>} \cup Texts) \X Texts

\* The mutation under way is one of service n.
Changing(n) == mutation # <<>> /\ mutation[2] = n

\* It has been carried out, and this page has not been told.
Done(n) == Changing(n) /\ mutation[4] = "done"

\* A service is upserted only while it is the one observed; what was carried out is installed;
\* a removal leaves no definition.
MutationShape ==
  mutation # <<>> =>
    /\ mutation[1] = "upsert-service" => mutation[2] = definitionServiceName
    /\ mutation[1] = "remove-service" => mutation[3] = 0
    /\ mutation[4] = "done" /\ mutation[1] # "restart-service" /\ mutation[2] \notin unseen
         => installed[mutation[2]] = mutation[3]

\* An answer under way says what is installed, unless a mutation of the very service observed
\* has overtaken it, whose success asks again; a request for a service that is not observed is
\* left over from its removal; without a connection nothing is answered.
AnswerShape ==
  \A n \in Services :
    /\ n \notin unseen /\ definitionCache[n].fetch = "answered" =>
         \/ definitionCache[n].answer = installed[n]
         \/ Done(n) /\ n = definitionServiceName
    /\ n \notin unseen /\ n # definitionServiceName
         /\ definitionCache[n].fetch \in {"asked", "answered"} => installed[n] = 0
    /\ ~reachable => definitionCache[n].fetch \in {"idle", "lost"}

\* A cached definition that is not marked is the installed one, until a mutation of it is done.
DataShape ==
  \A n \in Services \ unseen :
    definitionCache[n].data > 0 /\ ~definitionCache[n].invalidated /\ ~Done(n)
      => definitionCache[n].data = installed[n]

RmInv == RmTypes /\ MutationShape /\ AnswerShape /\ DataShape

LEMMA RmInitially == RmInit => RmInv
<1> SUFFICES ASSUME RmInit PROVE RmInv
  OBVIOUS
<1>1. NotAsked \in Entries /\ NotAsked.fetch = "idle" /\ NotAsked.data = -1
  BY DEF NotAsked, Entries
<1>2. RmTypes
  BY <1>1, RmAssumption DEF RmInit, RmTypes, RmTypeOK, Entries
<1>3. MutationShape /\ AnswerShape /\ DataShape
  BY <1>1 DEF RmInit, MutationShape, AnswerShape, DataShape
<1> QED  BY <1>2, <1>3 DEF RmInv

\* The invariant says what the property asks of the panel.
LEMMA RmInvShows == RmInv => ShowsWhatIsInstalled
BY DEF RmInv, DataShape, Done, Changing, ShowsWhatIsInstalled

\* What is asked for anew.
LEMMA AskedFacts ==
  ASSUME NEW e \in Entries
  PROVE  /\ Asked(e) \in Entries /\ Asked(e).fetch = "asked"
         /\ Asked(e).data = e.data /\ Asked(e).invalidated = e.invalidated
BY DEF Asked, Entries

\* Observing a query changes at most its own entry, and then asks for it.
LEMMA ObserveOne ==
  ASSUME NEW c \in [Services -> Entries], NEW n \in Services \cup {NoService}, NEW enabled \in BOOLEAN,
         NEW again \in BOOLEAN
  PROVE  /\ Observed(c, n, enabled, again) \in [Services -> Entries]
         /\ \A m \in Services :
              \/ Observed(c, n, enabled, again)[m] = c[m] /\ ~ (m = n /\ enabled /\ again)
              \/ m = n /\ enabled /\ Observed(c, n, enabled, again)[m] = Asked(c[m])
<1>1. CASE n # NoService /\ enabled /\ (again \/ (NeedsFetch(c[n]) /\ c[n].fetch = "idle"))
  <2>1. n \in Services /\ Observed(c, n, enabled, again) = [c EXCEPT ![n] = Asked(c[n])]
    BY <1>1 DEF Observed
  <2>2. c[n] \in Entries /\ Asked(c[n]) \in Entries
    BY <2>1, AskedFacts
  <2>3. [c EXCEPT ![n] = Asked(c[n])] \in [Services -> Entries]
    BY <2>1, <2>2
  <2>4. \A m \in Services : [c EXCEPT ![n] = Asked(c[n])][m] = IF m = n THEN Asked(c[n]) ELSE c[m]
    BY <2>1
  <2> QED  BY <1>1, <2>1, <2>3, <2>4
<1>2. CASE ~ (n # NoService /\ enabled /\ (again \/ (NeedsFetch(c[n]) /\ c[n].fetch = "idle")))
  <2>1. Observed(c, n, enabled, again) = c
    BY <1>2 DEF Observed
  <2>2. \A m \in Services : ~ (m = n /\ enabled /\ again)
    BY <1>2, RmAssumption
  <2> QED  BY <2>1, <2>2
<1> QED  BY <1>1, <1>2

\* A page that is not busy waits for no mutation, and not for the definition it shows.
LEMMA NotBusy ==
  ASSUME ~isBusy
  PROVE  /\ mutation = <<>>
         /\ definitionServiceName # NoService => definitionCache[definitionServiceName].fetch = "idle"
BY DEF isBusy

\* What the panel shows, and what it saves, names a service and a version.
LEMMA ActiveType ==
  ASSUME RmTypes
  PROVE  activeDefinition = <<>> \/ activeDefinition \in Texts
<1>1. CASE definitionServiceName = NoService \/ definitionCache[definitionServiceName].data <= 0
  BY <1>1 DEF activeDefinition
<1>2. CASE ~ (definitionServiceName = NoService \/ definitionCache[definitionServiceName].data <= 0)
  <2>1. definitionServiceName \in Services
    BY <1>2 DEF RmTypes, RmTypeOK
  <2>2. definitionCache[definitionServiceName] \in Entries
    BY <2>1 DEF RmTypes
  <2>3. definitionCache[definitionServiceName].data \in Versions
    BY <1>2, <2>2, RmAssumption DEF Entries
  <2> QED  BY <1>2, <2>1, <2>3 DEF activeDefinition, Texts
<1> QED  BY <1>1, <1>2

LEMMA TextType ==
  ASSUME RmTypes, definitionText # <<>>
  PROVE  definitionText \in Texts
<1>1. definitionDraft # <<>> => definitionDraft[2] \in Texts
  BY DEF RmTypes
<1> QED  BY <1>1, ActiveType DEF definitionText

\* Users ask for a definition, save, remove and restart: the page was not busy.
LEMMA LoadStep ==
  ASSUME RmInv, NEW n \in Services, loadServiceDefinition(n), rmTurns' \in 0..MaxRmTurns
  PROVE  RmInv'
<1>1. /\ mutation = <<>> /\ mutation' = mutation
      /\ definitionServiceName # NoService => definitionCache[definitionServiceName].fetch = "idle"
      /\ definitionServiceName' = n
      /\ definitionCache' = Observed(definitionCache, n, reachable, n = definitionServiceName)
      /\ UNCHANGED <<definitionDraft, reachable, installed, unseen>>
  BY NotBusy DEF loadServiceDefinition
<1>2. /\ definitionCache' \in [Services -> Entries]
      /\ \A m \in Services : \/ definitionCache'[m] = definitionCache[m]
                             \/ m = n /\ reachable /\ definitionCache'[m] = Asked(definitionCache[m])
  <2> DEFINE again == n = definitionServiceName
             after == Observed(definitionCache, n, reachable, again)
  <2>1. definitionCache \in [Services -> Entries] /\ reachable \in BOOLEAN
    BY DEF RmInv, RmTypes, RmTypeOK
  <2>2. again \in BOOLEAN /\ n \in Services \cup {NoService} /\ definitionCache' = after
    BY <1>1
  <2> HIDE DEF again
  <2>3. /\ after \in [Services -> Entries]
        /\ \A m \in Services : \/ after[m] = definitionCache[m] /\ ~ (m = n /\ reachable /\ again)
                               \/ m = n /\ reachable /\ after[m] = Asked(definitionCache[m])
    BY <2>1, <2>2, ObserveOne
  <2> QED  BY <2>2, <2>3
<1>3. RmTypes'
  BY <1>1, <1>2 DEF RmInv, RmTypes, RmTypeOK, Entries
<1>4. MutationShape'
  BY <1>1 DEF MutationShape
<1>5. \A m \in Services : definitionCache[m] \in Entries
  BY DEF RmInv, RmTypes
<1>6. DataShape'
  BY <1>1, <1>2, <1>5, AskedFacts DEF RmInv, DataShape, Done, Changing
<1>7. AnswerShape'
  BY <1>1, <1>2, <1>5, AskedFacts, RmAssumption DEF RmInv, AnswerShape, Done, Changing, RmTypes, RmTypeOK
<1> QED  BY <1>3, <1>4, <1>6, <1>7 DEF RmInv

LEMMA SaveStep ==
  ASSUME RmInv, handleSaveDefinition, rmTurns' \in 0..MaxRmTurns
  PROVE  RmInv'
<1>0. PICK n \in Services, v \in Versions : definitionText = <<n, v>>
  BY TextType DEF handleSaveDefinition, RmInv, Texts
<1>1. /\ mutation = <<>> /\ mutation' = <<"upsert-service", n, v, "sent">>
      /\ definitionServiceName # NoService => definitionCache[definitionServiceName].fetch = "idle"
      /\ definitionServiceName' = n
      /\ definitionCache' = Observed(definitionCache, n, reachable, FALSE)
      /\ UNCHANGED <<definitionDraft, reachable, installed, unseen>>
  BY <1>0, NotBusy DEF handleSaveDefinition
<1>2. /\ definitionCache' \in [Services -> Entries]
      /\ \A m \in Services : \/ definitionCache'[m] = definitionCache[m]
                             \/ m = n /\ reachable /\ definitionCache'[m] = Asked(definitionCache[m])
  <2> DEFINE again == FALSE
             after == Observed(definitionCache, n, reachable, again)
  <2>1. definitionCache \in [Services -> Entries] /\ reachable \in BOOLEAN
    BY DEF RmInv, RmTypes, RmTypeOK
  <2>2. again \in BOOLEAN /\ n \in Services \cup {NoService} /\ definitionCache' = after
    BY <1>1
  <2> HIDE DEF again
  <2>3. /\ after \in [Services -> Entries]
        /\ \A m \in Services : \/ after[m] = definitionCache[m] /\ ~ (m = n /\ reachable /\ again)
                               \/ m = n /\ reachable /\ after[m] = Asked(definitionCache[m])
    BY <2>1, <2>2, ObserveOne
  <2> QED  BY <2>2, <2>3
<1>3. RmTypes'
  <2>1. mutation' \in Pending
    BY <1>0, <1>1 DEF Pending, Kinds
  <2> QED  BY <1>0, <1>1, <1>2, <2>1 DEF RmInv, RmTypes, RmTypeOK, Entries
<1>4. MutationShape'
  BY <1>1 DEF MutationShape
<1>5. \A m \in Services : definitionCache[m] \in Entries
  BY DEF RmInv, RmTypes
<1>8. \A m \in Services : ~ Done(m) /\ ~ Done(m)'
  BY <1>1 DEF Done, Changing
<1>9. \A m \in Services : /\ definitionCache'[m].data = definitionCache[m].data
                          /\ definitionCache'[m].invalidated = definitionCache[m].invalidated
  BY <1>2, <1>5, AskedFacts
<1>6. DataShape'
  BY <1>1, <1>8, <1>9 DEF RmInv, DataShape
<1>7. AnswerShape'
  <2> SUFFICES ASSUME NEW m \in Services
               PROVE  /\ m \notin unseen /\ definitionCache'[m].fetch = "answered"
                           => definitionCache'[m].answer = installed[m]
                      /\ m \notin unseen /\ m # n /\ definitionCache'[m].fetch \in {"asked", "answered"}
                           => installed[m] = 0
                      /\ ~reachable => definitionCache'[m].fetch \in {"idle", "lost"}
    BY <1>1 DEF AnswerShape
  <2>1. /\ m \notin unseen /\ definitionCache[m].fetch = "answered" => definitionCache[m].answer = installed[m]
        /\ m \notin unseen /\ m # definitionServiceName /\ definitionCache[m].fetch \in {"asked", "answered"}
             => installed[m] = 0
        /\ ~reachable => definitionCache[m].fetch \in {"idle", "lost"}
    BY <1>8 DEF RmInv, AnswerShape
  <2>2. m = definitionServiceName => definitionCache[m].fetch = "idle"
    BY <1>1, RmAssumption
  <2>3. CASE definitionCache'[m] = definitionCache[m]
    BY <2>1, <2>2, <2>3
  <2>4. CASE m = n /\ reachable /\ definitionCache'[m] = Asked(definitionCache[m])
    <3>1. definitionCache[m] \in Entries
      BY <1>5
    <3>2. definitionCache'[m].fetch = "asked"
      BY <2>4, <3>1, AskedFacts
    <3> QED  BY <2>4, <3>2
  <2> QED  BY <1>2, <2>3, <2>4
<1> QED  BY <1>3, <1>4, <1>6, <1>7 DEF RmInv

LEMMA AskStep ==
  ASSUME RmInv, NEW n \in Services, NEW v \in Versions, NEW kind \in Kinds \ {"upsert-service"},
         kind = "remove-service" => v = 0,
         mutation = <<>>, mutation' = <<kind, n, v, "sent">>, rmTurns' \in 0..MaxRmTurns,
         UNCHANGED <<definitionServiceName, definitionCache, definitionDraft, reachable, installed, unseen>>
  PROVE  RmInv'
<1>1. RmTypes'
  <2>1. mutation' \in Pending
    BY DEF Pending
  <2> QED  BY <2>1 DEF RmInv, RmTypes, RmTypeOK, Entries
<1>2. MutationShape'
  BY DEF MutationShape, Kinds
<1>3. AnswerShape' /\ DataShape'
  BY DEF RmInv, AnswerShape, DataShape, Done, Changing
<1> QED  BY <1>1, <1>2, <1>3 DEF RmInv

\* Typing: the draft is laid over what is shown.
LEMMA TypeStep ==
  ASSUME RmInv, NEW n \in Services, NEW v \in Versions, setDefinitionText(<<n, v>>), rmTurns' \in 0..MaxRmTurns
  PROVE  RmInv'
<1>1. /\ definitionDraft' = <<activeDefinition, <<n, v>>>>
      /\ UNCHANGED <<definitionServiceName, definitionCache, mutation, reachable, installed, unseen>>
  BY DEF setDefinitionText
<1>2. definitionDraft' \in ({<<>>} \cup Texts) \X Texts
  BY <1>1, ActiveType DEF RmInv, Texts
<1>3. RmTypes'
  BY <1>1, <1>2 DEF RmInv, RmTypes, RmTypeOK, Entries
<1>4. MutationShape' /\ AnswerShape' /\ DataShape'
  BY <1>1 DEF RmInv, MutationShape, AnswerShape, DataShape, Done, Changing
<1> QED  BY <1>3, <1>4 DEF RmInv

\* The mutation under way, taken apart.
LEMMA MutationParts ==
  ASSUME RmTypes, mutation # <<>>
  PROVE  \E kind \in Kinds, n \in Services, v \in Versions, at \in {"sent", "done", "refused", "lost"} :
           /\ mutation = <<kind, n, v, at>>
           /\ \A x : [mutation EXCEPT ![4] = x] = <<kind, n, v, x>>
BY DEF RmTypes, Pending

LEMMA ConnectionLostStep ==
  ASSUME RmInv, NEW does \in BOOLEAN, ConnectionLost(does), rmTurns' \in 0..MaxRmTurns
  PROVE  RmInv'
<1>1. /\ reachable' = FALSE
      /\ UNCHANGED <<definitionServiceName, definitionDraft>>
  BY DEF ConnectionLost
<1>2. /\ definitionCache' \in [Services -> Entries]
      /\ \A m \in Services : /\ definitionCache'[m].data = definitionCache[m].data
                             /\ definitionCache'[m].invalidated = definitionCache[m].invalidated
                             /\ definitionCache'[m].fetch \in {"idle", "lost"}
  <2>1. \A m \in Services : definitionCache[m] \in Entries
    BY DEF RmInv, RmTypes
  <2>2. definitionCache' = [m \in Services |->
          IF definitionCache[m].fetch = "idle" THEN definitionCache[m]
          ELSE [definitionCache[m] EXCEPT !.fetch = "lost", !.answer = -1]]
    BY DEF ConnectionLost
  <2> QED  BY <2>1, <2>2 DEF Entries
<1>3. CASE mutation = <<>>
  <2>1. UNCHANGED <<mutation, unseen, installed>>
    BY <1>3 DEF ConnectionLost
  <2>2. RmTypes'
    BY <1>1, <1>2, <2>1 DEF RmInv, RmTypes, RmTypeOK, Entries
  <2>3. MutationShape' /\ AnswerShape' /\ DataShape'
    BY <1>1, <1>2, <1>3, <2>1 DEF RmInv, MutationShape, AnswerShape, DataShape, Done, Changing
  <2> QED  BY <2>2, <2>3 DEF RmInv
<1>4. CASE mutation # <<>>
  <2>1. PICK kind \in Kinds, n \in Services, v \in Versions, at \in {"sent", "done", "refused", "lost"} :
           /\ mutation = <<kind, n, v, at>>
           /\ \A x : [mutation EXCEPT ![4] = x] = <<kind, n, v, x>>
    BY <1>4, MutationParts DEF RmInv
  <2>2. mutation' = <<kind, n, v, "lost">> /\ unseen' = unseen \cup {n}
    BY <1>4, <2>1 DEF ConnectionLost
  <2>3. installed' = installed \/ installed' = [installed EXCEPT ![n] = v]
    BY <2>1 DEF ConnectionLost
  <2>4. installed' \in [Services -> Versions] /\ \A m \in Services : m # n => installed'[m] = installed[m]
    BY <2>1, <2>3 DEF RmInv, RmTypes, RmTypeOK
  <2>5. mutation' \in Pending
    BY <2>1, <2>2 DEF Pending
  <2>6. RmTypes'
    BY <1>1, <1>2, <2>2, <2>4, <2>5 DEF RmInv, RmTypes, RmTypeOK, Entries
  <2>7. MutationShape'
    BY <1>1, <2>1, <2>2 DEF RmInv, MutationShape
  <2>8. AnswerShape'
    BY <1>1, <1>2 DEF AnswerShape
  <2>9. DataShape'
    BY <1>2, <2>1, <2>2, <2>4 DEF RmInv, DataShape, Done, Changing
  <2> QED  BY <2>6, <2>7, <2>8, <2>9 DEF RmInv
<1> QED  BY <1>3, <1>4

LEMMA ElsewhereStep ==
  ASSUME RmInv, NEW n \in Services, NEW v \in Versions, ElsewhereChanges(n, v), rmTurns' \in 0..MaxRmTurns
  PROVE  RmInv'
<1>1. /\ installed' = [installed EXCEPT ![n] = v] /\ unseen' = unseen \cup {n}
      /\ UNCHANGED <<definitionServiceName, definitionCache, definitionDraft, mutation, reachable>>
  BY DEF ElsewhereChanges
<1>2. installed' \in [Services -> Versions] /\ \A m \in Services : m # n => installed'[m] = installed[m]
  BY <1>1 DEF RmInv, RmTypes, RmTypeOK
<1>3. RmTypes'
  BY <1>1, <1>2 DEF RmInv, RmTypes, RmTypeOK, Entries
<1>4. MutationShape'
  <2>1. mutation # <<>> => mutation[2] \in Services
    BY DEF RmInv, RmTypes, Pending
  <2> QED  BY <1>1, <1>2, <2>1 DEF RmInv, MutationShape
<1>5. AnswerShape' /\ DataShape'
  BY <1>1, <1>2 DEF RmInv, AnswerShape, DataShape, Done, Changing
<1> QED  BY <1>3, <1>4, <1>5 DEF RmInv

\* The device carries the mutation out, or refuses.
LEMMA DeviceChangesStep ==
  ASSUME RmInv, NEW does \in BOOLEAN, DeviceChanges(does), UNCHANGED rmTurns
  PROVE  RmInv'
<1>1. PICK kind \in Kinds, n \in Services, v \in Versions, at \in {"sent", "done", "refused", "lost"} :
         /\ mutation = <<kind, n, v, at>>
         /\ \A x : [mutation EXCEPT ![4] = x] = <<kind, n, v, x>>
  BY MutationParts DEF RmInv, DeviceChanges
<1>2. /\ at = "sent" /\ mutation' = <<kind, n, v, IF does THEN "done" ELSE "refused">>
      /\ installed' = [installed EXCEPT ![n] = IF does /\ kind # "restart-service" THEN v ELSE installed[n]]
      /\ UNCHANGED <<definitionServiceName, definitionCache, definitionDraft, reachable, unseen>>
  BY <1>1 DEF DeviceChanges
<1>3. /\ installed \in [Services -> Versions] /\ installed' \in [Services -> Versions]
      /\ \A m \in Services : m # n => installed'[m] = installed[m]
      /\ installed'[n] = IF does /\ kind # "restart-service" THEN v ELSE installed[n]
  BY <1>2 DEF RmInv, RmTypes, RmTypeOK
<1>4. mutation' \in Pending
  BY <1>2 DEF Pending
<1>5. RmTypes'
  BY <1>2, <1>3, <1>4 DEF RmInv, RmTypes, RmTypeOK, Entries
<1>6. /\ kind = "upsert-service" => n = definitionServiceName
      /\ kind = "remove-service" => v = 0
  BY <1>1 DEF RmInv, MutationShape
<1>7. MutationShape'
  BY <1>2, <1>3, <1>6 DEF MutationShape
<1>8. \A m \in Services : /\ ~ Done(m)
                          /\ Done(m)' <=> m = n /\ does
  BY <1>1, <1>2 DEF Done, Changing
<1>9. DataShape'
  BY <1>2, <1>3, <1>8 DEF RmInv, DataShape
<1>10. n # definitionServiceName => installed'[n] = installed[n] \/ installed'[n] = 0
  BY <1>1, <1>3, <1>6 DEF Kinds
<1>11. ~ does => installed'[n] = installed[n]
  BY <1>3
<1>12. AnswerShape'
  BY <1>2, <1>3, <1>8, <1>10, <1>11 DEF RmInv, AnswerShape
<1> QED  BY <1>5, <1>7, <1>9, <1>12 DEF RmInv

\* The mutation's success: the service's definition is marked, and asked for if it is observed.
LEMMA MutationSucceedsStep ==
  ASSUME RmInv, MutationSucceeds, UNCHANGED rmTurns
  PROVE  RmInv'
<1>1. PICK kind \in Kinds, n \in Services, v \in Versions, at \in {"sent", "done", "refused", "lost"} :
         mutation = <<kind, n, v, at>>
  BY MutationParts DEF RmInv, MutationSucceeds
<1> DEFINE removed == kind = "remove-service"
           marked == [definitionCache EXCEPT ![n].invalidated = TRUE]
           seen == IF n = definitionServiceName THEN n ELSE NoService
           again == ~FirstLoad(n)
<1>2. /\ at = "done" /\ mutation' = <<>>
      /\ definitionServiceName' = IF removed /\ n = definitionServiceName THEN NoService ELSE definitionServiceName
      /\ definitionCache' = Observed(marked, seen, reachable, again)
      /\ unseen' = IF FirstLoad(n) /\ definitionCache[n].fetch = "answered" THEN unseen \cup {n} ELSE unseen
      /\ UNCHANGED <<definitionDraft, reachable, installed>>
  BY <1>1 DEF MutationSucceeds, handleActionSuccess
<1>3. /\ definitionCache \in [Services -> Entries] /\ reachable \in BOOLEAN
      /\ seen \in Services \cup {NoService}
      /\ \A m \in Services : definitionCache[m] \in Entries
  BY DEF RmInv, RmTypes, RmTypeOK
<1>4. /\ marked \in [Services -> Entries]
      /\ \A m \in Services : /\ marked[m].data = definitionCache[m].data
                             /\ marked[m].fetch = definitionCache[m].fetch
                             /\ marked[m].answer = definitionCache[m].answer
                             /\ m # n => marked[m] = definitionCache[m]
      /\ marked[n].invalidated = TRUE
  BY <1>3 DEF Entries
<1> HIDE DEF marked, seen, again
<1>5. /\ definitionCache' \in [Services -> Entries]
      /\ \A m \in Services : \/ definitionCache'[m] = marked[m] /\ ~ (m = seen /\ reachable /\ again)
                             \/ m = seen /\ reachable /\ definitionCache'[m] = Asked(marked[m])
  <2>1. again \in BOOLEAN
    BY DEF again, FirstLoad
  <2>2. \A b \in BOOLEAN :
           /\ Observed(marked, seen, reachable, b) \in [Services -> Entries]
           /\ \A m \in Services :
                \/ Observed(marked, seen, reachable, b)[m] = marked[m] /\ ~ (m = seen /\ reachable /\ b)
                \/ m = seen /\ reachable /\ Observed(marked, seen, reachable, b)[m] = Asked(marked[m])
    <3> HIDE DEF Entries, Observed, Asked
    <3>1. marked \in [Services -> Entries] /\ seen \in Services \cup {NoService} /\ reachable \in BOOLEAN
      BY <1>3, <1>4
    <3> QED  BY ONLY <3>1, ObserveOne
  <2> QED  BY <1>2, <2>1, <2>2
<1>6. \A m \in Services : /\ definitionCache'[m].data = definitionCache[m].data
                          /\ m # n => definitionCache'[m] = definitionCache[m]
                          /\ definitionCache'[n].invalidated = TRUE
                          /\ definitionCache'[m].fetch = "asked"
                               \/ /\ definitionCache'[m].fetch = definitionCache[m].fetch
                                  /\ definitionCache'[m].answer = definitionCache[m].answer
                          /\ ~ reachable => definitionCache'[m].fetch = definitionCache[m].fetch
                          /\ reachable /\ n = definitionServiceName /\ again => definitionCache'[n].fetch = "asked"
                          /\ n # definitionServiceName => definitionCache'[m].fetch = definitionCache[m].fetch
  <2>1. \A m \in Services : marked[m] \in Entries
    BY <1>4
  <2>2. \A m \in Services : m = seen => m = n /\ n = definitionServiceName
    BY RmAssumption DEF seen
  <2>3. n = definitionServiceName => n = seen
    BY DEF seen
  <2> QED  BY <1>4, <1>5, <2>1, <2>2, <2>3, AskedFacts
<1>7. RmTypes'
  BY <1>2, <1>5 DEF RmInv, RmTypes, RmTypeOK, Entries
<1>8. MutationShape'
  BY <1>2 DEF MutationShape
<1>9. \A m \in Services : Done(m) <=> m = n
  BY <1>1, <1>2 DEF Done, Changing
<1>10. DataShape'
  BY <1>2, <1>6, <1>9 DEF RmInv, DataShape
<1>11. n \notin unseen /\ removed => installed[n] = 0
  BY <1>1, <1>2 DEF RmInv, MutationShape
<1>12. AnswerShape'
  <2> SUFFICES ASSUME NEW m \in Services
               PROVE  /\ m \notin unseen' /\ definitionCache'[m].fetch = "answered"
                            => definitionCache'[m].answer = installed[m]
                      /\ m \notin unseen' /\ m # definitionServiceName'
                           /\ definitionCache'[m].fetch \in {"asked", "answered"} => installed[m] = 0
                      /\ ~ reachable => definitionCache'[m].fetch \in {"idle", "lost"}
    BY <1>2 DEF AnswerShape
  <2>1. CASE m # n
    <3>1. definitionCache'[m] = definitionCache[m] /\ ~ Done(m)
      BY <1>6, <1>9, <2>1
    <3>2. m # definitionServiceName' => m # definitionServiceName
      BY <1>2, <2>1
    <3>3. m \notin unseen' => m \notin unseen
      BY <1>2
    <3> QED  BY <3>1, <3>2, <3>3 DEF RmInv, AnswerShape
  <2>2. CASE m = n /\ n # definitionServiceName
    BY <1>2, <1>6, <1>9, <2>2 DEF RmInv, AnswerShape
  <2>3. CASE m = n /\ n = definitionServiceName
    BY <1>2, <1>6, <1>9, <1>11, <2>3 DEF RmInv, AnswerShape, again, FirstLoad
  <2> QED  BY <2>1, <2>2, <2>3
<1> QED  BY <1>7, <1>8, <1>10, <1>12 DEF RmInv

\* Its failure, whatever the device did: what it may have done is not seen here.
LEMMA MutationFailsStep ==
  ASSUME RmInv, MutationFails, UNCHANGED rmTurns
  PROVE  RmInv'
<1>1. PICK kind \in Kinds, n \in Services, v \in Versions, at \in {"sent", "done", "refused", "lost"} :
         mutation = <<kind, n, v, at>>
  BY MutationParts DEF RmInv, MutationFails
<1>2. /\ mutation' = <<>>
      /\ unseen' = IF at = "done" THEN unseen \cup {n} ELSE unseen
      /\ UNCHANGED <<definitionServiceName, definitionCache, definitionDraft, reachable, installed>>
  BY <1>1 DEF MutationFails
<1>3. RmTypes'
  BY <1>2 DEF RmInv, RmTypes, RmTypeOK, Entries
<1>4. MutationShape'
  BY <1>2 DEF MutationShape
<1>5. \A m \in Services : m \notin unseen' => m \notin unseen /\ ~ Done(m)
  BY <1>1, <1>2 DEF Done, Changing
<1>6. AnswerShape' /\ DataShape'
  BY <1>2, <1>5 DEF RmInv, AnswerShape, DataShape
<1> QED  BY <1>3, <1>4, <1>6 DEF RmInv

\* The device answers; the answer arrives; it is lost.
LEMMA AnswerSteps ==
  ASSUME RmInv, NEW n \in Services, UNCHANGED rmTurns,
         DeviceAnswersDefinition(n) \/ DefinitionArrives(n) \/ DefinitionLost(n)
  PROVE  RmInv'
<1>1. UNCHANGED <<definitionServiceName, definitionDraft, mutation, reachable, installed, unseen>>
  BY DEF DeviceAnswersDefinition, DefinitionArrives, DefinitionLost
<1>2. /\ definitionCache \in [Services -> Entries] /\ definitionCache[n] \in Entries
      /\ installed[n] \in Versions
  BY DEF RmInv, RmTypes, RmTypeOK
<1>3. PICK e \in Entries :
        /\ definitionCache' = [definitionCache EXCEPT ![n] = e]
        /\ \/ /\ definitionCache[n].fetch = "asked" /\ e.fetch = "answered" /\ e.answer = installed[n]
              /\ e.data = definitionCache[n].data /\ e.invalidated = definitionCache[n].invalidated
           \/ /\ e.fetch = "idle" /\ definitionCache[n].fetch = "answered"
              /\ e.data = definitionCache[n].answer
           \/ /\ e.fetch = "idle"
              /\ e.data = definitionCache[n].data /\ e.invalidated = definitionCache[n].invalidated
  <2>1. CASE DeviceAnswersDefinition(n)
    <3> DEFINE e == [definitionCache[n] EXCEPT !.fetch = "answered", !.answer = installed[n]]
    <3>1. definitionCache' = [definitionCache EXCEPT ![n] = e] /\ definitionCache[n].fetch = "asked"
      BY <2>1, <1>2 DEF DeviceAnswersDefinition
    <3>2. /\ e \in Entries /\ e.fetch = "answered" /\ e.answer = installed[n]
          /\ e.data = definitionCache[n].data /\ e.invalidated = definitionCache[n].invalidated
      BY <1>2 DEF Entries
    <3> QED  BY <3>1, <3>2
  <2>2. CASE DefinitionArrives(n)
    <3> DEFINE e == IF definitionCache[n].answer = 0 THEN [definitionCache[n] EXCEPT !.fetch = "idle", !.answer = -1]
                    ELSE [data |-> definitionCache[n].answer, invalidated |-> FALSE, fetch |-> "idle", answer |-> -1]
    <3>1. definitionCache' = [definitionCache EXCEPT ![n] = e] /\ definitionCache[n].fetch = "answered"
      BY <2>2 DEF DefinitionArrives
    <3>2. /\ e \in Entries /\ e.fetch = "idle"
          /\ \/ e.data = definitionCache[n].answer
             \/ e.data = definitionCache[n].data /\ e.invalidated = definitionCache[n].invalidated
      BY <1>2 DEF Entries
    <3> QED  BY <3>1, <3>2
  <2>3. CASE DefinitionLost(n)
    <3> DEFINE e == [definitionCache[n] EXCEPT !.fetch = "idle", !.answer = -1]
    <3>1. definitionCache' = [definitionCache EXCEPT ![n] = e]
      BY <2>3, <1>2 DEF DefinitionLost
    <3>2. /\ e \in Entries /\ e.fetch = "idle"
          /\ e.data = definitionCache[n].data /\ e.invalidated = definitionCache[n].invalidated
      BY <1>2 DEF Entries
    <3> QED  BY <3>1, <3>2
  <2> QED  BY <2>1, <2>2, <2>3
<1>4. /\ definitionCache' \in [Services -> Entries] /\ definitionCache'[n] = e
      /\ \A m \in Services : m # n => definitionCache'[m] = definitionCache[m]
  BY <1>2, <1>3
<1>5. RmTypes'
  BY <1>1, <1>4 DEF RmInv, RmTypes, RmTypeOK, Entries
<1>6. MutationShape'
  BY <1>1 DEF RmInv, MutationShape
<1>7. \A m \in Services : Done(m)' <=> Done(m)
  BY <1>1 DEF Done, Changing
<1>8. DataShape'
  BY <1>1, <1>3, <1>4, <1>7 DEF RmInv, DataShape, AnswerShape
<1>9. AnswerShape'
  BY <1>1, <1>3, <1>4, <1>7 DEF RmInv, AnswerShape
<1> QED  BY <1>5, <1>6, <1>8, <1>9 DEF RmInv

\* The connection comes back: what is observed is asked for if it must be.
LEMMA ReconnectStep ==
  ASSUME RmInv, Reconnects, UNCHANGED rmTurns
  PROVE  RmInv'
<1>1. /\ reachable' = TRUE
      /\ definitionCache' = Observed(definitionCache, definitionServiceName, TRUE, FALSE)
      /\ UNCHANGED <<definitionServiceName, definitionDraft, mutation, installed, unseen>>
  BY DEF Reconnects
<1>2. /\ definitionCache' \in [Services -> Entries]
      /\ \A m \in Services : \/ definitionCache'[m] = definitionCache[m]
                             \/ m = definitionServiceName /\ definitionCache'[m] = Asked(definitionCache[m])
  <2> DEFINE enabled == TRUE
             again == FALSE
             after == Observed(definitionCache, definitionServiceName, enabled, again)
  <2>1. /\ enabled \in BOOLEAN /\ again \in BOOLEAN /\ definitionCache' = after
        /\ definitionCache \in [Services -> Entries] /\ definitionServiceName \in Services \cup {NoService}
    BY <1>1 DEF RmInv, RmTypes, RmTypeOK
  <2> HIDE DEF enabled, again
  <2>2. /\ after \in [Services -> Entries]
        /\ \A m \in Services :
             \/ after[m] = definitionCache[m] /\ ~ (m = definitionServiceName /\ enabled /\ again)
             \/ m = definitionServiceName /\ enabled /\ after[m] = Asked(definitionCache[m])
    BY <2>1, ObserveOne
  <2> QED  BY <2>1, <2>2
<1>3. \A m \in Services : definitionCache[m] \in Entries
  BY DEF RmInv, RmTypes
<1>4. RmTypes'
  BY <1>1, <1>2 DEF RmInv, RmTypes, RmTypeOK, Entries
<1>5. MutationShape'
  BY <1>1 DEF RmInv, MutationShape
<1>6. \A m \in Services : Done(m)' <=> Done(m)
  BY <1>1 DEF Done, Changing
<1>7. \A m \in Services : /\ definitionCache'[m].data = definitionCache[m].data
                          /\ definitionCache'[m].invalidated = definitionCache[m].invalidated
                          /\ \/ definitionCache'[m] = definitionCache[m]
                             \/ m = definitionServiceName /\ definitionCache'[m].fetch = "asked"
  BY <1>2, <1>3, AskedFacts
<1>8. DataShape'
  BY <1>1, <1>6, <1>7 DEF RmInv, DataShape
<1>9. AnswerShape'
  <2> SUFFICES ASSUME NEW m \in Services, m \notin unseen
               PROVE  /\ definitionCache'[m].fetch = "answered" =>
                           \/ definitionCache'[m].answer = installed[m]
                           \/ Done(m) /\ m = definitionServiceName
                      /\ m # definitionServiceName /\ definitionCache'[m].fetch \in {"asked", "answered"}
                           => installed[m] = 0
    BY <1>1, <1>6 DEF AnswerShape
  <2>1. CASE definitionCache'[m] = definitionCache[m]
    BY <2>1 DEF RmInv, AnswerShape
  <2>2. CASE m = definitionServiceName /\ definitionCache'[m].fetch = "asked"
    BY <2>2
  <2> QED  BY <1>7, <2>1, <2>2
<1> QED  BY <1>4, <1>5, <1>8, <1>9 DEF RmInv

\* Every step of the panel, its device and its connection keeps the invariant.
LEMMA RmStepInv ==
  ASSUME RmInv, RmNext
  PROVE  RmInv'
<1>1. CASE rmTurns < MaxRmTurns /\ rmTurns' = rmTurns + 1 /\ RmTurn
  <2>1. rmTurns' \in 0..MaxRmTurns
    BY <1>1, RmAssumption DEF RmInv, RmTypes, RmTypeOK
  <2>2. ASSUME NEW n \in Services, loadServiceDefinition(n)  PROVE RmInv'
    BY <2>1, <2>2, LoadStep
  <2>3. ASSUME NEW n \in Services, NEW v \in Versions \ {0}, setDefinitionText(<<n, v>>)  PROVE RmInv'
    BY <2>1, <2>3, TypeStep
  <2>4. ASSUME handleSaveDefinition  PROVE RmInv'
    BY <2>1, <2>4, SaveStep
  <2>5. ASSUME handleRemoveDefinition  PROVE RmInv'
    <3>1. PICK n \in Services, v \in Versions : definitionText = <<n, v>>
      BY <2>5, TextType DEF handleRemoveDefinition, RmInv, Texts
    <3>2. /\ mutation = <<>> /\ mutation' = <<"remove-service", n, 0, "sent">>
          /\ UNCHANGED <<definitionServiceName, definitionCache, definitionDraft, reachable, installed, unseen>>
      BY <2>5, <3>1, NotBusy DEF handleRemoveDefinition
    <3>3. "remove-service" \in Kinds \ {"upsert-service"} /\ 0 \in Versions
      BY RmAssumption DEF Kinds
    <3> QED  BY <2>1, <3>2, <3>3, AskStep
  <2>6. ASSUME NEW n \in Services, runServiceAction(n)  PROVE RmInv'
    <3>1. /\ mutation = <<>> /\ mutation' = <<"restart-service", n, installed[n], "sent">>
          /\ UNCHANGED <<definitionServiceName, definitionCache, definitionDraft, reachable, installed, unseen>>
      BY <2>6, NotBusy DEF runServiceAction
    <3>2. "restart-service" \in Kinds \ {"upsert-service"} /\ installed[n] \in Versions
      BY DEF Kinds, RmInv, RmTypes, RmTypeOK
    <3>3. PICK v \in Versions : v = installed[n]
      BY <3>2
    <3> QED  BY <2>1, <3>1, <3>2, <3>3, AskStep
  <2>7. ASSUME NEW does \in BOOLEAN, ConnectionLost(does)  PROVE RmInv'
    BY <2>1, <2>7, ConnectionLostStep
  <2>8. ASSUME NEW n \in Services, NEW v \in Versions, ElsewhereChanges(n, v)  PROVE RmInv'
    BY <2>1, <2>8, ElsewhereStep
  <2> QED  BY <1>1, <2>2, <2>3, <2>4, <2>5, <2>6, <2>7, <2>8 DEF RmTurn
<1>2. CASE ~ (rmTurns < MaxRmTurns /\ rmTurns' = rmTurns + 1 /\ RmTurn)
  BY <1>2, DeviceChangesStep, MutationSucceedsStep, MutationFailsStep, AnswerSteps, ReconnectStep
     DEF RmNext
<1> QED  BY <1>1, <1>2

-----------------------------------------------------------------------------
(* The audio-manager and cloud-transfer panels                              *)

QueryEntries == [data : Int, error : BOOLEAN, flight : Int]
Requested == [state : {"idle", "pending", "error"}, flight : Int]

DpTypes ==
  /\ DpTypeOK
  /\ drafts \in [AllCards -> {"blank", "filled", "unparsable"}]
  /\ sending \in [AllCards -> Requested]
  /\ cache \in [Queries -> QueryEntries]

\* What a card shows is no older than an acknowledged job, or is being asked for again.
Fresh(x, k) == x.data # NoData /\ x.data < k => x.flight = OnItsWay \/ x.flight >= k

\* Once a job was acknowledged, a card whose query settles asks again.
DpInv == DpTypes /\ QueuedJobIsShown /\ (acked > 0 => jobsRefreshKey)

\* The invariant in terms of single entries.
LEMMA FreshForm ==
  QueuedJobIsShown <=>
    /\ \A q \in Mounted(filter, picked) : Fresh(cache[q], acked)
    /\ \A c \in AllCards : sending[c].flight # NoFlight => sending[c].state = "pending"
BY DEF QueuedJobIsShown, Fresh

LEMMA MountedFacts ==
  ASSUME NEW f \in Filters, NEW j \in 0..MaxDeviceJobs
  PROVE  /\ Mounted(f, j) \subseteq Queries
         /\ \A g : Mounted(g, j) \subseteq Mounted(f, j) \cup {JobBrowser(g)}
         /\ \A k : k # 0 => Mounted(f, k) \subseteq Mounted(f, j) \cup {SelectedCard(k)}
BY DpAssumption DEF Mounted, Queries, JobIds

LEMMA RefetchedFacts ==
  ASSUME NEW x \in QueryEntries
  PROVE  /\ Refetched(x) \in QueryEntries /\ Refetched(x).data = x.data
         /\ Refetched(x).flight \in {x.flight, OnItsWay}
         /\ x.data # NoData => Refetched(x).flight = OnItsWay
BY DEF Refetched, QueryEntries, OnItsWay

\* A cache in which some queries were sent out: nothing else is different.
Resent(c, d) ==
  /\ d \in [Queries -> QueryEntries]
  /\ \A q \in Queries : d[q].data = c[q].data /\ d[q].flight \in {c[q].flight, OnItsWay}

LEMMA MayFetchFacts ==
  ASSUME DpTypes, NEW S, NEW d \in MayFetch(S)
  PROVE  Resent(cache, d)
<1>1. PICK stale \in SUBSET S :
        d = [q \in Queries |-> IF q \in S /\ cache[q].flight = NoFlight /\ (cache[q].data = NoData \/ q \in stale)
                               THEN [cache[q] EXCEPT !.flight = OnItsWay] ELSE cache[q]]
  BY DEF MayFetch
<1>2. \A q \in Queries : cache[q] \in QueryEntries
  BY DEF DpTypes
<1> QED  BY <1>1, <1>2 DEF Resent, QueryEntries, OnItsWay

LEMMA RefreshedFacts ==
  ASSUME NEW S, NEW c \in [Queries -> QueryEntries]
  PROVE  /\ Resent(c, Refreshed(S, c))
         /\ \A q \in S \cap Queries : jobsRefreshKey /\ c[q].data # NoData => Refreshed(S, c)[q].flight = OnItsWay
<1>1. \A q \in Queries : c[q] \in QueryEntries
  OBVIOUS
<1> QED  BY <1>1, RefetchedFacts DEF Refreshed, Resent

LEMMA ResentOften ==
  ASSUME NEW c, NEW d, NEW e, Resent(c, d), Resent(d, e)
  PROVE  Resent(c, e)
BY DEF Resent

\* Sending requests out, whatever is mounted next, as long as what is newly mounted is sent out
\* too once a job was acknowledged.
LEMMA ResentKeeps ==
  ASSUME DpInv, Resent(cache, cache'), UNCHANGED <<panel, drafts, sending, jobsMade, acked, jobsRefreshKey>>,
         panelOnline' \in BOOLEAN, filter' \in Filters, picked' \in 0..jobsMade,
         \A q \in Mounted(filter', picked') \ Mounted(filter, picked) :
           jobsRefreshKey /\ cache[q].data # NoData => cache'[q].flight = OnItsWay
  PROVE  DpInv'
<1>1. jobsMade \in 0..MaxDeviceJobs /\ acked \in 0..jobsMade /\ (acked > 0 => jobsRefreshKey)
  BY DEF DpInv, DpTypes, DpTypeOK
<1>2. Mounted(filter', picked') \subseteq Queries
  BY <1>1, MountedFacts, DpAssumption
<1>3. \A q \in Queries : cache'[q].data \in -1..jobsMade /\ cache'[q].flight \in -2..jobsMade
  BY <1>1 DEF DpInv, DpTypes, DpTypeOK, Resent, OnItsWay
<1>4. DpTypes'
  BY <1>1, <1>3 DEF DpInv, DpTypes, DpTypeOK, Resent
<1>5. \A q \in Mounted(filter', picked') : Fresh(cache'[q], acked)
  <2> SUFFICES ASSUME NEW q \in Mounted(filter', picked'), cache'[q].data # NoData, cache'[q].data < acked
               PROVE  cache'[q].flight = OnItsWay \/ cache'[q].flight >= acked
    BY DEF Fresh
  <2>1. /\ q \in Queries /\ cache'[q].data = cache[q].data /\ cache'[q].flight \in {cache[q].flight, OnItsWay}
        /\ cache'[q].data >= 0
    BY <1>1, <1>2, <1>3 DEF Resent, NoData
  <2>2. CASE q \in Mounted(filter, picked)
    BY <2>1, <2>2 DEF DpInv, QueuedJobIsShown
  <2>3. CASE q \notin Mounted(filter, picked)
    <3>1. acked > 0
      BY <1>1, <1>3, <2>1, DpAssumption
    <3>2. jobsRefreshKey
      BY <1>1, <3>1
    <3>3. cache[q].data # NoData
      BY <2>1
    <3> QED  BY <2>3, <3>2, <3>3, Zenon
  <2> QED  BY <2>2, <2>3
<1>6. QueuedJobIsShown'
  BY <1>5, FreshForm DEF DpInv, QueuedJobIsShown, Fresh
<1> QED  BY <1>1, <1>4, <1>6 DEF DpInv

LEMMA DpInitially == DpInit => DpInv
<1> SUFFICES ASSUME DpInit PROVE DpInv
  OBVIOUS
<1>1. filter \in Filters
  BY DpAssumption DEF DpInit
<1>2. Empty \in QueryEntries /\ Empty.data = -1 /\ Empty.flight = -2
  BY DEF Empty, QueryEntries, NoData, NoFlight
<1>3. [state |-> "idle", flight |-> NoFlight] \in Requested
  BY DEF Requested, NoFlight
<1>4. DpTypes
  <2>1. /\ drafts \in [AllCards -> {"blank", "filled", "unparsable"}]
        /\ sending \in [AllCards -> Requested] /\ cache \in [Queries -> QueryEntries]
    BY <1>2, <1>3 DEF DpInit
  <2>2. \A c \in AllCards : sending[c].state = "idle" /\ sending[c].flight = -2
    BY DEF DpInit, NoFlight
  <2>3. \A q \in Queries : cache[q].data = -1 /\ cache[q].flight = -2
    BY <1>2 DEF DpInit
  <2>4. /\ panel \in {"audio", "transfer"} /\ panelOnline \in BOOLEAN /\ jobsRefreshKey \in BOOLEAN
        /\ jobsMade = 0 /\ acked = 0 /\ picked = 0
    BY DEF DpInit
  <2> QED  BY <1>1, <2>1, <2>2, <2>3, <2>4, DpAssumption DEF DpTypes, DpTypeOK
<1>5. Mounted(filter, picked) \subseteq Queries
  BY <1>4, MountedFacts, DpAssumption DEF DpTypes, DpTypeOK
<1>6. QueuedJobIsShown
  BY <1>2, <1>5 DEF DpInit, QueuedJobIsShown, NoData
<1> QED  BY <1>4, <1>6 DEF DpInv, DpInit

\* A card's operator types, submits, or sees its request fail: the queries stay as they are.
LEMMA CardKeeps ==
  ASSUME DpInv, NEW c \in AllCards, NEW r \in Requested, r.flight \in -2..jobsMade,
         r.flight # NoFlight => r.state = "pending",
         sending' = sending \/ sending' = [sending EXCEPT ![c] = r],
         drafts' \in [AllCards -> {"blank", "filled", "unparsable"}],
         UNCHANGED <<panel, panelOnline, jobsMade, acked, picked, filter, jobsRefreshKey, cache>>
  PROVE  DpInv'
<1>1. /\ sending' \in [AllCards -> Requested]
      /\ \A d \in AllCards : /\ sending'[d].state \in {"idle", "pending", "error"}
                             /\ sending'[d].flight \in -2..jobsMade
                             /\ sending'[d].flight # NoFlight => sending'[d].state = "pending"
  BY DEF DpInv, DpTypes, DpTypeOK, Requested, QueuedJobIsShown
<1>2. DpTypes'
  BY <1>1 DEF DpInv, DpTypes, DpTypeOK
<1>3. QueuedJobIsShown'
  BY <1>1 DEF DpInv, QueuedJobIsShown
<1> QED  BY <1>2, <1>3 DEF DpInv

\* The device makes a job, or refuses.
LEMMA EnqueueStep ==
  ASSUME DpInv, NEW c \in AllCards, DeviceEnqueues(c)
  PROVE  DpInv'
<1>1. /\ jobsMade \in 0..MaxDeviceJobs /\ jobsMade' \in 0..MaxDeviceJobs /\ jobsMade' >= jobsMade
      /\ acked \in 0..jobsMade /\ picked \in 0..jobsMade
      /\ UNCHANGED <<panel, panelOnline, drafts, acked, picked, filter, jobsRefreshKey, cache>>
  BY DpAssumption DEF DpInv, DpTypes, DpTypeOK, DeviceEnqueues
<1>2. PICK k \in 0..jobsMade' : sending' = [sending EXCEPT ![c].flight = k]
  BY <1>1, DpAssumption DEF DeviceEnqueues
<1>3. sending[c].state = "pending"
  BY DEF DpInv, QueuedJobIsShown, DeviceEnqueues, NoFlight, OnItsWay
<1>4. /\ sending' \in [AllCards -> Requested]
      /\ \A d \in AllCards : /\ sending'[d].state \in {"idle", "pending", "error"}
                             /\ sending'[d].flight \in -2..jobsMade'
                             /\ sending'[d].flight # NoFlight => sending'[d].state = "pending"
  <2>1. \A d \in AllCards : sending[d] \in Requested /\ sending[d].flight \in -2..jobsMade
    BY DEF DpInv, DpTypes, DpTypeOK
  <2>2. sending' \in [AllCards -> Requested] /\ sending'[c].flight = k /\ sending'[c].state = sending[c].state
        /\ \A d \in AllCards : d # c => sending'[d] = sending[d]
    BY <1>1, <1>2, <2>1, DpAssumption DEF Requested, DpInv, DpTypes
  <2> QED  BY <1>1, <1>2, <1>3, <2>1, <2>2, DpAssumption DEF Requested, DpInv, QueuedJobIsShown
<1>5. \A q \in Queries : cache[q].data \in -1..jobsMade' /\ cache[q].flight \in -2..jobsMade'
  BY <1>1, DpAssumption DEF DpInv, DpTypes, DpTypeOK
<1>6. DpTypes'
  BY <1>1, <1>4, <1>5 DEF DpInv, DpTypes, DpTypeOK
<1>7. QueuedJobIsShown'
  BY <1>1, <1>4 DEF DpInv, QueuedJobIsShown
<1> QED  BY <1>1, <1>6, <1>7 DEF DpInv

\* One query's entry changes.
LEMMA EntryKeeps ==
  ASSUME DpInv, NEW q \in Queries, NEW y \in QueryEntries, y.data \in -1..jobsMade, y.flight \in -2..jobsMade,
         q \in Mounted(filter, picked) => Fresh(y, acked),
         cache' = [cache EXCEPT ![q] = y],
         UNCHANGED <<panel, panelOnline, drafts, sending, jobsMade, acked, picked, filter, jobsRefreshKey>>
  PROVE  DpInv'
<1>1. /\ cache' \in [Queries -> QueryEntries] /\ cache'[q] = y
      /\ \A p \in Queries : p # q => cache'[p] = cache[p]
  BY DEF DpInv, DpTypes
<1>2. DpTypes'
  BY <1>1 DEF DpInv, DpTypes, DpTypeOK
<1>3. Mounted(filter, picked) \subseteq Queries
  BY MountedFacts, DpAssumption DEF DpInv, DpTypes, DpTypeOK
<1>4. \A p \in Mounted(filter, picked) : Fresh(cache'[p], acked)
  BY <1>1, <1>3, FreshForm DEF DpInv
<1>5. QueuedJobIsShown'
  BY <1>4 DEF DpInv, QueuedJobIsShown, Fresh
<1> QED  BY <1>2, <1>5 DEF DpInv

\* An entry that settles: asked again by the effect once a job was acknowledged.
LEMMA SettledFacts ==
  ASSUME NEW x \in QueryEntries, NEW refreshes \in BOOLEAN
  PROVE  /\ Settled(x, refreshes) \in QueryEntries
         /\ Settled(x, refreshes).data = x.data
         /\ Settled(x, refreshes).flight \in {NoFlight, OnItsWay}
         /\ refreshes => Settled(x, refreshes).flight = OnItsWay
<1> DEFINE y == [x EXCEPT !.flight = NoFlight]
<1>1. y \in QueryEntries /\ y.data = x.data /\ y.flight = NoFlight
  BY DEF QueryEntries, NoFlight
<1> HIDE DEF y
<1>2. Refetched(y) = [y EXCEPT !.flight = OnItsWay]
  BY <1>1 DEF Refetched
<1>3. /\ [y EXCEPT !.flight = OnItsWay] \in QueryEntries /\ [y EXCEPT !.flight = OnItsWay].data = y.data
      /\ [y EXCEPT !.flight = OnItsWay].flight = OnItsWay
  BY <1>1 DEF QueryEntries, OnItsWay
<1> QED  BY <1>1, <1>2, <1>3 DEF Settled, y

LEMMA QuerySteps ==
  ASSUME DpInv, NEW q \in Queries, DeviceAnswers(q) \/ QueryResolves(q) \/ QueryFails(q) \/ AutoRefresh(q)
  PROVE  DpInv'
<1>1. /\ jobsMade \in 0..MaxDeviceJobs /\ acked \in 0..jobsMade /\ (acked > 0 => jobsRefreshKey)
      /\ jobsRefreshKey \in BOOLEAN /\ cache[q] \in QueryEntries
      /\ cache[q].data \in -1..jobsMade /\ cache[q].flight \in -2..jobsMade
      /\ cache \in [Queries -> QueryEntries]
  BY DEF DpInv, DpTypes, DpTypeOK
<1>2. UNCHANGED <<panel, panelOnline, drafts, sending, jobsMade, acked, picked, filter, jobsRefreshKey>>
  BY DEF DeviceAnswers, QueryResolves, QueryFails, AutoRefresh
<1>3. CASE DeviceAnswers(q) \/ AutoRefresh(q)
  <2>1. PICK f \in {OnItsWay, jobsMade} : cache' = [cache EXCEPT ![q].flight = f]
    BY <1>3 DEF DeviceAnswers, AutoRefresh
  <2> DEFINE y == [cache[q] EXCEPT !.flight = f]
  <2>2. y \in QueryEntries /\ y.data = cache[q].data /\ y.flight = f /\ cache' = [cache EXCEPT ![q] = y]
    BY <1>1, <2>1, DpAssumption DEF QueryEntries, OnItsWay
  <2>3. Fresh(y, acked) /\ f \in -2..jobsMade
    BY <1>1, <2>1, <2>2, DpAssumption DEF Fresh, OnItsWay
  <2> HIDE DEF y
  <2> QED  BY <1>1, <1>2, <2>2, <2>3, EntryKeeps
<1>4. CASE QueryResolves(q) \/ QueryFails(q)
  <2> DEFINE again == jobsRefreshKey /\ q \in Mounted(filter, picked)
  <2>1. PICK x \in QueryEntries : x.data \in -1..jobsMade /\ cache' = [cache EXCEPT ![q] = Settled(x, again)]
    <3>1. CASE QueryResolves(q)
      <4> DEFINE x == [cache[q] EXCEPT !.data = cache[q].flight, !.error = FALSE]
      <4>3. cache[q].flight \in 0..jobsMade
        BY <1>1, <3>1, DpAssumption DEF QueryResolves
      <4>4. cache[q].flight \in Int /\ cache[q].flight \in -1..jobsMade
        BY <1>1, <4>3, DpAssumption
      <4>5. x \in QueryEntries /\ x.data = cache[q].flight
        BY <1>1, <4>4 DEF QueryEntries
      <4>1. x \in QueryEntries /\ x.data \in -1..jobsMade
        BY <4>4, <4>5
      <4>2. cache' = [cache EXCEPT ![q] = Settled(x, again)]
        BY <3>1 DEF QueryResolves
      <4> HIDE DEF x, again
      <4> QED  BY <4>1, <4>2
    <3>2. CASE QueryFails(q)
      <4> DEFINE x == [cache[q] EXCEPT !.error = TRUE]
      <4>1. x \in QueryEntries /\ x.data \in -1..jobsMade
        BY <1>1 DEF QueryEntries
      <4>2. cache' = [cache EXCEPT ![q] = Settled(x, again)]
        BY <3>2 DEF QueryFails
      <4> HIDE DEF x, again
      <4> QED  BY <4>1, <4>2
    <3> QED  BY <1>4, <3>1, <3>2
  <2>2. again \in BOOLEAN
    BY <1>1
  <2> DEFINE y == Settled(x, again)
  <2> HIDE DEF again
  <2>3. /\ y \in QueryEntries /\ y.data = x.data /\ y.flight \in {NoFlight, OnItsWay}
        /\ again => y.flight = OnItsWay
    BY <2>1, <2>2, SettledFacts
  <2> HIDE DEF y
  <2>4. y.data \in -1..jobsMade /\ y.flight \in -2..jobsMade
    BY <1>1, <2>1, <2>3, DpAssumption DEF NoFlight, OnItsWay
  <2>5. q \in Mounted(filter, picked) /\ acked > 0 => y.flight = OnItsWay
    BY <1>1, <2>3 DEF again
  <2>6. y.data # NoData => y.data >= 0
    BY <1>1, <2>4, DpAssumption DEF NoData
  <2>7. q \in Mounted(filter, picked) => Fresh(y, acked)
    BY <1>1, <2>4, <2>5, <2>6, DpAssumption DEF Fresh
  <2>8. cache' = [cache EXCEPT ![q] = y]
    BY <2>1 DEF y
  <2> QED  BY <1>2, <2>3, <2>4, <2>7, <2>8, EntryKeeps
<1> QED  BY <1>3, <1>4

\* The enqueue is acknowledged: everything mounted next is asked for again.
LEMMA AcknowledgedStep ==
  ASSUME DpInv, NEW c \in AllCards, onSuccess(c)
  PROVE  DpInv'
<1> DEFINE k == sending[c].flight
           mine == Mounted(filter, k)
<1>1. /\ jobsMade \in 0..MaxDeviceJobs /\ acked \in 0..jobsMade /\ k \in -2..jobsMade /\ filter \in Filters
      /\ cache \in [Queries -> QueryEntries] /\ sending \in [AllCards -> Requested]
      /\ drafts \in [AllCards -> {"blank", "filled", "unparsable"}]
  BY DEF DpInv, DpTypes, DpTypeOK
<1>2. /\ k >= 1
      /\ sending' = [sending EXCEPT ![c] = [state |-> "idle", flight |-> NoFlight]]
      /\ drafts' = [drafts EXCEPT ![c] = "blank"]
      /\ acked' = IF k > acked THEN k ELSE acked
      /\ picked' = k /\ jobsRefreshKey' = TRUE
      /\ cache' = [q \in Queries |-> IF q \in mine THEN Refetched(cache[q]) ELSE cache[q]]
      /\ UNCHANGED <<panel, panelOnline, jobsMade, filter>>
  BY DEF onSuccess
<1>3. k \in 1..jobsMade /\ acked' \in 0..jobsMade /\ k \in 0..MaxDeviceJobs
  BY <1>1, <1>2, DpAssumption
<1>4. mine \subseteq Queries
  BY <1>1, <1>3, MountedFacts
<1> HIDE DEF mine, k
<1>5. /\ cache' \in [Queries -> QueryEntries]
      /\ \A q \in Queries : /\ cache'[q].data = cache[q].data /\ cache'[q].flight \in {cache[q].flight, OnItsWay}
                            /\ q \in mine /\ cache'[q].data # NoData => cache'[q].flight = OnItsWay
  <2>1. \A q \in Queries : cache[q] \in QueryEntries
    BY <1>1
  <2> QED  BY <1>2, <2>1, RefetchedFacts
<1>6. \A q \in Queries : cache'[q].data \in -1..jobsMade /\ cache'[q].flight \in -2..jobsMade
  BY <1>1, <1>5, DpAssumption DEF DpInv, DpTypes, DpTypeOK, OnItsWay
<1>7. /\ sending' \in [AllCards -> Requested] /\ drafts' \in [AllCards -> {"blank", "filled", "unparsable"}]
      /\ \A d \in AllCards : /\ sending'[d].state \in {"idle", "pending", "error"}
                             /\ sending'[d].flight \in -2..jobsMade
                             /\ sending'[d].flight # NoFlight => sending'[d].state = "pending"
  <2>1. [state |-> "idle", flight |-> NoFlight] \in Requested /\ NoFlight \in -2..jobsMade
    BY <1>1, DpAssumption DEF Requested, NoFlight
  <2> QED  BY <1>1, <1>2, <2>1 DEF DpInv, DpTypes, DpTypeOK, QueuedJobIsShown
<1>8. DpTypes'
  BY <1>1, <1>2, <1>3, <1>5, <1>6, <1>7 DEF DpInv, DpTypes, DpTypeOK
<1>9. QueuedJobIsShown'
  <2>1. Mounted(filter', picked') = mine
    BY <1>2 DEF mine
  <2> QED  BY <1>4, <1>5, <1>7, <2>1 DEF QueuedJobIsShown
<1> QED  BY <1>2, <1>8, <1>9 DEF DpInv

\* Another filter or another job is shown: its query is mounted, and sent out by its effect.
LEMMA FilterStep ==
  ASSUME DpInv, NEW f \in Filters, setFilter(f)
  PROVE  DpInv'
<1>1. /\ filter' = f /\ UNCHANGED <<panel, panelOnline, drafts, sending, jobsMade, acked, picked, jobsRefreshKey>>
      /\ \E c \in MayFetch({JobBrowser(f)}) \cup {cache} : cache' = Refreshed({JobBrowser(f)}, c)
  BY DEF setFilter
<1>2. PICK c : Resent(cache, c) /\ cache' = Refreshed({JobBrowser(f)}, c)
  <2>1. Resent(cache, cache)
    BY DEF DpInv, DpTypes, Resent
  <2> QED  BY <1>1, <2>1, MayFetchFacts DEF DpInv
<1>3. /\ Resent(c, cache')
      /\ \A q \in {JobBrowser(f)} \cap Queries : jobsRefreshKey /\ c[q].data # NoData => cache'[q].flight = OnItsWay
  BY <1>2, RefreshedFacts DEF Resent
<1>4. /\ picked \in 0..jobsMade /\ picked \in 0..MaxDeviceJobs /\ panelOnline \in BOOLEAN /\ filter \in Filters
  BY DpAssumption DEF DpInv, DpTypes, DpTypeOK
<1>5. /\ Mounted(f, picked) \ Mounted(filter, picked) \subseteq {JobBrowser(f)} \cap Queries
  BY <1>4, MountedFacts
<1>6. \A q \in Mounted(filter', picked') \ Mounted(filter, picked) :
        jobsRefreshKey /\ cache[q].data # NoData => cache'[q].flight = OnItsWay
  BY <1>1, <1>2, <1>3, <1>5 DEF Resent
<1>7. Resent(cache, cache')
  BY <1>2, <1>3, ResentOften
<1> QED  BY <1>1, <1>4, <1>6, <1>7, ResentKeeps

LEMMA SelectStep ==
  ASSUME DpInv, NEW j \in JobIds, onSelectJob(j)
  PROVE  DpInv'
<1>1. /\ picked' = j /\ UNCHANGED <<panel, panelOnline, drafts, sending, jobsMade, acked, filter, jobsRefreshKey>>
      /\ j <= cache[JobBrowser(filter)].data
      /\ \E c \in MayFetch({SelectedCard(j)}) \cup {cache} : cache' = Refreshed({SelectedCard(j)}, c)
  BY DEF onSelectJob
<1>2. PICK c : Resent(cache, c) /\ cache' = Refreshed({SelectedCard(j)}, c)
  <2>1. Resent(cache, cache)
    BY DEF DpInv, DpTypes, Resent
  <2> QED  BY <1>1, <2>1, MayFetchFacts DEF DpInv
<1>3. /\ Resent(c, cache')
      /\ \A q \in {SelectedCard(j)} \cap Queries : jobsRefreshKey /\ c[q].data # NoData => cache'[q].flight = OnItsWay
  BY <1>2, RefreshedFacts DEF Resent
<1>4. /\ picked \in 0..jobsMade /\ picked \in 0..MaxDeviceJobs /\ panelOnline \in BOOLEAN /\ filter \in Filters
  BY DpAssumption DEF DpInv, DpTypes, DpTypeOK
<1>8. j \in 0..jobsMade /\ j \in 0..MaxDeviceJobs /\ j # 0
  <2>1. JobBrowser(filter) \in Queries
    BY <1>4 DEF Queries
  <2>2. cache[JobBrowser(filter)].data \in -1..jobsMade /\ jobsMade \in 0..MaxDeviceJobs
    BY <2>1 DEF DpInv, DpTypes, DpTypeOK
  <2> QED  BY <1>1, <2>2, DpAssumption DEF JobIds
<1>5. /\ Mounted(filter, j) \ Mounted(filter, picked) \subseteq {SelectedCard(j)} \cap Queries
  BY <1>4, <1>8, MountedFacts
<1>6. \A q \in Mounted(filter', picked') \ Mounted(filter, picked) :
        jobsRefreshKey /\ cache[q].data # NoData => cache'[q].flight = OnItsWay
  BY <1>1, <1>2, <1>3, <1>5 DEF Resent
<1>7. Resent(cache, cache')
  BY <1>2, <1>3, ResentOften
<1> QED  BY <1>1, <1>4, <1>6, <1>7, <1>8, ResentKeeps

\* Every step of the panels, their device and their requests keeps the invariant.
LEMMA DpStepInv ==
  ASSUME DpInv, DpNext
  PROVE  DpInv'
<1>1. /\ panelOnline \in BOOLEAN /\ filter \in Filters /\ picked \in 0..jobsMade /\ jobsMade \in 0..MaxDeviceJobs
      /\ cache \in [Queries -> QueryEntries] /\ drafts \in [AllCards -> {"blank", "filled", "unparsable"}]
  BY DEF DpInv, DpTypes, DpTypeOK
<1>2. CASE Connected \/ Disconnected
  <2>1. Resent(cache, cache')
    <3>1. Resent(cache, cache)
      BY <1>1 DEF Resent
    <3> QED  BY <1>2, <3>1, MayFetchFacts DEF DpInv, Connected, Disconnected
  <2>2. /\ UNCHANGED <<panel, drafts, sending, jobsMade, acked, picked, filter, jobsRefreshKey>>
        /\ panelOnline' \in BOOLEAN
    BY <1>2 DEF Connected, Disconnected
  <2> QED  BY <1>1, <2>1, <2>2, ResentKeeps
<1>3. ASSUME NEW c \in AllCards, CardStep(c)  PROVE DpInv'
  <2> DEFINE idle == [state |-> "idle", flight |-> NoFlight]
             pending == [state |-> "pending", flight |-> OnItsWay]
             failure == [state |-> "error", flight |-> NoFlight]
  <2>1. /\ idle \in Requested /\ pending \in Requested /\ failure \in Requested
        /\ NoFlight \in -2..jobsMade /\ OnItsWay \in -2..jobsMade
        /\ idle.flight = NoFlight /\ pending.flight = OnItsWay /\ pending.state = "pending"
        /\ failure.flight = NoFlight
    BY <1>1, DpAssumption DEF Requested, NoFlight, OnItsWay
  <2> HIDE DEF idle, pending, failure
  <2>2. CASE onSuccess(c)
    BY <2>2, AcknowledgedStep
  <2>3. CASE handleSubmit(c) \/ onError(c)
    <3>1. PICK r \in {idle, pending, failure} : sending' = [sending EXCEPT ![c] = r]
      BY <2>3 DEF handleSubmit, onError, idle, pending, failure
    <3>2. UNCHANGED <<panel, panelOnline, drafts, jobsMade, acked, picked, filter, jobsRefreshKey, cache>>
      BY <2>3 DEF handleSubmit, onError
    <3>3. /\ r \in Requested /\ r.flight \in -2..jobsMade /\ (r.flight # NoFlight => r.state = "pending")
          /\ drafts' \in [AllCards -> {"blank", "filled", "unparsable"}]
      BY <1>1, <2>1, <3>1, <3>2
    <3> QED  BY <3>1, <3>2, <3>3, CardKeeps
  <2>4. ASSUME NEW d \in {"blank", "filled", "unparsable"}, Types(c, d)  PROVE DpInv'
    <3>1. /\ UNCHANGED <<panel, panelOnline, sending, jobsMade, acked, picked, filter, jobsRefreshKey, cache>>
          /\ drafts' \in [AllCards -> {"blank", "filled", "unparsable"}]
      BY <1>1, <2>4 DEF Types
    <3> QED  BY <2>1, <3>1, CardKeeps
  <2> QED  BY <1>3, <2>2, <2>3, <2>4 DEF CardStep
<1>4. {"play", "upload", "download"} \subseteq AllCards
  BY DEF AllCards, Cards
<1>5. CASE PlayAudioCard \/ EnqueueUploadCard \/ EnqueueDownloadCard
  BY <1>3, <1>4, <1>5 DEF PlayAudioCard, EnqueueUploadCard, EnqueueDownloadCard
<1> QED  BY <1>2, <1>5, EnqueueStep, QuerySteps, FilterStep, SelectStep DEF DpNext

-----------------------------------------------------------------------------
(* The ROI canvas                                                           *)

\* What a whole division by a frame's side gives.
LEMMA Letterbox ==
  ASSUME NEW p \in Nat, NEW d \in Nat \ {0}, NEW c \in Nat, p <= c * d
  PROVE  p \div d \in Nat /\ p \div d <= c
<1>1. p \div d \in Int /\ d * (p \div d) <= p /\ p < d * (p \div d) + d
  OBVIOUS
<1>2. ASSUME NEW q \in Int, d * q <= p, p < d * q + d  PROVE q >= 0 /\ q <= c
  <2>1. q >= 0
    <3>1. CASE q <= -1
      <4>1. d * q <= d * (-1)
        BY <3>1
      <4> QED  BY <1>2, <4>1
    <3> QED  BY <3>1
  <2>2. q <= c
    <3>1. CASE q >= c + 1
      <4>1. d * q >= d * (c + 1)
        BY <3>1
      <4>2. d * (c + 1) = c * d + d
        OBVIOUS
      <4> QED  BY <1>2, <4>1, <4>2
    <3> QED  BY <3>1
  <2> QED  BY <2>1, <2>2
<1> QED  BY <1>1, <1>2

Rects == [x : Nat, y : Nat, width : Nat, height : Nat]

\* The letterboxed frame fits its container.
LEMMA FrameFits ==
  ASSUME NEW c \in Containers, NEW a \in Aspects
  PROVE  /\ getFrameRect(c, a) \in Rects
         /\ getFrameRect(c, a).x + getFrameRect(c, a).width <= c[1]
         /\ getFrameRect(c, a).y + getFrameRect(c, a).height <= c[2]
<1>1. c[1] \in Nat /\ c[2] \in Nat /\ a[1] \in Nat \ {0} /\ a[2] \in Nat \ {0}
  BY RcvAssumption
<1>2. CASE c[1] * a[2] > a[1] * c[2]
  <2> DEFINE w == (c[2] * a[1]) \div a[2]
  <2>1. c[2] * a[1] \in Nat /\ c[2] * a[1] <= c[1] * a[2]
    BY <1>1, <1>2
  <2>2. w \in Nat /\ w <= c[1]
    BY <1>1, <2>1, Letterbox
  <2>3. getFrameRect(c, a) = [x |-> (c[1] - w) \div 2, y |-> 0, width |-> w, height |-> c[2]]
    BY <1>2 DEF getFrameRect
  <2> HIDE DEF w
  <2>4. (c[1] - w) \div 2 \in Nat /\ (c[1] - w) \div 2 + w <= c[1]
    BY <1>1, <2>2
  <2> QED  BY <1>1, <2>2, <2>3, <2>4 DEF Rects
<1>3. CASE ~ (c[1] * a[2] > a[1] * c[2])
  <2> DEFINE h == (c[1] * a[2]) \div a[1]
  <2>1. c[1] * a[2] \in Nat /\ c[1] * a[2] <= c[2] * a[1]
    BY <1>1, <1>3
  <2>2. h \in Nat /\ h <= c[2]
    BY <1>1, <2>1, Letterbox
  <2>3. getFrameRect(c, a) = [x |-> 0, y |-> (c[2] - h) \div 2, width |-> c[1], height |-> h]
    BY <1>3 DEF getFrameRect
  <2> HIDE DEF h
  <2>4. (c[2] - h) \div 2 \in Nat /\ (c[2] - h) \div 2 + h <= c[2]
    BY <1>1, <2>2
  <2> QED  BY <1>1, <2>2, <2>3, <2>4 DEF Rects
<1> QED  BY <1>2, <1>3

\* A drag whose frame did not change began inside that frame; a box not moved under is in its own.
RcvInv ==
  /\ RcvTypeOK
  /\ dragStart # <<>> /\ ~reframed => insideFrame(dragStart)
  /\ DrawnBoxIsInFrame

\* What a pointer draws from a point of the frame lies in the frame.
LEMMA DrawnInside ==
  ASSUME RcvInv, dragStart # <<>>, ~reframed, NEW p \in Points, updateDraftBoundsFromPoint(p) # draftBox
  PROVE  LET box == updateDraftBoundsFromPoint(p) IN
         /\ box.x >= 0 /\ box.x + box.width <= box.of.width
         /\ box.y >= 0 /\ box.y + box.height <= box.of.height
         /\ box.width >= MinDrawSize /\ box.height >= MinDrawSize
<1> DEFINE f == frameRect
           x == CanvasClamp(p[1], f.x, f.x + f.width)
           y == CanvasClamp(p[2], f.y, f.y + f.height)
           w == Distance(x, dragStart[1])
           h == Distance(y, dragStart[2])
<1>1. f.x \in Nat /\ f.y \in Nat /\ f.width \in Nat /\ f.height \in Nat
  BY FrameFits DEF RcvInv, RcvTypeOK, frameRect, Rects
<1>2. /\ dragStart[1] \in Nat /\ dragStart[2] \in Nat /\ p[1] \in Nat /\ p[2] \in Nat
      /\ dragStart[1] >= f.x /\ dragStart[1] <= f.x + f.width
      /\ dragStart[2] >= f.y /\ dragStart[2] <= f.y + f.height
  BY RcvAssumption DEF RcvInv, RcvTypeOK, Points, insideFrame
<1>3. ~ (w < MinDrawSize \/ h < MinDrawSize)
      /\ updateDraftBoundsFromPoint(p) =
           [x |-> Lesser(dragStart[1], x) - f.x, y |-> Lesser(dragStart[2], y) - f.y,
            width |-> w, height |-> h, of |-> f]
  BY DEF updateDraftBoundsFromPoint
<1> HIDE DEF f
<1>7. ASSUME NEW v \in Nat, NEW lo \in Nat, NEW size \in Nat
      PROVE  /\ CanvasClamp(v, lo, lo + size) \in Nat
             /\ CanvasClamp(v, lo, lo + size) >= lo /\ CanvasClamp(v, lo, lo + size) <= lo + size
  BY <1>7 DEF CanvasClamp
<1>4. x \in Nat /\ x >= f.x /\ x <= f.x + f.width /\ y \in Nat /\ y >= f.y /\ y <= f.y + f.height
  BY <1>1, <1>2, <1>7
<1> HIDE DEF x, y
<1>6. ASSUME NEW s \in Nat, NEW t \in Nat, NEW lo \in Nat, NEW size \in Nat,
             s >= lo, s <= lo + size, t >= lo, t <= lo + size
      PROVE  /\ Lesser(s, t) - lo >= 0 /\ Lesser(s, t) - lo + Distance(t, s) <= size
             /\ Distance(t, s) \in Nat
  BY <1>6 DEF Lesser, Distance
<1>5. /\ Lesser(dragStart[1], x) - f.x >= 0 /\ Lesser(dragStart[1], x) - f.x + w <= f.width /\ w \in Nat
      /\ Lesser(dragStart[2], y) - f.y >= 0 /\ Lesser(dragStart[2], y) - f.y + h <= f.height /\ h \in Nat
  BY <1>1, <1>2, <1>4, <1>6
<1> HIDE DEF w, h
<1> QED  BY <1>3, <1>5, RcvAssumption

LEMMA RcvInitially == RcvInit => RcvInv
<1> SUFFICES ASSUME RcvInit PROVE RcvInv
  OBVIOUS
<1>1. /\ frameRect.x >= 0 /\ frameRect.x + frameRect.width <= container[1]
      /\ frameRect.y >= 0 /\ frameRect.y + frameRect.height <= container[2]
  BY FrameFits DEF RcvInit, frameRect, Rects
<1> QED  BY <1>1 DEF RcvInit, RcvInv, RcvTypeOK, DrawnBoxIsInFrame

\* Every step of the canvas keeps the invariant.
LEMMA RcvStepInv ==
  ASSUME RcvInv, RcvNext
  PROVE  RcvInv'
<1>1. CASE StreamChanges
  BY <1>1 DEF StreamChanges, RcvInv, RcvTypeOK, DrawnBoxIsInFrame, insideFrame, frameRect
<1>2. CASE FrameChanges
  <2>1. frameRect' = getFrameRect(container', aspect') /\ container' \in Containers /\ aspect' \in Aspects
    BY <1>2 DEF FrameChanges, frameRect
  <2>2. /\ frameRect'.x >= 0 /\ frameRect'.x + frameRect'.width <= container'[1]
        /\ frameRect'.y >= 0 /\ frameRect'.y + frameRect'.height <= container'[2]
    BY <2>1, FrameFits DEF Rects
  <2> QED  BY <1>2, <2>1, <2>2 DEF FrameChanges, RcvInv, RcvTypeOK, DrawnBoxIsInFrame
<1>3. CASE onPointerCancel
  BY <1>3 DEF onPointerCancel, RcvInv, RcvTypeOK, DrawnBoxIsInFrame, frameRect
<1>4. ASSUME NEW p \in Points, onPointerDown(p)  PROVE RcvInv'
  BY <1>4 DEF onPointerDown, RcvInv, RcvTypeOK, DrawnBoxIsInFrame, insideFrame, frameRect
<1>5. ASSUME NEW p \in Points, onPointerMove(p) \/ onPointerUp(p)  PROVE RcvInv'
  <2>1. /\ dragStart # <<>> /\ dragStart' \in {dragStart, <<>>}
        /\ UNCHANGED <<container, aspect, drawActive, reframed>>
        /\ draftBox' = draftBox \/ draftBox' = updateDraftBoundsFromPoint(p)
    BY <1>5 DEF onPointerMove, onPointerUp
  <2>2. frameRect' = frameRect
    BY <2>1 DEF frameRect
  <2>3. DrawnBoxIsInFrame'
    <3>1. CASE draftBox' = draftBox
      BY <2>1, <2>2, <3>1 DEF RcvInv, DrawnBoxIsInFrame
    <3>2. CASE reframed
      BY <2>1, <2>2, <3>2 DEF RcvInv, DrawnBoxIsInFrame
    <3>3. CASE draftBox' # draftBox /\ ~reframed
      BY <2>1, <2>2, <3>3, DrawnInside DEF RcvInv, DrawnBoxIsInFrame
    <3> QED  BY <3>1, <3>2, <3>3
  <2>4. dragStart' # <<>> /\ ~reframed' => insideFrame(dragStart)'
    BY <2>1, <2>2 DEF RcvInv, insideFrame
  <2> QED  BY <2>1, <2>3, <2>4 DEF RcvInv, RcvTypeOK
<1> QED  BY <1>1, <1>2, <1>3, <1>4, <1>5 DEF RcvNext

-----------------------------------------------------------------------------
(* Sequences and least elements                                             *)

\* A non-empty set of naturals has a least element, which is the one chosen.
LEMMA LeastFacts ==
  ASSUME NEW S, S \subseteq Nat, S # {}
  PROVE  LeastOf(S) \in S /\ \A y \in S : LeastOf(S) <= y
<1>1. PICK x \in S : \A y \in S : ~ (<<y, x>> \in OpToRel(<, Nat))
  BY NatLessThanWellFounded, WFMin
<1>2. \A y \in S : x <= y
  <2> SUFFICES ASSUME NEW y \in S, ~ (x <= y) PROVE FALSE
    OBVIOUS
  <2>1. <<y, x>> \in Nat \X Nat /\ y < x
    OBVIOUS
  <2>2. <<y, x>> \in {ss \in Nat \X Nat : ss[1] < ss[2]}
    BY <2>1
  <2>3. <<y, x>> \in OpToRel(<, Nat)
    BY <2>2 DEF OpToRel
  <2> QED  BY <1>1, <2>3
<1> QED  BY <1>2 DEF LeastOf

\* A sequence without its k-th element.
LEMMA WithoutFacts ==
  ASSUME NEW T, NEW s \in Seq(T), NEW k \in 1..Len(s)
  PROVE  LET t == SubSeq(s, 1, k - 1) \o SubSeq(s, k + 1, Len(s)) IN
         /\ t \in Seq(T) /\ Len(t) = Len(s) - 1
         /\ \A j \in 1..Len(t) : t[j] = IF j < k THEN s[j] ELSE s[j + 1]
<1> DEFINE a == SubSeq(s, 1, k - 1)
           b == SubSeq(s, k + 1, Len(s))
           m == k - 1
           p == k + 1
           n == Len(s)
<1>1. n \in Nat /\ m \in Int /\ p \in Int /\ \A i \in 1..n : s[i] \in T
  OBVIOUS
<1>2. (\A i \in 1..m : s[i] \in T) /\ (\A i \in p..n : s[i] \in T)
  BY <1>1
<1> HIDE DEF m, p, n
<1>3. /\ SubSeq(s, 1, m) \in Seq(T) /\ Len(SubSeq(s, 1, m)) = IF 1 <= m THEN m - 1 + 1 ELSE 0
      /\ \A i \in 1..(m - 1 + 1) : SubSeq(s, 1, m)[i] = s[1 + i - 1]
  BY <1>1, <1>2, SubSeqProperties
<1>4. /\ SubSeq(s, p, n) \in Seq(T) /\ Len(SubSeq(s, p, n)) = IF p <= n THEN n - p + 1 ELSE 0
      /\ \A i \in 1..(n - p + 1) : SubSeq(s, p, n)[i] = s[p + i - 1]
  BY <1>1, <1>2, SubSeqProperties
<1> USE DEF m, p, n
<1>5. a \in Seq(T) /\ Len(a) = k - 1 /\ \A i \in 1..(k - 1) : a[i] = s[i]
  BY <1>3
<1>6. b \in Seq(T) /\ Len(b) = Len(s) - k /\ \A i \in 1..(Len(s) - k) : b[i] = s[k + i]
  BY <1>4
<1> HIDE DEF a, b, m, p, n
<1>7. /\ a \o b \in Seq(T) /\ Len(a \o b) = Len(a) + Len(b)
      /\ \A i \in 1..(Len(a) + Len(b)) : (a \o b)[i] = IF i <= Len(a) THEN a[i] ELSE b[i - Len(a)]
  BY <1>5, <1>6, ConcatProperties
<1>8. Len(a \o b) = Len(s) - 1
  BY <1>5, <1>6, <1>7
<1>9. \A j \in 1..(Len(s) - 1) : (a \o b)[j] = IF j < k THEN s[j] ELSE s[j + 1]
  <2> SUFFICES ASSUME NEW j \in 1..(Len(s) - 1)
               PROVE  (a \o b)[j] = IF j < k THEN s[j] ELSE s[j + 1]
    OBVIOUS
  <2>1. CASE j < k
    BY <1>5, <1>6, <1>7, <2>1
  <2>2. CASE ~ (j < k)
    <3>1. (a \o b)[j] = b[j - (k - 1)]
      BY <1>5, <1>6, <1>7, <2>2
    <3>2. j - (k - 1) \in 1..(Len(s) - k)
      BY <2>2
    <3>3. b[j - (k - 1)] = s[k + (j - (k - 1))]
      BY <1>6, <3>2
    <3> QED  BY <2>2, <3>1, <3>3
  <2> QED  BY <2>1, <2>2
<1> QED  BY <1>7, <1>8, <1>9 DEF a, b

-----------------------------------------------------------------------------
(* The ROI configurator                                                     *)

AnyItems == [camera : RoiCameras, base : Nat \ {0}, roi : Nat, edit : Nat]
OpRecords == [kind : {"get", "save"}, document : SUBSET AnyItems, after : {<<>>} \cup (Nat \X Nat),
              touched : SUBSET AnyItems, at : {"up", "down", "lost"}, waits : BOOLEAN]

RoiTypes ==
  /\ edits \in Nat /\ savedEdits \subseteq AnyItems /\ undone \subseteq Nat
  /\ baseInput \in Nat /\ roiInput \in Nat
  /\ IsDocument(stored, edits) /\ IsDocument(currentDocument, edits)
  /\ ops \in Seq(OpRecords)
  /\ \A k \in 1..Len(ops) :
       /\ IsDocument(ops[k].document, edits)
       /\ ops[k].kind = "save" => ops[k].after \in Nat \X Nat
       /\ ops[k].kind = "get" => ops[k].touched = {}

\* A document has the item of an edit, at that edit or a later one, or its deletion was asked for.
Covered(d, s, gone) ==
  \/ {s.base, s.roi} \cap gone # {}
  \/ \E i \in d : i.camera = s.camera /\ i.base = s.base /\ i.roi = s.roi /\ i.edit >= s.edit

\* A save under way holds everything reported as saved and what it writes; nothing else is
\* awaited meanwhile; once it is answered the device has its document.
SaveShape ==
  \A k \in 1..Len(ops) : ops[k].kind = "save" =>
    /\ roiBusy /\ ops[k].waits /\ ops[k].touched \subseteq ops[k].document
    /\ \A s \in savedEdits : Covered(ops[k].document, s, undone)
    /\ ops[k].at = "down" => ops[k].document = stored
    /\ \A j \in 1..Len(ops) : j # k => ops[j].kind = "get" /\ ~ops[j].waits

\* A refresh that is awaited and answered holds everything reported as saved.
GetShape ==
  \A k \in 1..Len(ops) : ops[k].kind = "get" /\ ops[k].waits /\ ops[k].at = "down" =>
    \A s \in savedEdits : Covered(ops[k].document, s, undone)

Unraced ==
  /\ \A s \in savedEdits : Covered(stored, s, undone)
  /\ document # NoDocument => \A s \in savedEdits : Covered(document, s, undone)
  /\ SaveShape /\ GetShape

RoiInv == RoiTypes /\ (~raced => Unraced)

\* What is reported as saved stays.
LEMMA RoiInvStays == RoiInv => SavedEditsStay
BY DEF RoiInv, RoiTypes, IsDocument, Unraced, Covered, SavedEditsStay

LEMMA RoiInitially == RoiInit => RoiInv
<1> SUFFICES ASSUME RoiInit PROVE RoiInv
  OBVIOUS
<1>1. IsDocument(stored, edits) /\ edits \in Nat
  BY RoiAssumption DEF RoiInit
<1>2. currentDocument = {} /\ IsDocument({}, edits)
  BY DEF RoiInit, currentDocument, IsDocument
<1>3. ops \in Seq(OpRecords) /\ Len(ops) = 0
  BY DEF RoiInit
<1>4. RoiTypes
  BY <1>1, <1>2, <1>3 DEF RoiInit, RoiTypes
<1>5. Unraced
  BY <1>3 DEF RoiInit, Unraced, SaveShape, GetShape
<1> QED  BY <1>4, <1>5 DEF RoiInv

\* A document stays one as the edits are counted on.
LEMMA ItemFacts ==
  ASSUME NEW e \in Nat, NEW d, IsDocument(d, e)
  PROVE  /\ d \subseteq AnyItems /\ IsDocument(d, e + 1)
         /\ \A i \in d : /\ i.camera \in RoiCameras /\ i.base \in Nat \ {0} /\ i.roi \in Nat /\ i.edit \in Nat
                         /\ i.base <= e /\ i.roi <= e /\ i.edit <= e
<1>1. \A i \in Items(e) : /\ i \in AnyItems /\ i \in Items(e + 1)
                          /\ i.camera \in RoiCameras /\ i.base \in Nat \ {0} /\ i.roi \in Nat /\ i.edit \in Nat
                          /\ i.base <= e /\ i.roi <= e /\ i.edit <= e
  BY DEF Items, AnyItems
<1> QED  BY <1>1 DEF IsDocument

\* What a render selects.
LEMMA SelectionFacts ==
  ASSUME RoiTypes
  PROVE  /\ roiCameraName \in RoiCameras /\ currentDocument \subseteq AnyItems
         /\ selectedBase \in Nat /\ selectedBase <= edits
         /\ selectedBase # 0 => \E i \in currentDocument : /\ i.camera = roiCameraName /\ i.base = selectedBase
                                                           /\ i.roi = 0
         /\ selectedRoi \in Nat /\ selectedRoi <= edits
         /\ Bases \subseteq Nat /\ Rois \subseteq Nat
         /\ \A b : RoisOf(currentDocument, b) \subseteq Nat
<1>1. roiCameraName \in RoiCameras
  BY RoiAssumption, LeastFacts DEF roiCameraName
<1>2. /\ edits \in Nat /\ IsDocument(currentDocument, edits)
      /\ \A i \in currentDocument : /\ i.base \in Nat \ {0} /\ i.roi \in Nat /\ i.base <= edits /\ i.roi <= edits
      /\ currentDocument \subseteq AnyItems
  BY ItemFacts DEF RoiTypes
<1>3. Bases \subseteq Nat /\ \A b \in Bases : b <= edits /\ \E i \in currentDocument : i.camera = roiCameraName /\ i.base = b
  BY <1>2 DEF Bases
<1>4. selectedBase = 0 \/ selectedBase \in Bases
  BY <1>3, LeastFacts DEF selectedBase
<1>5. \A b : RoisOf(currentDocument, b) \subseteq Nat /\ \A r \in RoisOf(currentDocument, b) : r <= edits
  BY <1>2 DEF RoisOf
<1>6. Rois \subseteq Nat /\ \A r \in Rois : r <= edits
  BY <1>5 DEF Rois
<1>7. selectedRoi = 0 \/ selectedRoi \in Rois
  BY <1>6, LeastFacts DEF selectedRoi
<1>8. ASSUME selectedBase # 0
      PROVE  \E i \in currentDocument : i.camera = roiCameraName /\ i.base = selectedBase /\ i.roi = 0
  <2>1. PICK i \in currentDocument : i.camera = roiCameraName /\ i.base = selectedBase
    BY <1>3, <1>4, <1>8
  <2>2. PICK j \in currentDocument : j.camera = i.camera /\ j.base = i.base /\ j.roi = 0
    BY <1>2 DEF IsDocument
  <2> QED  BY <2>1, <2>2
<1>11. ASSUME NEW x, NEW S, S \subseteq Nat, \A b \in S : b <= edits, x = 0 \/ x \in S
       PROVE  x \in Nat /\ x <= edits
  <2>1. 0 <= edits
    BY <1>2
  <2>2. CASE x = 0
    BY <2>1, <2>2
  <2>3. CASE x \in S
    BY <1>11, <2>3
  <2> QED  BY <1>11, <2>2, <2>3
<1>9. selectedBase \in Nat /\ selectedBase <= edits
  BY <1>3, <1>4, <1>11
<1>10. selectedRoi \in Nat /\ selectedRoi <= edits
  BY <1>6, <1>7, <1>11
<1> QED  BY <1>1, <1>2, <1>3, <1>5, <1>6, <1>8, <1>9, <1>10

LEMMA CoveredMore ==
  ASSUME NEW d, NEW s, NEW gone, NEW more, gone \subseteq more, Covered(d, s, gone)
  PROVE  Covered(d, s, more)
BY DEF Covered

LEMMA OpFacts ==
  ASSUME NEW s \in Seq(OpRecords)
  PROVE  \A k \in 1..Len(s) : /\ s[k] \in OpRecords /\ s[k].kind \in {"get", "save"}
                              /\ s[k].at \in {"up", "down", "lost"} /\ s[k].waits \in BOOLEAN
                              /\ s[k].document \subseteq AnyItems /\ s[k].touched \subseteq AnyItems
<1>1. \A k \in 1..Len(s) : s[k] \in OpRecords
  OBVIOUS
<1>2. \A o \in OpRecords : /\ o.kind \in {"get", "save"} /\ o.at \in {"up", "down", "lost"}
                           /\ o.waits \in BOOLEAN /\ o.document \subseteq AnyItems
                           /\ o.touched \subseteq AnyItems
  BY DEF OpRecords
<1> QED  BY <1>1, <1>2

\* One edit: its document keeps what the one shown covers, and holds what it writes.
LEMMA EditStep ==
  ASSUME RoiInv, NEW d, NEW after \in Nat \X Nat, NEW touched, persistDocument(d, after, touched),
         IsDocument(d, edits + 1), touched \subseteq d, undone \subseteq undone', undone' \subseteq Nat,
         \A s \in AnyItems : Covered(currentDocument, s, undone) => Covered(d, s, undone')
  PROVE  RoiInv'
<1> DEFINE o == Op("save", d, after, touched)
<1>1. /\ ops' = Append(ops, o) /\ edits' = edits + 1 /\ ~roiBusy /\ roiBusy' = TRUE
      /\ UNCHANGED <<stored, document, baseInput, roiInput, savedEdits>>
      /\ raced' = (raced \/ document = NoDocument \/ \E k \in DOMAIN ops : ops[k].kind = "get" /\ ops[k].waits)
  BY DEF persistDocument, saveDocument
<1>2. edits \in Nat /\ ops \in Seq(OpRecords) /\ Len(ops) \in Nat /\ DOMAIN ops = 1..Len(ops)
  BY DEF RoiInv, RoiTypes
<1>3. d \subseteq AnyItems /\ touched \subseteq AnyItems
  BY <1>2, ItemFacts
<1>4. /\ o \in OpRecords /\ o.kind = "save" /\ o.document = d /\ o.after = after /\ o.touched = touched
      /\ o.at = "up" /\ o.waits = TRUE
  BY <1>3 DEF Op, OpRecords
<1> HIDE DEF o
<1>5. /\ ops' \in Seq(OpRecords) /\ Len(ops') = Len(ops) + 1
      /\ \A k \in 1..Len(ops) : ops'[k] = ops[k]
      /\ ops'[Len(ops) + 1] = o
      /\ \A k \in 1..Len(ops') : k \in 1..Len(ops) \/ k = Len(ops) + 1
  BY <1>1, <1>2, <1>4
<1>6. RoiTypes'
  <2>1. currentDocument' = currentDocument
    BY <1>1 DEF currentDocument
  <2>2. IsDocument(stored, edits + 1) /\ IsDocument(currentDocument, edits + 1)
    BY <1>2, ItemFacts DEF RoiInv, RoiTypes
  <2>3. \A k \in 1..Len(ops) : IsDocument(ops[k].document, edits + 1)
    BY <1>2, ItemFacts DEF RoiInv, RoiTypes
  <2>4. \A k \in 1..Len(ops') :
          /\ IsDocument(ops'[k].document, edits')
          /\ ops'[k].kind = "save" => ops'[k].after \in Nat \X Nat
          /\ ops'[k].kind = "get" => ops'[k].touched = {}
    BY <1>1, <1>4, <1>5, <2>3 DEF RoiInv, RoiTypes
  <2> QED  BY <1>1, <1>2, <1>5, <2>1, <2>2, <2>4 DEF RoiInv, RoiTypes
<1>7. ASSUME ~raced'  PROVE Unraced'
  <2>1. /\ Unraced /\ document # NoDocument
        /\ \A k \in 1..Len(ops) : ~ (ops[k].kind = "get" /\ ops[k].waits)
    BY <1>1, <1>2, <1>7 DEF RoiInv
  <2>2. \A k \in 1..Len(ops) : ops[k].kind = "get" /\ ~ops[k].waits
    <3>3. ~roiBusy /\ SaveShape
      BY <1>1, <2>1 DEF Unraced
    <3>1. \A k \in 1..Len(ops) : ops[k].kind # "save"
      BY <3>3 DEF SaveShape
    <3>2. \A k \in 1..Len(ops) : ops[k].kind \in {"get", "save"}
      BY <1>2, OpFacts
    <3> QED  BY <2>1, <3>1, <3>2
  <2>3. /\ \A s \in savedEdits : s \in AnyItems
        /\ \A s \in savedEdits : Covered(stored, s, undone')
        /\ \A s \in savedEdits : Covered(document, s, undone')
        /\ \A s \in savedEdits : Covered(d, s, undone')
    <3>1. currentDocument = document
      BY <2>1 DEF currentDocument
    <3>2. \A s \in savedEdits : s \in AnyItems /\ Covered(stored, s, undone) /\ Covered(document, s, undone)
      BY <2>1 DEF Unraced, RoiInv, RoiTypes
    <3> QED  BY <3>1, <3>2, CoveredMore
  <2>4. SaveShape'
    BY <1>1, <1>4, <1>5, <2>2, <2>3 DEF SaveShape
  <2>5. GetShape'
    BY <1>4, <1>5, <2>2 DEF GetShape
  <2> QED  BY <1>1, <2>3, <2>4, <2>5 DEF Unraced
<1> QED  BY <1>6, <1>7 DEF RoiInv

\* A new base.
LEMMA CaptureStep ==
  ASSUME RoiInv, handleCaptureBase
  PROVE  RoiInv'
<1>1. /\ edits \in Nat /\ IsDocument(currentDocument, edits) /\ roiCameraName \in RoiCameras /\ undone \subseteq Nat
  BY SelectionFacts DEF RoiInv, RoiTypes
<1>2. PICK i : i = Item(roiCameraName, NewEdit, 0, NewEdit)
  OBVIOUS
<1>3. PICK d : d = currentDocument \cup {i}
  OBVIOUS
<1>4. PICK n : n = NewEdit
  OBVIOUS
<1>5. /\ n = edits + 1 /\ n \in Nat \ {0}
      /\ i \in Items(n) /\ i.camera = roiCameraName /\ i.base = n /\ i.roi = 0 /\ i.edit = n
  BY <1>1, <1>2, <1>4 DEF NewEdit, Item, Items
<1>6. IsDocument(currentDocument, n) /\ \A j \in currentDocument : j.base # n
  BY <1>1, <1>5, ItemFacts
<1>7. IsDocument(d, n)
  BY <1>3, <1>5, <1>6 DEF IsDocument
<1>8. \A s : Covered(currentDocument, s, undone) => Covered(d, s, undone)
  BY <1>3 DEF Covered
<1>9. persistDocument(d, <<n, 0>>, {i}) /\ undone' = undone
  BY <1>2, <1>3, <1>4 DEF handleCaptureBase
<1>10. <<n, 0>> \in Nat \X Nat /\ {i} \subseteq d
  BY <1>3, <1>5
<1> QED  BY <1>1, <1>5, <1>7, <1>8, <1>9, <1>10, EditStep

\* A base is written again, as it is or under another name.
LEMMA WriteStep ==
  ASSUME RoiInv, WriteBase
  PROVE  RoiInv'
<1>1. /\ edits \in Nat /\ IsDocument(currentDocument, edits) /\ undone \subseteq Nat
      /\ currentDocument \subseteq AnyItems /\ selectedBase \in Nat /\ roiInput \in Nat /\ selectedBase # 0
      /\ \E i \in currentDocument : i.camera = roiCameraName /\ i.base = selectedBase /\ i.roi = 0
  BY SelectionFacts DEF RoiInv, RoiTypes, WriteBase
<1>2. PICK old : old = CHOOSE i \in currentDocument : i.camera = roiCameraName /\ i.base = selectedBase /\ i.roi = 0
  OBVIOUS
<1>3. PICK n : n = NewEdit
  OBVIOUS
<1>4. PICK new : new = [old EXCEPT !.edit = n]
  OBVIOUS
<1>5. PICK d : d = (currentDocument \ {old}) \cup {new}
  OBVIOUS
<1>6. PICK after : after = <<selectedBase, roiInput>>
  OBVIOUS
<1>7. old \in currentDocument /\ old.roi = 0
  BY <1>1, <1>2
<1>8. old \in Items(edits) /\ n = edits + 1 /\ n \in Nat \ {0}
  BY <1>1, <1>3, <1>7 DEF IsDocument, NewEdit
<1>9. /\ new \in Items(n) /\ new.camera = old.camera /\ new.base = old.base /\ new.roi = old.roi
      /\ new.edit = n /\ old.edit \in Nat /\ old.edit <= n
  BY <1>1, <1>4, <1>8 DEF Items
<1>10. IsDocument(currentDocument, n)
  BY <1>1, <1>8, ItemFacts
<1>11. IsDocument(d, n)
  <2>1. \A j \in d : j = new \/ (j \in currentDocument /\ j # old)
    BY <1>5
  <2>2. d \subseteq Items(n)
    BY <1>9, <1>10, <2>1 DEF IsDocument
  <2>3. \A i, j \in d : i.camera = j.camera /\ i.base = j.base /\ i.roi = j.roi => i = j
    BY <1>7, <1>9, <1>10, <2>1 DEF IsDocument
  <2>4. ASSUME NEW i \in d  PROVE \E j \in d : j.camera = i.camera /\ j.base = i.base /\ j.roi = 0
    <3>1. PICK h \in currentDocument : h.camera = i.camera /\ h.base = i.base
      BY <1>7, <1>9, <2>1
    <3>2. PICK j \in currentDocument : j.camera = h.camera /\ j.base = h.base /\ j.roi = 0
      BY <1>10 DEF IsDocument
    <3>3. CASE j = old
      BY <1>5, <1>9, <3>1, <3>2, <3>3
    <3>4. CASE j # old
      BY <1>5, <3>1, <3>2, <3>4
    <3> QED  BY <3>3, <3>4
  <2> QED  BY <2>2, <2>3, <2>4 DEF IsDocument
<1>12. ASSUME NEW s \in AnyItems, Covered(currentDocument, s, undone)  PROVE Covered(d, s, undone)
  <2> SUFFICES ASSUME NEW i \in currentDocument, i.camera = s.camera, i.base = s.base, i.roi = s.roi, i.edit >= s.edit
               PROVE  Covered(d, s, undone)
    BY <1>12 DEF Covered
  <2>1. CASE i = old
    <3>1. new \in d /\ new.edit >= s.edit
      BY <1>5, <1>8, <1>9, <2>1 DEF AnyItems
    <3> QED  BY <1>9, <2>1, <3>1 DEF Covered
  <2>2. CASE i # old
    BY <1>5, <2>2 DEF Covered
  <2> QED  BY <2>1, <2>2
<1>13. persistDocument(d, after, {new}) /\ undone' = undone
  BY <1>2, <1>3, <1>4, <1>5, <1>6 DEF WriteBase
<1>14. after \in Nat \X Nat /\ {new} \subseteq d
  BY <1>1, <1>5, <1>6
<1> QED  BY <1>1, <1>8, <1>11, <1>12, <1>13, <1>14, EditStep

\* Items are removed with their bases: what they covered was asked to be deleted.
LEMMA DeleteStep ==
  ASSUME RoiInv, NEW gone, gone \subseteq currentDocument, NEW after \in Nat \X Nat,
         persistDocument(currentDocument \ gone, after, {}), undone \subseteq undone', undone' \subseteq Nat,
         \A i \in currentDocument \ gone : \E j \in currentDocument \ gone :
           j.camera = i.camera /\ j.base = i.base /\ j.roi = 0,
         \A i \in gone : {i.base, i.roi} \cap undone' # {}
  PROVE  RoiInv'
<1>1. /\ edits \in Nat /\ IsDocument(currentDocument, edits + 1)
  BY ItemFacts DEF RoiInv, RoiTypes
<1>2. PICK d : d = currentDocument \ gone
  OBVIOUS
<1>3. IsDocument(d, edits + 1)
  BY <1>1, <1>2 DEF IsDocument
<1>4. ASSUME NEW s \in AnyItems, Covered(currentDocument, s, undone)  PROVE Covered(d, s, undone')
  BY <1>2, <1>4 DEF Covered
<1>5. persistDocument(d, after, {})
  BY <1>2
<1> QED  BY <1>3, <1>4, <1>5, EditStep

LEMMA DeleteBaseStep ==
  ASSUME RoiInv, handleDeleteBase
  PROVE  RoiInv'
<1>1. /\ edits \in Nat /\ IsDocument(currentDocument, edits) /\ undone \subseteq Nat
      /\ currentDocument \subseteq AnyItems /\ selectedBase \in Nat /\ selectedBase # 0 /\ Bases \subseteq Nat
  BY SelectionFacts DEF RoiInv, RoiTypes, handleDeleteBase
<1>2. PICK gone : gone = {i \in currentDocument : i.camera = roiCameraName /\ i.base = selectedBase}
  OBVIOUS
<1>3. PICK left : left = Bases \ {selectedBase}
  OBVIOUS
<1>4. PICK after : after = <<IF left = {} THEN 0 ELSE LeastOf(left), 0>>
  OBVIOUS
<1>5. after \in Nat \X Nat
  BY <1>1, <1>3, <1>4, LeastFacts
<1>6. /\ persistDocument(currentDocument \ gone, after, {})
      /\ undone' = undone \cup (({i.base : i \in gone} \cup {i.roi : i \in gone}) \ {0})
  BY <1>2, <1>3, <1>4 DEF handleDeleteBase
<1>7. \A i \in currentDocument : i.base \in Nat \ {0} /\ i.roi \in Nat
  BY <1>1 DEF AnyItems
<1>8. gone \subseteq currentDocument /\ undone \subseteq undone' /\ undone' \subseteq Nat
  BY <1>1, <1>2, <1>6, <1>7
<1>9. \A i \in gone : {i.base, i.roi} \cap undone' # {}
  <2> SUFFICES ASSUME NEW i \in gone PROVE i.base \in undone'
    OBVIOUS
  <2> QED  BY <1>6, <1>7, <1>8
<1>10. \A i \in currentDocument \ gone : \E j \in currentDocument \ gone :
         j.camera = i.camera /\ j.base = i.base /\ j.roi = 0
  BY <1>1, <1>2 DEF IsDocument
<1> QED  BY <1>5, <1>6, <1>8, <1>9, <1>10, DeleteStep

LEMMA DeleteRoiStep ==
  ASSUME RoiInv, handleDeleteRoi
  PROVE  RoiInv'
<1>1. /\ edits \in Nat /\ IsDocument(currentDocument, edits) /\ undone \subseteq Nat
      /\ selectedBase \in Nat /\ selectedRoi \in Nat /\ selectedRoi # 0 /\ Rois \subseteq Nat
  BY SelectionFacts DEF RoiInv, RoiTypes, handleDeleteRoi
<1>2. PICK gone : gone = {i \in currentDocument : i.camera = roiCameraName /\ i.base = selectedBase
                                                   /\ i.roi = selectedRoi}
  OBVIOUS
<1>3. PICK left : left = Rois \ {selectedRoi}
  OBVIOUS
<1>4. PICK after : after = <<selectedBase, IF left = {} THEN 0 ELSE LeastOf(left)>>
  OBVIOUS
<1>5. after \in Nat \X Nat
  BY <1>1, <1>3, <1>4, LeastFacts
<1>6. persistDocument(currentDocument \ gone, after, {}) /\ undone' = undone \cup {selectedRoi}
  BY <1>2, <1>3, <1>4 DEF handleDeleteRoi
<1>7. gone \subseteq currentDocument /\ undone \subseteq undone' /\ undone' \subseteq Nat
  BY <1>1, <1>2, <1>6
<1>8. \A i \in gone : {i.base, i.roi} \cap undone' # {}
  BY <1>2, <1>6
<1>9. \A i \in currentDocument \ gone : \E j \in currentDocument \ gone :
        j.camera = i.camera /\ j.base = i.base /\ j.roi = 0
  BY <1>1, <1>2 DEF IsDocument
<1> QED  BY <1>5, <1>6, <1>7, <1>8, <1>9, DeleteStep

\* A box is created, or the selected one written again.
LEMMA CreateStep ==
  ASSUME RoiInv, handleCreateOrUpdateRoi
  PROVE  RoiInv'
<1>1. /\ edits \in Nat /\ IsDocument(currentDocument, edits) /\ undone \subseteq Nat
      /\ roiCameraName \in RoiCameras /\ selectedBase \in Nat /\ selectedBase # 0 /\ selectedBase <= edits
      /\ selectedRoi \in Nat /\ selectedRoi <= edits
      /\ \E i \in currentDocument : i.camera = roiCameraName /\ i.base = selectedBase /\ i.roi = 0
  BY SelectionFacts DEF RoiInv, RoiTypes, handleCreateOrUpdateRoi
<1>2. PICK n : n = NewEdit
  OBVIOUS
<1>3. PICK id : id = IF selectedRoi # 0 THEN selectedRoi ELSE n
  OBVIOUS
<1>4. PICK old : old = {i \in currentDocument : i.camera = roiCameraName /\ i.base = selectedBase /\ i.roi = id}
  OBVIOUS
<1>5. PICK new : new = Item(roiCameraName, selectedBase, id, n)
  OBVIOUS
<1>6. PICK d : d = (currentDocument \ old) \cup {new}
  OBVIOUS
<1>7. PICK after : after = <<selectedBase, id>>
  OBVIOUS
<1>8. n = edits + 1 /\ n \in Nat \ {0} /\ id \in Nat \ {0} /\ id <= n
  BY <1>1, <1>2, <1>3 DEF NewEdit
<1>9. /\ new \in Items(n) /\ new.camera = roiCameraName /\ new.base = selectedBase /\ new.roi = id
      /\ new.edit = n
  BY <1>1, <1>5, <1>8 DEF Item, Items
<1>10. IsDocument(currentDocument, n) /\ \A i \in currentDocument : i.edit \in Nat /\ i.edit <= n
  BY <1>1, <1>8, ItemFacts
<1>11. \A j \in d : j = new \/ (j \in currentDocument /\ j \notin old)
  BY <1>6
<1>12. IsDocument(d, n)
  <2>1. d \subseteq Items(n)
    BY <1>9, <1>10, <1>11 DEF IsDocument
  <2>2. \A i, j \in d : i.camera = j.camera /\ i.base = j.base /\ i.roi = j.roi => i = j
    BY <1>4, <1>9, <1>10, <1>11 DEF IsDocument
  <2>3. ASSUME NEW i \in d  PROVE \E j \in d : j.camera = i.camera /\ j.base = i.base /\ j.roi = 0
    <3>1. PICK h \in currentDocument : h.camera = i.camera /\ h.base = i.base
      BY <1>1, <1>9, <1>11
    <3>2. PICK j \in currentDocument : j.camera = h.camera /\ j.base = h.base /\ j.roi = 0
      BY <1>10 DEF IsDocument
    <3>3. j \notin old
      BY <1>4, <1>8, <3>2
    <3> QED  BY <1>6, <3>1, <3>2, <3>3
  <2> QED  BY <2>1, <2>2, <2>3 DEF IsDocument
<1>13. ASSUME NEW s \in AnyItems, Covered(currentDocument, s, undone)  PROVE Covered(d, s, undone)
  <2> SUFFICES ASSUME NEW i \in currentDocument, i.camera = s.camera, i.base = s.base, i.roi = s.roi, i.edit >= s.edit
               PROVE  Covered(d, s, undone)
    BY <1>13 DEF Covered
  <2>1. CASE i \in old
    <3>1. new \in d /\ new.edit >= s.edit
      BY <1>6, <1>8, <1>9, <1>10 DEF AnyItems
    <3> QED  BY <1>4, <1>9, <2>1, <3>1 DEF Covered
  <2>2. CASE i \notin old
    BY <1>6, <2>2 DEF Covered
  <2> QED  BY <2>1, <2>2
<1>14. persistDocument(d, after, {new}) /\ undone' = undone
  BY <1>2, <1>3, <1>4, <1>5, <1>6, <1>7 DEF handleCreateOrUpdateRoi
<1>15. after \in Nat \X Nat /\ {new} \subseteq d
  BY <1>1, <1>6, <1>7, <1>8
<1> QED  BY <1>1, <1>8, <1>12, <1>13, <1>14, <1>15, EditStep

\* Clicking selects, and changes no document.
LEMMA SelectsStep ==
  ASSUME RoiInv, NEW c, NEW b \in Nat, NEW r \in Nat, NEW drawn, Selects(c, b, r, drawn)
  PROVE  RoiInv'
<1>1. /\ baseInput' = b /\ roiInput' = r
      /\ UNCHANGED <<stored, document, roiBusy, ops, edits, savedEdits, undone, raced>>
  BY DEF Selects
<1>2. currentDocument' = currentDocument
  BY <1>1 DEF currentDocument
<1>3. RoiTypes'
  BY <1>1, <1>2 DEF RoiInv, RoiTypes
<1>4. Unraced => Unraced'
  BY <1>1 DEF Unraced, SaveShape, GetShape
<1> QED  BY <1>1, <1>3, <1>4 DEF RoiInv

\* A refresh is sent.
LEMMA RefreshStep ==
  ASSUME RoiInv, NEW byButton \in BOOLEAN, Refreshes(byButton)
  PROVE  RoiInv'
<1> DEFINE o == Op("get", {}, <<>>, {})
<1>1. /\ ops' = Append(ops, o) /\ raced' = (raced \/ Saving)
      /\ UNCHANGED <<stored, document, baseInput, roiInput, edits, savedEdits, undone>>
  BY DEF Refreshes
<1>2. edits \in Nat /\ ops \in Seq(OpRecords) /\ Len(ops) \in Nat /\ DOMAIN ops = 1..Len(ops)
  BY DEF RoiInv, RoiTypes
<1>3. o \in OpRecords /\ o.kind = "get" /\ o.document = {} /\ o.touched = {} /\ o.at = "up"
  BY DEF Op, OpRecords
<1> HIDE DEF o
<1>4. /\ ops' \in Seq(OpRecords)
      /\ \A k \in 1..Len(ops') : (k \in 1..Len(ops) /\ ops'[k] = ops[k]) \/ ops'[k] = o
  BY <1>1, <1>2, <1>3
<1>5. RoiTypes'
  <2>1. currentDocument' = currentDocument
    BY <1>1 DEF currentDocument
  <2>2. IsDocument({}, edits)
    BY DEF IsDocument
  <2>3. \A k \in 1..Len(ops') :
          /\ IsDocument(ops'[k].document, edits)
          /\ ops'[k].kind = "save" => ops'[k].after \in Nat \X Nat
          /\ ops'[k].kind = "get" => ops'[k].touched = {}
    BY <1>3, <1>4, <2>2 DEF RoiInv, RoiTypes
  <2> QED  BY <1>1, <1>4, <2>1, <2>3 DEF RoiInv, RoiTypes
<1>6. ASSUME ~raced'  PROVE Unraced'
  <2>1. Unraced /\ ~Saving
    BY <1>1, <1>6 DEF RoiInv
  <2>2. \A k \in 1..Len(ops) : ops[k].kind # "save"
    BY <1>2, <2>1 DEF Unraced, SaveShape, Saving
  <2>3. \A k \in 1..Len(ops') : ops'[k].kind # "save"
    BY <1>3, <1>4, <2>2
  <2>4. SaveShape'
    BY <2>3 DEF SaveShape
  <2>5. GetShape'
    BY <1>1, <1>3, <1>4, <2>1 DEF Unraced, GetShape
  <2> QED  BY <1>1, <2>1, <2>4, <2>5 DEF Unraced
<1> QED  BY <1>5, <1>6 DEF RoiInv

LEMMA FirstFacts ==
  ASSUME ops \in Seq(OpRecords), NEW at, First(at) # 0
  PROVE  First(at) \in 1..Len(ops) /\ ops[First(at)].at = at
<1> DEFINE K == {k \in DOMAIN ops : ops[k].at = at}
<1>1. K \subseteq Nat /\ K # {} /\ First(at) = LeastOf(K)
  BY DEF First
<1>2. LeastOf(K) \in K
  <2> HIDE DEF K
  <2> QED  BY <1>1, LeastFacts
<1> QED  BY <1>1, <1>2

\* One request changes.
LEMMA OpChanged ==
  ASSUME ops \in Seq(OpRecords), NEW k \in 1..Len(ops), NEW e \in OpRecords, ops' = [ops EXCEPT ![k] = e]
  PROVE  /\ ops' \in Seq(OpRecords) /\ Len(ops') = Len(ops) /\ ops'[k] = e
         /\ \A j \in 1..Len(ops) : j # k => ops'[j] = ops[j]
OBVIOUS

\* The device takes the next request, or it is lost on the way.
LEMMA DeviceHandlesStep ==
  ASSUME RoiInv, DeviceHandlesRoi
  PROVE  RoiInv'
<1>1. PICK k \in 1..Len(ops) : k = First("up") /\ ops[k].at = "up"
  BY FirstFacts DEF RoiInv, RoiTypes, DeviceHandlesRoi
<1>2. /\ ops \in Seq(OpRecords) /\ ops[k] \in OpRecords /\ edits \in Nat
      /\ UNCHANGED <<document, roiBusy, baseInput, roiInput, edits, savedEdits, undone, raced>>
      /\ stored' \in {stored, IF ops[k].kind = "save" THEN ops[k].document ELSE stored}
      /\ \/ /\ stored' = IF ops[k].kind = "save" THEN ops[k].document ELSE stored
            /\ ops' = [ops EXCEPT ![k].at = "down", ![k].document = stored']
         \/ ops' = [ops EXCEPT ![k].at = "lost"]
  BY <1>1 DEF RoiInv, RoiTypes, DeviceHandlesRoi
<1>3. IsDocument(stored', edits) /\ stored' \subseteq AnyItems
  <2>1. IsDocument(stored', edits)
    BY <1>2 DEF RoiInv, RoiTypes
  <2> QED  BY <1>2, <2>1, ItemFacts
<1>4. PICK e \in OpRecords :
        /\ ops' = [ops EXCEPT ![k] = e]
        /\ e.kind = ops[k].kind /\ e.after = ops[k].after /\ e.touched = ops[k].touched /\ e.waits = ops[k].waits
        /\ \/ /\ e.at = "down" /\ e.document = stored'
              /\ stored' = IF ops[k].kind = "save" THEN ops[k].document ELSE stored
           \/ e.at = "lost" /\ e.document = ops[k].document
  <2>1. CASE /\ stored' = IF ops[k].kind = "save" THEN ops[k].document ELSE stored
             /\ ops' = [ops EXCEPT ![k].at = "down", ![k].document = stored']
    <3> DEFINE e == [ops[k] EXCEPT !.at = "down", !.document = stored']
    <3>1. ops' = [ops EXCEPT ![k] = e]
      BY <1>2, <2>1
    <3>2. /\ e \in OpRecords /\ e.at = "down" /\ e.document = stored'
          /\ e.kind = ops[k].kind /\ e.after = ops[k].after /\ e.touched = ops[k].touched /\ e.waits = ops[k].waits
      BY <1>2, <1>3 DEF OpRecords
    <3> QED  BY <2>1, <3>1, <3>2
  <2>2. CASE ops' = [ops EXCEPT ![k].at = "lost"]
    <3> DEFINE e == [ops[k] EXCEPT !.at = "lost"]
    <3>1. ops' = [ops EXCEPT ![k] = e]
      BY <1>2, <2>2
    <3>2. /\ e \in OpRecords /\ e.at = "lost" /\ e.document = ops[k].document
          /\ e.kind = ops[k].kind /\ e.after = ops[k].after /\ e.touched = ops[k].touched /\ e.waits = ops[k].waits
      BY <1>2 DEF OpRecords
    <3> QED  BY <2>2, <3>1, <3>2
  <2> QED  BY <1>2, <2>1, <2>2
<1>5. /\ ops' \in Seq(OpRecords) /\ Len(ops') = Len(ops) /\ ops'[k] = e
      /\ \A j \in 1..Len(ops) : j # k => ops'[j] = ops[j]
  BY <1>2, <1>4, OpChanged
<1>6. RoiTypes'
  <2>1. currentDocument' = currentDocument
    BY <1>2 DEF currentDocument
  <2>2. IsDocument(e.document, edits)
    BY <1>3, <1>4 DEF RoiInv, RoiTypes
  <2>3. \A j \in 1..Len(ops') :
          /\ IsDocument(ops'[j].document, edits)
          /\ ops'[j].kind = "save" => ops'[j].after \in Nat \X Nat
          /\ ops'[j].kind = "get" => ops'[j].touched = {}
    BY <1>4, <1>5, <2>2 DEF RoiInv, RoiTypes
  <2> QED  BY <1>2, <1>3, <1>5, <2>1, <2>3 DEF RoiInv, RoiTypes
<1>7. ASSUME Unraced  PROVE Unraced'
  <2>1. ops[k].kind \in {"get", "save"} /\ \A j \in 1..Len(ops) : ops[j].kind \in {"get", "save"}
    BY <1>2, OpFacts
  <2>2. \A s \in savedEdits : Covered(stored', s, undone)
    BY <1>2, <1>7 DEF Unraced, SaveShape
  <2>3. SaveShape'
    <3> SUFFICES ASSUME NEW j \in 1..Len(ops), ops'[j].kind = "save"
                 PROVE  /\ roiBusy /\ ops'[j].waits /\ ops'[j].touched \subseteq ops'[j].document
                        /\ \A s \in savedEdits : Covered(ops'[j].document, s, undone)
                        /\ ops'[j].at = "down" => ops'[j].document = stored'
                        /\ \A i \in 1..Len(ops) : i # j => ops'[i].kind = "get" /\ ~ops'[i].waits
      BY <1>2, <1>5 DEF SaveShape
    <3>1. ops[j].kind = "save"
      BY <1>4, <1>5
    <3>2. \A i \in 1..Len(ops) : i # j => ops'[i].kind = "get" /\ ~ops'[i].waits
      BY <1>4, <1>5, <1>7, <3>1 DEF Unraced, SaveShape
    <3>3. CASE j = k
      <4>1. e.document = ops[k].document /\ (e.at = "down" => e.document = stored')
        BY <1>4, <3>1, <3>3
      <4> QED  BY <1>4, <1>5, <1>7, <3>1, <3>2, <3>3, <4>1 DEF Unraced, SaveShape
    <3>4. CASE j # k
      <4>1. ops[k].kind = "get"
        BY <1>7, <3>1, <3>4 DEF Unraced, SaveShape
      <4>2. stored' = stored /\ ops'[j] = ops[j]
        BY <1>2, <1>5, <3>4, <4>1
      <4> QED  BY <1>7, <3>1, <3>2, <4>2 DEF Unraced, SaveShape
    <3> QED  BY <3>3, <3>4
  <2>4. GetShape'
    <3> SUFFICES ASSUME NEW j \in 1..Len(ops), ops'[j].kind = "get", ops'[j].waits, ops'[j].at = "down"
                 PROVE  \A s \in savedEdits : Covered(ops'[j].document, s, undone)
      BY <1>2, <1>5 DEF GetShape
    <3>1. CASE j = k
      BY <1>4, <1>5, <2>2, <3>1
    <3>2. CASE j # k
      BY <1>5, <1>7, <3>2 DEF Unraced, GetShape
    <3> QED  BY <3>1, <3>2
  <2> QED  BY <1>2, <1>7, <2>2, <2>3, <2>4 DEF Unraced
<1> QED  BY <1>2, <1>6, <1>7 DEF RoiInv

\* One request is gone: the others keep their order.
Without(k) == SubSeq(ops, 1, k - 1) \o SubSeq(ops, k + 1, Len(ops))
Was(j, k) == IF j < k THEN j ELSE j + 1

LEMMA OpGone ==
  ASSUME ops \in Seq(OpRecords), NEW k \in 1..Len(ops), ops' = Without(k)
  PROVE  /\ ops' \in Seq(OpRecords)
         /\ \A j \in 1..Len(ops') : Was(j, k) \in 1..Len(ops) /\ Was(j, k) # k /\ ops'[j] = ops[Was(j, k)]
         /\ \A i, j \in 1..Len(ops') : i # j => Was(i, k) # Was(j, k)
<1>1. /\ ops' \in Seq(OpRecords) /\ Len(ops') = Len(ops) - 1
      /\ \A j \in 1..Len(ops') : ops'[j] = IF j < k THEN ops[j] ELSE ops[j + 1]
  BY WithoutFacts DEF Without
<1> QED  BY <1>1 DEF Was

\* What is true of every request, or of a save and the requests beside it, stays true.
LEMMA GoneKeeps ==
  ASSUME RoiInv, NEW k \in 1..Len(ops), ops' = Without(k), UNCHANGED <<stored, edits, undone>>
  PROVE  /\ ops' \in Seq(OpRecords)
         /\ \A j \in 1..Len(ops') :
              /\ IsDocument(ops'[j].document, edits)
              /\ ops'[j].kind = "save" => ops'[j].after \in Nat \X Nat
              /\ ops'[j].kind = "get" => ops'[j].touched = {}
         /\ Unraced /\ UNCHANGED <<roiBusy, savedEdits>> => SaveShape' /\ GetShape'
<1>1. /\ ops' \in Seq(OpRecords)
      /\ \A j \in 1..Len(ops') : Was(j, k) \in 1..Len(ops) /\ Was(j, k) # k /\ ops'[j] = ops[Was(j, k)]
      /\ \A i, j \in 1..Len(ops') : i # j => Was(i, k) # Was(j, k)
  BY OpGone DEF RoiInv, RoiTypes
<1>2. \A j \in 1..Len(ops') :
        /\ IsDocument(ops'[j].document, edits)
        /\ ops'[j].kind = "save" => ops'[j].after \in Nat \X Nat
        /\ ops'[j].kind = "get" => ops'[j].touched = {}
  BY <1>1 DEF RoiInv, RoiTypes
<1>3. ASSUME Unraced, UNCHANGED <<roiBusy, savedEdits>>  PROVE SaveShape' /\ GetShape'
  <2>1. GetShape'
    BY <1>1, <1>3 DEF Unraced, GetShape
  <2>2. SaveShape'
    <3> SUFFICES ASSUME NEW j \in 1..Len(ops'), ops'[j].kind = "save"
                 PROVE  /\ roiBusy /\ ops'[j].waits /\ ops'[j].touched \subseteq ops'[j].document
                        /\ \A s \in savedEdits : Covered(ops'[j].document, s, undone)
                        /\ ops'[j].at = "down" => ops'[j].document = stored
                        /\ \A i \in 1..Len(ops') : i # j => ops'[i].kind = "get" /\ ~ops'[i].waits
      BY <1>3 DEF SaveShape
    <3>1. Was(j, k) \in 1..Len(ops) /\ ops[Was(j, k)].kind = "save" /\ ops'[j] = ops[Was(j, k)]
      BY <1>1
    <3>2. /\ roiBusy /\ ops'[j].waits /\ ops'[j].touched \subseteq ops'[j].document
          /\ \A s \in savedEdits : Covered(ops'[j].document, s, undone)
          /\ ops'[j].at = "down" => ops'[j].document = stored
      BY <1>3, <3>1 DEF Unraced, SaveShape
    <3>3. \A i \in 1..Len(ops') : i # j => ops'[i].kind = "get" /\ ~ops'[i].waits
      BY <1>1, <1>3, <3>1 DEF Unraced, SaveShape
    <3> QED  BY <3>2, <3>3
  <2> QED  BY <2>1, <2>2
<1> QED  BY <1>1, <1>2, <1>3

\* An answer arrives: the document shown is the device's, and what the save wrote is saved.
LEMMA PayloadStep ==
  ASSUME RoiInv, applyPayload
  PROVE  RoiInv'
<1>1. PICK k \in 1..Len(ops) : k = First("down") /\ ops[k].at = "down"
  BY FirstFacts DEF RoiInv, RoiTypes, applyPayload
<1>2. PICK o : o = ops[k]
  OBVIOUS
<1>3. /\ o \in OpRecords /\ o.kind \in {"get", "save"} /\ o.waits \in BOOLEAN /\ o.touched \subseteq AnyItems
      /\ IsDocument(o.document, edits) /\ (o.kind = "save" => o.after \in Nat \X Nat)
      /\ (o.kind = "get" => o.touched = {}) /\ edits \in Nat
  BY <1>2, OpFacts DEF RoiInv, RoiTypes
<1>4. ops' = Without(k) /\ UNCHANGED <<stored, edits, undone, raced>>
  BY <1>1 DEF applyPayload, Without
<1>5. /\ ops' \in Seq(OpRecords)
      /\ \A j \in 1..Len(ops') :
           /\ IsDocument(ops'[j].document, edits)
           /\ ops'[j].kind = "save" => ops'[j].after \in Nat \X Nat
           /\ ops'[j].kind = "get" => ops'[j].touched = {}
      /\ Unraced /\ UNCHANGED <<roiBusy, savedEdits>> => SaveShape' /\ GetShape'
  BY <1>4, GoneKeeps
<1>6. CASE ~o.waits
  <2>1. UNCHANGED <<document, roiBusy, savedEdits, baseInput, roiInput>>
    BY <1>1, <1>2, <1>6 DEF applyPayload
  <2>2. currentDocument' = currentDocument
    BY <2>1 DEF currentDocument
  <2>3. RoiTypes'
    BY <1>4, <1>5, <2>1, <2>2 DEF RoiInv, RoiTypes
  <2>4. Unraced => Unraced'
    BY <1>4, <1>5, <2>1 DEF Unraced
  <2> QED  BY <1>4, <2>3, <2>4 DEF RoiInv
<1>7. CASE o.waits
  <2>1. /\ document' = o.document /\ roiBusy' = FALSE /\ savedEdits' = savedEdits \cup o.touched
        /\ baseInput' = (IF o.kind = "save" THEN o.after[1] ELSE baseInput)
        /\ roiInput' = (IF o.kind = "save" THEN o.after[2] ELSE roiInput)
    BY <1>1, <1>2, <1>7 DEF applyPayload
  <2>2. IsDocument(currentDocument', edits)
    <3>1. currentDocument' = {} \/ currentDocument' = o.document
      BY <2>1 DEF currentDocument
    <3> QED  BY <1>3, <3>1 DEF IsDocument
  <2>3. baseInput' \in Nat /\ roiInput' \in Nat
    BY <1>3, <2>1 DEF RoiInv, RoiTypes
  <2>4. RoiTypes'
    BY <1>3, <1>4, <1>5, <2>1, <2>2, <2>3 DEF RoiInv, RoiTypes
  <2>5. ASSUME Unraced  PROVE Unraced'
    <3>1. /\ \A s \in savedEdits : Covered(o.document, s, undone)
          /\ o.kind = "save" => o.document = stored /\ o.touched \subseteq o.document
      BY <1>1, <1>2, <1>3, <1>7, <2>5 DEF Unraced, SaveShape, GetShape
    <3>2. /\ \A s \in savedEdits : Covered(stored, s, undone)
          /\ \A s \in o.touched : s \in o.document /\ s \in stored
      BY <1>3, <2>5, <3>1 DEF Unraced
    <3>3. \A d : \A s \in d \cap AnyItems : Covered(d, s, undone)
      BY DEF Covered, AnyItems
    <3>4. \A s \in savedEdits' : Covered(o.document, s, undone) /\ Covered(stored, s, undone)
      BY <1>3, <2>1, <3>1, <3>2, <3>3
    <3>5. \A j \in 1..Len(ops') : ops'[j].kind = "get" /\ ~ (o.kind = "save" /\ ops'[j].waits)
      <4>1. /\ \A j \in 1..Len(ops') : Was(j, k) \in 1..Len(ops) /\ Was(j, k) # k /\ ops'[j] = ops[Was(j, k)]
            /\ \A j \in 1..Len(ops) : ops[j].kind \in {"get", "save"}
        BY <1>4, OpGone, OpFacts DEF RoiInv, RoiTypes
      <4>2. \A j \in 1..Len(ops) : j # k => ops[j].kind = "get" /\ ~ (o.kind = "save" /\ ops[j].waits)
        <5> SUFFICES ASSUME NEW j \in 1..Len(ops), j # k
                     PROVE  ops[j].kind = "get" /\ ~ (o.kind = "save" /\ ops[j].waits)
          OBVIOUS
        <5>1. CASE ops[j].kind = "save"
          <6>1. ~ops[k].waits
            BY <2>5, <5>1 DEF Unraced, SaveShape
          <6> QED  BY <1>2, <1>7, <6>1
        <5>2. CASE o.kind = "save"
          BY <1>2, <2>5, <5>2 DEF Unraced, SaveShape
        <5> QED  BY <4>1, <5>1, <5>2
      <4> QED  BY <4>1, <4>2
    <3>6. SaveShape'
      BY <3>5 DEF SaveShape
    <3>7. GetShape'
      <4>1. CASE o.kind = "save"
        BY <3>5, <4>1 DEF GetShape
      <4>2. CASE o.kind = "get"
        <5>1. savedEdits' = savedEdits
          BY <1>3, <2>1, <4>2
        <5> QED  BY <1>4, <2>5, <5>1, OpGone DEF RoiInv, RoiTypes, Unraced, GetShape
      <4> QED  BY <1>3, <4>1, <4>2
    <3> QED  BY <1>4, <2>1, <3>4, <3>6, <3>7 DEF Unraced
  <2> QED  BY <1>4, <2>4, <2>5 DEF RoiInv
<1> QED  BY <1>6, <1>7

\* A request times out; one that may still reach the device is no longer waited for.
LEMMA FailsStep ==
  ASSUME RoiInv, NEW k \in 1..Len(ops), Fails(k)
  PROVE  RoiInv'
<1>1. /\ ops[k].waits /\ roiBusy' = FALSE
      /\ raced' = (raced \/ (ops[k].kind = "save" /\ ops[k].at # "lost"))
      /\ UNCHANGED <<stored, document, baseInput, roiInput, edits, savedEdits, undone>>
      /\ ops' = IF ops[k].at = "lost" THEN Without(k) ELSE [ops EXCEPT ![k].waits = FALSE]
  BY DEF Fails, Without
<1>2. /\ ops \in Seq(OpRecords) /\ ops[k] \in OpRecords /\ edits \in Nat
      /\ \A j \in 1..Len(ops) : ops[j].kind \in {"get", "save"}
  BY OpFacts DEF RoiInv, RoiTypes
<1>3. currentDocument' = currentDocument
  BY <1>1 DEF currentDocument
<1>4. ASSUME Unraced  PROVE \A j \in 1..Len(ops) : j # k => ops[j].kind = "get" /\ ~ (ops[k].kind = "save" /\ ops[j].waits)
  <2> SUFFICES ASSUME NEW j \in 1..Len(ops), j # k
               PROVE  ops[j].kind = "get" /\ ~ (ops[k].kind = "save" /\ ops[j].waits)
    OBVIOUS
  <2>1. CASE ops[j].kind = "save"
    <3>1. ~ops[k].waits
      BY <1>4, <2>1 DEF Unraced, SaveShape
    <3> QED  BY <1>1, <3>1
  <2>2. CASE ops[k].kind = "save"
    BY <1>4, <2>2 DEF Unraced, SaveShape
  <2> QED  BY <1>2, <2>1, <2>2
<1>5. CASE ops[k].at = "lost"
  <2>1. ops' = Without(k)
    BY <1>1, <1>5
  <2>2. /\ ops' \in Seq(OpRecords)
        /\ \A j \in 1..Len(ops') :
             /\ IsDocument(ops'[j].document, edits)
             /\ ops'[j].kind = "save" => ops'[j].after \in Nat \X Nat
             /\ ops'[j].kind = "get" => ops'[j].touched = {}
    BY <1>1, <2>1, GoneKeeps
  <2>3. RoiTypes'
    BY <1>1, <1>3, <2>2 DEF RoiInv, RoiTypes
  <2>4. ASSUME Unraced  PROVE Unraced'
    <3>1. \A j \in 1..Len(ops') : Was(j, k) \in 1..Len(ops) /\ Was(j, k) # k /\ ops'[j] = ops[Was(j, k)]
      BY <1>2, <2>1, OpGone
    <3>2. SaveShape'
      BY <1>4, <2>4, <3>1 DEF SaveShape
    <3>3. GetShape'
      BY <1>1, <2>4, <3>1 DEF Unraced, GetShape
    <3> QED  BY <1>1, <2>4, <3>2, <3>3 DEF Unraced
  <2> QED  BY <1>1, <2>3, <2>4 DEF RoiInv
<1>6. CASE ops[k].at # "lost"
  <2> DEFINE e == [ops[k] EXCEPT !.waits = FALSE]
  <2>1. /\ e \in OpRecords /\ e.waits = FALSE /\ e.kind = ops[k].kind /\ e.document = ops[k].document
        /\ e.after = ops[k].after /\ e.touched = ops[k].touched /\ ops' = [ops EXCEPT ![k] = e]
    BY <1>1, <1>2, <1>6 DEF OpRecords
  <2> HIDE DEF e
  <2>2. /\ ops' \in Seq(OpRecords) /\ Len(ops') = Len(ops) /\ ops'[k] = e
        /\ \A j \in 1..Len(ops) : j # k => ops'[j] = ops[j]
    BY <1>2, <2>1, OpChanged
  <2>3. \A j \in 1..Len(ops') :
          /\ IsDocument(ops'[j].document, edits)
          /\ ops'[j].kind = "save" => ops'[j].after \in Nat \X Nat
          /\ ops'[j].kind = "get" => ops'[j].touched = {}
    BY <2>1, <2>2 DEF RoiInv, RoiTypes
  <2>4. RoiTypes'
    BY <1>1, <1>3, <2>2, <2>3 DEF RoiInv, RoiTypes
  <2>5. ASSUME Unraced, ops[k].kind = "get"  PROVE Unraced'
    <3>1. SaveShape'
      BY <1>4, <2>1, <2>2, <2>5 DEF SaveShape
    <3>2. GetShape'
      BY <1>1, <2>1, <2>2, <2>5 DEF Unraced, GetShape
    <3> QED  BY <1>1, <2>5, <3>1, <3>2 DEF Unraced
  <2>6. ~raced' => ~raced /\ ops[k].kind = "get"
    BY <1>1, <1>2, <1>6
  <2> QED  BY <2>4, <2>5, <2>6 DEF RoiInv
<1> QED  BY <1>5, <1>6

\* Every step of the page, its device and its requests keeps the invariant.
LEMMA RoiStepInv ==
  ASSUME RoiInv, RoiNext
  PROVE  RoiInv'
<1>1. /\ baseInput \in Nat /\ roiInput \in Nat /\ Bases \subseteq Nat /\ Rois \subseteq Nat
      /\ \A b : RoisOf(currentDocument, b) \subseteq Nat
      /\ DOMAIN ops = 1..Len(ops)
  BY SelectionFacts DEF RoiInv, RoiTypes
<1>2. ASSUME NEW c \in RoiCameras, onSelectCamera(c)  PROVE RoiInv'
  BY <1>2, SelectsStep DEF onSelectCamera
<1>3. ASSUME NEW b \in Bases, onSelectBase(b)  PROVE RoiInv'
  <2>1. PICK r \in Nat : Selects(cameraInput, b, r, FALSE)
    <3> DEFINE R == RoisOf(currentDocument, b)
               r == IF R = {} THEN 0 ELSE LeastOf(R)
    <3>1. R \subseteq Nat
      BY <1>1
    <3>2. Selects(cameraInput, b, r, FALSE)
      BY <1>3 DEF onSelectBase
    <3>3. r \in Nat
      <4> HIDE DEF R
      <4> QED  BY <3>1, LeastFacts
    <3> QED  BY <3>2, <3>3
  <2>2. PICK c : c = cameraInput
    OBVIOUS
  <2> QED  BY <1>1, <2>1, <2>2, SelectsStep
<1>4. ASSUME NEW r \in Rois, onSelectRoi(r) \/ PicksOnCanvas(r)  PROVE RoiInv'
  <2>2. PICK b \in Nat : b = baseInput
    BY <1>1
  <2>3. Selects(cameraInput, baseInput, r, TRUE) \/ Selects(cameraInput, baseInput, r, FALSE)
        \/ Selects(cameraInput, baseInput, r, boxDrawn)
    BY <1>4 DEF onSelectRoi, PicksOnCanvas
  <2>1. PICK c, drawn : Selects(c, b, r, drawn)
    BY <2>2, <2>3
  <2> QED  BY <1>1, <2>1, SelectsStep
<1>5. ASSUME onDraws \/ ClearSelection  PROVE RoiInv'
  <2>2. PICK b \in Nat : b = baseInput
    BY <1>1
  <2>3. Selects(cameraInput, baseInput, 0, TRUE) \/ Selects(cameraInput, baseInput, 0, FALSE)
        \/ Selects(cameraInput, baseInput, 0, boxDrawn)
    BY <1>5 DEF onDraws, ClearSelection
  <2>1. PICK c, drawn : Selects(c, b, 0, drawn)
    BY <2>2, <2>3
  <2> QED  BY <2>1, SelectsStep
<1>6. ASSUME NEW k \in DOMAIN ops, Fails(k)  PROVE RoiInv'
  BY <1>1, <1>6, FailsStep
<1> QED  BY <1>2, <1>3, <1>4, <1>5, <1>6, RefreshStep, CaptureStep, WriteStep, DeleteBaseStep, CreateStep,
            DeleteRoiStep, DeviceHandlesStep, PayloadStep
         DEF RoiNext

-----------------------------------------------------------------------------
(* The PTZ panel                                                            *)

CommandRecords ==
  [kind : {"start", "stop", "stop-notify", "target"}, camera : PtzCameras,
   direction : PtzDirections \cup {"none"}, at : {"sent", "ack", "error", "lost"}]

PtzTypes ==
  /\ ptzCamera \in PtzCameras \cup {NoCamera}
  /\ online \in BOOLEAN /\ reported \in Reports
  /\ ptzState \in [activeCamera : PtzCameras \cup {NoCamera}, configured : SUBSET PtzCameras,
                   loaded : BOOLEAN]
  /\ activeDirection \in PtzDirections \cup {"none"} /\ held \in PtzDirections \cup {"none"}
  /\ command \in Seq(CommandRecords) /\ Len(command) <= MaxCommands
  /\ \A i \in 1..Len(command) : command[i].kind = "start" => command[i].direction # "none"
  /\ queries \subseteq {"get-status", "get-position"} \X (PtzCameras \cup {NoCamera})
  /\ driving \subseteq PtzCameras /\ strayed \subseteq PtzCameras

\* The i-th of the commands is a start or a stop of this camera on its way, or its
\* start-move the device took and the page has not heard of yet.
SentStart(s, c, i) == i \in 1..Len(s) /\ s[i].kind = "start" /\ s[i].at = "sent" /\ s[i].camera = c
SentStop(s, c, i) ==
  i \in 1..Len(s) /\ s[i].kind \in {"stop", "stop-notify"} /\ s[i].at = "sent" /\ s[i].camera = c
TakenStart(s, c, i) == i \in 1..Len(s) /\ s[i].kind = "start" /\ s[i].at = "ack" /\ s[i].camera = c

\* A start on its way has a stop behind it, or its camera is the one at hand.
StartShape ==
  \A c \in PtzCameras \ strayed : \A i \in 1..Len(command) : SentStart(command, c, i) =>
    \/ \E j \in 1..Len(command) : i < j /\ SentStop(command, c, j)
    \/ cameraName = c /\ (activeDirection # "none" \/ held # "none")

\* A camera that moves has a stop on its way, or it is the one at hand: the page knows of the
\* move, or the button is held and it is about to hear of it.
DriveShape ==
  \A c \in driving \ strayed :
    \/ \E j \in 1..Len(command) : SentStop(command, c, j)
    \/ cameraName = c /\ activeDirection # "none"
    \/ cameraName = c /\ held # "none" /\ \E j \in 1..Len(command) : TakenStart(command, c, j)

\* The stop the cleanup sends.
Stop(camera) == Command("stop-notify", camera, "none")

PtzInv == PtzTypes /\ StartShape /\ DriveShape

LEMMA CommandFacts ==
  ASSUME NEW s \in Seq(CommandRecords)
  PROVE  /\ Len(s) \in Nat
         /\ \A i \in 1..Len(s) :
              /\ s[i] \in CommandRecords
              /\ s[i].kind \in {"start", "stop", "stop-notify", "target"} /\ s[i].camera \in PtzCameras
              /\ s[i].direction \in PtzDirections \cup {"none"}
              /\ s[i].at \in {"sent", "ack", "error", "lost"}
<1>1. Len(s) \in Nat /\ \A i \in 1..Len(s) : s[i] \in CommandRecords
  OBVIOUS
<1>2. \A k \in CommandRecords :
        /\ k.kind \in {"start", "stop", "stop-notify", "target"} /\ k.camera \in PtzCameras
        /\ k.direction \in PtzDirections \cup {"none"}
        /\ k.at \in {"sent", "ack", "error", "lost"}
  BY DEF CommandRecords
<1> QED  BY <1>1, <1>2

LEMMA PtzInvStops == PtzInv => NoCameraRunsOn /\ PtzTypeOK
<1> SUFFICES ASSUME PtzInv PROVE NoCameraRunsOn /\ PtzTypeOK
  OBVIOUS
<1>1. PtzTypeOK
  <2>1. ptzState.activeCamera \in PtzCameras \cup {NoCamera}
    BY DEF PtzInv, PtzTypes
  <2> QED  BY <2>1, Zenon DEF PtzInv, PtzTypes, PtzTypeOK
<1>2. \A i \in 1..Len(command) : command[i].camera \in PtzCameras
  BY CommandFacts DEF PtzInv, PtzTypes
<1>3. NoCameraRunsOn
  <2> SUFFICES ASSUME NEW c \in (driving \cup {command[i].camera : i \in {j \in 1..Len(command) :
                         command[j].at = "sent" /\ command[j].kind = "start"}}) \ strayed,
                      ~ (cameraName = c /\ (held # "none" \/ activeDirection # "none"))
               PROVE  \E i \in StopsOf(c) : \A j \in StartsOf(c) : j < i
    BY DEF NoCameraRunsOn
  <2> DEFINE n == Len(command)
  <2>1. n \in Nat /\ StartsOf(c) \subseteq 1..n /\ StopsOf(c) \subseteq 1..n
    BY DEF PtzInv, PtzTypes, StartsOf, StopsOf
  <2>2. \A i : (i \in StartsOf(c) <=> SentStart(command, c, i)) /\ (i \in StopsOf(c) <=> SentStop(command, c, i))
    BY DEF StartsOf, StopsOf, SentStart, SentStop
  <2>3. CASE StartsOf(c) = {}
    <3>1. c \in driving \ strayed
      <4>1. \A i \in 1..Len(command) : ~ SentStart(command, c, i)
        BY <2>2, <2>3
      <4> QED  BY <4>1 DEF SentStart
    <3>2. \E j \in 1..Len(command) : SentStop(command, c, j)
      BY <3>1 DEF PtzInv, DriveShape
    <3> QED  BY <2>2, <2>3, <3>2
  <2>4. CASE StartsOf(c) # {}
    <3> DEFINE M == {m \in 0..n : n - m \in StartsOf(c)}
    <3>1. M \subseteq Nat /\ M # {}
      <4>1. PICK i \in StartsOf(c) : TRUE
        BY <2>4
      <4>2. n - i \in 0..n /\ n - (n - i) = i
        BY <2>1, <4>1
      <4> QED  BY <4>1, <4>2
    <3>2. PICK m \in M : \A y \in M : m <= y
      <4> HIDE DEF M
      <4> QED  BY <3>1, LeastFacts
    <3>3. PICK i \in StartsOf(c) : i = n - m
      OBVIOUS
    <3>4. \A j \in StartsOf(c) : j <= i
      <4> SUFFICES ASSUME NEW j \in StartsOf(c) PROVE j <= i
        OBVIOUS
      <4>1. j \in 1..n /\ n - j \in 0..n /\ n - (n - j) = j
        BY <2>1
      <4>2. m <= n - j
        BY <3>2, <4>1
      <4> QED  BY <2>1, <3>2, <3>3, <4>1, <4>2
    <3>5. SentStart(command, c, i) /\ i \in 1..n
      BY <2>1, <2>2
    <3>6. c \in PtzCameras \ strayed
      BY <1>2, <3>5 DEF SentStart
    <3>7. PICK j \in 1..n : i < j /\ SentStop(command, c, j)
      BY <3>5, <3>6 DEF PtzInv, StartShape
    <3>8. j \in StopsOf(c) /\ \A k \in StartsOf(c) : k < j
      <4> SUFFICES ASSUME NEW k \in StartsOf(c) PROVE k < j
        BY <2>2, <3>7
      <4>1. k <= i /\ k \in 1..n /\ i \in 1..n /\ j \in 1..n /\ i < j
        BY <2>1, <3>4, <3>5, <3>7
      <4> HIDE DEF n
      <4> QED  BY <2>1, <4>1
    <3> QED  BY <3>8
  <2> QED  BY <2>3, <2>4
<1> QED  BY <1>1, <1>3

LEMMA PtzInitially == PtzInit => PtzInv
<1> SUFFICES ASSUME PtzInit PROVE PtzInv
  OBVIOUS
<1>1. command = <<>> /\ command \in Seq(CommandRecords) /\ Len(command) = 0
  BY DEF PtzInit
<1>2. ptzState \in [activeCamera : PtzCameras \cup {NoCamera}, configured : SUBSET PtzCameras,
                    loaded : BOOLEAN]
  BY DEF PtzInit
<1>4. Len(command) <= MaxCommands /\ 1..Len(command) = {}
  BY <1>1, PtzAssumption
<1>5. PtzTypes
  BY <1>1, <1>2, <1>4, PtzAssumption DEF PtzInit, PtzTypes
<1>3. StartShape /\ DriveShape
  BY <1>1 DEF PtzInit, StartShape, DriveShape
<1> QED  BY <1>3, <1>5 DEF PtzInv

\* The camera at hand is one of the device's, or none.
LEMMA CameraAtHand ==
  ASSUME PtzTypes
  PROVE  cameraName \in PtzCameras \cup {NoCamera}
BY PtzAssumption DEF PtzTypes, cameraName, ReportedCamera

LEMMA SameCameraAtHand ==
  ASSUME ptzCamera' = ptzCamera, reported' = reported, ptzState' = ptzState
  PROVE  cameraName' = cameraName
BY DEF cameraName, ReportedCamera

\* A stop the cleanup sends joins the commands at their end.
LEMMA Cleanup ==
  ASSUME PtzTypes, NEW t \in Seq(CommandRecords)
  PROVE  /\ Stop(cameraName) \in CommandRecords \/ cameraName = NoCamera
         /\ t \o CleanupStop(TRUE)
              = IF activeDirection # "none" /\ cameraName # NoCamera THEN Append(t, Stop(cameraName)) ELSE t
         /\ \/ t \o CleanupStop(FALSE) = t
               /\ (activeDirection # "none" /\ cameraName # NoCamera
                     => cameraName' = cameraName /\ activeDirection' = activeDirection)
            \/ t \o CleanupStop(FALSE) = Append(t, Stop(cameraName)) /\ cameraName # NoCamera
<1>1. Stop(cameraName) \in CommandRecords \/ cameraName = NoCamera
  BY CameraAtHand DEF Stop, Command, CommandRecords
<1>2. t \o <<>> = t /\ \A x : t \o <<x>> = Append(t, x)
  OBVIOUS
<1>3. CleanupStop(TRUE) = IF activeDirection # "none" /\ cameraName # NoCamera
                          THEN <<Stop(cameraName)>> ELSE <<>>
  BY DEF CleanupStop, Stop
<1>4. \/ /\ CleanupStop(FALSE) = <<>>
         /\ activeDirection # "none" /\ cameraName # NoCamera
              => cameraName' = cameraName /\ activeDirection' = activeDirection
      \/ CleanupStop(FALSE) = <<Stop(cameraName)>> /\ cameraName # NoCamera
  BY DEF CleanupStop, Stop
<1> QED  BY <1>1, <1>2, <1>3, <1>4

\* A render whose commands so far are t: what was on its way still is, in the same order, and an
\* acknowledged start is still to be heard of, or was heard of in this step.
Keeps(t) ==
  /\ \A c \in PtzCameras, i \in 1..Len(t) : SentStart(t, c, i) =>
       \E k \in 1..Len(command) :
         /\ SentStart(command, c, k)
         /\ \A j \in 1..Len(command) : k < j /\ SentStop(command, c, j)
                                         => \E m \in 1..Len(t) : i < m /\ SentStop(t, c, m)
  /\ \A c \in PtzCameras, j \in 1..Len(command) :
       SentStop(command, c, j) => \E m \in 1..Len(t) : SentStop(t, c, m)
  /\ \A c \in PtzCameras, j \in 1..Len(command) : TakenStart(command, c, j) =>
       \/ \E m \in 1..Len(t) : TakenStart(t, c, m)
       \/ activeDirection' # "none" /\ cameraName' \in {cameraName, c}

LEMMA AppendKeeps ==
  ASSUME NEW t \in Seq(CommandRecords), NEW x \in CommandRecords
  PROVE  /\ Append(t, x) \in Seq(CommandRecords) /\ Len(Append(t, x)) = Len(t) + 1
         /\ Len(t) \in Nat /\ Append(t, x)[Len(t) + 1] = x
         /\ \A i \in 1..Len(t) : i \in 1..Len(Append(t, x)) /\ i < Len(t) + 1 /\ Append(t, x)[i] = t[i]
         /\ Len(t) + 1 \in 1..Len(Append(t, x))
         /\ \A i \in 1..Len(Append(t, x)) : i \in 1..Len(t) \/ i = Len(t) + 1
<1>1. /\ Append(t, x) \in Seq(CommandRecords) /\ Len(Append(t, x)) = Len(t) + 1
      /\ \A i \in 1..Len(t) : Append(t, x)[i] = t[i]
      /\ Append(t, x)[Len(t) + 1] = x /\ Len(t) \in Nat
  BY AppendProperties
<1> QED  BY <1>1

\* What is left behind: the camera at hand changes while a start of it is not heard of.
LEMMA LeavesBehind ==
  ASSUME PtzTypes, cameraName' # cameraName, cameraName # NoCamera, activeDirection = "none",
         NEW i \in 1..Len(command), command[i].kind = "start", command[i].camera = cameraName
  PROVE  cameraName \in LeftBehind
<1>1. cameraName \in {command[k].camera : k \in {j \in 1..Len(command) : command[j].kind = "start"}}
  OBVIOUS
<1> QED  BY <1>1 DEF LeftBehind

LEMMA Rerender ==
  ASSUME PtzInv, NEW t \in Seq(CommandRecords), Keeps(t),
         \/ command' = t /\ (activeDirection # "none" /\ cameraName # NoCamera
                               => cameraName' = cameraName /\ activeDirection' = activeDirection)
         \/ command' = Append(t, Stop(cameraName)) /\ cameraName # NoCamera,
         held' = held, driving' = driving, strayed \cup LeftBehind \subseteq strayed'
  PROVE  StartShape' /\ DriveShape'
<1> USE DEF PtzInv
<1>1. cameraName \in PtzCameras \cup {NoCamera} /\ driving \subseteq PtzCameras
  BY CameraAtHand DEF PtzTypes
<1>2. \/ command' = t /\ (activeDirection # "none" /\ cameraName # NoCamera
                            => cameraName' = cameraName /\ activeDirection' = activeDirection)
      \/ /\ command' = Append(t, Stop(cameraName)) /\ cameraName # NoCamera
         /\ Stop(cameraName) \in CommandRecords
  BY Cleanup
<1>3. \A c, i : i \in 1..Len(t) =>
        /\ i \in 1..Len(command')
        /\ SentStop(t, c, i) <=> SentStop(command', c, i)
        /\ TakenStart(t, c, i) <=> TakenStart(command', c, i)
        /\ SentStart(t, c, i) <=> SentStart(command', c, i)
  <2>1. CASE command' = t
    BY <2>1
  <2>2. CASE command' = Append(t, Stop(cameraName)) /\ Stop(cameraName) \in CommandRecords
    <3>1. PICK x \in CommandRecords : x = Stop(cameraName)
      BY <2>2
    <3>2. \A i \in 1..Len(t) : i \in 1..Len(command') /\ command'[i] = t[i]
      BY <2>2, <3>1, AppendKeeps
    <3> QED  BY <3>2 DEF SentStop, SentStart, TakenStart
  <2> QED  BY <1>2, <2>1, <2>2
<1>4. \A c, i : SentStart(command', c, i) => i \in 1..Len(t)
  <2>1. CASE command' = t
    BY <2>1 DEF SentStart
  <2>2. CASE command' = Append(t, Stop(cameraName)) /\ Stop(cameraName) \in CommandRecords
    <3>1. PICK x \in CommandRecords : x = Stop(cameraName)
      BY <2>2
    <3>2. \A i \in 1..Len(command') : i \in 1..Len(t) \/ (command'[i] = x /\ x.kind = "stop-notify")
      BY <2>2, <3>1, AppendKeeps DEF Stop, Command
    <3> QED  BY <3>2 DEF SentStart
  <2> QED  BY <1>2, <2>1, <2>2
\* The camera at hand, if the page knew of its move, is stopped or still the one at hand.
<1>5. ASSUME activeDirection # "none", cameraName # NoCamera
      PROVE  \/ cameraName' = cameraName /\ activeDirection' # "none"
             \/ \E m \in 1..Len(command') : /\ SentStop(command', cameraName, m)
                                            /\ \A i \in 1..Len(t) : i < m
  <2>1. CASE command' = t
    <3>1. ~ (command' = Append(t, Stop(cameraName)) /\ Stop(cameraName) \in CommandRecords)
      <4> SUFFICES ASSUME command' = Append(t, Stop(cameraName)), Stop(cameraName) \in CommandRecords
                   PROVE  FALSE
        OBVIOUS
      <4>1. PICK x \in CommandRecords : x = Stop(cameraName)
        OBVIOUS
      <4>2. Len(t) = Len(t) + 1 /\ Len(t) \in Nat
        BY <2>1, <4>1, AppendKeeps
      <4> QED  BY <4>2
    <3> QED  BY <1>2, <1>5, <2>1, <3>1
  <2>2. CASE command' = Append(t, Stop(cameraName)) /\ Stop(cameraName) \in CommandRecords
    <3>1. PICK x \in CommandRecords : x = Stop(cameraName)
      BY <2>2
    <3>2. /\ x.kind = "stop-notify" /\ x.at = "sent" /\ x.camera = cameraName
      BY <3>1 DEF Stop, Command
    <3>3. /\ Len(t) + 1 \in 1..Len(command') /\ command'[Len(t) + 1] = x
          /\ \A i \in 1..Len(t) : i < Len(t) + 1
      BY <2>2, <3>1, AppendKeeps
    <3>4. SentStop(command', cameraName, Len(t) + 1)
      BY <3>2, <3>3 DEF SentStop
    <3> QED  BY <3>3, <3>4
  <2> QED  BY <1>2, <2>1, <2>2
<1>6. StartShape'
  <2> SUFFICES ASSUME NEW c \in PtzCameras \ strayed', NEW i \in 1..Len(command'),
                      SentStart(command', c, i)
               PROVE  \/ \E j \in 1..Len(command') : i < j /\ SentStop(command', c, j)
                      \/ cameraName' = c /\ (activeDirection' # "none" \/ held' # "none")
    BY DEF StartShape
  <2>1. i \in 1..Len(t) /\ SentStart(t, c, i)
    BY <1>3, <1>4
  <2>2. PICK k \in 1..Len(command) :
         /\ SentStart(command, c, k)
         /\ \A j \in 1..Len(command) : k < j /\ SentStop(command, c, j)
                                         => \E m \in 1..Len(t) : i < m /\ SentStop(t, c, m)
    BY <2>1 DEF Keeps
  <2>3. CASE \E j \in 1..Len(command) : k < j /\ SentStop(command, c, j)
    BY <1>3, <2>2, <2>3
  <2>4. CASE cameraName = c /\ activeDirection # "none"
    <3>1. cameraName # NoCamera
      BY <2>4, PtzAssumption
    <3> QED  BY <1>5, <2>1, <2>4, <3>1
  <2>5. CASE cameraName = c /\ activeDirection = "none" /\ held # "none"
    <3>1. cameraName # NoCamera /\ command[k].kind = "start" /\ command[k].camera = cameraName
      BY <2>2, <2>5, PtzAssumption DEF SentStart
    <3>2. cameraName' # cameraName => cameraName \in LeftBehind
      BY <2>5, <3>1, LeavesBehind
    <3> QED  BY <2>5, <3>2
  <2>6. \/ \E j \in 1..Len(command) : k < j /\ SentStop(command, c, j)
        \/ cameraName = c /\ (activeDirection # "none" \/ held # "none")
    BY <2>2 DEF StartShape
  <2> QED  BY <2>3, <2>4, <2>5, <2>6
<1>7. DriveShape'
  <2> SUFFICES ASSUME NEW c \in driving \ strayed'
               PROVE  \/ \E j \in 1..Len(command') : SentStop(command', c, j)
                      \/ cameraName' = c /\ activeDirection' # "none"
                      \/ cameraName' = c /\ held' # "none" /\ \E j \in 1..Len(command') : TakenStart(command', c, j)
    BY DEF DriveShape
  <2>0. c \in PtzCameras /\ c \in driving \ strayed
    BY <1>1
  <2>1. CASE \E j \in 1..Len(command) : SentStop(command, c, j)
    BY <1>3, <2>0, <2>1 DEF Keeps
  <2>2. CASE cameraName = c /\ activeDirection # "none"
    <3>1. cameraName # NoCamera
      BY <2>0, <2>2, PtzAssumption
    <3> QED  BY <1>5, <2>2, <3>1
  <2>3. CASE /\ cameraName = c /\ activeDirection = "none" /\ held # "none"
             /\ \E j \in 1..Len(command) : TakenStart(command, c, j)
    <3>1. PICK j \in 1..Len(command) : TakenStart(command, c, j)
      BY <2>3
    <3>2. cameraName # NoCamera /\ command[j].kind = "start" /\ command[j].camera = cameraName
      BY <2>0, <2>3, <3>1, PtzAssumption DEF TakenStart
    <3>3. cameraName' # cameraName => cameraName \in LeftBehind
      BY <2>3, <3>2, LeavesBehind
    <3>4. cameraName' = c
      BY <2>3, <3>3
    <3>5. \/ \E m \in 1..Len(t) : TakenStart(t, c, m)
          \/ activeDirection' # "none" /\ cameraName' \in {cameraName, c}
      BY <2>0, <3>1 DEF Keeps
    <3> QED  BY <1>3, <2>3, <3>4, <3>5
  <2>4. \/ \E j \in 1..Len(command) : SentStop(command, c, j)
        \/ cameraName = c /\ activeDirection # "none"
        \/ cameraName = c /\ held # "none" /\ \E j \in 1..Len(command) : TakenStart(command, c, j)
    BY <2>0 DEF DriveShape
  <2> QED  BY <2>1, <2>2, <2>3, <2>4
<1> QED  BY <1>6, <1>7

QueryRecords == {"get-status", "get-position"} \X (PtzCameras \cup {NoCamera})
StateRecords == [activeCamera : PtzCameras \cup {NoCamera}, configured : SUBSET PtzCameras, loaded : BOOLEAN]

\* Every start among the commands names a direction.
Directed(t) == \A i \in 1..Len(t) : t[i].kind = "start" => t[i].direction # "none"

\* A commit keeps the types, given those of what the handler sent and assigned.
LEMMA CommitTypes ==
  ASSUME PtzTypes, NEW t \in Seq(CommandRecords), Directed(t), NEW open \in SUBSET QueryRecords,
         \/ command' = t
         \/ command' = Append(t, Stop(cameraName)) /\ cameraName # NoCamera,
         Len(command') <= MaxCommands, RefreshEffect(open),
         ptzCamera' \in PtzCameras \cup {NoCamera}, online' \in BOOLEAN, reported' \in Reports,
         ptzState' \in StateRecords, activeDirection' \in PtzDirections \cup {"none"},
         held' \in PtzDirections \cup {"none"}, driving' \subseteq PtzCameras, strayed' \subseteq PtzCameras
  PROVE  PtzTypes'
<1>1. cameraName' \in PtzCameras \cup {NoCamera}
  BY PtzAssumption DEF cameraName, ReportedCamera, StateRecords
<1>2. queries' \subseteq QueryRecords
  <2>1. PICK c \in PtzCameras \cup {NoCamera} : c = cameraName'
    BY <1>1
  <2>2. <<"get-status", c>> \in QueryRecords /\ <<"get-position", c>> \in QueryRecords
    BY DEF QueryRecords
  <2>3. queries' \subseteq open \cup {<<"get-status", c>>, <<"get-position", c>>}
    BY <2>1 DEF RefreshEffect
  <2> QED  BY <2>2, <2>3
<1>3. command' \in Seq(CommandRecords) /\ Directed(command')
  <2>1. CASE command' = t
    BY <2>1
  <2>2. CASE command' = Append(t, Stop(cameraName)) /\ cameraName # NoCamera
    <3>1. PICK x \in CommandRecords : x = Stop(cameraName)
      BY <2>2, Cleanup
    <3>2. x.kind = "stop-notify"
      BY <3>1 DEF Stop, Command
    <3>3. /\ Append(t, x) \in Seq(CommandRecords)
          /\ \A i \in 1..Len(Append(t, x)) : (i \in 1..Len(t) /\ Append(t, x)[i] = t[i]) \/ Append(t, x)[i] = x
      BY AppendKeeps
    <3> QED  BY <2>2, <3>1, <3>2, <3>3 DEF Directed
  <2> QED  BY <2>1, <2>2
<1> QED  BY <1>2, <1>3, Zenon DEF PtzTypes, Directed, QueryRecords, StateRecords

\* A render keeps the invariant.
LEMMA RenderStep ==
  ASSUME PtzInv, NEW t \in Seq(CommandRecords), Directed(t), Keeps(t), NEW open \in SUBSET QueryRecords,
         command' = t \o CleanupStop(TRUE) \/ command' = t \o CleanupStop(FALSE),
         Len(command') <= MaxCommands, RefreshEffect(open),
         ptzCamera' \in PtzCameras \cup {NoCamera}, online' \in BOOLEAN, reported' \in Reports,
         ptzState' \in StateRecords, activeDirection' \in PtzDirections \cup {"none"},
         held' = held, driving' = driving, strayed' \subseteq strayed \cup PtzCameras,
         strayed \cup LeftBehind \subseteq strayed'
  PROVE  PtzInv'
<1>1. PtzTypes
  BY DEF PtzInv
<1>2. \/ command' = t /\ (activeDirection # "none" /\ cameraName # NoCamera
                            => cameraName' = cameraName /\ activeDirection' = activeDirection)
      \/ command' = Append(t, Stop(cameraName)) /\ cameraName # NoCamera
  <2>1. /\ t \o CleanupStop(TRUE)
             = IF activeDirection # "none" /\ cameraName # NoCamera THEN Append(t, Stop(cameraName)) ELSE t
        /\ \/ t \o CleanupStop(FALSE) = t
              /\ (activeDirection # "none" /\ cameraName # NoCamera
                    => cameraName' = cameraName /\ activeDirection' = activeDirection)
           \/ t \o CleanupStop(FALSE) = Append(t, Stop(cameraName)) /\ cameraName # NoCamera
    BY <1>1, Cleanup
  <2>2. CASE command' = t \o CleanupStop(TRUE)
    <3>1. CASE activeDirection # "none" /\ cameraName # NoCamera
      BY <2>1, <2>2, <3>1
    <3>2. CASE ~ (activeDirection # "none" /\ cameraName # NoCamera)
      BY <2>1, <2>2, <3>2
    <3> QED  BY <3>1, <3>2
  <2>3. CASE command' = t \o CleanupStop(FALSE)
    BY <2>1, <2>3
  <2> QED  BY <2>2, <2>3
<1>3. /\ held' \in PtzDirections \cup {"none"} /\ driving' \subseteq PtzCameras
      /\ strayed' \subseteq PtzCameras
  BY <1>1 DEF PtzTypes
<1>4. command' = t \/ (command' = Append(t, Stop(cameraName)) /\ cameraName # NoCamera)
  BY <1>2
<1>5. PtzTypes'
  BY <1>1, <1>3, <1>4, CommitTypes
<1>6. StartShape' /\ DriveShape'
  BY <1>2, Rerender
<1> QED  BY <1>5, <1>6 DEF PtzInv

\* Types of what a step leaves alone.
LEMMA PtzFacts ==
  ASSUME PtzInv
  PROVE  /\ command \in Seq(CommandRecords) /\ Directed(command) /\ queries \in SUBSET QueryRecords
         /\ ptzCamera \in PtzCameras \cup {NoCamera} /\ online \in BOOLEAN /\ reported \in Reports
         /\ ptzState \in StateRecords /\ activeDirection \in PtzDirections \cup {"none"}
         /\ held \in PtzDirections \cup {"none"} /\ driving \subseteq PtzCameras /\ strayed \subseteq PtzCameras
BY Zenon DEF PtzInv, PtzTypes, Directed, QueryRecords, StateRecords

LEMMA LeftBehindTypes ==
  ASSUME PtzInv
  PROVE  LeftBehind \subseteq PtzCameras
BY CameraAtHand DEF PtzInv, LeftBehind

LEMMA CommandKeeps ==
  ASSUME PtzInv
  PROVE  Keeps(command)
BY DEF Keeps, SentStop

\* Selecting a camera, connecting, a new context value and an answered query only render.
LEMMA SelectCameraStep ==
  ASSUME PtzInv, NEW camera \in PtzCameras, SelectCamera(camera)
  PROVE  PtzInv'
<1>1. Keeps(command) /\ LeftBehind \subseteq PtzCameras
  BY CommandKeeps, LeftBehindTypes
<1>2. PICK t \in Seq(CommandRecords), open \in SUBSET QueryRecords : t = command /\ open = queries
  BY PtzFacts
<1>3. /\ Directed(t) /\ Keeps(t) /\ command' = t \o CleanupStop(FALSE) /\ Len(command') <= MaxCommands
      /\ RefreshEffect(open)
  BY <1>1, <1>2, PtzFacts DEF SelectCamera, Commit
<1>4. /\ ptzCamera' \in PtzCameras \cup {NoCamera} /\ online' \in BOOLEAN /\ reported' \in Reports
      /\ ptzState' \in StateRecords /\ activeDirection' \in PtzDirections \cup {"none"}
      /\ held' = held /\ driving' = driving
  BY PtzFacts DEF SelectCamera
<1>5. strayed' \subseteq strayed \cup PtzCameras /\ strayed \cup LeftBehind \subseteq strayed'
  BY <1>1 DEF SelectCamera
<1> QED  BY <1>3, <1>4, <1>5, RenderStep

LEMMA ConnectsStep ==
  ASSUME PtzInv, Connects
  PROVE  PtzInv'
<1>1. PICK t \in Seq(CommandRecords), open \in SUBSET QueryRecords : t = command /\ open = queries
  BY PtzFacts
<1>2. /\ Directed(t) /\ Keeps(t) /\ command' = t \o CleanupStop(TRUE) /\ Len(command') <= MaxCommands
      /\ RefreshEffect(open)
  BY <1>1, PtzFacts, CommandKeeps DEF Connects, Commit
<1>3. /\ ptzCamera' \in PtzCameras \cup {NoCamera} /\ online' \in BOOLEAN /\ reported' \in Reports
      /\ ptzState' \in StateRecords /\ activeDirection' \in PtzDirections \cup {"none"}
      /\ held' = held /\ driving' = driving
  BY PtzFacts DEF Connects
<1>4. strayed' \subseteq strayed \cup PtzCameras /\ strayed \cup LeftBehind \subseteq strayed'
  BY SameCameraAtHand DEF Connects, LeftBehind
<1> QED  BY <1>2, <1>3, <1>4, RenderStep

LEMMA ContextRenewsStep ==
  ASSUME PtzInv, NEW status \in Reports, ContextRenews(status)
  PROVE  PtzInv'
<1>1. LeftBehind \subseteq PtzCameras
  BY LeftBehindTypes
<1>2. PICK t \in Seq(CommandRecords), open \in SUBSET QueryRecords : t = command /\ open = queries
  BY PtzFacts
<1>3. /\ Directed(t) /\ Keeps(t) /\ command' = t \o CleanupStop(TRUE) /\ Len(command') <= MaxCommands
      /\ RefreshEffect(open)
  BY <1>2, PtzFacts, CommandKeeps DEF ContextRenews, Commit
<1>4. /\ ptzCamera' \in PtzCameras \cup {NoCamera} /\ online' \in BOOLEAN /\ reported' \in Reports
      /\ ptzState' \in StateRecords /\ activeDirection' \in PtzDirections \cup {"none"}
      /\ held' = held /\ driving' = driving
  BY PtzFacts DEF ContextRenews
<1>5. strayed' \subseteq strayed \cup PtzCameras /\ strayed \cup LeftBehind \subseteq strayed'
  BY <1>1 DEF ContextRenews
<1> QED  BY <1>3, <1>4, <1>5, RenderStep

LEMMA QuerySettlesStep ==
  ASSUME PtzInv, NEW q \in queries, QuerySettles(q)
  PROVE  PtzInv'
<1>1. LeftBehind \subseteq PtzCameras
  BY LeftBehindTypes
<1>2. PICK t \in Seq(CommandRecords), open \in SUBSET QueryRecords : t = command /\ open = queries \ {q}
  BY PtzFacts
<1>3. /\ Directed(t) /\ Keeps(t) /\ command' = t \o CleanupStop(TRUE) /\ Len(command') <= MaxCommands
      /\ RefreshEffect(open)
  BY <1>2, PtzFacts, CommandKeeps DEF QuerySettles
<1>4. ptzState' \in StateRecords
  <2>1. q[2] \in PtzCameras \cup {NoCamera} /\ ptzState \in StateRecords
    BY PtzFacts DEF QueryRecords
  <2>2. CASE \E status \in Reports \ {<<>>} : applyStatusPayload(status.activeCamera, status.configured)
    <3>1. PICK status \in Reports \ {<<>>} : applyStatusPayload(status.activeCamera, status.configured)
      BY <2>2
    <3>2. status.activeCamera \in PtzCameras \cup {NoCamera} /\ status.configured \subseteq PtzCameras
      BY PtzAssumption
    <3>3. PICK c \in PtzCameras \cup {NoCamera}, z \in SUBSET PtzCameras :
             c = status.activeCamera /\ z = status.configured
      BY <3>2
    <3>4. applyStatusPayload(c, z)
      BY <3>1, <3>3
    <3> QED  BY <2>1, <3>4 DEF applyStatusPayload, StateRecords
  <2>3. CASE applyPositionPayload(q[2])
    BY <2>1, <2>3 DEF applyPositionPayload, StateRecords
  <2>4. CASE handlePtzError(q[2])
    BY <2>1, <2>4 DEF handlePtzError, StateRecords
  <2> QED  BY <2>2, <2>3, <2>4 DEF QuerySettles
<1>5. /\ ptzCamera' \in PtzCameras \cup {NoCamera} /\ online' \in BOOLEAN /\ reported' \in Reports
      /\ activeDirection' \in PtzDirections \cup {"none"}
      /\ held' = held /\ driving' = driving
  BY PtzFacts DEF QuerySettles
<1>6. strayed' \subseteq strayed \cup PtzCameras /\ strayed \cup LeftBehind \subseteq strayed'
  BY <1>1 DEF QuerySettles
<1> QED  BY <1>3, <1>4, <1>5, <1>6, RenderStep

LEMMA SendTargetStep ==
  ASSUME PtzInv, SendTarget
  PROVE  PtzInv'
<1>1. PICK c \in PtzCameras : c = cameraName
  BY CameraAtHand DEF PtzInv, SendTarget
<1> DEFINE x == Command("target", c, "none")
           t == Append(command, x)
<1>2. x \in CommandRecords /\ x.kind = "target"
  BY DEF Command, CommandRecords
<1>3. /\ command' = t \o CleanupStop(FALSE) /\ Len(command') <= MaxCommands
      /\ RefreshEffect(queries)
  BY <1>1 DEF SendTarget, Commit
<1> HIDE DEF x
<1>4. /\ t \in Seq(CommandRecords)
      /\ \A i \in 1..Len(command) : i \in 1..Len(t) /\ t[i] = command[i]
      /\ \A i \in 1..Len(t) : i \in 1..Len(command) \/ t[i] = x
  BY <1>2, AppendKeeps, PtzFacts
<1> HIDE DEF t
<1>5. Directed(t)
  BY <1>2, <1>4, PtzFacts DEF Directed
<1>6. Keeps(t)
  <2>1. \A c2, i : i \in 1..Len(command) =>
          /\ SentStop(command, c2, i) => i \in 1..Len(t) /\ SentStop(t, c2, i)
          /\ TakenStart(command, c2, i) => i \in 1..Len(t) /\ TakenStart(t, c2, i)
    BY <1>4 DEF SentStop, TakenStart
  <2>2. \A c2, i : SentStart(t, c2, i) => i \in 1..Len(command) /\ SentStart(command, c2, i)
    BY <1>2, <1>4 DEF SentStart
  <2> QED  BY <2>1, <2>2 DEF Keeps
<1>7. PICK open \in SUBSET QueryRecords : open = queries
  BY PtzFacts
<1>8. /\ ptzCamera' \in PtzCameras \cup {NoCamera} /\ online' \in BOOLEAN /\ reported' \in Reports
      /\ ptzState' \in StateRecords /\ activeDirection' \in PtzDirections \cup {"none"}
      /\ held' = held /\ driving' = driving
  BY PtzFacts DEF SendTarget
<1>9. strayed' \subseteq strayed \cup PtzCameras /\ strayed \cup LeftBehind \subseteq strayed'
  BY SameCameraAtHand DEF SendTarget, LeftBehind
<1>10. RefreshEffect(open)
  BY <1>3, <1>7
<1>11. PICK s \in Seq(CommandRecords) : s = t
  BY <1>4
<1> QED  BY <1>3, <1>5, <1>6, <1>8, <1>9, <1>10, <1>11, RenderStep

\* A command that settles was taken or lost: none that is on its way goes with it.
LEMMA CommandSettlesStep ==
  ASSUME PtzInv, NEW i \in 1..Len(command), CommandSettles(i)
  PROVE  PtzInv'
<1> DEFINE t == RemoveAt(command, i)
           k == command[i]
<1>1. command \in Seq(CommandRecords) /\ Len(command) \in Nat /\ k \in CommandRecords
      /\ k.camera \in PtzCameras /\ k.direction \in PtzDirections \cup {"none"}
  BY PtzFacts, CommandFacts
<1>2. /\ k.at \in {"ack", "error", "lost"}
      /\ IF k.at = "ack" THEN applyCommandAckPayload(k)
                         ELSE handlePtzError(IF k.at = "error" THEN k.camera ELSE NoCamera)
      /\ activeDirection' = IF k.kind = "target" THEN activeDirection
                            ELSE IF k.kind = "start" /\ k.at = "ack" THEN k.direction ELSE "none"
      /\ UNCHANGED <<ptzTurns, ptzCamera, online, reported, held, driving>>
      /\ command' = t \o CleanupStop(TRUE) /\ Len(command') <= MaxCommands
      /\ RefreshEffect(queries) /\ strayed' = strayed \cup LeftBehind
  BY DEF CommandSettles, Commit
<1>3. /\ t \in Seq(CommandRecords) /\ Len(t) = Len(command) - 1
      /\ \A j \in 1..Len(t) : t[j] = IF j < i THEN command[j] ELSE command[j + 1]
  BY <1>1, WithoutFacts DEF RemoveAt
<1> HIDE DEF t
\* Where a command of the one sequence is in the other.
<1> DEFINE To(j) == IF j < i THEN j ELSE j - 1
           From(j) == IF j < i THEN j ELSE j + 1
<1>4. \A j \in 1..Len(command) : j # i => To(j) \in 1..Len(t) /\ t[To(j)] = command[j]
  BY <1>1, <1>3
<1>5. \A j \in 1..Len(t) : From(j) \in 1..Len(command) /\ From(j) # i /\ command[From(j)] = t[j]
  BY <1>1, <1>3
<1>6. \A j \in 1..Len(t), m \in 1..Len(command) : m # i /\ From(j) < m => j < To(m)
  BY <1>1, <1>3
<1> HIDE DEF To, From, k
<1>7. Directed(t)
  BY <1>5, PtzFacts DEF Directed
<1>8. ptzState' \in StateRecords
  <2>1. ptzState \in StateRecords
    BY PtzFacts
  <2>2. CASE k.at = "ack"
    BY <1>1, <1>2, <2>1, <2>2 DEF applyCommandAckPayload, StateRecords
  <2>3. CASE k.at # "ack"
    <3>1. PICK c \in PtzCameras \cup {NoCamera} : handlePtzError(c)
      BY <1>1, <1>2, <2>3
    <3> QED  BY <2>1, <3>1 DEF handlePtzError, StateRecords
  <2> QED  BY <2>2, <2>3
\* Hearing of its own start, the page has that camera at hand or the one it had.
<1>9. ASSUME k.at = "ack", k.kind = "start"
      PROVE  activeDirection' # "none" /\ cameraName' \in {cameraName, k.camera}
  <2>1. activeDirection' # "none"
    <3>1. k.direction # "none"
      BY <1>9, PtzFacts DEF Directed, k
    <3> QED  BY <1>2, <1>9, <3>1
  <2>2. ptzCamera' = ptzCamera /\ ptzState'.activeCamera = k.camera
    BY <1>2, <1>9, PtzFacts DEF applyCommandAckPayload, StateRecords
  <2>3. k.camera # NoCamera
    BY <1>1, PtzAssumption
  <2> QED  BY <2>1, <2>2, <2>3 DEF cameraName
<1>10. Keeps(t)
  <2>1. \A c, j : SentStop(command, c, j) => To(j) \in 1..Len(t) /\ SentStop(t, c, To(j)) /\ j # i
    <3> SUFFICES ASSUME NEW c, NEW j, SentStop(command, c, j)
                 PROVE  To(j) \in 1..Len(t) /\ SentStop(t, c, To(j)) /\ j # i
      OBVIOUS
    <3>1. j \in 1..Len(command) /\ j # i
      BY <1>2 DEF SentStop, k
    <3> QED  BY <1>4, <3>1 DEF SentStop
  <2>2. \A c, j : SentStart(t, c, j) => From(j) \in 1..Len(command) /\ SentStart(command, c, From(j))
    BY <1>5 DEF SentStart
  <2>3. \A c \in PtzCameras, j \in 1..Len(command) : TakenStart(command, c, j) =>
          \/ \E m \in 1..Len(t) : TakenStart(t, c, m)
          \/ activeDirection' # "none" /\ cameraName' \in {cameraName, c}
    <3> SUFFICES ASSUME NEW c \in PtzCameras, NEW j \in 1..Len(command), TakenStart(command, c, j)
                 PROVE  \/ \E m \in 1..Len(t) : TakenStart(t, c, m)
                        \/ activeDirection' # "none" /\ cameraName' \in {cameraName, c}
      OBVIOUS
    <3>1. CASE j # i
      <4>1. To(j) \in 1..Len(t) /\ TakenStart(t, c, To(j))
        BY <1>4, <3>1 DEF TakenStart
      <4> QED  BY <4>1
    <3>2. CASE j = i
      <4>1. k.at = "ack" /\ k.kind = "start" /\ k.camera = c
        BY <3>2 DEF TakenStart, k
      <4> QED  BY <1>9, <4>1
    <3> QED  BY <3>1, <3>2
  <2>4. \A c \in PtzCameras, j \in 1..Len(t) : SentStart(t, c, j) =>
          /\ SentStart(command, c, From(j)) /\ From(j) \in 1..Len(command)
          /\ \A m \in 1..Len(command) : From(j) < m /\ SentStop(command, c, m)
                                          => \E n \in 1..Len(t) : j < n /\ SentStop(t, c, n)
    <3> SUFFICES ASSUME NEW c \in PtzCameras, NEW j \in 1..Len(t), SentStart(t, c, j),
                        NEW m \in 1..Len(command), From(j) < m, SentStop(command, c, m)
                 PROVE  \E n \in 1..Len(t) : j < n /\ SentStop(t, c, n)
      BY <2>2
    <3>1. m # i /\ To(m) \in 1..Len(t) /\ SentStop(t, c, To(m))
      BY <2>1
    <3>2. j < To(m)
      BY <1>6, <3>1
    <3> QED  BY <3>1, <3>2
  <2>5. \A c \in PtzCameras, j \in 1..Len(command) :
          SentStop(command, c, j) => \E m \in 1..Len(t) : SentStop(t, c, m)
    BY <2>1
  <2>6. \A c \in PtzCameras, j \in 1..Len(t) : SentStart(t, c, j) =>
          \E h \in 1..Len(command) :
            /\ SentStart(command, c, h)
            /\ \A m \in 1..Len(command) : h < m /\ SentStop(command, c, m)
                                            => \E n \in 1..Len(t) : j < n /\ SentStop(t, c, n)
    BY <2>4
  <2> QED  BY <2>3, <2>5, <2>6, Zenon DEF Keeps
<1>11. PICK s \in Seq(CommandRecords), open \in SUBSET QueryRecords : s = t /\ open = queries
  BY <1>3, PtzFacts
<1>12. /\ Directed(s) /\ Keeps(s) /\ command' = s \o CleanupStop(TRUE) /\ Len(command') <= MaxCommands
       /\ RefreshEffect(open)
  BY <1>2, <1>7, <1>10, <1>11
<1>13. /\ ptzCamera' \in PtzCameras \cup {NoCamera} /\ online' \in BOOLEAN /\ reported' \in Reports
       /\ held' = held /\ driving' = driving
  BY <1>2, PtzFacts
<1>14. activeDirection' \in PtzDirections \cup {"none"}
  BY <1>1, <1>2, PtzFacts
<1>15. strayed' \subseteq strayed \cup PtzCameras /\ strayed \cup LeftBehind \subseteq strayed'
  BY <1>2, LeftBehindTypes
<1> QED  BY <1>8, <1>12, <1>13, <1>14, <1>15, RenderStep

\* One more command at the end, for the camera at hand, and nothing else at hand changes.
LEMMA Sends ==
  ASSUME PtzInv, NEW x \in CommandRecords, command' = Append(command, x),
         cameraName' = cameraName, activeDirection' = activeDirection, driving' = driving, strayed' = strayed,
         \/ held = "none" /\ held' # "none" /\ x.kind = "start" /\ x.camera = cameraName
         \/ held' = "none" /\ x.kind = "stop" /\ x.at = "sent" /\ x.camera = cameraName
  PROVE  StartShape' /\ DriveShape'
<1> DEFINE n == Len(command)
<1>1. /\ n \in Nat /\ Len(command') = n + 1 /\ command'[n + 1] = x /\ n + 1 \in 1..Len(command')
      /\ \A i \in 1..n : i \in 1..Len(command') /\ i < n + 1 /\ command'[i] = command[i]
      /\ \A i \in 1..Len(command') : i \in 1..n \/ i = n + 1
  BY PtzFacts, AppendKeeps
<1> HIDE DEF n
<1>2. \A c, i : i \in 1..n =>
        /\ SentStop(command, c, i) <=> SentStop(command', c, i)
        /\ TakenStart(command, c, i) <=> TakenStart(command', c, i)
        /\ SentStart(command, c, i) <=> SentStart(command', c, i)
  BY <1>1 DEF SentStop, SentStart, TakenStart, n
<1>3. held' = "none" => SentStop(command', cameraName, n + 1)
  BY <1>1 DEF SentStop
<1>4. StartShape'
  <2> SUFFICES ASSUME NEW c \in PtzCameras \ strayed, NEW i \in 1..Len(command'),
                      SentStart(command', c, i)
               PROVE  \/ \E j \in 1..Len(command') : i < j /\ SentStop(command', c, j)
                      \/ cameraName = c /\ (activeDirection # "none" \/ held' # "none")
    BY DEF StartShape
  <2>1. CASE i = n + 1
    <3>1. x.kind = "start" /\ x.camera = c
      BY <1>1, <2>1 DEF SentStart
    <3> QED  BY <3>1
  <2>2. CASE i \in 1..n
    <3>1. \/ \E j \in 1..n : i < j /\ SentStop(command, c, j)
          \/ cameraName = c /\ (activeDirection # "none" \/ held # "none")
      BY <1>2, <2>2 DEF PtzInv, StartShape, n
    <3>2. CASE \E j \in 1..n : i < j /\ SentStop(command, c, j)
      BY <1>1, <1>2, <3>2
    <3>3. CASE cameraName = c /\ activeDirection # "none"
      BY <3>3
    <3>4. CASE cameraName = c /\ held # "none"
      <4>1. SentStop(command', c, n + 1) /\ i < n + 1 /\ n + 1 \in 1..Len(command')
        BY <1>1, <1>3, <2>2, <3>4
      <4> QED  BY <4>1
    <3> QED  BY <3>1, <3>2, <3>3, <3>4
  <2> QED  BY <1>1, <2>1, <2>2
<1>5. DriveShape'
  <2> SUFFICES ASSUME NEW c \in driving \ strayed
               PROVE  \/ \E j \in 1..Len(command') : SentStop(command', c, j)
                      \/ cameraName = c /\ activeDirection # "none"
                      \/ cameraName = c /\ held' # "none" /\ \E j \in 1..Len(command') : TakenStart(command', c, j)
    BY DEF DriveShape
  <2>1. \/ \E j \in 1..n : SentStop(command, c, j)
        \/ cameraName = c /\ activeDirection # "none"
        \/ cameraName = c /\ held # "none"
    BY DEF PtzInv, DriveShape, n
  <2>2. CASE \E j \in 1..n : SentStop(command, c, j)
    BY <1>1, <1>2, <2>2
  <2>3. CASE cameraName = c /\ held # "none"
    BY <1>1, <1>3, <2>3
  <2> QED  BY <2>1, <2>2, <2>3
<1> QED  BY <1>4, <1>5

\* Without a change at hand the cleanup sends nothing.
LEMMA QuietCommit ==
  ASSUME PtzInv, NEW t \in Seq(CommandRecords), Commit(t, FALSE),
         cameraName' = cameraName, activeDirection' = activeDirection
  PROVE  command' = t /\ Len(command') <= MaxCommands /\ RefreshEffect(queries)
<1>1. CleanupStop(FALSE) = <<>>
  BY DEF CleanupStop
<1>2. t \o <<>> = t
  OBVIOUS
<1> QED  BY <1>1, <1>2 DEF Commit

LEMMA beginMoveStep ==
  ASSUME PtzInv, NEW direction \in PtzDirections, beginMove(direction)
  PROVE  PtzInv'
<1>1. PICK c \in PtzCameras : c = cameraName
  BY CameraAtHand DEF PtzInv, beginMove, controlsEnabled
<1> DEFINE x == Command("start", c, direction)
<1>2. x \in CommandRecords /\ x.kind = "start" /\ x.camera = c /\ x.direction = direction
  BY DEF Command, CommandRecords
<1>3. /\ held = "none" /\ held' = direction /\ Commit(Append(command, x), FALSE)
      /\ UNCHANGED <<ptzCamera, online, reported, ptzState, activeDirection, driving, strayed>>
  BY <1>1 DEF beginMove
<1>4. cameraName' = cameraName
  BY <1>3, SameCameraAtHand
<1>5. direction # "none" /\ direction \in PtzDirections \cup {"none"}
  BY DEF PtzDirections
<1> HIDE DEF x
<1>6. /\ Append(command, x) \in Seq(CommandRecords)
      /\ \A i \in 1..Len(Append(command, x)) :
           (i \in 1..Len(command) /\ Append(command, x)[i] = command[i]) \/ Append(command, x)[i] = x
  BY <1>2, PtzFacts, AppendKeeps
<1>7. PICK t \in Seq(CommandRecords) : t = Append(command, x)
  BY <1>6
<1>8. command' = t /\ Len(command') <= MaxCommands /\ RefreshEffect(queries)
  BY <1>3, <1>4, <1>7, QuietCommit
<1>9. Directed(t)
  BY <1>2, <1>5, <1>6, <1>7, PtzFacts DEF Directed
<1>10. PICK open \in SUBSET QueryRecords : open = queries
  BY PtzFacts
<1>11. PtzTypes'
  <2>1. PtzTypes /\ RefreshEffect(open) /\ command' = t /\ Len(command') <= MaxCommands
    BY <1>8, <1>10 DEF PtzInv
  <2>2. /\ ptzCamera' \in PtzCameras \cup {NoCamera} /\ online' \in BOOLEAN /\ reported' \in Reports
        /\ ptzState' \in StateRecords /\ activeDirection' \in PtzDirections \cup {"none"}
        /\ held' \in PtzDirections \cup {"none"} /\ driving' \subseteq PtzCameras /\ strayed' \subseteq PtzCameras
    BY <1>3, <1>5, PtzFacts
  <2> QED  BY <1>9, <2>1, <2>2, CommitTypes
<1>12. StartShape' /\ DriveShape'
  BY <1>1, <1>2, <1>3, <1>4, <1>5, <1>7, <1>8, Sends
<1> QED  BY <1>11, <1>12 DEF PtzInv

LEMMA endMoveStep ==
  ASSUME PtzInv, endMove
  PROVE  PtzInv'
<1>1. /\ held # "none" /\ held' = "none"
      /\ UNCHANGED <<ptzCamera, online, reported, ptzState, activeDirection, driving, strayed>>
  BY DEF endMove
<1>2. cameraName' = cameraName
  BY <1>1, SameCameraAtHand
<1>3. PICK open \in SUBSET QueryRecords : open = queries
  BY PtzFacts
<1>4. /\ ptzCamera' \in PtzCameras \cup {NoCamera} /\ online' \in BOOLEAN /\ reported' \in Reports
      /\ ptzState' \in StateRecords /\ activeDirection' \in PtzDirections \cup {"none"}
      /\ held' \in PtzDirections \cup {"none"} /\ driving' \subseteq PtzCameras /\ strayed' \subseteq PtzCameras
  BY <1>1, PtzFacts
<1>5. CASE cameraName = NoCamera
  <2>1. PICK t \in Seq(CommandRecords) : t = command
    BY PtzFacts
  <2>2. Commit(t, FALSE)
    BY <1>5, <2>1 DEF endMove
  <2>3. command' = t /\ Len(command') <= MaxCommands /\ RefreshEffect(open)
    BY <1>1, <1>2, <1>3, <2>2, QuietCommit
  <2>4. PtzTypes /\ Directed(t)
    BY <2>1, PtzFacts DEF PtzInv
  <2>5. PtzTypes'
    BY <1>4, <2>3, <2>4, CommitTypes
  <2>6. \A c \in PtzCameras : cameraName # c
    BY <1>5, PtzAssumption
  <2>7. StartShape' /\ DriveShape'
    <3>1. driving \subseteq PtzCameras
      BY PtzFacts
    <3> QED  BY <1>1, <1>2, <2>1, <2>3, <2>6, <3>1 DEF PtzInv, StartShape, DriveShape
  <2> QED  BY <2>5, <2>7 DEF PtzInv
<1>6. CASE cameraName # NoCamera
  <2>1. PICK c \in PtzCameras : c = cameraName
    BY <1>6, CameraAtHand DEF PtzInv
  <2> DEFINE x == Command("stop", c, "none")
  <2>2. x \in CommandRecords /\ x.kind = "stop" /\ x.camera = c /\ x.at = "sent"
    BY DEF Command, CommandRecords
  <2>3. Commit(Append(command, x), FALSE)
    BY <1>6, <2>1 DEF endMove
  <2> HIDE DEF x
  <2>4. /\ Append(command, x) \in Seq(CommandRecords)
        /\ \A i \in 1..Len(Append(command, x)) :
             (i \in 1..Len(command) /\ Append(command, x)[i] = command[i]) \/ Append(command, x)[i] = x
    BY <2>2, PtzFacts, AppendKeeps
  <2>5. PICK t \in Seq(CommandRecords) : t = Append(command, x)
    BY <2>4
  <2>6. command' = t /\ Len(command') <= MaxCommands /\ RefreshEffect(open)
    BY <1>1, <1>2, <1>3, <2>3, <2>5, QuietCommit
  <2>7. Directed(t) /\ PtzTypes
    BY <2>2, <2>4, <2>5, PtzFacts DEF Directed, PtzInv
  <2>8. PtzTypes'
    BY <1>4, <2>6, <2>7, CommitTypes
  <2>9. StartShape' /\ DriveShape'
    BY <1>1, <1>2, <2>1, <2>2, <2>5, <2>6, Sends
  <2> QED  BY <2>8, <2>9 DEF PtzInv
<1> QED  BY <1>5, <1>6

LEMMA refreshPositionStep ==
  ASSUME PtzInv, refreshPosition
  PROVE  PtzInv'
<1>1. /\ UNCHANGED <<ptzCamera, online, reported, ptzState, activeDirection, held, command, driving, strayed>>
      /\ queries' = queries \cup {<<"get-position", cameraName>>}
  BY DEF refreshPosition
<1>2. cameraName' = cameraName
  BY <1>1, SameCameraAtHand
<1>3. queries' \subseteq QueryRecords
  <2>1. PICK c \in PtzCameras \cup {NoCamera} : c = cameraName
    BY CameraAtHand DEF PtzInv
  <2>2. <<"get-position", c>> \in QueryRecords
    BY DEF QueryRecords
  <2> QED  BY <1>1, <2>1, <2>2, PtzFacts
<1>4. PtzTypes'
  BY <1>1, <1>3, Zenon DEF PtzInv, PtzTypes, QueryRecords
<1> QED  BY <1>1, <1>2, <1>4 DEF PtzInv, StartShape, DriveShape

\* The device takes the i-th command, the first on its way, and the others stay.
LEMMA Takes ==
  ASSUME PtzInv, NEW i \in 1..Len(command), IsNextCommand(i), NEW answer,
         \A c \in PtzCameras, j \in 1..Len(command') : SentStart(command', c, j) =>
           \E h \in 1..Len(command) :
             /\ SentStart(command, c, h)
             /\ \A m \in 1..Len(command) : h < m /\ SentStop(command, c, m)
                                             => \E n \in 1..Len(command') : j < n /\ SentStop(command', c, n),
         \A c \in PtzCameras, j \in 1..Len(command) :
           SentStop(command, c, j) /\ j # i => \E m \in 1..Len(command') : SentStop(command', c, m),
         \A c \in PtzCameras, j \in 1..Len(command) :
           TakenStart(command, c, j) => \E m \in 1..Len(command') : TakenStart(command', c, m),
         command[i].kind = "start" /\ answer = "ack" =>
           \E m \in 1..Len(command') : TakenStart(command', command[i].camera, m),
         answer \in {"ack", "error"},
         \A c : c \in driving' /\ c # command[i].camera => c \in driving,
         command[i].kind = "target" => driving' = driving,
         command[i].kind \in {"stop", "stop-notify"} /\ answer = "ack" => command[i].camera \notin driving',
         strayed \subseteq strayed',
         answer = "error" /\ command[i].camera \in driving' \ strayed'
           => cameraName = command[i].camera /\ activeDirection # "none",
         UNCHANGED <<ptzCamera, reported, ptzState, activeDirection, held>>
  PROVE  StartShape' /\ DriveShape'
<1>1. /\ command[i].camera \in PtzCameras /\ command[i].at = "sent" /\ driving \subseteq PtzCameras
      /\ Len(command) \in Nat
  BY PtzFacts, CommandFacts DEF IsNextCommand
<1>2. cameraName' = cameraName
  BY SameCameraAtHand
<1>3. StartShape'
  <2> SUFFICES ASSUME NEW c \in PtzCameras \ strayed', NEW j \in 1..Len(command'),
                      SentStart(command', c, j)
               PROVE  \/ \E n \in 1..Len(command') : j < n /\ SentStop(command', c, n)
                      \/ cameraName = c /\ (activeDirection # "none" \/ held # "none")
    BY <1>2 DEF StartShape
  <2>1. PICK h \in 1..Len(command) :
          /\ SentStart(command, c, h)
          /\ \A m \in 1..Len(command) : h < m /\ SentStop(command, c, m)
                                          => \E n \in 1..Len(command') : j < n /\ SentStop(command', c, n)
    OBVIOUS
  <2>2. \/ \E m \in 1..Len(command) : h < m /\ SentStop(command, c, m)
        \/ cameraName = c /\ (activeDirection # "none" \/ held # "none")
    BY <2>1 DEF PtzInv, StartShape
  <2> QED  BY <2>1, <2>2
<1>4. DriveShape'
  <2> SUFFICES ASSUME NEW c \in driving' \ strayed'
               PROVE  \/ \E j \in 1..Len(command') : SentStop(command', c, j)
                      \/ cameraName = c /\ activeDirection # "none"
                      \/ cameraName = c /\ held # "none" /\ \E j \in 1..Len(command') : TakenStart(command', c, j)
    BY <1>2 DEF DriveShape
  <2>1. CASE command[i].kind = "start" /\ answer = "ack" /\ c = command[i].camera
    <3>1. SentStart(command, c, i) /\ c \in PtzCameras \ strayed
      BY <1>1, <2>1 DEF SentStart
    <3>2. \/ \E j \in 1..Len(command) : i < j /\ SentStop(command, c, j)
          \/ cameraName = c /\ (activeDirection # "none" \/ held # "none")
      BY <3>1 DEF PtzInv, StartShape
    <3>3. CASE \E j \in 1..Len(command) : i < j /\ SentStop(command, c, j)
      <4>1. PICK j \in 1..Len(command) : i < j /\ SentStop(command, c, j)
        BY <3>3
      <4>2. j # i
        BY <1>1, <4>1
      <4> QED  BY <3>1, <4>1, <4>2
    <3> QED  BY <2>1, <3>2, <3>3
  <2>2. CASE answer = "error" /\ c = command[i].camera
    BY <2>2
  <2>3. CASE c # command[i].camera \/ (command[i].kind # "start" /\ answer = "ack")
    <3>1. /\ c \in driving \ strayed /\ c \in PtzCameras
          /\ ~ (command[i].kind \in {"stop", "stop-notify"} /\ c = command[i].camera)
      <4>1. command[i].kind \in {"start", "stop", "stop-notify", "target"}
        BY PtzFacts, CommandFacts
      <4> QED  BY <1>1, <2>3, <4>1
    <3>2. \/ \E j \in 1..Len(command) : SentStop(command, c, j)
          \/ cameraName = c /\ activeDirection # "none"
          \/ cameraName = c /\ held # "none" /\ \E j \in 1..Len(command) : TakenStart(command, c, j)
      BY <3>1 DEF PtzInv, DriveShape
    <3>3. \A j \in 1..Len(command) : SentStop(command, c, j) => j # i
      BY <3>1 DEF SentStop
    <3>4. CASE \E j \in 1..Len(command) : SentStop(command, c, j)
      BY <3>1, <3>3, <3>4
    <3>5. CASE cameraName = c /\ held # "none" /\ \E j \in 1..Len(command) : TakenStart(command, c, j)
      BY <3>1, <3>5
    <3> QED  BY <3>2, <3>4, <3>5
  <2> QED  BY <2>1, <2>2, <2>3
<1> QED  BY <1>3, <1>4

LEMMA DeviceTakesStep ==
  ASSUME PtzInv, NEW i \in 1..Len(command), NEW answer \in {"ack", "error"}, DeviceTakes(i, answer)
  PROVE  PtzInv'
<1> DEFINE k == command[i]
<1>1. /\ command \in Seq(CommandRecords) /\ Len(command) \in Nat /\ k \in CommandRecords
      /\ k.camera \in PtzCameras /\ k.at = "sent" /\ IsNextCommand(i)
  BY PtzFacts, CommandFacts DEF DeviceTakes, IsNextCommand
<1>2. /\ \A c : c \in driving' /\ c # k.camera => c \in driving
      /\ k.kind = "target" => driving' = driving
      /\ k.kind \in {"stop", "stop-notify"} /\ answer = "ack" => k.camera \notin driving'
      /\ strayed' \in {strayed, strayed \cup {k.camera}}
      /\ answer = "error" /\ k.camera \in driving' \ strayed' => cameraName = k.camera /\ activeDirection # "none"
      /\ UNCHANGED <<ptzCamera, online, reported, ptzState, activeDirection, held, queries>>
  BY DEF DeviceTakes
<1>3. ASSUME command' \in Seq(CommandRecords), Directed(command'), Len(command') <= Len(command)
      PROVE  PtzTypes'
  <2>1. driving' \subseteq PtzCameras /\ strayed' \subseteq PtzCameras
    BY <1>1, <1>2, PtzFacts
  <2>2. Len(command') <= MaxCommands
    <3>1. Len(command) <= MaxCommands /\ MaxCommands \in Nat /\ Len(command') \in Nat
      BY <1>3, PtzAssumption DEF PtzInv, PtzTypes
    <3> QED  BY <1>1, <1>3, <3>1
  <2> QED  BY <1>2, <1>3, <2>1, <2>2, Zenon DEF PtzInv, PtzTypes, Directed
<1>4. CASE k.kind = "stop-notify"
  <2> DEFINE t == RemoveAt(command, i)
             To(j) == IF j < i THEN j ELSE j - 1
             From(j) == IF j < i THEN j ELSE j + 1
  <2>1. command' = t
    BY <1>4 DEF DeviceTakes
  <2>2. /\ t \in Seq(CommandRecords) /\ Len(t) = Len(command) - 1
        /\ \A j \in 1..Len(t) : t[j] = IF j < i THEN command[j] ELSE command[j + 1]
    BY <1>1, WithoutFacts DEF RemoveAt
  <2> HIDE DEF t
  <2>3. \A j \in 1..Len(command) : j # i => To(j) \in 1..Len(t) /\ t[To(j)] = command[j]
    BY <1>1, <2>2
  <2>4. \A j \in 1..Len(t) : From(j) \in 1..Len(command) /\ From(j) # i /\ command[From(j)] = t[j]
    BY <1>1, <2>2
  <2>5. \A j \in 1..Len(t), m \in 1..Len(command) : m # i /\ From(j) < m => j < To(m)
    BY <1>1, <2>2
  <2>6. \A j \in 1..Len(t) : t[j].at = "sent" => i < From(j)
    <3> SUFFICES ASSUME NEW j \in 1..Len(t), t[j].at = "sent" PROVE i < From(j)
      OBVIOUS
    <3>1. From(j) \in 1..Len(command) /\ From(j) # i /\ command[From(j)].at = "sent"
      BY <2>4
    <3> HIDE DEF From
    <3>2. ~ (From(j) \in 1..(i - 1))
      BY <1>1, <3>1 DEF IsNextCommand
    <3> QED  BY <1>1, <3>1, <3>2
  <2> HIDE DEF To, From
  <2>7. PtzTypes'
    <3>1. Directed(t)
      BY <2>4, PtzFacts DEF Directed
    <3>2. Len(t) <= Len(command)
      BY <1>1, <2>2
    <3> QED  BY <1>3, <2>1, <2>2, <3>1, <3>2
  <2>8. \A c \in PtzCameras, j \in 1..Len(command) :
          SentStop(command, c, j) /\ j # i => \E m \in 1..Len(t) : SentStop(t, c, m) /\ m = To(j)
    BY <2>3 DEF SentStop
  <2>9. \A c \in PtzCameras, j \in 1..Len(command) :
          TakenStart(command, c, j) => \E m \in 1..Len(t) : TakenStart(t, c, m)
    <3> SUFFICES ASSUME NEW c \in PtzCameras, NEW j \in 1..Len(command), TakenStart(command, c, j)
                 PROVE  \E m \in 1..Len(t) : TakenStart(t, c, m)
      OBVIOUS
    <3>1. j # i
      BY <1>1 DEF TakenStart
    <3>2. To(j) \in 1..Len(t) /\ TakenStart(t, c, To(j))
      BY <2>3, <3>1 DEF TakenStart
    <3> QED  BY <3>2
  <2>10. \A c \in PtzCameras, j \in 1..Len(t) : SentStart(t, c, j) =>
           \E h \in 1..Len(command) :
             /\ SentStart(command, c, h)
             /\ \A m \in 1..Len(command) : h < m /\ SentStop(command, c, m)
                                             => \E n \in 1..Len(t) : j < n /\ SentStop(t, c, n)
    <3> SUFFICES ASSUME NEW c \in PtzCameras, NEW j \in 1..Len(t), SentStart(t, c, j)
                 PROVE  /\ From(j) \in 1..Len(command) /\ SentStart(command, c, From(j))
                        /\ \A m \in 1..Len(command) : From(j) < m /\ SentStop(command, c, m)
                             => \E n \in 1..Len(t) : j < n /\ SentStop(t, c, n)
      OBVIOUS
    <3>1. From(j) \in 1..Len(command) /\ SentStart(command, c, From(j)) /\ i < From(j)
      BY <2>4, <2>6 DEF SentStart
    <3>2. ASSUME NEW m \in 1..Len(command), From(j) < m, SentStop(command, c, m)
          PROVE  \E n \in 1..Len(t) : j < n /\ SentStop(t, c, n)
      <4>1. m # i
        BY <1>1, <3>1, <3>2
      <4> QED  BY <2>5, <2>8, <3>2, <4>1
    <3> QED  BY <3>1, <3>2
  <2>11. StartShape' /\ DriveShape'
    <3>1. ~ (k.kind = "start")
      BY <1>4
    <3> QED  BY <1>1, <1>2, <2>1, <2>8, <2>9, <2>10, <3>1, Takes
  <2> QED  BY <2>7, <2>11 DEF PtzInv
<1>5. CASE k.kind # "stop-notify"
  <2> DEFINE t == [command EXCEPT ![i].at = answer]
  <2>1. command' = t
    BY <1>5 DEF DeviceTakes
  <2>2. [k EXCEPT !.at = answer] \in CommandRecords
    BY <1>1 DEF CommandRecords
  <2>3. /\ t \in Seq(CommandRecords) /\ Len(t) = Len(command)
        /\ \A j \in 1..Len(t) : t[j] = IF j = i THEN [k EXCEPT !.at = answer] ELSE command[j]
    <3> HIDE DEF k
    <3>1. t = [command EXCEPT ![i] = [k EXCEPT !.at = answer]]
      BY DEF k
    <3> QED  BY <1>1, <2>2, <3>1
  <2>4. /\ t[i].at = answer /\ t[i].kind = k.kind /\ t[i].camera = k.camera /\ t[i].direction = k.direction
    <3>1. /\ [k EXCEPT !.at = answer].at = answer /\ [k EXCEPT !.at = answer].kind = k.kind
          /\ [k EXCEPT !.at = answer].camera = k.camera /\ [k EXCEPT !.at = answer].direction = k.direction
      <4> HIDE DEF k
      <4> QED  BY <1>1 DEF CommandRecords
    <3> QED  BY <1>1, <2>3, <3>1
  <2> HIDE DEF t
  <2>5. PtzTypes'
    <3>1. Directed(t)
      BY <2>3, <2>4, PtzFacts DEF Directed
    <3>2. Len(t) <= Len(command)
      BY <1>1, <2>3
    <3> QED  BY <1>3, <2>1, <2>3, <3>1, <3>2
  <2>6. \A c, j : j # i => /\ SentStop(command, c, j) <=> SentStop(t, c, j)
                           /\ TakenStart(command, c, j) <=> TakenStart(t, c, j)
                           /\ SentStart(command, c, j) <=> SentStart(t, c, j)
    BY <2>3 DEF SentStop, TakenStart, SentStart
  <2>7. \A c : ~ TakenStart(command, c, i) /\ ~ SentStart(t, c, i)
    BY <1>1, <2>4 DEF TakenStart, SentStart
  <2>8. \A c \in PtzCameras, j \in 1..Len(t) : SentStart(t, c, j) =>
           \E h \in 1..Len(command) :
             /\ SentStart(command, c, h)
             /\ \A m \in 1..Len(command) : h < m /\ SentStop(command, c, m)
                                             => \E n \in 1..Len(t) : j < n /\ SentStop(t, c, n)
    <3> SUFFICES ASSUME NEW c \in PtzCameras, NEW j \in 1..Len(t), SentStart(t, c, j)
                 PROVE  /\ j \in 1..Len(command) /\ SentStart(command, c, j)
                        /\ \A m \in 1..Len(command) : j < m /\ SentStop(command, c, m)
                             => \E n \in 1..Len(t) : j < n /\ SentStop(t, c, n)
      OBVIOUS
    <3>1. j \in 1..Len(command) /\ j # i /\ SentStart(command, c, j)
      BY <2>3, <2>6, <2>7
    <3>2. i < j
      <4>1. ~ (j \in 1..(i - 1))
        BY <1>1, <3>1 DEF IsNextCommand, SentStart
      <4> QED  BY <1>1, <3>1, <4>1
    <3>3. ASSUME NEW m \in 1..Len(command), j < m, SentStop(command, c, m)
          PROVE  m \in 1..Len(t) /\ SentStop(t, c, m)
      <4>1. m # i
        BY <1>1, <3>2, <3>3
      <4> QED  BY <2>3, <2>6, <3>3, <4>1
    <3> QED  BY <3>1, <3>3
  <2>9. \A c \in PtzCameras, j \in 1..Len(command) :
           SentStop(command, c, j) /\ j # i => \E m \in 1..Len(t) : SentStop(t, c, m)
    BY <2>3, <2>6
  <2>10. \A c \in PtzCameras, j \in 1..Len(command) :
           TakenStart(command, c, j) => \E m \in 1..Len(t) : TakenStart(t, c, m)
    BY <2>3, <2>6, <2>7
  <2>11. k.kind = "start" /\ answer = "ack" => \E m \in 1..Len(t) : TakenStart(t, k.camera, m)
    BY <2>3, <2>4 DEF TakenStart
  <2>12. StartShape' /\ DriveShape'
    BY <1>1, <1>2, <2>1, <2>8, <2>9, <2>10, <2>11, Takes
  <2> QED  BY <2>5, <2>12 DEF PtzInv
<1> QED  BY <1>4, <1>5

LEMMA MoveEndsStep ==
  ASSUME PtzInv, NEW camera \in PtzCameras, MoveEnds(camera)
  PROVE  PtzInv'
<1>1. cameraName' = cameraName
  BY SameCameraAtHand DEF MoveEnds
<1>2. /\ driving' \subseteq driving
      /\ UNCHANGED <<ptzCamera, online, reported, ptzState, activeDirection, held, command, queries, strayed>>
  BY DEF MoveEnds
<1>3. PtzTypes'
  BY <1>2, Zenon DEF PtzInv, PtzTypes
<1>4. StartShape' /\ DriveShape'
  BY <1>1, <1>2 DEF PtzInv, StartShape, DriveShape
<1> QED  BY <1>3, <1>4 DEF PtzInv

\* A finite set as a sequence: each member once.
LEMMA EachOnce ==
  ASSUME NEW S, IsFiniteSet(S)
  PROVE  /\ Cardinality(S) \in Nat /\ SetToSeq(S) \in [1..Cardinality(S) -> S]
         /\ \A x \in S : \E n \in 1..Cardinality(S) : SetToSeq(S)[n] = x
<1> DEFINE N == Cardinality(S)
           D == 1..N
<1>1. N \in Nat /\ ExistsBijection(D, S)
  BY FS_CardinalityType
<1>2. PICK g \in [D -> S] : \A a, b \in D : g[a] = g[b] => a = b
  BY <1>1 DEF ExistsBijection, Bijection, Injection, IsInjective
<1>3. DOMAIN g = D /\ IsInjective(g)
  BY <1>2 DEF IsInjective
<1>4. SetToSeq(S) \in [D -> S] /\ IsInjective(SetToSeq(S))
  BY <1>3 DEF SetToSeq
<1>5. SetToSeq(S) \in Injection(D, S)
  BY <1>4 DEF Injection, IsInjective
<1>6. IsFiniteSet(D) /\ Cardinality(D) = N
  BY <1>1, FS_Interval
<1>7. SetToSeq(S) \in Surjection(D, S)
  BY <1>5, <1>6, FS_Injection
<1> QED  BY <1>1, <1>4, <1>7 DEF Surjection

LEMMA DisconnectsStep ==
  ASSUME PtzInv, Disconnects
  PROVE  PtzInv'
<1> DEFINE lost == {i \in 1..Len(command) : command[i].at = "sent"}
           awaited == {i \in 1..Len(command) : command[i].at # "sent" \/ command[i].kind # "stop-notify"}
           N == Cardinality(awaited)
           f == SetToSeq(awaited)
           kept == [n \in 1..N |-> command[f[n]]]
           t == [i \in 1..N |-> IF kept[i].at = "sent" THEN [kept[i] EXCEPT !.at = "lost"] ELSE kept[i]]
<1>1. /\ online' = FALSE /\ UNCHANGED <<ptzCamera, reported, ptzState, activeDirection, held, driving>>
      /\ command' = t \o CleanupStop(TRUE) /\ Len(command') <= MaxCommands /\ RefreshEffect(queries)
      /\ strayed' = strayed \cup {command[i].camera : i \in lost}
  BY DEF Disconnects, Commit
<1>2. /\ command \in Seq(CommandRecords) /\ Len(command) \in Nat /\ Directed(command)
      /\ \A i \in 1..Len(command) : command[i] \in CommandRecords /\ command[i].camera \in PtzCameras
  BY PtzFacts, CommandFacts
<1>3. N \in Nat /\ f \in [1..N -> awaited] /\ \A x \in awaited : \E n \in 1..N : f[n] = x
  <2>1. IsFiniteSet(awaited)
    <3>1. IsFiniteSet(1..Len(command))
      BY <1>2, FS_Interval
    <3> QED  BY <3>1, FS_Subset
  <2> HIDE DEF awaited
  <2> QED  BY <2>1, EachOnce
<1> HIDE DEF N, f
<1>4. \A n \in 1..N : /\ f[n] \in 1..Len(command) /\ kept[n] = command[f[n]]
                      /\ kept[n] \in CommandRecords
  BY <1>2, <1>3
<1> HIDE DEF kept
<1>5. \A k \in CommandRecords :
        /\ [k EXCEPT !.at = "lost"] \in CommandRecords /\ [k EXCEPT !.at = "lost"].at = "lost"
        /\ [k EXCEPT !.at = "lost"].kind = k.kind /\ [k EXCEPT !.at = "lost"].direction = k.direction
  BY DEF CommandRecords
<1>6. \A n \in 1..N : /\ t[n] \in CommandRecords /\ t[n].at # "sent" /\ t[n].kind = kept[n].kind
                      /\ t[n].direction = kept[n].direction
                      /\ kept[n].at # "sent" => t[n] = kept[n]
  BY <1>4, <1>5
<1>7. t \in Seq(CommandRecords) /\ Len(t) = N
  <2>1. t \in [1..N -> CommandRecords]
    BY <1>6
  <2> HIDE DEF t
  <2> QED  BY <1>3, <2>1
<1> HIDE DEF t
<1>8. Directed(t)
  BY <1>2, <1>4, <1>6, <1>7 DEF Directed
<1>9. PtzTypes
  BY DEF PtzInv
<1>10. t \o CleanupStop(TRUE)
         = IF activeDirection # "none" /\ cameraName # NoCamera THEN Append(t, Stop(cameraName)) ELSE t
  BY <1>7, <1>9, Cleanup
<1>11. \/ command' = t /\ ~ (activeDirection # "none" /\ cameraName # NoCamera)
       \/ command' = Append(t, Stop(cameraName)) /\ cameraName # NoCamera
  BY <1>1, <1>10
<1>12. PtzTypes'
  <2>1. /\ ptzCamera' \in PtzCameras \cup {NoCamera} /\ online' \in BOOLEAN /\ reported' \in Reports
        /\ ptzState' \in StateRecords /\ activeDirection' \in PtzDirections \cup {"none"}
        /\ held' \in PtzDirections \cup {"none"} /\ driving' \subseteq PtzCameras
    BY <1>1, PtzFacts
  <2>2. strayed' \subseteq PtzCameras
    BY <1>1, <1>2, PtzFacts
  <2>3. PICK open \in SUBSET QueryRecords : open = queries /\ RefreshEffect(open)
    BY <1>1, PtzFacts
  <2>4. command' = t \/ (command' = Append(t, Stop(cameraName)) /\ cameraName # NoCamera)
    BY <1>11
  <2>5. PICK s \in Seq(CommandRecords) : s = t
    BY <1>7
  <2>6. Directed(s) /\ (command' = s \/ (command' = Append(s, Stop(cameraName)) /\ cameraName # NoCamera))
    BY <1>8, <2>4, <2>5
  <2> QED  BY <1>1, <1>9, <2>1, <2>2, <2>3, <2>6, CommitTypes
<1>13. cameraName' = cameraName
  BY <1>1, SameCameraAtHand
\* What is on its way after it is the cleanup's stop at most.
<1>14. \A i \in 1..Len(command') : /\ i \in 1..N => command'[i] = t[i]
                                   /\ i \notin 1..N => command'[i].kind = "stop-notify"
  <2>1. CASE command' = t
    BY <1>7, <2>1
  <2>2. CASE command' = Append(t, Stop(cameraName)) /\ cameraName # NoCamera
    <3>1. PICK x \in CommandRecords : x = Stop(cameraName)
      BY <1>7, <1>9, <2>2, Cleanup
    <3>2. x.kind = "stop-notify"
      BY <3>1 DEF Stop, Command
    <3>3. PICK s \in Seq(CommandRecords) : s = t
      BY <1>7
    <3>4. /\ \A i \in 1..Len(s) : Append(s, x)[i] = s[i]
          /\ \A i \in 1..Len(Append(s, x)) : i \in 1..Len(s) \/ Append(s, x)[i] = x
      BY AppendKeeps
    <3> QED  BY <1>7, <2>2, <3>1, <3>2, <3>3, <3>4
  <2> QED  BY <1>11, <2>1, <2>2
<1>15. StartShape'
  BY <1>6, <1>14 DEF StartShape, SentStart
<1>16. \A i \in 1..N : i \in 1..Len(command') /\ command'[i] = t[i]
  <2>1. CASE command' = t
    BY <1>7, <2>1
  <2>2. CASE command' = Append(t, Stop(cameraName)) /\ cameraName # NoCamera
    <3>1. PICK x \in CommandRecords : x = Stop(cameraName)
      BY <1>7, <1>9, <2>2, Cleanup
    <3>2. PICK s \in Seq(CommandRecords) : s = t
      BY <1>7
    <3>3. \A i \in 1..Len(s) : i \in 1..Len(Append(s, x)) /\ Append(s, x)[i] = s[i]
      BY AppendKeeps
    <3> QED  BY <1>7, <2>2, <3>1, <3>2, <3>3
  <2> QED  BY <1>11, <2>1, <2>2
<1>17. DriveShape'
  <2> SUFFICES ASSUME NEW c \in driving \ strayed'
               PROVE  \/ \E j \in 1..Len(command') : SentStop(command', c, j)
                      \/ cameraName = c /\ activeDirection # "none"
                      \/ cameraName = c /\ held # "none" /\ \E j \in 1..Len(command') : TakenStart(command', c, j)
    BY <1>1, <1>13 DEF DriveShape
  <2>1. \A j \in 1..Len(command) : ~ SentStop(command, c, j)
    BY <1>1 DEF SentStop
  <2>2. \/ cameraName = c /\ activeDirection # "none"
        \/ cameraName = c /\ held # "none" /\ \E j \in 1..Len(command) : TakenStart(command, c, j)
    BY <1>1, <2>1 DEF PtzInv, DriveShape
  <2>3. CASE cameraName = c /\ held # "none" /\ \E j \in 1..Len(command) : TakenStart(command, c, j)
    <3>1. PICK j \in 1..Len(command) : TakenStart(command, c, j)
      BY <2>3
    <3>2. j \in awaited /\ command[j].at = "ack"
      BY <3>1 DEF TakenStart
    <3>3. PICK n \in 1..N : f[n] = j
      BY <1>3, <3>2
    <3>4. n \in 1..Len(command') /\ command'[n] = command[j]
      BY <1>4, <1>6, <1>16, <3>2, <3>3
    <3>5. TakenStart(command', c, n)
      BY <3>1, <3>4 DEF TakenStart
    <3> QED  BY <2>3, <3>4, <3>5
  <2> QED  BY <2>2, <2>3
<1> QED  BY <1>12, <1>15, <1>17 DEF PtzInv

\* Every step of the page, the transport and the device keeps the invariant.
LEMMA PtzStepInv ==
  ASSUME PtzInv, PtzNext
  PROVE  PtzInv'
BY SelectCameraStep, DisconnectsStep, ConnectsStep, ContextRenewsStep, beginMoveStep, endMoveStep,
   SendTargetStep, refreshPositionStep, DeviceTakesStep, MoveEndsStep, CommandSettlesStep, QuerySettlesStep
   DEF PtzNext

-----------------------------------------------------------------------------
(* The pages together                                                       *)

\* The invariant of the part at work.
DevicePagesInv ==
  /\ part = "ptz" => PtzInv
  /\ part = "runtime" => RmInv
  /\ part = "panels" => DpInv
  /\ part = "roi" => RoiInv
  /\ part = "canvas" => RcvInv

\* A step that leaves a part's variables alone keeps its invariant.
LEMMA PtzRests == PtzInv /\ UNCHANGED ptzVars => PtzInv'
BY DEF PtzInv, PtzTypes, StartShape, DriveShape, ptzVars, cameraName, ReportedCamera

LEMMA RmRests == RmInv /\ UNCHANGED rmVars => RmInv'
BY DEF RmInv, RmTypes, RmTypeOK, MutationShape, AnswerShape, DataShape, Changing, Done, rmVars

LEMMA DpRests == DpInv /\ UNCHANGED dpVars => DpInv'
BY DEF DpInv, DpTypes, DpTypeOK, QueuedJobIsShown, dpVars

LEMMA RoiRests == RoiInv /\ UNCHANGED roiVars => RoiInv'
BY DEF RoiInv, RoiTypes, Unraced, SaveShape, GetShape, currentDocument, roiVars

LEMMA RcvRests == RcvInv /\ UNCHANGED rcvVars => RcvInv'
BY DEF RcvInv, RcvTypeOK, DrawnBoxIsInFrame, insideFrame, frameRect, rcvVars

\* The pages' invariant holds in every state of the web side.
THEOREM DevicePagesInvariance == Spec => []DevicePagesInv
<1>1. Init => DevicePagesInv
  BY PtzInitially, RmInitially, DpInitially, RoiInitially, RcvInitially DEF Init, DevicePagesInv
<1>2. DevicePagesInv /\ [Next]_vars => DevicePagesInv'
  <2> SUFFICES ASSUME DevicePagesInv, [Next]_vars PROVE DevicePagesInv'
    OBVIOUS
  <2> USE DEF Next, vars, OthersOff, GwStep, GlStep, LtStep, LvStep, LlStep, PtzStep, RmStep, ScStep,
              DpStep, RoiStep, RcvStep
  <2>1. part' = part
    OBVIOUS
  <2>2. part = "ptz" => [PtzNext]_ptzVars
    OBVIOUS
  <2>3. part = "runtime" => [RmNext]_rmVars
    OBVIOUS
  <2>4. part = "panels" => [DpNext]_dpVars
    OBVIOUS
  <2>5. part = "roi" => [RoiNext]_roiVars
    OBVIOUS
  <2>6. part = "canvas" => [RcvNext]_rcvVars
    OBVIOUS
  <2> HIDE DEF Next, vars, OthersOff, GwStep, GlStep, LtStep, LvStep, LlStep, PtzStep, RmStep, ScStep,
               DpStep, RoiStep, RcvStep
  <2>7. (part = "ptz" => PtzInv') /\ (part = "runtime" => RmInv')
    BY <2>2, <2>3, PtzStepInv, PtzRests, RmStepInv, RmRests DEF DevicePagesInv
  <2>8. (part = "panels" => DpInv') /\ (part = "roi" => RoiInv') /\ (part = "canvas" => RcvInv')
    BY <2>4, <2>5, <2>6, DpStepInv, DpRests, RoiStepInv, RoiRests, RcvStepInv, RcvRests DEF DevicePagesInv
  <2> QED  BY <2>1, <2>7, <2>8 DEF DevicePagesInv
<1> QED  BY <1>1, <1>2, PTL DEF Spec

\* A camera that moves has a stop on its way or is still at hand, also after a stop failed, the
\* runtime manager shows the definition installed once a change was acknowledged, a job acknowledged
\* is in the list shown next, an ROI edit saved is not undone by an older answer, and a box drawn lies
\* inside the frame: for any cameras, reports, services, versions, documents, containers and bounds,
\* with the exceptions strayed, unseen and raced that the property names.
THEOREM DevicePagesKeepToTheDevice == Spec => []DevicePagesShowTheDevice
<1>1. DevicePagesInv => DevicePagesShowTheDevice
  BY PtzInvStops, RmInvShows, RoiInvStays DEF DevicePagesInv, DevicePagesShowTheDevice, DpInv, RcvInv
<1> QED  BY <1>1, DevicePagesInvariance, PTL
=============================================================================
