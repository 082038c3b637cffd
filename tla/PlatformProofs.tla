--------------------------- MODULE PlatformProofs ---------------------------
(***************************************************************************)
(* Proofs about workflows: the executor of a run, the button that starts one *)
(* by hand and the tab that shows it, the scheduler, the schedule builder, the *)
(* editor and its blocks.  For each an inductive invariant, and at the end the  *)
(* composition with the administration side: the component at work keeps its    *)
(* own, the others hold no state.                                                *)
(***************************************************************************)
EXTENDS AdministrationProofs

-----------------------------------------------------------------------------
(* The executor: one run of a chart                                        *)

WfKeys == Nodes \cup {EventOf(n) : n \in Nodes}

\* What the variables hold, the arrivals of mode "any" included.
WfShape ==
    /\ chart \in Charts
    /\ stage \in [Nodes -> {"waiting", "events", "running", "emitting", "done"}]
    /\ outcome \in [Nodes -> {"none", "ran", "threw", "skipped"}]
    /\ results \in [WfKeys -> Results]
    /\ heard \in [Nodes -> SUBSET Nodes]
    /\ arrived \in [Nodes -> SUBSET (Nodes \X BOOLEAN)]
    /\ source \in [Nodes -> Nodes \cup {NoNode}]
    /\ awaiting \in [Nodes -> SUBSET Nodes]
    /\ fired \subseteq Nodes /\ expired \subseteq Nodes

\* The stage of a node, its outcome and its entry in resultMap move together.
EndsAgree(n) ==
    /\ outcome[n] = "none" <=> stage[n] \in {"waiting", "events", "running"}
    /\ results[n] = "none" <=> outcome[n] = "none"
    /\ results[n] = "failed" <=> outcome[n] \in {"threw", "skipped"}

\* What n has heard of and has queued has completed, unless a wait of n timed out.
HeardAreDone(n) ==
    /\ heard[n] \subseteq Sources(n)
    /\ n \notin expired => \A s \in heard[n] : stage[s] = "done"
    /\ \A x \in arrived[n] :
         IF x[2] THEN n \in expired ELSE stage[x[1]] = "done"
    /\ stage[n] = "events" /\ chart.mode[n] = "all" => heard[n] = Sources(n)

\* Mode "any" has chosen a source when it looks at events or has gone on to execute.
ChoiceFits(n) ==
    /\ source[n] # NoNode => chart.mode[n] = "any" /\ stage[source[n]] = "done"
    /\ stage[n] = "waiting" => source[n] = NoNode
    /\ stage[n] = "events" /\ chart.mode[n] = "any" => source[n] # NoNode

\* An alternative that was looked at and found wanting, for good.
TurnedDown(n, s) ==
    \E d \in chart.deps[n] : /\ s \in {NoNode, d.from}
                             /\ d.handle = "event" \/ (stage[d.from] = "done" /\ ~Satisfied(d))

\* Until it starts, a node in mode "any" has queued, has chosen or has rejected whom it heard of.
RejectionsFit(n) ==
    /\ expired = {} /\ chart.mode[n] = "any" /\ stage[n] \in {"waiting", "events"} =>
         \A s \in heard[n] : \/ s = source[n]
                             \/ \E x \in arrived[n] : x[1] = s
                             \/ TurnedDown(n, s)
    /\ outcome[n] = "skipped" /\ expired = {} =>
         \A s \in IF chart.mode[n] = "any" THEN Sources(n) ELSE {NoNode} : TurnedDown(n, s)

StartsFit(n) ==
    stage[n] = "running" \/ outcome[n] \in {"ran", "threw"} =>
       \/ chart.mode[n] = "all" /\ n \in expired
       \/ \A d \in Considered(n) : stage[d.from] = "done" /\ Satisfied(d)

WfInv ==
    /\ WfShape
    /\ \A n \in Nodes : results[EventOf(n)] \in {"true", "false"} => n \in fired
    /\ \A n \in Nodes : EndsAgree(n) /\ HeardAreDone(n) /\ ChoiceFits(n) /\ RejectionsFit(n) /\ StartsFit(n)

\* One node takes a step.
WfAct(k) ==
    \/ executeNode(k) \/ EmitCompletion(k) \/ EmitFails(k)
    \/ SourcesComplete(k) \/ waitForAnyDependency(k) \/ Decide(k)
    \/ \E v \in {"true", "false", "failed"} : FireEvent(k, v)
    \/ \E s \in Nodes : CompletionTimesOut(k, s) \/ EventTimesOut(k, s)

LEMMA WfActs == WfNext => \E k \in Nodes : WfAct(k)
BY DEF WfNext, WfAct

LEMMA ChartFacts ==
  ASSUME chart \in Charts
  PROVE  /\ \A n \in Nodes : chart.mode[n] \in {"all", "any"}
         /\ \A n \in Nodes : \A d \in chart.deps[n] :
              /\ d.from \in Nodes /\ d.from \in Sources(n) /\ d.from # NoNode
              /\ d.handle \in {"success", "output", "event"}
              /\ d.cond \in {"none", "true", "false"}
         /\ \A n \in Nodes : Sources(n) \subseteq Nodes
<1>1. /\ chart.mode \in [Nodes -> {"all", "any"}]
      /\ chart.deps \in [Nodes -> SUBSET [from : Nodes, handle : {"success", "output", "event"},
                                          cond : {"none", "true", "false"}]]
  BY WfAssumption
<1>2. \A n \in Nodes : \A d \in chart.deps[n] :
         d \in [from : Nodes, handle : {"success", "output", "event"}, cond : {"none", "true", "false"}]
  BY <1>1
<1>3. \A n \in Nodes : \A d \in chart.deps[n] : d.from \in Nodes /\ d.handle \in {"success", "output", "event"}
                                                  /\ d.cond \in {"none", "true", "false"}
  BY <1>2
<1> QED BY <1>1, <1>3, WfAssumption DEF Sources

LEMMA KeyFacts ==
  /\ \A n \in Nodes : n \in WfKeys /\ EventOf(n) \in WfKeys
  /\ \A n, m \in Nodes : EventOf(n) # m
  /\ \A n, m \in Nodes : EventOf(n) = EventOf(m) => n = m
BY WfAssumption DEF WfKeys, EventOf

\* A step of k leaves alone where the other nodes stand, and whoever is done stays as it is.
LEMMA OthersStand ==
  ASSUME WfShape, NEW k \in Nodes, WfAct(k)
  PROVE  /\ chart' = chart /\ fired \subseteq fired' /\ expired \subseteq expired'
         /\ \A n \in Nodes \ {k} : /\ stage'[n] = stage[n] /\ outcome'[n] = outcome[n]
                                   /\ results'[n] = results[n] /\ source'[n] = source[n]
         /\ stage[k] = "done" => /\ stage'[k] = stage[k] /\ outcome'[k] = outcome[k]
                                 /\ results'[k] = results[k] /\ source'[k] = source[k]
<1> USE DEF WfShape
<1>1. CASE executeNode(k) BY <1>1 DEF executeNode
<1>2. CASE EmitCompletion(k) BY <1>2 DEF EmitCompletion
<1>3. CASE EmitFails(k) BY <1>3 DEF EmitFails
<1>4. CASE SourcesComplete(k) BY <1>4 DEF SourcesComplete
<1>5. CASE waitForAnyDependency(k)
  <2>1. stage[k] = "waiting" /\ chart' = chart /\ fired' = fired /\ expired' = expired
    BY <1>5 DEF waitForAnyDependency
  <2>2. CASE /\ outcome' = outcome /\ results' = results
             /\ \/ UNCHANGED <<stage, source>>
                \/ \E z : source' = [source EXCEPT ![k] = z] /\ stage' = [stage EXCEPT ![k] = "events"]
    BY <2>1, <2>2
  <2>3. CASE Skip(k) /\ source' = source
    BY <2>1, <2>3 DEF Skip
  <2> QED BY <1>5, <2>2, <2>3 DEF waitForAnyDependency
<1>6. CASE Decide(k)
  <2>1. stage[k] = "events" /\ chart' = chart /\ fired' = fired /\ expired' = expired
    BY <1>6 DEF Decide
  <2>2. \/ stage' = [stage EXCEPT ![k] = "running"] /\ UNCHANGED <<outcome, results, source>>
        \/ Skip(k) /\ source' = source
        \/ /\ stage' = [stage EXCEPT ![k] = "waiting"] /\ source' = [source EXCEPT ![k] = NoNode]
           /\ UNCHANGED <<outcome, results>>
    BY <1>6 DEF Decide
  <2>3. CASE stage' = [stage EXCEPT ![k] = "running"] /\ UNCHANGED <<outcome, results, source>>
    BY <2>1, <2>3
  <2>4. CASE Skip(k) /\ source' = source BY <2>1, <2>4 DEF Skip
  <2>5. CASE /\ stage' = [stage EXCEPT ![k] = "waiting"] /\ source' = [source EXCEPT ![k] = NoNode]
             /\ UNCHANGED <<outcome, results>>
    BY <2>1, <2>5
  <2> QED BY <2>2, <2>3, <2>4, <2>5
<1>7. ASSUME NEW v \in {"true", "false", "failed"}, FireEvent(k, v) PROVE
         /\ chart' = chart /\ fired \subseteq fired' /\ expired' = expired
         /\ stage' = stage /\ outcome' = outcome /\ source' = source
         /\ \A n \in Nodes : results'[n] = results[n]
  BY <1>7, KeyFacts DEF FireEvent
<1>8. ASSUME NEW s \in Nodes, CompletionTimesOut(k, s) \/ EventTimesOut(k, s) PROVE
         /\ chart' = chart /\ fired' = fired /\ expired \subseteq expired'
         /\ stage' = stage /\ outcome' = outcome /\ source' = source
         /\ \A n \in Nodes : results'[n] = results[n]
  <2>1. s \in Nodes /\ EventOf(s) \in WfKeys /\ \A n \in Nodes : n # EventOf(s)
    BY KeyFacts
  <2>2. CASE CompletionTimesOut(k, s) BY <2>2 DEF CompletionTimesOut
  <2>3. CASE EventTimesOut(k, s)
    <3>1. results' = [results EXCEPT ![EventOf(s)] = "failed"]
      BY <2>3 DEF EventTimesOut
    <3>2. \A n \in Nodes : results'[n] = results[n]
      BY <2>1, <3>1, KeyFacts
    <3> QED BY <2>3, <3>2 DEF EventTimesOut
  <2> QED BY <1>8, <2>2, <2>3
<1> QED BY <1>1, <1>2, <1>3, <1>4, <1>5, <1>6, <1>7, <1>8 DEF WfAct

\* What is satisfied by a node that is done stays so, and so does what is not, events apart.
LEMMA StillSatisfied ==
  ASSUME WfShape, NEW k \in Nodes, WfAct(k), NEW n \in Nodes, NEW d \in chart.deps[n], stage[d.from] = "done"
  PROVE  /\ stage'[d.from] = "done"
         /\ Satisfied(d) => Satisfied(d)'
         /\ d.handle # "event" /\ ~Satisfied(d) => ~Satisfied(d)'
<1>1. d.from \in Nodes /\ d.handle \in {"success", "output", "event"}
  BY ChartFacts DEF WfShape
<1>2. stage'[d.from] = "done" /\ outcome'[d.from] = outcome[d.from] /\ results'[d.from] = results[d.from]
  BY <1>1, OthersStand
<1>3. fired \subseteq fired' BY OthersStand
<1> QED BY <1>1, <1>2, <1>3 DEF Satisfied

LEMMA StillRejected ==
  ASSUME WfShape, NEW k \in Nodes, WfAct(k), NEW n \in Nodes, NEW s, TurnedDown(n, s)
  PROVE  TurnedDown(n, s)'
<1>1. chart' = chart BY OthersStand
<1>2. PICK d \in chart.deps[n] : /\ s \in {NoNode, d.from}
                                 /\ d.handle = "event" \/ (stage[d.from] = "done" /\ ~Satisfied(d))
  BY DEF TurnedDown
<1>3. d.handle = "event" \/ (stage'[d.from] = "done" /\ ~Satisfied(d)')
  BY <1>2, StillSatisfied
<1> QED BY <1>1, <1>2, <1>3 DEF TurnedDown

\* Whoever stands where it stood, with the source it had, starts or is skipped for the same reasons.
LEMMA StandingStarts ==
  ASSUME WfInv, NEW k \in Nodes, WfAct(k), NEW n \in Nodes,
         source'[n] = source[n],
         stage'[n] = "running" \/ outcome'[n] \in {"ran", "threw"} =>
           stage[n] = "running" \/ outcome[n] \in {"ran", "threw"}
  PROVE  StartsFit(n)'
<1>1. WfShape /\ chart' = chart /\ expired \subseteq expired'
  BY OthersStand DEF WfInv
<1>2. Considered(n)' = Considered(n) /\ Considered(n) \subseteq chart.deps[n]
  BY <1>1 DEF Considered
<1>3. SUFFICES ASSUME stage[n] = "running" \/ outcome[n] \in {"ran", "threw"}
               PROVE  \/ chart.mode[n] = "all" /\ n \in expired
                      \/ \A d \in Considered(n) : stage'[d.from] = "done" /\ Satisfied(d)'
  BY <1>1, <1>2 DEF StartsFit
<1>4. StartsFit(n) BY DEF WfInv
<1> QED BY <1>1, <1>2, <1>3, <1>4, StillSatisfied DEF StartsFit

LEMMA StandingSkips ==
  ASSUME WfInv, NEW k \in Nodes, WfAct(k), NEW n \in Nodes, outcome'[n] = "skipped" => outcome[n] = "skipped"
  PROVE  outcome'[n] = "skipped" /\ expired' = {} =>
           \A s \in IF chart'.mode[n] = "any" THEN Sources(n)' ELSE {NoNode} : TurnedDown(n, s)'
<1>1. WfShape /\ chart' = chart /\ expired \subseteq expired'
  BY OthersStand DEF WfInv
<1>2. Sources(n)' = Sources(n) BY <1>1 DEF Sources
<1>3. RejectionsFit(n) BY DEF WfInv
<1>4. SUFFICES ASSUME outcome[n] = "skipped", expired = {},
                      NEW s \in IF chart.mode[n] = "any" THEN Sources(n) ELSE {NoNode}
               PROVE  TurnedDown(n, s)'
  BY <1>1, <1>2
<1> QED BY <1>1, <1>3, <1>4, StillRejected DEF RejectionsFit

NodeFits(n) == EndsAgree(n) /\ HeardAreDone(n) /\ ChoiceFits(n) /\ RejectionsFit(n) /\ StartsFit(n)

\* Whoever is done stays done.
LEMMA DoneStays ==
  ASSUME WfShape, NEW k \in Nodes, WfAct(k)
  PROVE  \A s \in Nodes : stage[s] = "done" => stage'[s] = "done"
BY OthersStand

LEMMA QueueTypes ==
  ASSUME WfShape, NEW n \in Nodes
  PROVE  arrived[n] \subseteq Nodes \X BOOLEAN /\ \A x \in arrived[n] : x[1] \in Nodes /\ x[2] \in BOOLEAN
BY DEF WfShape

\* A node that a step does not move, and whose waits it does not resolve.
LEMMA StandingNode ==
  ASSUME WfInv, NEW k \in Nodes, WfAct(k), NEW n \in Nodes,
         stage'[n] = stage[n], outcome'[n] = outcome[n], results'[n] = results[n], source'[n] = source[n],
         heard'[n] = heard[n], arrived'[n] = arrived[n]
  PROVE  NodeFits(n)'
<1>1. WfShape /\ chart' = chart /\ expired \subseteq expired'
  BY OthersStand DEF WfInv
<1>2. Sources(n)' = Sources(n) /\ chart.mode[n] \in {"all", "any"} /\ Sources(n) \subseteq Nodes
  BY <1>1, ChartFacts DEF Sources, WfShape
<1>3. EndsAgree(n) /\ HeardAreDone(n) /\ ChoiceFits(n) /\ RejectionsFit(n)
  BY DEF WfInv
<1>4. EndsAgree(n)' BY <1>3 DEF EndsAgree
<1>5. HeardAreDone(n)'
  BY <1>1, <1>2, <1>3, QueueTypes, DoneStays DEF HeardAreDone
<1>6. ChoiceFits(n)'
  <2>1. source[n] \in Nodes \cup {NoNode} BY <1>1 DEF WfShape
  <2> QED BY <1>1, <1>3, <2>1, DoneStays DEF ChoiceFits
<1>7. RejectionsFit(n)'
  <2>1. ASSUME expired' = {}, chart.mode[n] = "any", stage[n] \in {"waiting", "events"}, NEW s \in heard[n]
        PROVE  \/ s = source[n]
               \/ \E x \in arrived[n] : x[1] = s
               \/ TurnedDown(n, s)'
    <3>1. \/ s = source[n]
          \/ \E x \in arrived[n] : x[1] = s
          \/ TurnedDown(n, s)
      BY <1>1, <1>3, <2>1 DEF RejectionsFit
    <3> QED BY <1>1, <3>1, StillRejected
  <2> QED BY <1>1, <2>1, StandingSkips DEF RejectionsFit
<1>8. StartsFit(n)' BY StandingStarts
<1> QED BY <1>4, <1>5, <1>6, <1>7, <1>8 DEF NodeFits

\* The handler returns or throws.
LEMMA ExecuteFits ==
  ASSUME WfInv, NEW k \in Nodes, executeNode(k)
  PROVE  WfInv'
<1>1. WfShape /\ WfAct(k) BY DEF WfInv, WfAct
<1>2. PICK r \in {"true", "false", "failed"} :
         /\ results' = [results EXCEPT ![k] = r]
         /\ outcome' = [outcome EXCEPT ![k] = IF r = "failed" THEN "threw" ELSE "ran"]
  BY DEF executeNode
<1>3. /\ stage[k] = "running" /\ stage' = [stage EXCEPT ![k] = "emitting"]
      /\ UNCHANGED <<chart, heard, arrived, source, awaiting, fired, expired>>
  BY DEF executeNode
<1>4. WfShape' BY <1>1, <1>2, <1>3, KeyFacts DEF WfShape, Results
<1>5. \A n \in Nodes : results'[EventOf(n)] = results[EventOf(n)]
  BY <1>1, <1>2, KeyFacts DEF WfShape
<1>6. \A n \in Nodes \ {k} : NodeFits(n)'
  BY <1>1, <1>3, OthersStand, StandingNode
<1>7. NodeFits(k)'
  <2>1. /\ stage'[k] = "emitting" /\ results'[k] = r /\ outcome'[k] = IF r = "failed" THEN "threw" ELSE "ran"
    BY <1>1, <1>2, <1>3, KeyFacts DEF WfShape
  <2>2. EndsAgree(k)' BY <2>1 DEF EndsAgree
  <2>3. HeardAreDone(k) /\ ChoiceFits(k) BY DEF WfInv
  <2>4. Sources(k)' = Sources(k) /\ Sources(k) \subseteq Nodes
    BY <1>1, <1>3, ChartFacts DEF Sources, WfShape
  <2>5. HeardAreDone(k)'
    BY <1>1, <1>3, <2>1, <2>3, <2>4, QueueTypes, DoneStays DEF HeardAreDone
  <2>6. ChoiceFits(k)'
    <3>1. source[k] \in Nodes \cup {NoNode} BY <1>1 DEF WfShape
    <3> QED BY <1>1, <1>3, <2>1, <2>3, <3>1, DoneStays DEF ChoiceFits
  <2>7. RejectionsFit(k)' BY <2>1 DEF RejectionsFit
  <2>8. StartsFit(k)' BY <1>1, <1>3, StandingStarts
  <2> QED BY <2>2, <2>5, <2>6, <2>7, <2>8 DEF NodeFits
<1> QED BY <1>3, <1>4, <1>5, <1>6, <1>7 DEF WfInv, NodeFits

\* Sending the completion failed.
LEMMA EmitFailsFits ==
  ASSUME WfInv, NEW k \in Nodes, EmitFails(k)
  PROVE  WfInv'
<1>1. WfShape /\ WfAct(k) BY DEF WfInv, WfAct
<1>2. /\ stage[k] = "emitting" /\ outcome[k] = "ran"
      /\ outcome' = [outcome EXCEPT ![k] = "threw"] /\ results' = [results EXCEPT ![k] = "failed"]
      /\ UNCHANGED <<chart, stage, heard, arrived, source, awaiting, fired, expired>>
  BY DEF EmitFails
<1>4. WfShape' BY <1>1, <1>2, KeyFacts DEF WfShape, Results
<1>5. \A n \in Nodes : results'[EventOf(n)] = results[EventOf(n)]
  BY <1>1, <1>2, KeyFacts DEF WfShape
<1>6. \A n \in Nodes \ {k} : NodeFits(n)'
  BY <1>1, <1>2, OthersStand, StandingNode
<1>7. NodeFits(k)'
  <2>1. stage'[k] = "emitting" /\ results'[k] = "failed" /\ outcome'[k] = "threw"
    BY <1>1, <1>2, KeyFacts DEF WfShape
  <2>2. EndsAgree(k)' BY <2>1 DEF EndsAgree
  <2>3. HeardAreDone(k) /\ ChoiceFits(k) BY DEF WfInv
  <2>4. Sources(k)' = Sources(k) BY <1>2 DEF Sources
  <2>5. HeardAreDone(k)' BY <1>2, <2>3, <2>4 DEF HeardAreDone
  <2>6. ChoiceFits(k)' BY <1>2, <2>3 DEF ChoiceFits
  <2>7. RejectionsFit(k)' BY <2>1 DEF RejectionsFit
  <2>8. StartsFit(k)' BY <1>1, <1>2, StandingStarts
  <2> QED BY <2>2, <2>5, <2>6, <2>7, <2>8 DEF NodeFits
<1> QED BY <1>2, <1>4, <1>5, <1>6, <1>7 DEF WfInv, NodeFits

\* The waits a completion, or its timeout, resolves.
Opens(n, s) == s \in Sources(n) /\ s \notin heard[n]

LEMMA CompletesFacts ==
  ASSUME WfShape, NEW s \in Nodes, NEW t \in BOOLEAN, NEW W \in SUBSET Nodes, Completes(s, t, W)
  PROVE  /\ heard' \in [Nodes -> SUBSET Nodes] /\ arrived' \in [Nodes -> SUBSET (Nodes \X BOOLEAN)]
         /\ \A n \in Nodes : n \in W /\ Opens(n, s) =>
              /\ heard'[n] = heard[n] \cup {s}
              /\ chart.mode[n] = "any" => arrived'[n] = arrived[n] \cup {<<s, t>>}
              /\ chart.mode[n] # "any" => arrived'[n] = arrived[n]
         /\ \A n \in Nodes : ~(n \in W /\ Opens(n, s)) => heard'[n] = heard[n] /\ arrived'[n] = arrived[n]
<1> DEFINE open == {w \in W : s \in Sources(w) /\ s \notin heard[w]}
<1>1. /\ heard' = [w \in Nodes |-> heard[w] \cup IF w \in open THEN {s} ELSE {}]
      /\ arrived' = [w \in Nodes |->
           IF w \in open /\ chart.mode[w] = "any" THEN arrived[w] \cup {<<s, t>>} ELSE arrived[w]]
  BY DEF Completes
<1>2. \A w \in Nodes : w \in open <=> w \in W /\ Opens(w, s)
  BY DEF Opens
<1> HIDE DEF open
<1>3. \A n \in Nodes : heard[n] \in SUBSET Nodes /\ arrived[n] \in SUBSET (Nodes \X BOOLEAN)
  BY DEF WfShape
<1>4. <<s, t>> \in Nodes \X BOOLEAN OBVIOUS
<1>5. \A n \in Nodes : arrived[n] \cup {<<s, t>>} \in SUBSET (Nodes \X BOOLEAN)
  BY <1>3, <1>4
<1> QED BY <1>1, <1>2, <1>3, <1>5

\* The step has sent k's completion, or another's has timed out for n: n's waits and its queue fit.
LEMMA ResolvedNode ==
  ASSUME WfInv, NEW k \in Nodes, WfAct(k), NEW n \in Nodes, NEW s \in Nodes, NEW t \in BOOLEAN, Opens(n, s),
         heard'[n] = heard[n] \cup {s},
         chart.mode[n] = "any" => arrived'[n] = arrived[n] \cup {<<s, t>>},
         chart.mode[n] # "any" => arrived'[n] = arrived[n],
         stage'[n] = "events" \/ stage'[n] = "waiting" => stage'[n] = stage[n],
         source'[n] = source[n],
         IF t THEN n \in expired' ELSE stage'[s] = "done"
  PROVE  /\ HeardAreDone(n)'
         /\ expired' = {} /\ chart'.mode[n] = "any" /\ stage'[n] \in {"waiting", "events"} =>
              \A z \in heard'[n] : \/ z = source'[n]
                                   \/ \E x \in arrived'[n] : x[1] = z
                                   \/ TurnedDown(n, z)'
<1>1. WfShape /\ chart' = chart /\ expired \subseteq expired'
  BY OthersStand DEF WfInv
<1>2. Sources(n)' = Sources(n) /\ chart.mode[n] \in {"all", "any"} /\ Sources(n) \subseteq Nodes
  BY <1>1, ChartFacts DEF Sources, WfShape
<1>3. HeardAreDone(n) /\ RejectionsFit(n) BY DEF WfInv
<1>4. heard[n] \subseteq Nodes BY <1>1 DEF WfShape
<1>5. HeardAreDone(n)'
  <2>1. heard'[n] \subseteq Sources(n) BY <1>3 DEF HeardAreDone, Opens
  <2>2. n \notin expired' => \A z \in heard'[n] : stage'[z] = "done"
    BY <1>1, <1>3, <1>4, DoneStays DEF HeardAreDone
  <2>3. \A x \in arrived'[n] :
          IF x[2] THEN n \in expired' ELSE stage'[x[1]] = "done"
    <3>1. \A x \in arrived[n] :
            IF x[2] THEN n \in expired' ELSE stage'[x[1]] = "done"
      BY <1>1, <1>3, QueueTypes, DoneStays DEF HeardAreDone
    <3>2. CASE chart.mode[n] = "any"
      BY <3>1, <3>2
    <3>3. CASE chart.mode[n] # "any" BY <3>1, <3>3
    <3> QED BY <3>2, <3>3
  <2>4. stage'[n] = "events" /\ chart.mode[n] = "all" => heard'[n] = Sources(n)
    BY <1>3, <2>1 DEF HeardAreDone
  <2> QED BY <1>1, <1>2, <2>1, <2>2, <2>3, <2>4 DEF HeardAreDone
<1>6. ASSUME expired' = {}, chart.mode[n] = "any", stage'[n] \in {"waiting", "events"}, NEW z \in heard'[n]
      PROVE  \/ z = source[n]
             \/ \E x \in arrived'[n] : x[1] = z
             \/ TurnedDown(n, z)'
  <2>1. <<s, t>> \in arrived'[n] /\ arrived[n] \subseteq arrived'[n]
    BY <1>6
  <2>2. CASE z = s BY <2>1, <2>2
  <2>3. CASE z \in heard[n]
    <3>1. expired = {} /\ stage[n] \in {"waiting", "events"}
      BY <1>1, <1>6
    <3>2. \/ z = source[n]
          \/ \E x \in arrived[n] : x[1] = z
          \/ TurnedDown(n, z)
      BY <1>3, <1>6, <2>3, <3>1 DEF RejectionsFit
    <3> QED BY <1>1, <2>1, <3>2, StillRejected
  <2> QED BY <2>2, <2>3
<1> QED BY <1>1, <1>5, <1>6

\* The completion is sent: every wait for it is resolved.
LEMMA EmitFits ==
  ASSUME WfInv, NEW k \in Nodes, EmitCompletion(k)
  PROVE  WfInv'
<1>1. WfShape /\ WfAct(k) BY DEF WfInv, WfAct
<1>2. /\ stage[k] = "emitting" /\ stage' = [stage EXCEPT ![k] = "done"] /\ Completes(k, FALSE, Nodes)
      /\ UNCHANGED <<chart, outcome, results, source, awaiting, fired, expired>>
  BY DEF EmitCompletion
<1>3. /\ heard' \in [Nodes -> SUBSET Nodes] /\ arrived' \in [Nodes -> SUBSET (Nodes \X BOOLEAN)]
      /\ \A n \in Nodes : Opens(n, k) =>
           /\ heard'[n] = heard[n] \cup {k}
           /\ chart.mode[n] = "any" => arrived'[n] = arrived[n] \cup {<<k, FALSE>>}
           /\ chart.mode[n] # "any" => arrived'[n] = arrived[n]
      /\ \A n \in Nodes : ~Opens(n, k) => heard'[n] = heard[n] /\ arrived'[n] = arrived[n]
  BY <1>1, <1>2, CompletesFacts
<1>4. WfShape' BY <1>1, <1>2, <1>3 DEF WfShape
<1>5. /\ stage'[k] = "done" /\ \A n \in Nodes \ {k} : stage'[n] = stage[n]
      /\ \A n \in Nodes : stage'[n] = "events" \/ stage'[n] = "waiting" => stage'[n] = stage[n]
  BY <1>1, <1>2 DEF WfShape
<1>6. ASSUME NEW n \in Nodes PROVE NodeFits(n)'
  <2>1. EndsAgree(n) /\ HeardAreDone(n) /\ ChoiceFits(n) /\ RejectionsFit(n)
    BY DEF WfInv
  <2>2. Sources(n)' = Sources(n) /\ Sources(n) \subseteq Nodes /\ source[n] \in Nodes \cup {NoNode}
    BY <1>1, <1>2, ChartFacts DEF Sources, WfShape
  <2>3. EndsAgree(n)' BY <1>2, <1>5, <2>1 DEF EndsAgree
  <2>4. ChoiceFits(n)'
    BY <1>1, <1>2, <1>5, <2>1, <2>2, DoneStays DEF ChoiceFits
  <2>5. StartsFit(n)' BY <1>1, <1>2, <1>5, StandingStarts
  <2>6. outcome'[n] = "skipped" /\ expired' = {} =>
           \A s \in IF chart'.mode[n] = "any" THEN Sources(n)' ELSE {NoNode} : TurnedDown(n, s)'
    BY <1>1, <1>2, StandingSkips
  <2>7. CASE Opens(n, k)
    <3>1. /\ HeardAreDone(n)'
          /\ expired' = {} /\ chart'.mode[n] = "any" /\ stage'[n] \in {"waiting", "events"} =>
               \A z \in heard'[n] : \/ z = source'[n]
                                    \/ \E x \in arrived'[n] : x[1] = z
                                    \/ TurnedDown(n, z)'
      BY <1>1, <1>2, <1>3, <1>5, <2>7, ResolvedNode
    <3> QED BY <2>3, <2>4, <2>5, <2>6, <3>1 DEF NodeFits, RejectionsFit
  <2>8. CASE ~Opens(n, k)
    <3>1. heard'[n] = heard[n] /\ arrived'[n] = arrived[n] BY <1>3, <2>8
    <3>2. CASE n # k BY <1>1, <1>2, <1>5, <3>1, <3>2, StandingNode
    <3>3. CASE n = k
      <4>1. HeardAreDone(n)'
        BY <1>1, <1>2, <1>5, <2>1, <2>2, <3>1, <3>3, QueueTypes, DoneStays DEF HeardAreDone
      <4>2. RejectionsFit(n)' BY <1>5, <2>6, <3>3 DEF RejectionsFit
      <4> QED BY <2>3, <2>4, <2>5, <4>1, <4>2 DEF NodeFits
    <3> QED BY <3>2, <3>3
  <2> QED BY <2>7, <2>8
<1> QED BY <1>2, <1>4, <1>6 DEF WfInv, NodeFits

\* Every source of a node in mode "all" has completed.
LEMMA SourcesFits ==
  ASSUME WfInv, NEW k \in Nodes, SourcesComplete(k)
  PROVE  WfInv'
<1>1. WfShape /\ WfAct(k) BY DEF WfInv, WfAct
<1>2. /\ stage[k] = "waiting" /\ chart.mode[k] = "all" /\ heard[k] = Sources(k)
      /\ stage' = [stage EXCEPT ![k] = "events"]
      /\ awaiting' = [awaiting EXCEPT ![k] = EventSources(chart.deps[k])]
      /\ UNCHANGED <<chart, outcome, results, heard, arrived, source, fired, expired>>
  BY DEF SourcesComplete
<1>3. EventSources(chart.deps[k]) \subseteq Nodes
  BY <1>1, ChartFacts DEF EventSources, WfShape
<1>4. WfShape' BY <1>1, <1>2, <1>3 DEF WfShape
<1>5. \A n \in Nodes \ {k} : NodeFits(n)'
  BY <1>1, <1>2, OthersStand, StandingNode
<1>6. NodeFits(k)'
  <2>1. stage'[k] = "events" BY <1>1, <1>2 DEF WfShape
  <2>2. EndsAgree(k) /\ HeardAreDone(k) /\ ChoiceFits(k) BY DEF WfInv
  <2>3. Sources(k)' = Sources(k) /\ Sources(k) \subseteq Nodes
    BY <1>1, <1>2, ChartFacts DEF Sources, WfShape
  <2>4. EndsAgree(k)' BY <1>2, <2>1, <2>2 DEF EndsAgree
  <2>5. HeardAreDone(k)'
    BY <1>1, <1>2, <2>1, <2>2, <2>3, QueueTypes, DoneStays DEF HeardAreDone
  <2>6. ChoiceFits(k)' BY <1>2, <2>1, <2>2 DEF ChoiceFits
  <2>7. RejectionsFit(k)'
    <3>1. outcome[k] = "none" BY <1>2, <2>2 DEF EndsAgree
    <3> QED BY <1>2, <3>1 DEF RejectionsFit
  <2>8. StartsFit(k)' BY <1>1, <1>2, <2>1, StandingStarts
  <2> QED BY <2>4, <2>5, <2>6, <2>7, <2>8 DEF NodeFits
<1> QED BY <1>2, <1>4, <1>5, <1>6 DEF WfInv, NodeFits

\* A handler's event is sent.
LEMMA FireFits ==
  ASSUME WfInv, NEW k \in Nodes, NEW v \in {"true", "false", "failed"}, FireEvent(k, v)
  PROVE  WfInv'
<1>1. WfShape /\ WfAct(k) BY DEF WfInv, WfAct
<1>2. /\ fired' = fired \cup {k} /\ awaiting' = [w \in Nodes |-> awaiting[w] \ {k}]
      /\ results' = [results EXCEPT ![EventOf(k)] = v] \/ results' = results
      /\ UNCHANGED <<chart, stage, outcome, heard, arrived, source, expired>>
  BY DEF FireEvent
<1>3. /\ results' \in [WfKeys -> Results]
      /\ \A n \in Nodes : results'[n] = results[n] /\ (n # k => results'[EventOf(n)] = results[EventOf(n)])
  BY <1>1, <1>2, KeyFacts DEF WfShape, Results
<1>4. WfShape' BY <1>1, <1>2, <1>3 DEF WfShape
<1>5. \A n \in Nodes : NodeFits(n)' BY <1>1, <1>2, <1>3, StandingNode
<1>6. \A n \in Nodes : results'[EventOf(n)] \in {"true", "false"} => n \in fired'
  BY <1>2, <1>3 DEF WfInv
<1> QED BY <1>4, <1>5, <1>6 DEF WfInv, NodeFits

\* The year of a wait for an event has passed.
LEMMA EventTimeoutFits ==
  ASSUME WfInv, NEW k \in Nodes, NEW s \in Nodes, EventTimesOut(k, s)
  PROVE  WfInv'
<1>1. WfShape /\ WfAct(k) BY DEF WfInv, WfAct
<1>2. /\ awaiting' = [awaiting EXCEPT ![k] = @ \ {s}]
      /\ results' = [results EXCEPT ![EventOf(s)] = "failed"] /\ expired' = expired \cup {k}
      /\ UNCHANGED <<chart, stage, outcome, heard, arrived, source, fired>>
  BY DEF EventTimesOut
<1>3. /\ results' \in [WfKeys -> Results]
      /\ \A n \in Nodes : results'[n] = results[n] /\ results'[EventOf(n)] \in {"failed", results[EventOf(n)]}
  BY <1>1, <1>2, KeyFacts DEF WfShape, Results
<1>4. WfShape' BY <1>1, <1>2, <1>3 DEF WfShape
<1>5. \A n \in Nodes : NodeFits(n)' BY <1>1, <1>2, <1>3, StandingNode
<1>6. \A n \in Nodes : results'[EventOf(n)] \in {"true", "false"} => n \in fired'
  BY <1>2, <1>3 DEF WfInv
<1> QED BY <1>4, <1>5, <1>6 DEF WfInv, NodeFits

\* The year of a wait for a completion has passed.
LEMMA CompletionTimeoutFits ==
  ASSUME WfInv, NEW k \in Nodes, NEW s \in Nodes, CompletionTimesOut(k, s)
  PROVE  WfInv'
<1>1. WfShape /\ WfAct(k) BY DEF WfInv, WfAct
<1>2. /\ stage[k] = "waiting" /\ Opens(k, s) /\ Completes(s, TRUE, {k}) /\ expired' = expired \cup {k}
      /\ UNCHANGED <<chart, stage, outcome, results, source, awaiting, fired>>
  BY DEF CompletionTimesOut, Opens
<1>3. /\ heard' \in [Nodes -> SUBSET Nodes] /\ arrived' \in [Nodes -> SUBSET (Nodes \X BOOLEAN)]
      /\ heard'[k] = heard[k] \cup {s}
      /\ chart.mode[k] = "any" => arrived'[k] = arrived[k] \cup {<<s, TRUE>>}
      /\ chart.mode[k] # "any" => arrived'[k] = arrived[k]
      /\ \A n \in Nodes \ {k} : heard'[n] = heard[n] /\ arrived'[n] = arrived[n]
  <2>1. {k} \in SUBSET Nodes OBVIOUS
  <2>2. /\ heard' \in [Nodes -> SUBSET Nodes] /\ arrived' \in [Nodes -> SUBSET (Nodes \X BOOLEAN)]
        /\ \A n \in Nodes : n \in {k} /\ Opens(n, s) =>
             /\ heard'[n] = heard[n] \cup {s}
             /\ chart.mode[n] = "any" => arrived'[n] = arrived[n] \cup {<<s, TRUE>>}
             /\ chart.mode[n] # "any" => arrived'[n] = arrived[n]
        /\ \A n \in Nodes : ~(n \in {k} /\ Opens(n, s)) => heard'[n] = heard[n] /\ arrived'[n] = arrived[n]
    BY <1>1, <1>2, <2>1, CompletesFacts
  <2> QED BY <1>2, <2>2
<1>4. WfShape' BY <1>1, <1>2, <1>3 DEF WfShape
<1>5. \A n \in Nodes \ {k} : NodeFits(n)'
  BY <1>1, <1>2, <1>3, StandingNode
<1>6. NodeFits(k)'
  <2>1. EndsAgree(k)' BY <1>2 DEF WfInv, EndsAgree
  <2>2. ChoiceFits(k)' BY <1>2 DEF WfInv, ChoiceFits
  <2>3. StartsFit(k)' BY <1>1, <1>2, StandingStarts
  <2>4. HeardAreDone(k)' BY <1>1, <1>2, <1>3, ResolvedNode
  <2>5. RejectionsFit(k)' BY <1>2 DEF RejectionsFit
  <2> QED BY <2>1, <2>2, <2>3, <2>4, <2>5 DEF NodeFits
<1>7. \A n \in Nodes : results'[EventOf(n)] \in {"true", "false"} => n \in fired'
  BY <1>2 DEF WfInv
<1> QED BY <1>4, <1>5, <1>6, <1>7 DEF WfInv, NodeFits

\* What checkDependencyFailure says of a source that is done is what the source did.
LEMMA DecisionIsRight ==
  ASSUME WfInv, NEW n \in Nodes, NEW d \in chart.deps[n], stage[d.from] = "done"
  PROVE  IF checkDependencyFailure(d) THEN d.handle = "event" \/ ~Satisfied(d) ELSE Satisfied(d)
<1>1. /\ d.from \in Nodes /\ d.handle \in {"success", "output", "event"} /\ d.cond \in {"none", "true", "false"}
  BY ChartFacts DEF WfInv, WfShape
<1>2. /\ EndsAgree(d.from) /\ results[d.from] \in Results /\ results[EventOf(d.from)] \in Results
      /\ outcome[d.from] \in {"none", "ran", "threw", "skipped"}
      /\ results[EventOf(d.from)] \in {"true", "false"} => d.from \in fired
  BY <1>1, KeyFacts DEF WfInv, WfShape
<1>3. /\ outcome[d.from] # "none" /\ results[d.from] # "none"
      /\ results[d.from] = "failed" <=> outcome[d.from] # "ran"
  BY <1>2 DEF EndsAgree
<1>4. CASE d.handle = "success"
  BY <1>1, <1>3, <1>4 DEF checkDependencyFailure, Satisfied
<1>5. CASE d.handle = "output"
  BY <1>1, <1>3, <1>5 DEF checkDependencyFailure, Satisfied
<1>6. CASE d.handle = "event"
  BY <1>1, <1>2, <1>6 DEF checkDependencyFailure, Satisfied, Results
<1> QED BY <1>1, <1>4, <1>5, <1>6

\* The sources a node looks at when no event wait is open are done, unless it stopped waiting.
LEMMA ConsideredAreDone ==
  ASSUME WfInv, NEW k \in Nodes, stage[k] = "events", ~(chart.mode[k] = "all" /\ k \in expired)
  PROVE  \A d \in Considered(k) : d \in chart.deps[k] /\ stage[d.from] = "done"
<1>1. HeardAreDone(k) /\ ChoiceFits(k) /\ chart.mode[k] \in {"all", "any"}
  BY ChartFacts DEF WfInv, WfShape
<1>2. \A d \in chart.deps[k] : d.from \in Sources(k)
  BY ChartFacts DEF WfInv, WfShape
<1>3. CASE chart.mode[k] = "all"
  BY <1>1, <1>2, <1>3 DEF HeardAreDone, ChoiceFits, Considered
<1>4. CASE chart.mode[k] = "any"
  BY <1>1, <1>4 DEF ChoiceFits, Considered
<1> QED BY <1>1, <1>3, <1>4

\* The dependencies decide.
LEMMA DecideFits ==
  ASSUME WfInv, NEW k \in Nodes, Decide(k)
  PROVE  WfInv'
<1>1. WfShape /\ WfAct(k) BY DEF WfInv, WfAct
<1>2. stage[k] = "events" /\ UNCHANGED <<chart, heard, arrived, awaiting, fired, expired>>
  BY DEF Decide
<1>3. /\ EndsAgree(k) /\ HeardAreDone(k) /\ ChoiceFits(k) /\ RejectionsFit(k) /\ outcome[k] = "none"
      /\ chart.mode[k] \in {"all", "any"}
  BY <1>2, ChartFacts DEF WfInv, EndsAgree, WfShape
<1>4. Sources(k)' = Sources(k) /\ Sources(k) \subseteq Nodes /\ source[k] \in Nodes \cup {NoNode}
  BY <1>1, <1>2, ChartFacts DEF Sources, WfShape
<1>5. \A n \in Nodes \ {k} : NodeFits(n)'
  BY <1>1, <1>2, OthersStand, StandingNode
<1>6. ASSUME stage'[k] # "events" PROVE HeardAreDone(k)'
  BY <1>1, <1>2, <1>3, <1>4, <1>6, QueueTypes, DoneStays DEF HeardAreDone
<1>7. CASE \A d \in Considered(k) : ~checkDependencyFailure(d)
  <2>1. stage' = [stage EXCEPT ![k] = "running"] /\ UNCHANGED <<outcome, results, source>>
    BY <1>7 DEF Decide
  <2>2. stage'[k] = "running" /\ WfShape'
    BY <1>1, <1>2, <2>1 DEF WfShape
  <2>3. EndsAgree(k)' BY <1>3, <2>1, <2>2 DEF EndsAgree
  <2>4. ChoiceFits(k)'
    BY <1>1, <1>2, <1>3, <1>4, <2>1, <2>2, DoneStays DEF ChoiceFits
  <2>5. RejectionsFit(k)' BY <1>3, <2>1, <2>2 DEF RejectionsFit
  <2>6. StartsFit(k)'
    <3>1. Considered(k)' = Considered(k) BY <1>2, <2>1 DEF Considered
    <3>2. ASSUME ~(chart.mode[k] = "all" /\ k \in expired), NEW d \in Considered(k)
          PROVE  stage'[d.from] = "done" /\ Satisfied(d)'
      <4>1. d \in chart.deps[k] /\ stage[d.from] = "done"
        BY <1>2, <3>2, ConsideredAreDone
      <4>2. Satisfied(d) BY <1>7, <3>2, <4>1, DecisionIsRight
      <4> QED BY <1>1, <4>1, <4>2, StillSatisfied
    <3> QED BY <1>2, <3>1, <3>2 DEF StartsFit
  <2>7. NodeFits(k)' BY <1>6, <2>2, <2>3, <2>4, <2>5, <2>6 DEF NodeFits
  <2> QED BY <1>2, <1>5, <2>1, <2>2, <2>7 DEF WfInv, NodeFits
<1>8. CASE ~\A d \in Considered(k) : ~checkDependencyFailure(d)
  <2>1. PICK d \in Considered(k) : checkDependencyFailure(d) BY <1>8
  <2>2. ~(chart.mode[k] = "all" /\ k \in expired) =>
          d \in chart.deps[k] /\ (d.handle = "event" \/ (stage[d.from] = "done" /\ ~Satisfied(d)))
    BY <1>2, <2>1, ConsideredAreDone, DecisionIsRight
  <2>3. CASE chart.mode[k] = "all"
    <3>1. Skip(k) /\ source' = source BY <1>8, <2>3 DEF Decide
    <3>2. /\ stage'[k] = "emitting" /\ outcome'[k] = "skipped" /\ results'[k] = "failed" /\ WfShape'
          /\ \A n \in Nodes : results'[EventOf(n)] = results[EventOf(n)]
      BY <1>1, <1>2, <3>1, KeyFacts DEF WfShape, Skip, Results
    <3>3. EndsAgree(k)' /\ StartsFit(k)'
      BY <3>2 DEF EndsAgree, StartsFit
    <3>4. ChoiceFits(k)'
      BY <1>1, <1>2, <1>3, <1>4, <3>1, <3>2, DoneStays DEF ChoiceFits
    <3>5. expired = {} => TurnedDown(k, NoNode)'
      <4>1. expired = {} => TurnedDown(k, NoNode) BY <2>2 DEF TurnedDown
      <4> QED BY <1>1, <4>1, StillRejected
    <3>6. RejectionsFit(k)' BY <1>2, <2>3, <3>2, <3>5 DEF RejectionsFit
    <3>7. NodeFits(k)' BY <1>6, <3>2, <3>3, <3>4, <3>6 DEF NodeFits
    <3> QED BY <1>2, <1>5, <3>2, <3>7 DEF WfInv, NodeFits
  <2>4. CASE chart.mode[k] = "any"
    <3>1. /\ stage' = [stage EXCEPT ![k] = "waiting"] /\ source' = [source EXCEPT ![k] = NoNode]
          /\ UNCHANGED <<outcome, results>>
      BY <1>8, <2>4 DEF Decide
    <3>2. stage'[k] = "waiting" /\ source'[k] = NoNode /\ WfShape'
      BY <1>1, <1>2, <3>1 DEF WfShape
    <3>3. EndsAgree(k)' /\ StartsFit(k)' /\ ChoiceFits(k)'
      BY <1>3, <3>1, <3>2 DEF EndsAgree, StartsFit, ChoiceFits
    <3>4. source[k] # NoNode /\ TurnedDown(k, source[k])
      <4>1. source[k] # NoNode BY <1>2, <1>3, <2>4 DEF ChoiceFits
      <4>2. d.from = source[k] BY <2>1, <4>1 DEF Considered
      <4> QED BY <2>2, <2>4, <4>1, <4>2 DEF TurnedDown
    <3>5. ASSUME expired = {}, NEW z \in heard[k]
          PROVE  \/ z = NoNode \/ \E x \in arrived[k] : x[1] = z
                 \/ TurnedDown(k, z)'
      <4>1. \/ z = source[k] \/ \E x \in arrived[k] : x[1] = z
            \/ TurnedDown(k, z)
        BY <1>2, <1>3, <2>4, <3>5 DEF RejectionsFit
      <4> QED BY <1>1, <3>4, <4>1, StillRejected
    <3>6. RejectionsFit(k)'
      BY <1>2, <1>3, <3>1, <3>2, <3>5 DEF RejectionsFit
    <3>7. NodeFits(k)' BY <1>6, <3>2, <3>3, <3>6 DEF NodeFits
    <3> QED BY <1>2, <1>5, <3>1, <3>2, <3>7 DEF WfInv, NodeFits
  <2> QED BY <1>3, <2>3, <2>4
<1> QED BY <1>7, <1>8

\* The loop of mode "any" takes the next source that completed.
LEMMA TakesNextFits ==
  ASSUME WfInv, NEW k \in Nodes, waitForAnyDependency(k), arrived[k] # {}
  PROVE  WfInv'
<1>1. WfShape /\ WfAct(k) BY DEF WfInv, WfAct
<1>2. /\ stage[k] = "waiting" /\ chart.mode[k] = "any"
      /\ UNCHANGED <<outcome, results, chart, heard, fired, expired>>
  BY DEF waitForAnyDependency
<1>0. PICK next \in arrived[k] :
        /\ arrived' = [arrived EXCEPT ![k] = @ \ {next}]
        /\ IF next[2] THEN UNCHANGED <<stage, source, awaiting>>
           ELSE /\ source' = [source EXCEPT ![k] = next[1]] /\ stage' = [stage EXCEPT ![k] = "events"]
                /\ awaiting' = [awaiting EXCEPT ![k] = EventSources({d \in chart.deps[k] : d.from = next[1]})]
  BY DEF waitForAnyDependency
<1>3. next[1] \in Nodes /\ next[2] \in BOOLEAN
  BY <1>1, QueueTypes
<1>4. arrived' \in [Nodes -> SUBSET (Nodes \X BOOLEAN)] /\ arrived'[k] = arrived[k] \ {next}
      /\ \A n \in Nodes \ {k} : arrived'[n] = arrived[n]
  BY <1>0, <1>1 DEF WfShape
<1>5. /\ EndsAgree(k) /\ HeardAreDone(k) /\ ChoiceFits(k) /\ RejectionsFit(k) /\ outcome[k] = "none"
      /\ source[k] = NoNode
  BY <1>2 DEF WfInv, EndsAgree, ChoiceFits
<1>6. Sources(k)' = Sources(k) /\ Sources(k) \subseteq Nodes /\ heard[k] \subseteq Sources(k)
  BY <1>1, <1>2, <1>5, ChartFacts DEF Sources, WfShape, HeardAreDone
<1>7. \A n \in Nodes \ {k} : NodeFits(n)'
  BY <1>1, <1>2, <1>4, OthersStand, StandingNode
<1>8. HeardAreDone(k)'
  <2>1. \A x \in arrived'[k] :
          IF x[2] THEN k \in expired' ELSE stage'[x[1]] = "done"
    <3>1. \A x \in arrived[k] :
            IF x[2] THEN k \in expired ELSE stage'[x[1]] = "done"
      BY <1>1, <1>5, QueueTypes, DoneStays DEF HeardAreDone
    <3> QED BY <1>2, <1>3, <1>4, <3>1
  <2>2. k \notin expired => \A s \in heard[k] : stage'[s] = "done"
    BY <1>1, <1>5, <1>6, DoneStays DEF HeardAreDone
  <2> QED BY <1>2, <1>6, <2>1, <2>2 DEF HeardAreDone
<1>9. \A z \in heard[k] : expired = {} =>
         \/ z = next[1] \/ (\E x \in arrived'[k] : x[1] = z) \/ TurnedDown(k, z)'
  <2> SUFFICES ASSUME NEW z \in heard[k], expired = {}
               PROVE  \/ z = next[1] \/ (\E x \in arrived'[k] : x[1] = z)
                      \/ TurnedDown(k, z)'
    OBVIOUS
  <2>1. z # NoNode BY <1>6, WfAssumption
  <2>2. (\E x \in arrived[k] : x[1] = z) \/ TurnedDown(k, z)
    BY <1>2, <1>5, <2>1 DEF RejectionsFit
  <2> QED BY <1>1, <1>4, <2>2, StillRejected
<1>10. CASE next[2]
  <2>1. UNCHANGED <<stage, source, awaiting>>
    BY <1>0, <1>10
  <2>2. WfShape' BY <1>1, <1>2, <1>4, <2>1 DEF WfShape
  <2>3. EndsAgree(k)' /\ ChoiceFits(k)'
    BY <1>2, <1>5, <2>1 DEF EndsAgree, ChoiceFits
  <2>4. StartsFit(k)' BY <1>1, <1>2, <2>1, StandingStarts
  <2>5. expired # {} BY <1>3, <1>5, <1>10 DEF HeardAreDone
  <2>6. RejectionsFit(k)' BY <1>2, <2>5 DEF RejectionsFit
  <2>7. NodeFits(k)' BY <1>8, <2>3, <2>4, <2>6 DEF NodeFits
  <2> QED BY <1>2, <1>7, <2>2, <2>7 DEF WfInv, NodeFits
<1>11. CASE ~next[2]
  <2>1. /\ source' = [source EXCEPT ![k] = next[1]] /\ stage' = [stage EXCEPT ![k] = "events"]
        /\ awaiting' = [awaiting EXCEPT ![k] = EventSources({d \in chart.deps[k] : d.from = next[1]})]
    BY <1>0, <1>11
  <2>2. EventSources({d \in chart.deps[k] : d.from = next[1]}) \subseteq Nodes
    BY <1>3 DEF EventSources
  <2>3. WfShape' /\ stage'[k] = "events" /\ source'[k] = next[1]
    BY <1>1, <1>2, <1>3, <1>4, <2>1, <2>2 DEF WfShape
  <2>4. stage'[next[1]] = "done" /\ next[1] # NoNode
    <3>1. stage[next[1]] = "done" BY <1>3, <1>5, <1>11 DEF HeardAreDone
    <3> QED BY <1>1, <1>3, <3>1, DoneStays, WfAssumption
  <2>5. EndsAgree(k)' /\ ChoiceFits(k)' /\ StartsFit(k)'
    BY <1>2, <1>5, <2>3, <2>4 DEF EndsAgree, ChoiceFits, StartsFit
  <2>6. RejectionsFit(k)' BY <1>2, <1>5, <1>9, <2>3 DEF RejectionsFit
  <2>7. NodeFits(k)' BY <1>8, <2>5, <2>6 DEF NodeFits
  <2> QED BY <1>2, <1>7, <2>3, <2>7 DEF WfInv, NodeFits
<1> QED BY <1>10, <1>11

\* Every source has been taken and rejected: the loop gives up.
LEMMA GivesUpFits ==
  ASSUME WfInv, NEW k \in Nodes, waitForAnyDependency(k), arrived[k] = {}
  PROVE  WfInv'
<1>1. WfShape /\ WfAct(k) BY DEF WfInv, WfAct
<1>2. /\ stage[k] = "waiting" /\ chart.mode[k] = "any" /\ heard[k] = Sources(k) /\ Skip(k)
      /\ UNCHANGED <<arrived, source, awaiting, chart, heard, fired, expired>>
  BY DEF waitForAnyDependency
<1>3. /\ stage'[k] = "emitting" /\ outcome'[k] = "skipped" /\ results'[k] = "failed" /\ WfShape'
      /\ \A n \in Nodes : results'[EventOf(n)] = results[EventOf(n)]
  BY <1>1, <1>2, KeyFacts DEF WfShape, Skip, Results
<1>4. /\ HeardAreDone(k) /\ ChoiceFits(k) /\ RejectionsFit(k) /\ source[k] = NoNode
  BY <1>2 DEF WfInv, ChoiceFits
<1>5. Sources(k)' = Sources(k) /\ Sources(k) \subseteq Nodes
  BY <1>1, <1>2, ChartFacts DEF Sources, WfShape
<1>6. \A n \in Nodes \ {k} : NodeFits(n)'
  BY <1>1, <1>2, OthersStand, StandingNode
<1>7. EndsAgree(k)' /\ StartsFit(k)' /\ ChoiceFits(k)'
  BY <1>2, <1>3, <1>4 DEF EndsAgree, StartsFit, ChoiceFits
<1>8. HeardAreDone(k)'
  BY <1>1, <1>2, <1>3, <1>4, <1>5, QueueTypes, DoneStays DEF HeardAreDone
<1>9. ASSUME expired = {}, NEW s \in Sources(k) PROVE TurnedDown(k, s)'
  <2>1. s # NoNode BY <1>5, WfAssumption
  <2>3. TurnedDown(k, s)
    BY <1>2, <1>4, <1>9, <2>1 DEF RejectionsFit
  <2> QED BY <1>1, <2>3, StillRejected
<1>10. RejectionsFit(k)' BY <1>2, <1>3, <1>5, <1>9 DEF RejectionsFit
<1>11. NodeFits(k)' BY <1>7, <1>8, <1>10 DEF NodeFits
<1> QED BY <1>2, <1>3, <1>6, <1>11 DEF WfInv, NodeFits

LEMMA WfInitFits == WfInit => WfInv
<1> SUFFICES ASSUME WfInit PROVE WfInv
  OBVIOUS
<1>1. \A n \in Nodes : /\ heard[n] = {} /\ arrived[n] = {} /\ source[n] = NoNode /\ outcome[n] = "none"
                       /\ stage[n] = IF chart.deps[n] = {} THEN "running" ELSE "waiting"
  BY DEF WfInit
<1>2. \A n \in Nodes : results[n] = "none" /\ results[EventOf(n)] = "none"
  BY DEF WfInit
<1>3. WfShape
  BY DEF WfInit, WfShape, WfKeys, Results
<1>4. ASSUME NEW n \in Nodes PROVE NodeFits(n)
  <2>1. EndsAgree(n) /\ ChoiceFits(n) /\ RejectionsFit(n)
    BY <1>1, <1>2, <1>4 DEF EndsAgree, ChoiceFits, RejectionsFit
  <2>2. HeardAreDone(n)
    <3>1. arrived[n] = {} /\ stage[n] # "events" BY <1>1, <1>4
    <3> QED BY <1>1, <1>4, <3>1 DEF HeardAreDone
  <2>3. StartsFit(n) BY <1>1, <1>4 DEF StartsFit, Considered
  <2> QED BY <2>1, <2>2, <2>3 DEF NodeFits
<1> QED BY <1>2, <1>3, <1>4 DEF WfInv, NodeFits

LEMMA WfStepFits == WfInv /\ [WfNext]_wfVars => WfInv'
<1>1. ASSUME WfInv, WfNext PROVE WfInv'
  <2>1. PICK k \in Nodes : WfAct(k) BY <1>1, WfActs
  <2> QED BY <1>1, <2>1, ExecuteFits, EmitFits, EmitFailsFits, SourcesFits, TakesNextFits, GivesUpFits, DecideFits,
              FireFits, CompletionTimeoutFits, EventTimeoutFits DEF WfAct
<1>2. ASSUME WfInv, UNCHANGED wfVars PROVE WfInv'
  <2>1. UNCHANGED <<chart, stage, outcome, results, heard, arrived, source, awaiting, fired, expired>>
    BY <1>2 DEF wfVars
  <2>2. WfShape' BY <1>2, <2>1 DEF WfInv, WfShape
  <2>3. \A n : Sources(n)' = Sources(n) /\ Considered(n)' = Considered(n) /\ Satisfied(n)' = Satisfied(n)
    BY <2>1 DEF Sources, Considered, Satisfied
  <2>4. \A n, s : TurnedDown(n, s)' = TurnedDown(n, s)
    BY <2>1, <2>3 DEF TurnedDown
  <2>5. \A n \in Nodes : EndsAgree(n)' /\ HeardAreDone(n)' /\ ChoiceFits(n)'
    BY <1>2, <2>1, <2>3 DEF WfInv, EndsAgree, HeardAreDone, ChoiceFits
  <2>6. \A n \in Nodes : RejectionsFit(n)' /\ StartsFit(n)'
    BY <1>2, <2>1, <2>3, <2>4 DEF WfInv, RejectionsFit, StartsFit
  <2> QED BY <1>2, <2>1, <2>2, <2>5, <2>6 DEF WfInv
<1> QED BY <1>1, <1>2

LEMMA WfInvEnough == WfInv => RunsWhatItsChartAllows
<1> SUFFICES ASSUME WfInv, NEW n \in Nodes
             PROVE  /\ StartsFit(n)
                    /\ outcome[n] = "skipped" /\ expired = {} =>
                         \A s \in IF chart.mode[n] = "any" THEN Sources(n) ELSE {NoNode} :
                            \E d \in {e \in chart.deps[n] : s \in {NoNode, e.from}} :
                               ~Satisfied(d) \/ d.handle = "event"
  BY DEF RunsWhatItsChartAllows, StartsFit
<1> QED BY DEF WfInv, RejectionsFit, TurnedDown

-----------------------------------------------------------------------------
(* Running a workflow by hand                                              *)

\* What a run that names n with payload p, typed for t while l was listed, must satisfy.
Confirmed(n, p, t, l) ==
    \/ n = NoNodeId /\ l = NoTriggers /\ p = NoPayload
    \/ /\ n \in TriggerNodes /\ n \in DOMAIN l /\ Accepts(l[n], p)
       /\ t \in TriggerNodes /\ p # NoPayload => t = n

MtInv ==
    /\ DOMAIN savedTriggers \subseteq TriggerNodes /\ DOMAIN triggerList \subseteq TriggerNodes
    /\ \E o \in BOOLEAN, n \in TriggerNodes \cup {NoNodeId}, p \in PayloadSchemas \cup {NoPayload}, e \in BOOLEAN :
          runDialog = [open |-> o, node |-> n, payload |-> p, error |-> e]
    /\ mtEdits \in 0..MaxMtEdits /\ mtTurns \in 0..MaxMtTurns
    /\ runDialog.payload # NoPayload /\ typedFor \in TriggerNodes => typedFor = runDialog.node
    /\ posted # Idling =>
         \E n, p, t, l : /\ posted.node = n /\ posted.payload = p /\ posted.typed = t /\ posted.listed = l
                         /\ Confirmed(n, p, t, l)
    /\ \A run \in startedRuns : Confirmed(run.trigger, run.data, run.typed, run.listed)

LEMMA MtInitFits == MtInit => MtInv
<1> SUFFICES ASSUME MtInit PROVE MtInv
  OBVIOUS
<1>1. DOMAIN savedTriggers \subseteq TriggerNodes /\ DOMAIN triggerList \subseteq TriggerNodes
  <2>1. savedTriggers = NoTriggers \/ \E t \in TriggerNodes : savedTriggers = [n \in {t} |-> NoSchema]
    BY DEF MtInit
  <2>2. DOMAIN NoTriggers = {} /\ \A t : DOMAIN [n \in {t} |-> NoSchema] = {t}
    BY DEF NoTriggers
  <2>3. triggerList = NoTriggers BY DEF MtInit
  <2> QED BY <2>1, <2>2, <2>3
<1>2. runDialog = [open |-> FALSE, node |-> NoNodeId, payload |-> NoPayload, error |-> FALSE]
  BY DEF MtInit
<1>3. mtEdits \in 0..MaxMtEdits /\ mtTurns \in 0..MaxMtTurns
  BY MtAssumption DEF MtInit
<1>4. /\ runDialog.payload = NoPayload
      /\ \E o \in BOOLEAN, n \in TriggerNodes \cup {NoNodeId}, p \in PayloadSchemas \cup {NoPayload}, e \in BOOLEAN :
           runDialog = [open |-> o, node |-> n, payload |-> p, error |-> e]
  <2>1. FALSE \in BOOLEAN /\ NoNodeId \in TriggerNodes \cup {NoNodeId} /\ NoPayload \in PayloadSchemas \cup {NoPayload}
    OBVIOUS
  <2> QED BY <1>2, <2>1
<1>5. posted = Idling /\ startedRuns = {} BY DEF MtInit
<1> QED BY <1>1, <1>3, <1>4, <1>5 DEF MtInv

LEMMA MtStepFits == MtInv /\ [MtNext]_mtVars => MtInv'
<1> SUFFICES ASSUME MtInv, MtNext \/ UNCHANGED mtVars PROVE MtInv'
  OBVIOUS
<1>1. PICK o \in BOOLEAN, n0 \in TriggerNodes \cup {NoNodeId}, p0 \in PayloadSchemas \cup {NoPayload}, e \in BOOLEAN :
          runDialog = [open |-> o, node |-> n0, payload |-> p0, error |-> e]
  BY DEF MtInv
<1>2. /\ DOMAIN savedTriggers \subseteq TriggerNodes /\ DOMAIN triggerList \subseteq TriggerNodes
      /\ mtEdits \in 0..MaxMtEdits /\ mtTurns \in 0..MaxMtTurns
      /\ p0 # NoPayload /\ typedFor \in TriggerNodes => typedFor = n0
  BY <1>1 DEF MtInv
<1>3. /\ runDialog.open = o /\ runDialog.node = n0 /\ runDialog.payload = p0
      /\ [runDialog EXCEPT !.error = TRUE] = [open |-> o, node |-> n0, payload |-> p0, error |-> TRUE]
      /\ [runDialog EXCEPT !.error = FALSE] = [open |-> o, node |-> n0, payload |-> p0, error |-> FALSE]
      /\ \A p : [runDialog EXCEPT !.payload = p] = [open |-> o, node |-> n0, payload |-> p, error |-> e]
  <2>1. runDialog.open = o /\ runDialog.node = n0 /\ runDialog.payload = p0
    BY <1>1
  <2>2. ASSUME NEW v
        PROVE  [runDialog EXCEPT !.error = v] = [open |-> o, node |-> n0, payload |-> p0, error |-> v]
    BY <1>1
  <2>3. ASSUME NEW p
        PROVE  [runDialog EXCEPT !.payload = p] = [open |-> o, node |-> n0, payload |-> p, error |-> e]
    BY <1>1
  <2> QED BY <2>1, <2>2, <2>3
\* The parts a step may leave alone, each told from what it keeps.
<1>4. ASSUME UNCHANGED runDialog, UNCHANGED typedFor PROVE
        /\ \E o1 \in BOOLEAN, n \in TriggerNodes \cup {NoNodeId}, p \in PayloadSchemas \cup {NoPayload}, e1 \in BOOLEAN :
             runDialog' = [open |-> o1, node |-> n, payload |-> p, error |-> e1]
        /\ runDialog'.payload # NoPayload /\ typedFor' \in TriggerNodes => typedFor' = runDialog'.node
  BY <1>1, <1>2, <1>4
<1>5. ASSUME UNCHANGED posted PROVE
        posted' # Idling =>
          \E n, p, t, l : /\ posted'.node = n /\ posted'.payload = p /\ posted'.typed = t /\ posted'.listed = l
                          /\ Confirmed(n, p, t, l)
  BY <1>5 DEF MtInv
<1>6. ASSUME UNCHANGED startedRuns PROVE
        \A run \in startedRuns' : Confirmed(run.trigger, run.data, run.typed, run.listed)
  BY <1>6 DEF MtInv
<1>7. ASSUME NEW o1 \in BOOLEAN, NEW n \in TriggerNodes \cup {NoNodeId}, NEW p \in PayloadSchemas \cup {NoPayload},
             NEW e1 \in BOOLEAN,
             runDialog' = [open |-> o1, node |-> n, payload |-> p, error |-> e1],
             p = NoPayload \/ (typedFor' = typedFor /\ p = p0 /\ n = n0) \/ typedFor' = n
      PROVE
        /\ \E o2 \in BOOLEAN, n2 \in TriggerNodes \cup {NoNodeId}, p2 \in PayloadSchemas \cup {NoPayload}, e2 \in BOOLEAN :
             runDialog' = [open |-> o2, node |-> n2, payload |-> p2, error |-> e2]
        /\ runDialog'.payload # NoPayload /\ typedFor' \in TriggerNodes => typedFor' = runDialog'.node
  BY <1>2, <1>7
<1>8. ASSUME Clicks PROVE mtTurns' \in 0..MaxMtTurns /\ UNCHANGED <<savedTriggers, triggerList, listLoading, startedRuns, mtEdits>>
  BY <1>2, <1>8, MtAssumption DEF Clicks
<1>9. CASE UNCHANGED mtVars
  BY <1>2, <1>4, <1>5, <1>6, <1>9 DEF mtVars, MtInv
<1>10. ASSUME NEW n \in TriggerNodes, deleteTrigger(n) \/ \E s \in PayloadSchemas \cup {NoSchema} : saveTrigger(n, s)
       PROVE  MtInv'
  <2>1. PICK rows : EditsTriggers(rows) /\ DOMAIN rows \subseteq TriggerNodes
    <3>1. CASE deleteTrigger(n)
      <4> DEFINE rows == [m \in DOMAIN savedTriggers \ {n} |-> savedTriggers[m]]
      <4>1. EditsTriggers(rows) /\ DOMAIN rows \subseteq TriggerNodes
        BY <1>2, <3>1 DEF deleteTrigger
      <4> QED BY <4>1
    <3>2. ASSUME NEW s, saveTrigger(n, s) PROVE \E rows : EditsTriggers(rows) /\ DOMAIN rows \subseteq TriggerNodes
      <4> DEFINE rows == [m \in DOMAIN savedTriggers \cup {n} |-> IF m = n THEN s ELSE savedTriggers[m]]
      <4>1. EditsTriggers(rows) /\ DOMAIN rows \subseteq TriggerNodes
        BY <1>2, <1>10, <3>2 DEF saveTrigger
      <4> QED BY <4>1
    <3> QED BY <1>10, <3>1, <3>2
  <2>2. /\ mtEdits' \in 0..MaxMtEdits /\ savedTriggers' = rows
        /\ UNCHANGED <<triggerList, listLoading, runDialog, posted, startedRuns, typedFor, mtTurns>>
    BY <1>2, <2>1, MtAssumption DEF EditsTriggers
  <2> QED BY <1>2, <1>4, <1>5, <1>6, <2>1, <2>2 DEF MtInv
<1>11. ASSUME NEW n \in TriggerNodes, PickTrigger(n) PROVE MtInv'
  <2>1. Clicks /\ resetDialogState(TRUE, n) /\ UNCHANGED posted
    BY <1>11 DEF PickTrigger
  <2>2. runDialog' = [open |-> TRUE, node |-> n, payload |-> NoPayload, error |-> FALSE]
    BY <2>1 DEF resetDialogState
  <2> QED BY <1>2, <1>5, <1>6, <1>7, <1>8, <1>11, <2>1, <2>2 DEF MtInv
<1>12. CASE listTriggers
  <2>1. DOMAIN triggerList' \subseteq TriggerNodes
    BY <1>2, <1>12 DEF listTriggers
  <2> QED BY <1>2, <1>4, <1>5, <1>6, <1>12, <2>1 DEF MtInv, listTriggers
<1>13. CASE handleRunClick
  <2>1. Clicks BY <1>13 DEF handleRunClick
  <2>2. CASE triggerList = NoTriggers
    <3>1. runWorkflow(NoNodeId, NoPayload) /\ UNCHANGED typedFor
      BY <1>13, <2>2 DEF handleRunClick
    <3>2. /\ posted'.node = NoNodeId /\ posted'.payload = NoPayload /\ posted'.typed = typedFor
          /\ posted'.listed = triggerList
          /\ runDialog' = [open |-> o, node |-> n0, payload |-> p0, error |-> FALSE]
      BY <1>3, <3>1 DEF runWorkflow
    <3>3. Confirmed(NoNodeId, NoPayload, typedFor, triggerList)
      BY <2>2 DEF Confirmed
    <3> QED BY <1>2, <1>6, <1>7, <1>8, <2>1, <3>1, <3>2, <3>3 DEF MtInv
  <2>3. CASE triggerList # NoTriggers
    <3> DEFINE n == IF Cardinality(DOMAIN triggerList) = 1 THEN CHOOSE m \in DOMAIN triggerList : TRUE ELSE NoNodeId
    <3>1. resetDialogState(TRUE, n) /\ UNCHANGED posted
      BY <1>13, <2>3 DEF handleRunClick
    <3>2. n \in TriggerNodes \cup {NoNodeId}
      <4>1. CASE Cardinality(DOMAIN triggerList) = 1
        <5>1. DOMAIN triggerList # {} BY <4>1, FS_EmptySet
        <5> QED BY <1>2, <4>1, <5>1
      <4> QED BY <4>1
    <3> HIDE DEF n
    <3>3. runDialog' = [open |-> TRUE, node |-> n, payload |-> NoPayload, error |-> FALSE]
      BY <3>1 DEF resetDialogState
    <3> QED BY <1>2, <1>5, <1>6, <1>7, <1>8, <2>1, <3>1, <3>2, <3>3 DEF MtInv
  <2> QED BY <2>2, <2>3
<1>14. CASE BackToList \/ CancelDialog
  <2>1. Clicks /\ UNCHANGED posted /\ \E b \in BOOLEAN : resetDialogState(b, NoNodeId)
    BY <1>14 DEF BackToList, CancelDialog
  <2>2. PICK b \in BOOLEAN : runDialog' = [open |-> b, node |-> NoNodeId, payload |-> NoPayload, error |-> FALSE]
    BY <2>1 DEF resetDialogState
  <2> QED BY <1>2, <1>5, <1>6, <1>7, <1>8, <2>1, <2>2 DEF MtInv
<1>15. ASSUME NEW p \in PayloadSchemas, TypePayload(p) PROVE MtInv'
  <2>1. Clicks /\ UNCHANGED posted /\ typedFor' = n0 /\ runDialog' = [open |-> o, node |-> n0, payload |-> p, error |-> e]
    BY <1>3, <1>15 DEF TypePayload
  <2> QED BY <1>2, <1>5, <1>6, <1>7, <1>8, <1>15, <2>1 DEF MtInv
<1>16. CASE handleSubmit
  <2>1. Clicks /\ UNCHANGED typedFor /\ selectedTrigger # NoTrigger
    BY <1>16 DEF handleSubmit
  <2>2. /\ selectedTrigger \in DOMAIN triggerList
        /\ n0 # NoNodeId => selectedTrigger = n0
    BY <1>3, <2>1 DEF selectedTrigger
  <2>3. CASE Accepts(triggerList[selectedTrigger], p0)
    <3>1. runWorkflow(selectedTrigger, p0)
      BY <1>3, <1>16, <2>3 DEF handleSubmit
    <3>2. /\ posted'.node = selectedTrigger /\ posted'.payload = p0 /\ posted'.typed = typedFor
          /\ posted'.listed = triggerList
          /\ runDialog' = [open |-> o, node |-> n0, payload |-> p0, error |-> FALSE]
      BY <1>3, <3>1 DEF runWorkflow
    <3>3. Confirmed(selectedTrigger, p0, typedFor, triggerList)
      BY <1>2, <2>2, <2>3, MtAssumption DEF Confirmed
    <3> QED BY <1>2, <1>6, <1>7, <1>8, <2>1, <3>2, <3>3 DEF MtInv
  <2>4. CASE ~Accepts(triggerList[selectedTrigger], p0)
    <3>1. UNCHANGED posted /\ runDialog' = [open |-> o, node |-> n0, payload |-> p0, error |-> TRUE]
      BY <1>3, <1>16, <2>4 DEF handleSubmit
    <3> QED BY <1>2, <1>5, <1>6, <1>7, <1>8, <2>1, <3>1 DEF MtInv
  <2> QED BY <2>3, <2>4
<1>17. CASE manualTriggerHTTPPlugin
  <2>1. /\ posted # Idling
        /\ startedRuns' = startedRuns \cup {[trigger |-> posted.node, data |-> posted.payload,
                                             typed |-> posted.typed, listed |-> posted.listed]}
        /\ posted' = [posted EXCEPT !.sent = TRUE]
        /\ UNCHANGED <<savedTriggers, triggerList, listLoading, runDialog, typedFor, mtEdits, mtTurns>>
    BY <1>17 DEF manualTriggerHTTPPlugin, isSubmitting
  <2>2. Confirmed(posted.node, posted.payload, posted.typed, posted.listed)
    BY <2>1 DEF MtInv
  <2>3. \A run \in startedRuns' : Confirmed(run.trigger, run.data, run.typed, run.listed)
    BY <2>1, <2>2 DEF MtInv
  <2>4. /\ posted'.node = posted.node /\ posted'.payload = posted.payload /\ posted'.typed = posted.typed
        /\ posted'.listed = posted.listed
    BY <2>1
  <2> QED BY <1>2, <1>4, <2>1, <2>2, <2>3, <2>4 DEF MtInv
<1>18. ASSUME NEW ok \in BOOLEAN, RunAnswered(ok) PROVE MtInv'
  <2>1. posted' = Idling /\ UNCHANGED <<savedTriggers, triggerList, listLoading, startedRuns, mtEdits, mtTurns>>
    BY <1>18 DEF RunAnswered
  <2>2. CASE ok
    <3>1. runDialog' = [open |-> FALSE, node |-> NoNodeId, payload |-> NoPayload, error |-> FALSE]
      BY <1>18, <2>2 DEF RunAnswered, resetDialogState
    <3> QED BY <1>2, <1>6, <1>7, <2>1, <3>1 DEF MtInv
  <2>3. CASE ~ok
    <3>1. UNCHANGED typedFor /\ runDialog' = [open |-> o, node |-> n0, payload |-> p0, error |-> TRUE]
      BY <1>3, <1>18, <2>3 DEF RunAnswered
    <3> QED BY <1>2, <1>6, <1>7, <2>1, <3>1 DEF MtInv
  <2> QED BY <2>2, <2>3
<1> QED BY <1>9, <1>10, <1>11, <1>12, <1>13, <1>14, <1>15, <1>16, <1>17, <1>18 DEF MtNext

LEMMA MtInvEnough == MtInv => RunsWhatWasConfirmed
<1> SUFFICES ASSUME MtInv, NEW run \in startedRuns
             PROVE  LET active == {n \in TriggerNodes : execute(run, n)} IN
                    /\ Cardinality(active) <= 1
                    /\ \A n \in active : n \in DOMAIN run.listed /\ Accepts(run.listed[n], run.data)
                    /\ run.typed \in TriggerNodes /\ run.data # NoPayload => run.typed \in active
                    /\ active = {} => run.listed = NoTriggers /\ run.data = NoPayload
  BY DEF RunsWhatWasConfirmed
<1> DEFINE active == {n \in TriggerNodes : execute(run, n)}
<1>1. Confirmed(run.trigger, run.data, run.typed, run.listed)
  BY DEF MtInv
<1>2. Cardinality(active) <= 1
  <2>1. active = {} \/ active = {run.trigger} BY DEF execute
  <2>2. Cardinality({}) = 0 /\ Cardinality({run.trigger}) = 1
    BY FS_EmptySet, FS_Singleton
  <2> HIDE DEF active
  <2> QED BY <2>1, <2>2
<1> QED BY <1>1, <1>2, MtAssumption DEF Confirmed, execute

-----------------------------------------------------------------------------
(* The runs tab                                                            *)

RunRecords == [status : ActiveStatuses \cup FinalStatuses, output : {"none", "pending", "saved"},
               span : [RsNodes -> SpanStatuses], emitted : [RsNodes -> Emissions]]

\* The run old, seen earlier, has become the run new: what has ended stays as it ended.
Grows(old, new) ==
    \A n \in RsNodes : /\ old.emitted[n] # "none" => new.emitted[n] = old.emitted[n] /\ new.span[n] = old.span[n]
                       /\ old.span[n] \in {"Failed", "Completed"} => new.span[n] = old.span[n]

\* No other node's name contains the name of n.
OwnName(n) == \A m \in RsNodes \ {n} : <<n, m>> \notin InsideOf

EngineFits ==
    /\ engine \in [RunIds -> RunRecords]
    /\ \A r \in RunIds, n \in RsNodes : engine[r].emitted[n] = "completion" => engine[r].span[n] = "Completed"

\* The answers kept are of the run as it was.
DetailsFit ==
    /\ DOMAIN runDetails = RunIds
    /\ \A r \in RunIds : runDetails[r] # NotFetched => runDetails[r] \in RunRecords /\ Grows(runDetails[r], engine[r])

TipsFit ==
    /\ nodeTips \in [RunIds -> [RsNodes -> NodeStatuses \cup {NotFetched}]]
    /\ \A r \in RunIds, n \in RsNodes : OwnName(n) /\ nodeTips[r][n] # NotFetched => EndedIn(r, n, nodeTips[r][n])

OverlayFits ==
    /\ overlay.run \in RunIds \cup {NoRun}
    /\ runsTab => overlay.run = selectedRun
    /\ overlay.run = NoRun => overlay.dummy = NoChart /\ overlay.statuses = <<>>
    /\ overlay.dummy # NoChart => overlay.dummy = RunChart[overlay.run]
    /\ \A n \in RsNodes : OwnName(n) /\ n \in DOMAIN overlay.statuses => EndedIn(overlay.run, n, overlay.statuses[n])

PageShape ==
    /\ selectedRun \in RunIds \cup {NoRun} /\ runsTab \in BOOLEAN /\ rsTurns \in 0..MaxRsTurns
    /\ engineTurns \in 0..MaxEngineTurns /\ runList \in {"absent", "active", "idle"}

RsInv == EngineFits /\ DetailsFit /\ TipsFit /\ OverlayFits /\ PageShape

LEMMA RecordFacts ==
  ASSUME NEW run \in RunRecords
  PROVE  /\ run.span \in [RsNodes -> SpanStatuses] /\ run.emitted \in [RsNodes -> Emissions]
         /\ run.status \in ActiveStatuses \cup FinalStatuses
         /\ \A n \in RsNodes : run.span[n] \in SpanStatuses /\ run.emitted[n] \in Emissions
BY DEF RunRecords

\* The status of a node tells how it ended, also when the answer is old.
LEMMA StatusTells ==
  ASSUME EngineFits, NEW r \in RunIds, NEW run \in RunRecords, Grows(run, engine[r]),
         NEW n \in RsNodes, NEW s \in getNodeRunStatus(run, n)
  PROVE  s \in NodeStatuses /\ (OwnName(n) => EndedIn(r, n, s))
<1>1. run.span[n] \in SpanStatuses /\ run.emitted[n] \in Emissions
  BY RecordFacts
<1>2. \A e \in CompletionEvents(run, n) : OwnName(n) => e = run.emitted[n] /\ e # "none"
  BY DEF CompletionEvents, OwnName
<1>3. run.emitted[n] # "none" => run.emitted[n] \in CompletionEvents(run, n)
  BY DEF CompletionEvents
<1>4. CASE CompletionEvents(run, n) # {}
  <2>1. PICK e \in CompletionEvents(run, n) : s = IF e = "failure" THEN "Failed" ELSE "Completed"
    BY <1>4 DEF getNodeRunStatus
  <2>2. ASSUME OwnName(n) PROVE EndedIn(r, n, s)
    <3>1. e = run.emitted[n] /\ e # "none" BY <1>2, <2>1, <2>2
    <3>2. engine[r].emitted[n] = e BY <3>1 DEF Grows
    <3>3. e \in {"completion", "failure"} BY <1>1, <3>1 DEF Emissions
    <3>4. e = "completion" => engine[r].span[n] = "Completed"
      BY <3>2 DEF EngineFits
    <3> QED BY <2>1, <3>2, <3>3, <3>4 DEF EndedIn
  <2> QED BY <2>1, <2>2 DEF NodeStatuses
<1>5. CASE CompletionEvents(run, n) = {}
  <2>1. s = CASE run.span[n] = "none" -> "Waiting" [] run.span[n] = "Failed" -> "Failing" [] OTHER -> run.span[n]
    BY <1>5 DEF getNodeRunStatus
  <2>2. /\ s = "Completed" => run.span[n] = "Completed"
        /\ s # "Failed" /\ (s = "Failing" => run.span[n] = "Failed") /\ s \in NodeStatuses
    BY <1>1, <2>1 DEF SpanStatuses, NodeStatuses
  <2> QED BY <2>2 DEF Grows, EndedIn
<1> QED BY <1>4, <1>5

\* What useRunsData's effects leave is of the run selected.
LEMMA UsesOneRun ==
  ASSUME EngineFits, OverlayFits, engine' = engine, NEW c \in BOOLEAN, useRunsData(c),
         DetailsFit', selectedRun' \in RunIds \cup {NoRun}, runsTab' \in BOOLEAN,
         ~c => runsTab /\ selectedRun' = selectedRun
  PROVE  OverlayFits'
<1>1. \A r, n, s : EndedIn(r, n, s)' = EndedIn(r, n, s) BY DEF EndedIn
<1>2. ASSUME overlay' = overlay, ~runsTab' \/ overlay.run = selectedRun' PROVE OverlayFits'
  BY <1>1, <1>2 DEF OverlayFits
<1>3. CASE ~runsTab' BY <1>2, <1>3 DEF useRunsData
<1>4. CASE runsTab' /\ selectedRun' = NoRun
  <2>1. CASE c
    <3>1. overlay' = [run |-> NoRun, dummy |-> NoChart, statuses |-> <<>>]
      BY <1>4, <2>1 DEF useRunsData
    <3>2. /\ overlay'.run = NoRun /\ overlay'.dummy = NoChart /\ overlay'.statuses = <<>>
          /\ \A n : n \notin DOMAIN overlay'.statuses
      BY <3>1
    <3> QED BY <1>4, <3>2 DEF OverlayFits
  <2>2. CASE ~c
    <3>1. overlay' = overlay BY <1>4, <2>2 DEF useRunsData
    <3> QED BY <1>2, <1>4, <2>2, <3>1 DEF OverlayFits
  <2> QED BY <2>1, <2>2
<1>5. CASE runsTab' /\ selectedRun' # NoRun
  <2> DEFINE before == IF c THEN ClearedDummy(overlay.dummy) ELSE overlay.dummy
             parsed == IF selectedRun' = NoRun THEN NoChart ELSE parseWorkflowData(selectedRun')
             dummy == IF parsed = NoChart THEN before ELSE parsed
  <2>1. PICK s \in nodeStatuses(selectedRun', dummy) : overlay' = [run |-> selectedRun', dummy |-> dummy, statuses |-> s]
    BY <1>5 DEF useRunsData
  <2>2. dummy # NoChart => dummy = RunChart[selectedRun']
    BY <1>5 DEF OverlayFits, ClearedDummy, parseWorkflowData
  <2> HIDE DEF dummy
  <2>3. overlay'.run = selectedRun' /\ overlay'.dummy = dummy /\ overlay'.statuses = s
    BY <2>1
  <2>4. ASSUME NEW n \in RsNodes, OwnName(n), n \in DOMAIN s PROVE EndedIn(selectedRun', n, s[n])
    <3>1. CASE runDetails'[selectedRun'] = NotFetched
      <4>1. s = <<>> BY <2>1, <3>1 DEF nodeStatuses
      <4>2. n \notin DOMAIN <<>> OBVIOUS
      <4> QED BY <2>4, <4>1, <4>2
    <3>2. CASE runDetails'[selectedRun'] # NotFetched
      <4>1. /\ s \in [DisplayedNodeIds(dummy) -> NodeStatuses]
            /\ \A m \in DisplayedNodeIds(dummy) : s[m] \in getNodeRunStatus(runDetails'[selectedRun'], m)
        BY <2>1, <3>2 DEF nodeStatuses
      <4>2. s[n] \in getNodeRunStatus(runDetails'[selectedRun'], n)
        BY <2>4, <4>1
      <4>3. /\ selectedRun' \in RunIds /\ runDetails'[selectedRun'] \in RunRecords
            /\ Grows(runDetails'[selectedRun'], engine[selectedRun'])
        BY <1>5, <3>2 DEF DetailsFit
      <4> QED BY <2>4, <4>2, <4>3, StatusTells
    <3> QED BY <3>1, <3>2
  <2> QED BY <1>1, <1>5, <2>2, <2>3, <2>4 DEF OverlayFits
<1> QED BY <1>3, <1>4, <1>5

\* A run of the engine grows; what is known of it stays true.
LEMMA EngineGrows ==
  ASSUME RsInv, NEW r \in RunIds, NEW run \in RunRecords, EngineStep(r, run), Grows(engine[r], run),
         \A n \in RsNodes : run.emitted[n] = "completion" => run.span[n] = "Completed"
  PROVE  RsInv'
<1>1. /\ engineTurns < MaxEngineTurns /\ engineTurns' = engineTurns + 1
      /\ engine' = [engine EXCEPT ![r] = run]
      /\ UNCHANGED <<runList, runDetails, runTrace, selectedRun, runsTab, nodeTips, overlay, rsTurns>>
  BY DEF EngineStep
<1>2. EngineFits' /\ engine'[r] = run /\ \A z \in RunIds \ {r} : engine'[z] = engine[z]
  BY <1>1 DEF RsInv, EngineFits
<1>3. \A z \in RunIds : Grows(engine[z], engine'[z]) BY <1>2 DEF Grows
<1>4. \A z \in RunIds, n \in RsNodes : \A s : EndedIn(z, n, s) => EndedIn(z, n, s)'
  BY <1>3 DEF EndedIn, Grows
<1>5. DetailsFit' BY <1>1, <1>3 DEF RsInv, DetailsFit, Grows
<1>6. TipsFit' BY <1>1, <1>4 DEF RsInv, TipsFit
<1>7. OverlayFits'
  <2>1. \A n : n \notin DOMAIN <<>> OBVIOUS
  <2> QED BY <1>1, <1>4, <2>1 DEF RsInv, OverlayFits
<1>8. PageShape' BY <1>1, RsAssumption DEF RsInv, PageShape
<1> QED BY <1>2, <1>5, <1>6, <1>7, <1>8 DEF RsInv

LEMMA RsInitFits == RsInit => RsInv
<1> SUFFICES ASSUME RsInit PROVE RsInv
  OBVIOUS
<1>1. FreshRun \in RunRecords /\ \A n \in RsNodes : FreshRun.emitted[n] = "none"
  BY DEF FreshRun, RunRecords, ActiveStatuses, FinalStatuses, SpanStatuses, Emissions
<1>2. EngineFits BY <1>1 DEF RsInit, EngineFits
<1>3. DetailsFit BY DEF RsInit, DetailsFit
<1>4. TipsFit BY DEF RsInit, TipsFit
<1>5. OverlayFits
  <2>1. /\ overlay.run = NoRun /\ overlay.dummy = NoChart /\ overlay.statuses = <<>> /\ ~runsTab
        /\ \A n : n \notin DOMAIN overlay.statuses
    BY DEF RsInit
  <2> QED BY <2>1 DEF OverlayFits
<1>6. PageShape
  <2>1. selectedRun = NoRun /\ runsTab = FALSE /\ rsTurns = 0 /\ engineTurns = 0 /\ runList = "absent"
    BY DEF RsInit
  <2>2. 0 \in 0..MaxRsTurns /\ 0 \in 0..MaxEngineTurns BY RsAssumption
  <2> QED BY <2>1, <2>2 DEF PageShape
<1> QED BY <1>2, <1>3, <1>4, <1>5, <1>6 DEF RsInv

\* The steps of the engine.
LEMMA EngineStepsFit ==
  ASSUME RsInv, NEW r \in RunIds,
         \/ GetsWorkflow(r) \/ \E s \in FinalStatuses : EndsRun(r, s)
         \/ \E n \in RsNodes : \/ \E s \in SpanStatuses : ExecutesNode(r, n, s)
                               \/ \E e \in Emissions : EmitsFor(r, n, e)
  PROVE  RsInv'
<1>1. /\ engine[r] \in RunRecords
      /\ \A n \in RsNodes : engine[r].emitted[n] = "completion" => engine[r].span[n] = "Completed"
  BY DEF RsInv, EngineFits
<1>2. \A st \in ActiveStatuses \cup FinalStatuses, o \in {"none", "pending", "saved"} :
        LET run == [engine[r] EXCEPT !.status = st, !.output = o] IN
        run \in RunRecords /\ run.span = engine[r].span /\ run.emitted = engine[r].emitted
  BY <1>1 DEF RunRecords
<1>3. /\ \A st \in ActiveStatuses \cup FinalStatuses :
          LET run == [engine[r] EXCEPT !.status = st] IN
          run \in RunRecords /\ run.span = engine[r].span /\ run.emitted = engine[r].emitted
      /\ \A o \in {"none", "pending", "saved"} :
          LET run == [engine[r] EXCEPT !.output = o] IN
          run \in RunRecords /\ run.span = engine[r].span /\ run.emitted = engine[r].emitted
  BY <1>1 DEF RunRecords
<1>4. ASSUME NEW run \in RunRecords, run.span = engine[r].span, run.emitted = engine[r].emitted, EngineStep(r, run)
      PROVE  RsInv'
  BY <1>1, <1>4, EngineGrows DEF Grows
<1>5. CASE GetsWorkflow(r)
  <2>1. "Running" \in ActiveStatuses \cup FinalStatuses
    BY DEF ActiveStatuses
  <2> QED BY <1>2, <1>3, <1>4, <1>5, <2>1 DEF GetsWorkflow
<1>6. ASSUME NEW s \in FinalStatuses, EndsRun(r, s) PROVE RsInv'
  BY <1>3, <1>4, <1>6 DEF EndsRun
<1>7. ASSUME NEW n \in RsNodes, NEW s \in SpanStatuses, ExecutesNode(r, n, s) PROVE RsInv'
  <2> DEFINE run == [engine[r] EXCEPT !.span[n] = s]
  <2>1. EngineStep(r, run) /\ engine[r].emitted[n] = "none" /\ engine[r].span[n] \in {"none", "Running", "Retrying"}
    BY <1>7 DEF ExecutesNode
  <2>2. /\ run \in RunRecords /\ run.emitted = engine[r].emitted /\ run.span[n] = s
        /\ \A m \in RsNodes \ {n} : run.span[m] = engine[r].span[m]
    BY <1>1, <1>7 DEF RunRecords
  <2> HIDE DEF run
  <2>3. Grows(engine[r], run) BY <1>1, <2>1, <2>2 DEF Grows
  <2>4. \A m \in RsNodes : run.emitted[m] = "completion" => run.span[m] = "Completed"
    BY <1>1, <2>1, <2>2
  <2> QED BY <2>1, <2>2, <2>3, <2>4, EngineGrows
<1>8. ASSUME NEW n \in RsNodes, NEW e \in Emissions, EmitsFor(r, n, e) PROVE RsInv'
  <2> DEFINE run == [engine[r] EXCEPT !.emitted[n] = e]
  <2>1. /\ EngineStep(r, run) /\ engine[r].emitted[n] = "none"
        /\ e = "completion" => engine[r].span[n] = "Completed"
    BY <1>8 DEF EmitsFor
  <2>2. /\ run \in RunRecords /\ run.span = engine[r].span /\ run.emitted[n] = e
        /\ \A m \in RsNodes \ {n} : run.emitted[m] = engine[r].emitted[m]
    BY <1>1, <1>8 DEF RunRecords
  <2> HIDE DEF run
  <2>3. Grows(engine[r], run) BY <1>1, <2>1, <2>2 DEF Grows
  <2>4. \A m \in RsNodes : run.emitted[m] = "completion" => run.span[m] = "Completed"
    BY <1>1, <2>1, <2>2
  <2> QED BY <2>1, <2>2, <2>3, <2>4, EngineGrows
<1> QED BY <1>5, <1>6, <1>7, <1>8

LEMMA RsStepFits == RsInv /\ [RsNext]_rsVars => RsInv'
<1> SUFFICES ASSUME RsInv, RsNext \/ UNCHANGED rsVars PROVE RsInv'
  OBVIOUS
<1>1. EngineFits /\ DetailsFit /\ TipsFit /\ OverlayFits /\ PageShape
  BY DEF RsInv
<1>2. ASSUME engine' = engine PROVE EngineFits' /\ \A r, n, s : EndedIn(r, n, s)' = EndedIn(r, n, s)
  BY <1>1, <1>2 DEF EngineFits, EndedIn
<1>3. ASSUME UNCHANGED <<engine, runDetails>> PROVE DetailsFit'
  BY <1>1, <1>3 DEF DetailsFit
<1>4. ASSUME UNCHANGED <<engine, nodeTips>> PROVE TipsFit'
  BY <1>1, <1>2, <1>4 DEF TipsFit
<1>5. ASSUME UNCHANGED <<engine, overlay, runsTab, selectedRun>> PROVE OverlayFits'
  BY <1>1, <1>2, <1>5 DEF OverlayFits
<1>6. CASE UNCHANGED rsVars
  BY <1>1, <1>2, <1>3, <1>4, <1>5, <1>6 DEF rsVars, RsInv, PageShape
<1>7. CASE PollRuns
  <2>1. UNCHANGED <<engine, runDetails, runTrace, selectedRun, runsTab, nodeTips, overlay, rsTurns, engineTurns>>
        /\ runList' \in {"active", "idle"}
    BY <1>7 DEF PollRuns
  <2>2. PageShape' BY <1>1, <2>1 DEF PageShape
  <2> QED BY <1>2, <1>3, <1>4, <1>5, <2>1, <2>2 DEF RsInv
<1>8. CASE PollRunDetails
  <2>1. /\ runsTab /\ selectedRun # NoRun /\ useRunsData(FALSE)
        /\ runDetails' = [runDetails EXCEPT ![selectedRun] = engine[selectedRun]]
        /\ UNCHANGED <<engine, runList, runTrace, selectedRun, runsTab, nodeTips, rsTurns, engineTurns>>
    BY <1>8 DEF PollRunDetails, getRunData
  <2>2. DetailsFit'
    <3>1. selectedRun \in RunIds /\ engine[selectedRun] \in RunRecords
      BY <1>1, <2>1 DEF PageShape, EngineFits
    <3>2. DOMAIN runDetails' = RunIds /\ runDetails'[selectedRun] = engine[selectedRun]
          /\ \A r \in RunIds \ {selectedRun} : runDetails'[r] = runDetails[r]
      BY <1>1, <2>1, <3>1 DEF DetailsFit
    <3>3. Grows(engine[selectedRun], engine[selectedRun]) BY DEF Grows
    <3> QED BY <1>1, <2>1, <3>1, <3>2, <3>3 DEF DetailsFit
  <2>3. PageShape' BY <1>1, <2>1 DEF PageShape
  <2>4. OverlayFits' BY <1>1, <2>1, <2>2, <2>3, UsesOneRun DEF PageShape
  <2> QED BY <1>2, <1>4, <2>1, <2>2, <2>3, <2>4 DEF RsInv
<1>9. CASE QueryTraceResult
  <2>1. /\ runsTab /\ useRunsData(FALSE)
        /\ UNCHANGED <<engine, runList, runDetails, selectedRun, runsTab, nodeTips, rsTurns, engineTurns>>
    BY <1>9 DEF QueryTraceResult
  <2>2. DetailsFit' /\ PageShape' BY <1>1, <1>3, <2>1 DEF PageShape
  <2>3. OverlayFits' BY <1>1, <2>1, <2>2, UsesOneRun DEF PageShape
  <2> QED BY <1>2, <1>4, <2>1, <2>2, <2>3 DEF RsInv
<1>10. CASE SwitchTab \/ \E r \in RunIds \cup {NoRun} : SelectRun(r)
  <2>1. /\ useRunsData(TRUE) /\ rsTurns < MaxRsTurns /\ rsTurns' = rsTurns + 1
        /\ UNCHANGED <<engine, runList, runDetails, runTrace, nodeTips, engineTurns>>
        /\ selectedRun' \in RunIds \cup {NoRun} /\ runsTab' \in BOOLEAN
    BY <1>1, <1>10 DEF SwitchTab, SelectRun, PageShape
  <2>2. DetailsFit' /\ PageShape'
    BY <1>1, <1>3, <2>1, RsAssumption DEF PageShape
  <2>3. OverlayFits' BY <1>1, <2>1, <2>2, UsesOneRun DEF PageShape
  <2> QED BY <1>2, <1>4, <2>1, <2>2, <2>3 DEF RsInv
<1>11. ASSUME NEW n \in RsNodes, HoverNode(n) PROVE RsInv'
  <2>1. /\ rsTurns < MaxRsTurns /\ rsTurns' = rsTurns + 1 /\ overlay.run # NoRun
        /\ \E s \in getNodeRunStatus(engine[overlay.run], n) : nodeTips' = [nodeTips EXCEPT ![overlay.run][n] = s]
        /\ UNCHANGED <<engine, runList, runDetails, runTrace, selectedRun, runsTab, overlay, engineTurns>>
    BY <1>11 DEF HoverNode, NodeDetails, getRunData
  <2>2. PICK s \in getNodeRunStatus(engine[overlay.run], n) : nodeTips' = [nodeTips EXCEPT ![overlay.run][n] = s]
    BY <2>1
  <2>3. overlay.run \in RunIds /\ engine[overlay.run] \in RunRecords
    BY <1>1, <2>1 DEF OverlayFits, EngineFits
  <2>4. Grows(engine[overlay.run], engine[overlay.run]) BY DEF Grows
  <2>5. s \in NodeStatuses /\ (OwnName(n) => EndedIn(overlay.run, n, s))
    BY <1>1, <1>11, <2>2, <2>3, <2>4, StatusTells
  <2>6. /\ nodeTips' \in [RunIds -> [RsNodes -> NodeStatuses \cup {NotFetched}]]
        /\ nodeTips'[overlay.run][n] = s
        /\ \A r \in RunIds, m \in RsNodes : (r # overlay.run \/ m # n) => nodeTips'[r][m] = nodeTips[r][m]
    BY <1>1, <1>11, <2>2, <2>3, <2>5 DEF TipsFit
  <2>7. TipsFit' BY <1>1, <1>2, <2>1, <2>5, <2>6 DEF TipsFit
  <2>8. PageShape' BY <1>1, <2>1, RsAssumption DEF PageShape
  <2> QED BY <1>2, <1>3, <1>5, <2>1, <2>7, <2>8 DEF RsInv
<1> QED BY <1>6, <1>7, <1>8, <1>9, <1>10, <1>11, EngineStepsFit DEF RsNext

LEMMA RsInvEnough == RsInv => OverlayIsOfOneRun
<1> SUFFICES ASSUME RsInv PROVE OverlayIsOfOneRun
  OBVIOUS
<1>1. \A n \in {m \in RsNodes : \A z \in RsNodes \ {m} : <<m, z>> \notin InsideOf} : n \in RsNodes /\ OwnName(n)
  BY DEF OwnName
<1> QED BY <1>1 DEF RsInv, OverlayFits, TipsFit, OverlayIsOfOneRun

-----------------------------------------------------------------------------
(* The scheduler of cron triggers                                          *)

PassRecord == [phase : {"idle", "listed", "removing"}, active : [Triggers -> Expressions],
               stale : SUBSET Triggers, todo : SUBSET Triggers, clean : BOOLEAN]
JobRecord == [trigger : Triggers, attempts : 0..MaxJobAttempts, runs : Nat,
              at : {"waiting", "posted", "ran", "refused", "completed", "failed"}]

CsShape ==
  /\ stored \in [Triggers -> Expressions] /\ scheduled \in [Triggers -> Expressions]
  /\ announced \subseteq Triggers
  /\ pass \in [Passes -> PassRecord]
  /\ job \in Seq(JobRecord) /\ Len(job) <= MaxJobs
  /\ serving \in {"up", "closing", "down"} /\ settled \in BOOLEAN
  /\ edits \in 0..MaxEdits /\ passed \in 0..MaxPasses

\* The runs of a job are those of its attempts: one that was just posted has had none of its own
\* yet, one that waits has an attempt left.
JobFits(k) ==
  /\ k.runs <= k.attempts
  /\ k.at = "waiting" => k.attempts < MaxJobAttempts
  /\ k.at = "posted" => k.runs < k.attempts
  /\ k.at \in {"ran", "completed"} => k.runs > 0

\* What a pass still removes has no active trigger.
PassFits(p) ==
  \A t \in pass[p].stale : pass[p].active[t] = 0

\* A clean pass is alone, knows the triggers as they are stored, and once it has listed them has
\* everything ahead of it that Redis still holds differently.
CleanFits(p) ==
  pass[p].clean /\ pass[p].phase # "idle" =>
    /\ \A q \in Passes \ {p} : pass[q].phase = "idle"
    /\ pass[p].active = stored
    /\ pass[p].phase = "removing" => \A t \in Triggers :
         scheduled[t] # stored[t] => t \in IF stored[t] = 0 THEN pass[p].stale ELSE pass[p].todo

\* While Redis holds the stored triggers, so do the lists of the passes under way.
SettledFits ==
  settled => /\ scheduled = stored
             /\ \A p \in Passes : pass[p].phase # "idle" => pass[p].active = stored

CsInv ==
  /\ CsShape
  /\ \A j \in 1..Len(job) : JobFits(job[j])
  /\ \A p \in Passes : PassFits(p) /\ CleanFits(p)
  /\ SettledFits

LEMMA NoPassIsOne == NoPass \in PassRecord /\ NoPass.phase = "idle" /\ NoPass.stale = {} /\ NoPass.clean = FALSE
  BY CsAssumption DEF NoPass, PassRecord

LEMMA CsBounds == 0 \in 0..MaxEdits /\ 0 \in 0..MaxPasses /\ 0 <= MaxJobs /\ MaxEdits \in Nat /\ MaxPasses \in Nat
  BY CsAssumption

LEMMA CsInitFits == CsInit => CsInv
<1> SUFFICES ASSUME CsInit PROVE CsInv
  OBVIOUS
<1>1. CsShape
  <2>1. job \in Seq(JobRecord) /\ Len(job) = 0 BY DEF CsInit
  <2>2. pass \in [Passes -> PassRecord] BY NoPassIsOne DEF CsInit
  <2>3. stored \in [Triggers -> Expressions] /\ scheduled \in [Triggers -> Expressions]
    BY CsAssumption DEF CsInit
  <2> QED BY <2>1, <2>2, <2>3, CsBounds DEF CsInit, CsShape
<1>2. \A p \in Passes : PassFits(p) /\ CleanFits(p)
  BY NoPassIsOne DEF CsInit, PassFits, CleanFits
<1> QED BY <1>1, <1>2 DEF CsInit, CsInv, SettledFits

\* A step of the triggers and the passes that leaves the jobs alone.
LEMMA JobsStand ==
  ASSUME CsInv, UNCHANGED job
  PROVE  job' \in Seq(JobRecord) /\ Len(job') <= MaxJobs /\ \A j \in 1..Len(job') : JobFits(job'[j])
  BY DEF CsInv, CsShape

\* A step of the jobs that leaves the rest alone.
LEMMA JobsMove ==
  ASSUME CsInv, UNCHANGED <<stored, announced, scheduled, pass, edits, passed, settled>>,
         serving' \in {"up", "closing", "down"},
         job' \in Seq(JobRecord), Len(job') <= MaxJobs, \A j \in 1..Len(job') : JobFits(job'[j])
  PROVE  CsInv'
<1>1. CsShape' BY DEF CsInv, CsShape
<1>2. \A p \in Passes : (PassFits(p) /\ CleanFits(p))'
  BY DEF CsInv, PassFits, CleanFits
<1> QED BY <1>1, <1>2 DEF CsInv, SettledFits

\* One job moves.
LEMMA JobMoves ==
  ASSUME CsInv, UNCHANGED <<stored, announced, scheduled, pass, edits, passed, settled, serving>>,
         NEW j \in 1..Len(job), NEW k \in JobRecord, JobFits(k), job' = [job EXCEPT ![j] = k]
  PROVE  CsInv'
<1>1. job \in Seq(JobRecord) /\ Len(job) \in Nat /\ Len(job) <= MaxJobs
  BY LenProperties DEF CsInv, CsShape
<1>2. job' \in Seq(JobRecord) /\ Len(job') = Len(job)
      /\ \A i \in 1..Len(job) : job'[i] = IF i = j THEN k ELSE job[i]
  BY <1>1, ExceptSeq
<1>3. \A i \in 1..Len(job') : JobFits(job'[i]) BY <1>2 DEF CsInv
<1> QED BY <1>1, <1>2, <1>3, JobsMove DEF CsInv, CsShape

\* An attempt that failed leaves its job waiting or failed.
LEMMA AfterFailureFits ==
  ASSUME NEW k \in JobRecord, JobFits(k)
  PROVE  AfterFailure(k) \in JobRecord /\ JobFits(AfterFailure(k))
  BY CsAssumption DEF AfterFailure, JobRecord, JobFits

\* A pass under way becomes r, with at most one trigger written in Redis as it knows it.
PassMoves(p, r) ==
  /\ pass[p].phase # "idle" /\ pass' = [pass EXCEPT ![p] = r]
  /\ \A t \in r.stale : r.active[t] = 0
  /\ r.phase = "idle" => r.stale = {} /\ ~r.clean
  /\ r.active = pass[p].active \/ r.phase = "idle"
  /\ r.clean => pass[p].clean
  /\ scheduled' \in [Triggers -> Expressions] /\ settled' \in BOOLEAN
  /\ UNCHANGED <<stored, announced, job, serving, edits, passed>>
  /\ \A t \in Triggers : scheduled'[t] \in {scheduled[t], pass[p].active[t]}
  /\ settled' /\ ~settled =>
       /\ r.phase = "idle" /\ scheduled' = stored
       /\ \A q \in Passes \ {p} : pass[q].phase = "idle"
  /\ r.clean /\ r.phase = "removing" => \A t \in Triggers :
       scheduled'[t] # stored[t] => t \in IF stored[t] = 0 THEN r.stale ELSE r.todo

LEMMA CsStepFits == CsInv /\ [CsNext]_csVars => CsInv'
<1> SUFFICES ASSUME CsInv, CsNext \/ UNCHANGED csVars PROVE CsInv'
  OBVIOUS
<1>1. /\ stored \in [Triggers -> Expressions] /\ scheduled \in [Triggers -> Expressions]
      /\ pass \in [Passes -> PassRecord] /\ announced \subseteq Triggers
      /\ job \in Seq(JobRecord) /\ Len(job) \in Nat
      /\ edits \in 0..MaxEdits /\ passed \in 0..MaxPasses
  BY LenProperties DEF CsInv, CsShape
<1>2. ASSUME NEW j \in 1..Len(job) PROVE job[j] \in JobRecord /\ JobFits(job[j])
  BY <1>1, ElementOfSeq DEF CsInv
<1>3. ASSUME NEW p \in Passes PROVE pass[p] \in PassRecord /\ PassFits(p) /\ CleanFits(p)
  BY <1>1 DEF CsInv
<1>4. /\ Soiled \in [Passes -> PassRecord]
      /\ \A p \in Passes : /\ Soiled[p].phase = pass[p].phase /\ Soiled[p].active = pass[p].active
                           /\ Soiled[p].stale = pass[p].stale /\ ~Soiled[p].clean
  BY <1>1 DEF Soiled, PassRecord
<1>5. CASE UNCHANGED csVars
  BY <1>5 DEF csVars, CsInv, CsShape, PassFits, CleanFits, SettledFits
<1>6. ASSUME NEW t \in Triggers, NEW e \in Expressions, NodeChanges(t, e) PROVE CsInv'
  <2>1. CsShape'
    <3>1. stored' \in [Triggers -> Expressions] /\ edits' \in 0..MaxEdits /\ announced' \subseteq Triggers
      BY <1>1, <1>6, CsBounds DEF NodeChanges
    <3> QED BY <1>1, <1>4, <1>6, <3>1 DEF NodeChanges, CsInv, CsShape
  <2>2. \A p \in Passes : (PassFits(p) /\ CleanFits(p))'
    BY <1>3, <1>4, <1>6 DEF NodeChanges, PassFits, CleanFits
  <2> QED BY <1>6, <2>1, <2>2 DEF NodeChanges, CsInv, SettledFits
<1>7. ASSUME NEW t \in Triggers, Announced(t) \/ AnnouncementLost(t) PROVE CsInv'
  <2>1. CASE Announced(t)
    <3>1. CsShape' BY <1>1, <1>4, <2>1 DEF Announced, CsInv, CsShape
    <3>2. \A p \in Passes : (PassFits(p) /\ CleanFits(p))'
      BY <1>3, <1>4, <2>1 DEF Announced, PassFits, CleanFits
    <3>3. SettledFits'
      BY <1>1, <1>4, <2>1 DEF Announced, CsInv, SettledFits
    <3> QED BY <2>1, <3>1, <3>2, <3>3 DEF Announced, CsInv
  <2>2. CASE AnnouncementLost(t)
    BY <2>2 DEF AnnouncementLost, CsInv, CsShape, PassFits, CleanFits, SettledFits
  <2> QED BY <1>7, <2>1, <2>2
<1>8. ASSUME NEW p \in Passes, PassStarts(p) PROVE CsInv'
  <2> DEFINE started == [NoPass EXCEPT !.phase = "listed", !.active = stored,
                         !.clean = (\A q \in Passes \ {p} : pass[q].phase = "idle") /\ announced = {}]
  <2>1. pass' = [Soiled EXCEPT ![p] = started] /\ UNCHANGED <<stored, announced, scheduled, job, serving, edits, settled>>
        /\ passed' = passed + 1 /\ passed < MaxPasses
    BY <1>8 DEF PassStarts
  <2>2. /\ started \in PassRecord /\ started.phase = "listed" /\ started.active = stored /\ started.stale = {}
        /\ started.clean => \A q \in Passes \ {p} : pass[q].phase = "idle"
    BY <1>1 DEF NoPass, PassRecord
  <2>3. pass' \in [Passes -> PassRecord] /\ pass'[p] = started /\ \A q \in Passes \ {p} : pass'[q] = Soiled[q]
    BY <1>4, <2>1, <2>2
  <2>4. CsShape' BY <1>1, <2>1, <2>3, CsAssumption DEF CsInv, CsShape
  <2>5. \A q \in Passes : (PassFits(q) /\ CleanFits(q))'
    <3>1. (PassFits(p) /\ CleanFits(p))'
      BY <1>4, <2>1, <2>2, <2>3 DEF PassFits, CleanFits
    <3>2. \A q \in Passes \ {p} : (PassFits(q) /\ CleanFits(q))'
      BY <1>3, <1>4, <2>1, <2>3 DEF PassFits, CleanFits
    <3> QED BY <3>1, <3>2
  <2>6. SettledFits' BY <1>4, <2>1, <2>2, <2>3 DEF CsInv, SettledFits
  <2> QED BY <2>1, <2>4, <2>5, <2>6 DEF CsInv
<1>9. ASSUME NEW p \in Passes, NEW r \in PassRecord, PassMoves(p, r)
      PROVE  CsInv'
  <2>1. pass' \in [Passes -> PassRecord] /\ pass'[p] = r /\ \A q \in Passes \ {p} : pass'[q] = pass[q]
    BY <1>1, <1>9 DEF PassMoves
  <2>2. CsShape' BY <1>1, <1>9, <2>1 DEF CsInv, CsShape, PassMoves
  <2>3. (PassFits(p) /\ CleanFits(p))'
    BY <1>3, <1>9, <2>1 DEF PassFits, CleanFits, PassMoves
  <2>4. ASSUME NEW q \in Passes \ {p} PROVE (PassFits(q) /\ CleanFits(q))'
    BY <1>3, <1>9, <2>1 DEF PassFits, CleanFits, PassMoves
  <2>5. SettledFits'
    <3>1. CASE settled
      <4>1. scheduled = stored /\ pass[p].active = stored /\ \A q \in Passes : pass[q].phase # "idle" => pass[q].active = stored
        BY <1>9, <3>1 DEF CsInv, SettledFits, PassMoves
      <4>2. scheduled' = stored BY <1>1, <1>9, <4>1 DEF PassMoves
      <4> QED BY <1>9, <2>1, <4>1, <4>2 DEF SettledFits, PassMoves
    <3>2. CASE ~settled BY <1>9, <2>1, <3>2 DEF SettledFits, PassMoves
    <3> QED BY <3>1, <3>2
  <2> QED BY <1>9, <2>2, <2>3, <2>4, <2>5, JobsStand DEF CsInv, PassMoves
<1>10. ASSUME NEW p \in Passes, PassLists(p) PROVE CsInv'
  <2> DEFINE r == [pass[p] EXCEPT !.phase = "removing",
                     !.stale = StaleTriggers(pass[p].active, {t \in Triggers : scheduled[t] # 0}),
                     !.todo = {t \in Triggers : pass[p].active[t] # 0}]
  <2>1. /\ pass' = [pass EXCEPT ![p] = r] /\ pass[p].phase = "listed"
        /\ UNCHANGED <<stored, announced, scheduled, job, serving, edits, passed, settled>>
    BY <1>1, <1>10 DEF PassLists
  <2>2. /\ r \in PassRecord /\ r.phase = "removing" /\ r.active = pass[p].active /\ r.clean = pass[p].clean
        /\ r.stale = {t \in Triggers : scheduled[t] # 0 /\ pass[p].active[t] = 0}
        /\ r.todo = {t \in Triggers : pass[p].active[t] # 0}
    BY <1>3 DEF PassRecord, StaleTriggers
  <2>3. r.clean => \A t \in Triggers : scheduled[t] # stored[t] => t \in IF stored[t] = 0 THEN r.stale ELSE r.todo
    BY <1>3, <2>1, <2>2 DEF CleanFits
  <2>6. /\ \A u \in r.stale : r.active[u] = 0
        /\ \A u \in Triggers : scheduled'[u] \in {scheduled[u], pass[p].active[u]}
        /\ scheduled' \in [Triggers -> Expressions] /\ settled' \in BOOLEAN /\ settled' = settled
        /\ UNCHANGED <<stored, announced, job, serving, edits, passed>>
    BY <1>1, <2>1, <2>2, <2>3 DEF CsInv, CsShape
  <2> HIDE DEF r
  <2>7. PassMoves(p, r) BY <2>1, <2>2, <2>3, <2>6 DEF PassMoves
  <2> QED BY <1>9, <2>2, <2>7
<1>11. ASSUME NEW p \in Passes, NEW t \in Triggers, PassRemoves(p, t) PROVE CsInv'
  <2> DEFINE r == [pass[p] EXCEPT !.stale = @ \ {t}]
  <2>1. /\ pass' = [pass EXCEPT ![p] = r] /\ pass[p].phase = "removing" /\ t \in pass[p].stale
        /\ scheduled' = [scheduled EXCEPT ![t] = 0]
        /\ UNCHANGED <<stored, announced, job, serving, edits, passed, settled>>
    BY <1>1, <1>11 DEF PassRemoves
  <2>2. /\ r \in PassRecord /\ r.phase = "removing" /\ r.active = pass[p].active /\ r.clean = pass[p].clean
        /\ r.stale = pass[p].stale \ {t} /\ r.todo = pass[p].todo
    BY <1>3, <2>1 DEF PassRecord
  <2>3. /\ scheduled' \in [Triggers -> Expressions] /\ scheduled'[t] = 0 /\ pass[p].active[t] = 0
        /\ \A u \in Triggers \ {t} : scheduled'[u] = scheduled[u]
    BY <1>1, <1>3, <2>1, CsAssumption DEF PassFits
  <2>4. r.clean => \A u \in Triggers : scheduled'[u] # stored[u] => u \in IF stored[u] = 0 THEN r.stale ELSE r.todo
    BY <1>3, <2>1, <2>2, <2>3 DEF CleanFits
  <2>5. \A u \in r.stale : r.active[u] = 0 BY <1>3, <2>2 DEF PassFits
  <2>6. /\ \A u \in r.stale : r.active[u] = 0
        /\ \A u \in Triggers : scheduled'[u] \in {scheduled[u], pass[p].active[u]}
        /\ scheduled' \in [Triggers -> Expressions] /\ settled' \in BOOLEAN /\ settled' = settled
        /\ UNCHANGED <<stored, announced, job, serving, edits, passed>>
    BY <1>1, <2>1, <2>2, <2>3, <2>4, <2>5 DEF CsInv, CsShape
  <2> HIDE DEF r
  <2>7. PassMoves(p, r) BY <2>1, <2>2, <2>4, <2>6 DEF PassMoves
  <2> QED BY <1>9, <2>2, <2>7
<1>12. ASSUME NEW p \in Passes, NEW t \in Triggers, PassUpserts(p, t) PROVE CsInv'
  <2> DEFINE r == [pass[p] EXCEPT !.todo = @ \ {t}]
  <2>1. /\ pass' = [pass EXCEPT ![p] = r] /\ pass[p].phase = "removing" /\ t \in pass[p].todo
        /\ scheduled' = [scheduled EXCEPT ![t] = pass[p].active[t]]
        /\ UNCHANGED <<stored, announced, job, serving, edits, passed, settled>>
    BY <1>1, <1>12 DEF PassUpserts
  <2>2. /\ r \in PassRecord /\ r.phase = "removing" /\ r.active = pass[p].active /\ r.clean = pass[p].clean
        /\ r.stale = pass[p].stale /\ r.todo = pass[p].todo \ {t} /\ pass[p].active[t] \in Expressions
    BY <1>3, <2>1 DEF PassRecord
  <2>3. /\ scheduled' \in [Triggers -> Expressions] /\ scheduled'[t] = pass[p].active[t]
        /\ \A u \in Triggers \ {t} : scheduled'[u] = scheduled[u]
    BY <1>1, <2>1, <2>2
  <2>4. r.clean => \A u \in Triggers : scheduled'[u] # stored[u] => u \in IF stored[u] = 0 THEN r.stale ELSE r.todo
    BY <1>3, <2>1, <2>2, <2>3 DEF CleanFits
  <2>5. \A u \in r.stale : r.active[u] = 0 BY <1>3, <2>2 DEF PassFits
  <2>6. /\ \A u \in r.stale : r.active[u] = 0
        /\ \A u \in Triggers : scheduled'[u] \in {scheduled[u], pass[p].active[u]}
        /\ scheduled' \in [Triggers -> Expressions] /\ settled' \in BOOLEAN /\ settled' = settled
        /\ UNCHANGED <<stored, announced, job, serving, edits, passed>>
    BY <1>1, <2>1, <2>2, <2>3, <2>4, <2>5 DEF CsInv, CsShape
  <2> HIDE DEF r
  <2>7. PassMoves(p, r) BY <2>1, <2>2, <2>4, <2>6 DEF PassMoves
  <2> QED BY <1>9, <2>2, <2>7
<1>13. ASSUME NEW p \in Passes, PassEnds(p) \/ PassFails(p) PROVE CsInv'
  <2>1. /\ pass' = [pass EXCEPT ![p] = NoPass] /\ pass[p].phase # "idle"
        /\ UNCHANGED <<stored, announced, scheduled, job, serving, edits, passed>>
        /\ settled' \in BOOLEAN
    BY <1>13 DEF PassEnds, PassFails, CsInv, CsShape
  <2>2. settled' /\ ~settled => scheduled' = stored /\ \A q \in Passes \ {p} : pass[q].phase = "idle"
    <3>1. CASE PassEnds(p) /\ pass[p].clean
      <4>1. /\ \A q \in Passes \ {p} : pass[q].phase = "idle"
            /\ \A t \in Triggers : scheduled[t] = stored[t]
        BY <1>3, <3>1 DEF PassEnds, CleanFits
      <4> QED BY <1>1, <2>1, <4>1
    <3> QED BY <1>13, <3>1 DEF PassEnds, PassFails
  <2>3. PassMoves(p, NoPass)
    BY <1>1, <2>1, <2>2, NoPassIsOne DEF PassMoves
  <2> QED BY <1>9, <2>3, NoPassIsOne
<1>14. ASSUME NEW t \in Triggers, ComesDue(t) PROVE CsInv'
  <2> DEFINE k == [trigger |-> t, attempts |-> 0, at |-> "waiting", runs |-> 0]
  <2>1. k \in JobRecord /\ JobFits(k)
    BY CsAssumption DEF JobRecord, JobFits
  <2>2. job' = Append(job, k) /\ Len(job) < MaxJobs /\ UNCHANGED <<stored, announced, scheduled, pass, serving, edits, passed, settled>>
    BY <1>14 DEF ComesDue
  <2> HIDE DEF k
  <2>3. /\ job' \in Seq(JobRecord) /\ Len(job') = Len(job) + 1
        /\ \A i \in 1..Len(job) : job'[i] = job[i]
        /\ job'[Len(job) + 1] = k
    BY <1>1, <2>1, <2>2, AppendProperties
  <2>4. \A j \in 1..Len(job') : j \in 1..Len(job) \/ j = Len(job) + 1
    BY <1>1, <2>3
  <2>5. \A j \in 1..Len(job') : JobFits(job'[j])
    BY <1>2, <2>1, <2>3, <2>4
  <2>6. Len(job') <= MaxJobs BY <1>1, <2>2, <2>3, CsAssumption
  <2> QED BY <2>2, <2>3, <2>5, <2>6, JobsMove DEF CsInv, CsShape
<1>15. ASSUME NEW j \in 1..Len(job), JobStarts(j) \/ ApplicationRuns(j) \/ JobAnswered(j) \/ JobTimesOut(j)
       PROVE  CsInv'
  <2>0. job[j] \in JobRecord /\ JobFits(job[j]) BY <1>2
  <2>1. CASE JobStarts(j)
    <3> DEFINE k == [job[j] EXCEPT !.at = "posted", !.attempts = @ + 1]
    <3>1. k \in JobRecord /\ JobFits(k)
      BY <2>0, <2>1, CsAssumption DEF JobStarts, JobRecord, JobFits
    <3>2. job' = [job EXCEPT ![j] = k] BY <1>1, <2>0, <2>1 DEF JobStarts
    <3> QED BY <2>1, <3>1, <3>2, JobMoves DEF JobStarts
  <2>2. CASE ApplicationRuns(j)
    <3> DEFINE known == stored[job[j].trigger] # 0
               k == [job[j] EXCEPT !.at = IF known THEN "ran" ELSE "refused",
                                   !.runs = IF known THEN @ + 1 ELSE @]
    <3>1. k \in JobRecord /\ JobFits(k)
      <4>1. job[j].at = "posted" /\ job[j].runs \in Nat /\ job[j].attempts \in Nat /\ job[j].runs + 1 <= job[j].attempts
        BY <2>0, <2>2, CsAssumption DEF ApplicationRuns, JobRecord, JobFits
      <4>2. CASE known
        <5> DEFINE r == [job[j] EXCEPT !.at = "ran", !.runs = job[j].runs + 1]
        <5>1. k = r BY <2>0, <4>2 DEF JobRecord
        <5>2. r \in JobRecord /\ JobFits(r)
          <6>0. job[j].runs + 1 \in Nat BY <4>1
          <6>1. \A m \in Nat : [job[j] EXCEPT !.at = "ran", !.runs = m] \in JobRecord
            BY <2>0 DEF JobRecord
          <6>2. r.at = "ran" /\ r.runs = job[j].runs + 1 /\ r.attempts = job[j].attempts
            BY <2>0 DEF JobRecord
          <6>3. r \in JobRecord BY <6>0, <6>1
          <6> HIDE DEF r
          <6> QED BY <4>1, <6>2, <6>3 DEF JobFits
        <5> QED BY <5>1, <5>2
      <4>3. CASE ~known
        <5> DEFINE r == [job[j] EXCEPT !.at = "refused"]
        <5>1. k = r BY <2>0, <4>3 DEF JobRecord
        <5>2. r \in JobRecord /\ JobFits(r)
          BY <2>0 DEF JobRecord, JobFits
        <5> QED BY <5>1, <5>2
      <4> QED BY <4>2, <4>3
    <3>2. job' = [job EXCEPT ![j] = k]
      BY <1>1, <2>0, <2>2 DEF ApplicationRuns
    <3> QED BY <2>2, <3>1, <3>2, JobMoves DEF ApplicationRuns
  <2>3. CASE JobAnswered(j)
    <3> DEFINE k == IF job[j].at = "ran" THEN [job[j] EXCEPT !.at = "completed"] ELSE AfterFailure(job[j])
    <3>1. k \in JobRecord /\ JobFits(k)
      <4>1. CASE job[j].at = "ran" BY <2>0, <4>1 DEF JobRecord, JobFits
      <4>2. CASE job[j].at # "ran" BY <2>0, <4>2, AfterFailureFits
      <4> QED BY <4>1, <4>2
    <3>2. job' = [job EXCEPT ![j] = k] BY <2>3 DEF JobAnswered
    <3> HIDE DEF k
    <3> QED BY <2>3, <3>1, <3>2, JobMoves DEF JobAnswered
  <2>4. CASE JobTimesOut(j)
    <3>1. AfterFailure(job[j]) \in JobRecord /\ JobFits(AfterFailure(job[j]))
      BY <2>0, AfterFailureFits
    <3>2. job' = [job EXCEPT ![j] = AfterFailure(job[j])]
      BY <2>4 DEF JobTimesOut
    <3> QED BY <2>4, <3>1, <3>2, JobMoves DEF JobTimesOut
  <2> QED BY <1>15, <2>1, <2>2, <2>3, <2>4
<1>16. CASE Shutdown \/ startService
  BY <1>16, JobsMove, JobsStand DEF Shutdown, startService
<1>17. ASSUME pass' = [p \in Passes |-> NoPass], serving' = "down",
              UNCHANGED <<stored, announced, scheduled, edits, passed, settled>>,
              job' \in Seq(JobRecord), Len(job') <= MaxJobs, \A j \in 1..Len(job') : JobFits(job'[j])
       PROVE  CsInv'
  <2>1. CsShape' BY <1>17, NoPassIsOne DEF CsInv, CsShape
  <2>2. \A p \in Passes : (PassFits(p) /\ CleanFits(p))'
    BY <1>17, NoPassIsOne DEF PassFits, CleanFits
  <2> QED BY <1>17, <2>1, <2>2, NoPassIsOne DEF CsInv, SettledFits
<1>18. CASE Exits BY <1>17, <1>18, JobsStand DEF Exits
<1>19. CASE Dies
  <2> DEFINE after(k) == IF k.at \in {"posted", "ran", "refused"} THEN AfterFailure(k) ELSE k
  <2>1. \A j \in 1..Len(job) : after(job[j]) \in JobRecord /\ JobFits(after(job[j]))
    BY <1>2, AfterFailureFits
  <2>2. job' = [j \in 1..Len(job) |-> after(job[j])] BY <1>19 DEF Dies
  <2> HIDE DEF after
  <2>3. job' \in Seq(JobRecord) /\ Len(job') = Len(job) /\ \A j \in 1..Len(job) : job'[j] = after(job[j])
    BY <1>1, <2>1, <2>2
  <2>4. \A j \in 1..Len(job') : JobFits(job'[j]) BY <2>1, <2>3
  <2>5. Len(job') <= MaxJobs BY <2>3 DEF CsInv, CsShape
  <2> QED BY <1>17, <1>19, <2>3, <2>4, <2>5 DEF Dies
<1> QED
  BY <1>5, <1>6, <1>7, <1>8, <1>10, <1>11, <1>12, <1>13, <1>14, <1>15, <1>16, <1>18, <1>19 DEF CsNext

LEMMA CsInvEnough == CsInv => CsTypeOK /\ ReconciledAndRetried
<1> SUFFICES ASSUME CsInv PROVE CsTypeOK /\ ReconciledAndRetried
  OBVIOUS
<1>1. \A p \in Passes : pass[p] \in PassRecord BY DEF CsInv, CsShape
<1>2. \A j \in 1..Len(job) : job[j] \in JobRecord /\ JobFits(job[j])
  BY ElementOfSeq DEF CsInv, CsShape
<1>3. CsTypeOK BY <1>1 DEF CsInv, CsShape, CsTypeOK, PassRecord
<1>4. ReconciledAndRetried
  <2>1. settled => scheduled = stored BY DEF CsInv, SettledFits
  <2>2. ASSUME NEW j \in 1..Len(job)
        PROVE  /\ job[j].attempts <= MaxJobAttempts /\ job[j].runs <= job[j].attempts
               /\ job[j].at = "completed" => job[j].runs > 0
    BY <1>2, CsAssumption DEF JobRecord, JobFits
  <2> QED BY <2>1, <2>2 DEF ReconciledAndRetried
<1> QED BY <1>3, <1>4

-----------------------------------------------------------------------------
(* The schedule builder                                                    *)

\* The least and the greatest of a non-empty set of numbers, the greatest where it has a bound.
LEMMA MinOfNat ==
  ASSUME NEW S, S \subseteq Nat, S # {}
  PROVE  Min(S) \in S /\ \A y \in S : Min(S) <= y
<1>1. PICK x \in S : \A y \in S : ~ (<<y, x>> \in OpToRel(<, Nat))
  BY NatLessThanWellFounded, WFMin
<1>2. \A y \in S : x <= y
  <2> SUFFICES ASSUME NEW y \in S, ~ (x <= y) PROVE FALSE
    OBVIOUS
  <2>1. <<y, x>> \in Nat \X Nat /\ y < x OBVIOUS
  <2>2. <<y, x>> \in {ss \in Nat \X Nat : ss[1] < ss[2]} BY <2>1
  <2>3. <<y, x>> \in OpToRel(<, Nat) BY <2>2 DEF OpToRel
  <2> QED BY <1>1, <2>3
<1> QED BY <1>2 DEF Min

LEMMA MaxOfNat ==
  ASSUME NEW n \in Nat, NEW S, S \subseteq 0..n, S # {}
  PROVE  Max(S) \in S /\ \A y \in S : y <= Max(S)
<1> DEFINE Above == {m \in Nat : \A y \in S : y <= m}
           m == Min(Above)
<1>1. Above \subseteq Nat /\ n \in Above OBVIOUS
<1>2. m \in Above /\ \A x \in Above : m <= x
  <2> HIDE DEF Above
  <2> QED BY <1>1, MinOfNat
<1> HIDE DEF m
<1>3. m \in Nat /\ \A y \in S : y <= m BY <1>2
<1>4. m \in S
  <2> SUFFICES ASSUME m \notin S PROVE FALSE
    OBVIOUS
  <2>1. PICK y \in S : TRUE OBVIOUS
  <2>2. \A x \in S : x \in Nat /\ x <= m - 1 BY <1>3
  <2>3. m - 1 \in Nat BY <1>3, <2>1, <2>2
  <2>4. m - 1 \in Above BY <2>2, <2>3
  <2> QED BY <1>2, <1>3, <2>4
<1> QED BY <1>3, <1>4 DEF Max

\* trim leaves a sequence that it leaves alone, and all of one that it does not shorten.
LEMMA TrimFacts ==
  ASSUME NEW S, NEW e \in Seq(S)
  PROVE  /\ trim(e) \in Seq(S) /\ trim(trim(e)) = trim(e)
         /\ Len(trim(e)) <= Len(e) /\ (Len(trim(e)) = Len(e) => trim(e) = e)
<1>1. CASE Texty(e) = {}
  <2>1. trim(e) = <<>> BY <1>1 DEF trim
  <2>2. Texty(<<>>) = {} BY DEF Texty
  <2>3. trim(<<>>) = <<>> BY <2>2 DEF trim
  <2>4. Len(e) = 0 => e = <<>> BY EmptySeq
  <2>5. <<>> \in Seq(S) /\ Len(<<>>) = 0 /\ Len(e) \in Nat
    BY LenProperties
  <2> QED BY <2>1, <2>3, <2>4, <2>5
<1>2. CASE Texty(e) # {}
  <2> DEFINE a == Min(Texty(e))
             b == Max(Texty(e))
             t == SubSeq(e, a, b)
  <2>0. Len(e) \in Nat BY LenProperties
  <2>1. Texty(e) \subseteq 0..Len(e) /\ Texty(e) \subseteq Nat
    BY <2>0 DEF Texty
  <2>2. a \in Texty(e) /\ b \in Texty(e) /\ a <= b
    BY <1>2, <2>0, <2>1, MinOfNat, MaxOfNat
  <2> HIDE DEF a, b
  <2>3. a \in 1..Len(e) /\ b \in 1..Len(e) /\ e[a] # Numbers(<<>>) /\ e[b] # Numbers(<<>>)
    BY <2>2 DEF Texty
  <2>4. /\ t \in Seq(S) /\ Len(t) = b - a + 1
        /\ \A i \in 1..(b - a + 1) : t[i] = e[a + i - 1]
    BY <2>0, <2>2, <2>3, SubSeqProperties
  <2>5. trim(e) = t BY <1>2 DEF trim, a, b
  <2> HIDE DEF t
  <2>6. Len(t) \in 1..Len(e) /\ t[1] = e[a] /\ t[Len(t)] = e[b]
    BY <2>0, <2>2, <2>3, <2>4
  <2>7. 1 \in Texty(t) /\ Len(t) \in Texty(t) /\ Texty(t) \subseteq 0..Len(t) /\ Texty(t) \subseteq Nat
    BY <2>3, <2>6 DEF Texty
  <2>8. Min(Texty(t)) = 1 /\ Max(Texty(t)) = Len(t)
    <3>1. Min(Texty(t)) \in Texty(t) /\ Min(Texty(t)) <= 1
      BY <2>7, MinOfNat
    <3>2. Max(Texty(t)) \in Texty(t) /\ Len(t) <= Max(Texty(t))
      BY <2>6, <2>7, MaxOfNat
    <3>3. \A i \in Texty(t) : i \in 1..Len(t) BY DEF Texty
    <3> QED BY <2>6, <3>1, <3>2, <3>3
  <2>9. SubSeq(t, 1, Len(t)) = t BY <2>4
  <2>10. trim(t) = t BY <2>7, <2>8, <2>9 DEF trim
  <2>11. Len(t) = Len(e) => t = e
    <3> SUFFICES ASSUME Len(t) = Len(e) PROVE t = e
      OBVIOUS
    <3>1. a = 1 /\ b = Len(e) BY <2>0, <2>3, <2>4
    <3>2. SubSeq(e, 1, Len(e)) = e OBVIOUS
    <3> QED BY <3>1, <3>2 DEF t
  <2> QED BY <2>0, <2>4, <2>5, <2>6, <2>10, <2>11
<1> QED BY <1>1, <1>2

-----------------------------------------------------------------------------

\* A field the builder writes: all the values, or a list that is not all of them.
Plain(l, x) == x = Star \/ (x = Numbers(x.v) /\ Len(x.v) # CbSize[l])

\* The expressions the builder writes.
Made(e) ==
    /\ \E S : e \in Seq(S)
    /\ Len(e) = 5
    /\ Plain("minutes", e[1]) /\ Plain("hours", e[2]) /\ Plain("months", e[4])
    /\ \/ e[3] = Question /\ e[4] = Star /\ Plain("daysOfWeek", e[5])
       \/ Plain("daysOfMonth", e[3]) /\ e[5] = Question

\* What stays what it is through parsing and writing, up to blanks at its ends.
Kept(e) ==
    \/ e = <<>>
    \/ Made(e)
    \/ (\E S : e \in Seq(S)) /\ trim(e) = e /\ Len(e) # 5

LEMMA FieldKinds ==
  /\ Star # Question /\ \A s : Numbers(s) # Star /\ Numbers(s) # Question /\ Numbers(s).v = s
  /\ \A s : parseNumbers(Numbers(s)) = s
  BY DEF Star, Question, Numbers, parseNumbers

LEMMA CsvIsPlain == ASSUME NEW form, NEW l PROVE Plain(l, csv(form, l))
<1>1. CASE Len(form.lists[l]) = CbSize[l] BY <1>1 DEF csv, Plain
<1>2. CASE Len(form.lists[l]) # CbSize[l]
  BY <1>2, FieldKinds DEF csv, Plain
<1> QED BY <1>1, <1>2

\* Five fields are a sequence of them.
LEMMA FiveFields ==
  ASSUME NEW a, NEW b, NEW c, NEW d, NEW f
  PROVE  /\ \E S : <<a, b, c, d, f>> \in Seq(S)
         /\ Len(<<a, b, c, d, f>>) = 5
<1>1. <<a, b, c, d, f>> \in Seq({a, b, c, d, f}) OBVIOUS
<1> QED BY <1>1

LEMMA WritesMade ==
  ASSUME NEW form, form.type \in ScheduleTypes, form.type # "custom"
  PROVE  cronExpression(form) = <<>> \/ Made(cronExpression(form))
<1>1. Plain("minutes", Star) /\ Plain("hours", Star) /\ Plain("daysOfMonth", Star) /\ Plain("months", Star)
  BY DEF Plain
<1>2. CASE form.type = "hour"
  <2> DEFINE e == <<csv(form, "minutes"), Star, Star, Star, Question>>
  <2>1. cronExpression(form) = e BY <1>2 DEF cronExpression
  <2>2. Made(e) BY <1>1, CsvIsPlain, FiveFields DEF Made
  <2> QED BY <2>1, <2>2
<1>3. CASE form.type = "day"
  <2> DEFINE e == <<csv(form, "minutes"), csv(form, "hours"), Star, Star, Question>>
  <2>1. cronExpression(form) = e BY <1>3 DEF cronExpression
  <2>2. Made(e) BY <1>1, CsvIsPlain, FiveFields DEF Made
  <2> QED BY <2>1, <2>2
<1>4. CASE form.type = "week"
  <2> DEFINE e == <<csv(form, "minutes"), csv(form, "hours"), Question, Star, csv(form, "daysOfWeek")>>
  <2>1. cronExpression(form) = e BY <1>4 DEF cronExpression
  <2>2. Made(e) BY <1>1, CsvIsPlain, FiveFields DEF Made
  <2> QED BY <2>1, <2>2
<1>5. CASE form.type = "month"
  <2> DEFINE e == <<csv(form, "minutes"), csv(form, "hours"), csv(form, "daysOfMonth"), Star, Question>>
  <2>1. cronExpression(form) = e BY <1>5 DEF cronExpression
  <2>2. Made(e) BY <1>1, CsvIsPlain, FiveFields DEF Made
  <2> QED BY <2>1, <2>2
<1>6. CASE form.type = "year"
  <2> DEFINE e == <<csv(form, "minutes"), csv(form, "hours"), csv(form, "daysOfMonth"), csv(form, "months"), Question>>
  <2>1. cronExpression(form) = e BY <1>6 DEF cronExpression
  <2>2. Made(e) BY <1>1, CsvIsPlain, FiveFields DEF Made
  <2> QED BY <2>1, <2>2
<1>7. CASE form.type = "never" BY <1>7 DEF cronExpression
<1> QED BY <1>2, <1>3, <1>4, <1>5, <1>6, <1>7 DEF ScheduleTypes

\* A mounted builder.
IsForm(f) == \E type, lists, custom :
    /\ type \in ScheduleTypes /\ DOMAIN lists = Lists
    /\ f = [type |-> type, lists |-> lists, custom |-> custom]

LEMMA FormsAre ==
  ASSUME NEW type \in ScheduleTypes, NEW lists, DOMAIN lists = Lists, NEW custom
  PROVE  IsForm([type |-> type, lists |-> lists, custom |-> custom])
  BY DEF IsForm

\* Parsing gives a form.
LEMMA ParseFacts ==
  ASSUME NEW e
  PROVE  /\ parseCronExpression(e).type \in ScheduleTypes
         /\ DOMAIN parseCronExpression(e).lists = Lists
         /\ IsForm(parseCronExpression(e))
<1>1. \A x : typeOf(x) \in ScheduleTypes BY DEF typeOf, ScheduleTypes
<1>2. parseCronExpression(e).type \in ScheduleTypes
  BY <1>1 DEF parseCronExpression, ScheduleTypes
<1>3. PICK type, lists, custom : /\ DOMAIN lists = Lists
         /\ parseCronExpression(e) = [type |-> type, lists |-> lists, custom |-> custom]
  <2> DEFINE x == trim(e)
             t == IF e = <<>> THEN "never" ELSE IF Len(x) # 5 THEN "custom" ELSE typeOf(x)
             ls == [l \in Lists |-> IF l \in ScheduleFields(t) THEN parseNumbers(x[fieldOf[l]]) ELSE loadDefaults[l]]
             c == IF t = "custom" THEN x ELSE e
  <2>1. parseCronExpression(e) = [type |-> t, lists |-> ls, custom |-> c]
    BY DEF parseCronExpression
  <2>2. DOMAIN ls = Lists OBVIOUS
  <2> HIDE DEF x, t, ls, c
  <2> QED BY <2>1, <2>2
<1>4. parseCronExpression(e).type = type /\ parseCronExpression(e).lists = lists
  BY <1>3
<1>5. IsForm(parseCronExpression(e))
  <2>1. type \in ScheduleTypes BY <1>2, <1>4
  <2> QED BY <1>3, <2>1, FormsAre
<1> QED BY <1>2, <1>3, <1>4, <1>5

\* An expression of the builder is written again as it was read, if no field of it is empty at an end.
LEMMA ReadsMade ==
  ASSUME NEW e, Made(e), trim(e) = e
  PROVE  cronExpression(parseCronExpression(e)) = e
<1> DEFINE form == parseCronExpression(e)
<1>1. PICK S : e \in Seq(S) BY DEF Made
<1>2. Len(e) = 5 /\ e # <<>> /\ e = <<e[1], e[2], e[3], e[4], e[5]>>
  BY <1>1 DEF Made
<1>3. form.type = typeOf(e) BY <1>2 DEF parseCronExpression
<1>4. ASSUME NEW l \in ScheduleFields(typeOf(e)), l \in Lists, e[fieldOf[l]] # Star, Plain(l, e[fieldOf[l]])
      PROVE  csv(form, l) = e[fieldOf[l]]
  <2>1. form.lists[l] = parseNumbers(e[fieldOf[l]])
    BY <1>2, <1>4 DEF parseCronExpression
  <2>2. e[fieldOf[l]] = Numbers(form.lists[l]) /\ Len(form.lists[l]) # CbSize[l]
    BY <1>4, <2>1, FieldKinds DEF Plain
  <2> HIDE DEF form
  <2> QED BY <2>2 DEF csv
<1>5. /\ fieldOf["minutes"] = 1 /\ fieldOf["hours"] = 2 /\ fieldOf["daysOfMonth"] = 3 /\ fieldOf["daysOfWeek"] = 5
      /\ {"minutes", "hours", "daysOfMonth", "daysOfWeek"} \subseteq Lists
  BY CbAssumption DEF fieldOf, Lists
<1>6. CASE typeOf(e) = "custom"
  BY <1>2, <1>3, <1>6 DEF parseCronExpression, cronExpression
<1> HIDE DEF form
<1>7. CASE e[1] # Star /\ e[2] = Star /\ e[3] = Star /\ e[4] = Star /\ e[5] = Question
  <2>1. typeOf(e) = "hour" BY <1>7, FieldKinds DEF typeOf
  <2>2. "minutes" \in ScheduleFields("hour") BY DEF ScheduleFields
  <2>3. csv(form, "minutes") = e[1]
    BY <1>4, <1>5, <1>7, <2>1, <2>2 DEF Made
  <2> QED BY <1>2, <1>3, <1>7, <2>1, <2>3 DEF cronExpression, form
<1>8. CASE e[1] # Star /\ e[2] # Star /\ e[3] = Star /\ e[4] = Star /\ e[5] = Question
  <2>1. typeOf(e) = "day" BY <1>8, FieldKinds DEF typeOf
  <2>2. {"minutes", "hours"} \subseteq ScheduleFields("day")
    BY DEF ScheduleFields
  <2>3. csv(form, "minutes") = e[1] /\ csv(form, "hours") = e[2]
    BY <1>4, <1>5, <1>8, <2>1, <2>2 DEF Made
  <2> QED BY <1>2, <1>3, <1>8, <2>1, <2>3 DEF cronExpression, form
<1>9. CASE e[1] # Star /\ e[2] # Star /\ e[3] = Question /\ e[4] = Star /\ e[5] # Star
  <2>0. e[5] # Question /\ Plain("daysOfWeek", e[5])
    BY <1>9, FieldKinds DEF Made, Plain
  <2>1. typeOf(e) = "week" BY <1>9, <2>0, FieldKinds DEF typeOf
  <2>2. {"minutes", "hours", "daysOfWeek"} \subseteq ScheduleFields("week")
    BY DEF ScheduleFields
  <2>3. csv(form, "minutes") = e[1] /\ csv(form, "hours") = e[2] /\ csv(form, "daysOfWeek") = e[5]
    BY <1>4, <1>5, <1>9, <2>0, <2>1, <2>2 DEF Made
  <2> QED BY <1>2, <1>3, <1>9, <2>1, <2>3 DEF cronExpression, form
<1>10. CASE e[1] # Star /\ e[2] # Star /\ e[3] # Star /\ e[4] = Star /\ e[5] = Question
  <2>0. e[3] # Question /\ Plain("daysOfMonth", e[3])
    BY <1>10, FieldKinds DEF Made, Plain
  <2>1. typeOf(e) = "month" BY <1>10, <2>0, FieldKinds DEF typeOf
  <2>2. {"minutes", "hours", "daysOfMonth"} \subseteq ScheduleFields("month")
    BY DEF ScheduleFields
  <2>3. csv(form, "minutes") = e[1] /\ csv(form, "hours") = e[2] /\ csv(form, "daysOfMonth") = e[3]
    BY <1>4, <1>5, <1>10, <2>0, <2>1, <2>2 DEF Made
  <2> QED BY <1>2, <1>3, <1>10, <2>1, <2>3 DEF cronExpression, form
<1>11. CASE ~(e[1] # Star /\ e[4] = Star /\ \/ e[2] = Star /\ e[3] = Star /\ e[5] = Question
                                            \/ e[2] # Star /\ e[3] = Star /\ e[5] = Question
                                            \/ e[2] # Star /\ e[3] = Question /\ e[5] # Star
                                            \/ e[2] # Star /\ e[3] # Star /\ e[5] = Question)
  <2>1. typeOf(e) = "custom" BY <1>11 DEF typeOf
  <2> QED BY <1>6, <2>1
<1> QED BY <1>7, <1>8, <1>9, <1>10, <1>11

\* Opening the builder keeps such an expression.
LEMMA ReopeningKeeps ==
  ASSUME NEW e, Kept(e)
  PROVE  /\ Kept(cronExpression(parseCronExpression(e)))
         /\ trim(cronExpression(parseCronExpression(e))) = trim(e)
<1> DEFINE form == parseCronExpression(e)
<1>1. CASE e = <<>>
  <2>1. form.type = "never" BY <1>1 DEF parseCronExpression
  <2>2. cronExpression(form) = <<>> BY <2>1 DEF cronExpression
  <2> QED BY <1>1, <2>2 DEF Kept
<1>2. CASE e # <<>>
  <2>1. PICK S : e \in Seq(S) BY <1>2 DEF Kept, Made
  <2>2. trim(e) \in Seq(S) /\ trim(trim(e)) = trim(e) /\ (Len(trim(e)) = Len(e) => trim(e) = e)
    BY <2>1, TrimFacts
  <2>3. CASE Len(trim(e)) # 5
    <3>1. form.type = "custom" /\ form.custom = trim(e)
      BY <1>2, <2>3 DEF parseCronExpression
    <3>2. cronExpression(form) = trim(e) BY <3>1 DEF cronExpression
    <3>3. Kept(trim(e)) BY <2>2, <2>3 DEF Kept
    <3> QED BY <2>2, <3>2, <3>3
  <2>4. CASE Len(trim(e)) = 5
    <3>1. Made(e) /\ trim(e) = e BY <1>2, <2>2, <2>4 DEF Kept, Made
    <3>2. cronExpression(form) = e BY <3>1, ReadsMade
    <3> QED BY <3>2
  <2> QED BY <2>3, <2>4
<1> QED BY <1>1, <1>2

CbInv ==
    /\ cbForm # Unmounted => IsForm(cbForm)
    /\ ~cbByHand => Kept(cbStored) /\ trim(cbStored) = trim(cbEntered)

LEMMA CbInitFits == CbInit => CbInv
  BY DEF CbInit, CbInv

\* A change of the form by the user.
LEMMA ChangeFits ==
  ASSUME NEW form, Changed(form), IsForm(form)
  PROVE  CbInv'
<1>0. form.type \in ScheduleTypes BY DEF IsForm
<1>1. cbForm' = form /\ cbStored' = cronExpression(form) /\ cbEntered' = cbStored' /\ cbByHand' = (form.type = "custom")
  BY DEF Changed
<1>2. form.type # "custom" => Kept(cronExpression(form))
  BY <1>0, WritesMade DEF Kept
<1> QED BY <1>1, <1>2 DEF CbInv

LEMMA CbStepFits == CbInv /\ [CbNext]_cbVars => CbInv'
<1> SUFFICES ASSUME CbInv, CbNext \/ UNCHANGED cbVars PROVE CbInv'
  OBVIOUS
<1>1. CASE UNCHANGED cbVars BY <1>1 DEF cbVars, CbInv
<1>2. CASE MountBuilder
  <2>1. /\ cbForm' = parseCronExpression(cbStored) /\ cbStored' = cronExpression(parseCronExpression(cbStored))
        /\ UNCHANGED <<cbEntered, cbByHand>>
    BY <1>2 DEF MountBuilder
  <2> QED BY <2>1, ParseFacts, ReopeningKeeps DEF CbInv
<1>3. CASE UnmountBuilder BY <1>3 DEF UnmountBuilder, CbInv
<1>4. ASSUME cbForm # Unmounted, NEW type \in ScheduleTypes, pickType(type) PROVE CbInv'
  <2>1. PICK old, lists, custom :
          old \in ScheduleTypes /\ DOMAIN lists = Lists /\ cbForm = [type |-> old, lists |-> lists, custom |-> custom]
    BY <1>4 DEF CbInv, IsForm
  <2>2. DOMAIN loadDefaults = Lists BY DEF loadDefaults
  <2>3. ASSUME NEW d PROVE [cbForm EXCEPT !.type = type, !.lists = d] = [type |-> type, lists |-> d, custom |-> custom]
    <3>1. [cbForm EXCEPT !.type = type] = [type |-> type, lists |-> lists, custom |-> custom]
      BY <2>1
    <3>2. ASSUME NEW g, g = [type |-> type, lists |-> lists, custom |-> custom]
          PROVE  [g EXCEPT !.lists = d] = [type |-> type, lists |-> d, custom |-> custom]
      BY <3>2
    <3> QED BY <3>1, <3>2
  <2>4. IsForm([cbForm EXCEPT !.type = type, !.lists = loadDefaults])
    <3> HIDE DEF loadDefaults
    <3>1. [cbForm EXCEPT !.type = type, !.lists = loadDefaults] = [type |-> type, lists |-> loadDefaults, custom |-> custom]
      BY <2>3
    <3> QED BY <2>2, <3>1, <1>4, FormsAre
  <2> QED BY <1>4, <2>4, ChangeFits DEF pickType
<1>5. ASSUME cbForm # Unmounted, NEW l \in Lists, toggleOf(l) PROVE CbInv'
  <2>1. PICK old, lists, custom :
          old \in ScheduleTypes /\ DOMAIN lists = Lists /\ cbForm = [type |-> old, lists |-> lists, custom |-> custom]
    BY <1>5 DEF CbInv, IsForm
  <2>2. PICK n : Changed([cbForm EXCEPT !.lists[l] = Toggled(@, n)])
    BY <1>5 DEF toggleOf
  <2>3. [cbForm EXCEPT !.lists[l] = Toggled(@, n)]
          = [type |-> old, lists |-> [lists EXCEPT ![l] = Toggled(@, n)], custom |-> custom]
    BY <2>1
  <2>4. DOMAIN [lists EXCEPT ![l] = Toggled(@, n)] = Lists BY <2>1
  <2>5. IsForm([cbForm EXCEPT !.lists[l] = Toggled(@, n)])
    BY <2>1, <2>3, <2>4, FormsAre
  <2> QED BY <2>2, <2>5, ChangeFits
<1>6. ASSUME cbForm # Unmounted, NEW text \in CustomTexts, setCustom(text) PROVE CbInv'
  <2>1. PICK old, lists, custom :
          old \in ScheduleTypes /\ DOMAIN lists = Lists /\ cbForm = [type |-> old, lists |-> lists, custom |-> custom]
    BY <1>6 DEF CbInv, IsForm
  <2>2. [cbForm EXCEPT !.custom = text] = [type |-> old, lists |-> lists, custom |-> text]
    BY <2>1
  <2>3. IsForm([cbForm EXCEPT !.custom = text]) BY <2>1, <2>2, FormsAre
  <2> QED BY <1>6, <2>3, ChangeFits DEF setCustom
<1>7. {"minutes", "hours", "daysOfMonth", "months", "daysOfWeek"} \subseteq Lists
  BY CbAssumption DEF Lists
<1> QED BY <1>1, <1>2, <1>3, <1>4, <1>5, <1>6, <1>7
  DEF CbNext, handleMinuteToggle, handleHourToggle, handleDayOfMonthToggle, handleMonthToggle, handleDayOfWeekToggle

LEMMA CbInvEnough == CbInv => CbTypeOK /\ ScheduleSurvivesReopening
<1>1. IsForm(cbForm) => cbForm.type \in ScheduleTypes /\ DOMAIN cbForm.lists = Lists
  BY DEF IsForm
<1> QED BY <1>1 DEF CbInv, CbTypeOK, ScheduleSurvivesReopening

-----------------------------------------------------------------------------
(* The workflow editor                                                     *)

Values == {0, 1, 2, NotYet, Gone}
Drawn == {c \in [EdNodes -> Values] : \A n \in EdTasks : c[n] # 2}

\* Two charts that ask for the same trigger rows.
Same(a, b) == \A n \in EdTriggers : a[n] = b[n] \/ (~Exists(a[n]) /\ ~Exists(b[n]))

\* The chart the rows mirror when the dispatch under way has ended.
Base == IF mutations = <<>> THEN config ELSE mutations[1][1]

ChainFits ==
    /\ \A i \in 1..(Len(mutations) - 1) : Same(mutations[i][2], mutations[i + 1][1])
    /\ mutations # <<>> => Same(mutations[Len(mutations)][2], config)

\* The callbacks left name a trigger once, and end where the chart was then.
TodoFits(base) ==
    /\ \A i, j \in 1..Len(todo) : todo[i][1] = todo[j][1] => i = j
    /\ \A i \in 1..Len(todo) :
         /\ triggerRows[todo[i][1]] = Persisted(todo[i][1], todo[i][2])
         /\ Persisted(todo[i][1], todo[i][3]) = Persisted(todo[i][1], base[todo[i][1]])
    /\ \A n \in EdTriggers : (\A i \in 1..Len(todo) : todo[i][1] # n) =>
         triggerRows[n] = Persisted(n, base[n])

EdTypes ==
    /\ config \in Drawn
    /\ links \subseteq Edge
    /\ readOnly \in BOOLEAN /\ callbackFailed \in BOOLEAN
    /\ layouts \in Seq(Drawn) /\ Len(layouts) <= 1
    /\ mutations \in Seq(Drawn \X Drawn)
    /\ todo \in Seq(EdTriggers \X Values \X Values)
    /\ triggerRows \in [EdTriggers -> {0, 1, 2, Gone}]
    /\ chartEdits \in 0..MaxChartEdits

EdInv ==
    /\ EdTypes
    /\ ChainFits
    /\ ~callbackFailed => TodoFits(Base)

LEMMA SetToSeqFacts ==
  ASSUME NEW S, IsFiniteSet(S)
  PROVE  /\ SetToSeq(S) \in Seq(S)
         /\ \A i, j \in 1..Len(SetToSeq(S)) : SetToSeq(S)[i] = SetToSeq(S)[j] => i = j
         /\ \A x \in S : \E i \in 1..Len(SetToSeq(S)) : SetToSeq(S)[i] = x
<1> DEFINE D == 1..Cardinality(S)
<1>1. Cardinality(S) \in Nat /\ ExistsBijection(D, S)
  BY FS_CardinalityType
<1>2. PICK b : b \in Bijection(D, S) BY <1>1 DEF ExistsBijection
<1>3. b \in [D -> S] /\ IsInjective(b)
  BY <1>2 DEF Bijection, Injection, IsInjective
<1>4. SetToSeq(S) \in [D -> S] /\ IsInjective(SetToSeq(S))
  BY <1>3 DEF SetToSeq
<1> DEFINE s == SetToSeq(S)
<1>5. s \in Seq(S) /\ Len(s) = Cardinality(S) /\ DOMAIN s = D
  BY <1>1, <1>4
<1>6. \A i, j \in 1..Len(s) : s[i] = s[j] => i = j
  BY <1>4, <1>5 DEF IsInjective
<1>7. s \in Surjection(D, S)
  <2>1. s \in Injection(D, S) BY <1>4, <1>5 DEF Injection, IsInjective
  <2>2. IsFiniteSet(D) /\ Cardinality(D) = Cardinality(S)
    BY <1>1, FS_Interval
  <2> DEFINE R == {s[i] : i \in D}
  <2>3. R \subseteq S /\ s \in Bijection(D, R)
    BY <1>4, <2>1 DEF Bijection, Injection, Surjection
  <2>4. Cardinality(R) = Cardinality(S)
    BY <2>2, <2>3, FS_Bijection DEF ExistsBijection
  <2>5. R = S BY <2>3, <2>4, FS_Subset
  <2> QED BY <2>3, <2>5 DEF Bijection
<1> QED BY <1>5, <1>6, <1>7 DEF Surjection

\* What getNodeMutations returns: one entry for each trigger that changed.
LEMMA MutationFacts ==
  ASSUME NEW old \in Drawn, NEW new \in Drawn
  PROVE  LET m == getNodeMutations(old, new) IN
         /\ m \in Seq(EdTriggers \X Values \X Values)
         /\ \A i \in 1..Len(m) : m[i][2] = old[m[i][1]] /\ m[i][3] = new[m[i][1]]
         /\ \A i, j \in 1..Len(m) : m[i][1] = m[j][1] => i = j
         /\ \A n \in EdTriggers : (\A i \in 1..Len(m) : m[i][1] # n) =>
              old[n] = new[n] \/ (~Exists(old[n]) /\ ~Exists(new[n]))
         /\ m = <<>> => Same(old, new)
<1> DEFINE removed == {n \in EdTriggers : Exists(old[n]) /\ ~Exists(new[n])}
           others == {n \in EdTriggers : Exists(new[n]) /\ old[n] # new[n]}
           a == SetToSeq(removed)
           b == SetToSeq(others)
           order == a \o b
           m == getNodeMutations(old, new)
<1>1. IsFiniteSet(removed) /\ IsFiniteSet(others)
  BY EdAssumption, FS_Subset
<1>2. /\ a \in Seq(removed) /\ b \in Seq(others)
      /\ \A i, j \in 1..Len(a) : a[i] = a[j] => i = j
      /\ \A i, j \in 1..Len(b) : b[i] = b[j] => i = j
      /\ \A x \in removed : \E i \in 1..Len(a) : a[i] = x
      /\ \A x \in others : \E i \in 1..Len(b) : b[i] = x
  BY <1>1, SetToSeqFacts
<1>3. removed \cap others = {} /\ removed \subseteq EdTriggers /\ others \subseteq EdTriggers
  OBVIOUS
<1>4. m = [i \in DOMAIN order |-> <<order[i], old[order[i]], new[order[i]]>>]
  BY DEF getNodeMutations
<1>x. \A n \in EdTriggers : n \notin removed \cup others => old[n] = new[n] \/ (~Exists(old[n]) /\ ~Exists(new[n]))
  OBVIOUS
<1> HIDE DEF removed, others, a, b, m
<1>5. /\ order \in Seq(EdTriggers) /\ Len(order) = Len(a) + Len(b)
      /\ \A i \in 1..Len(a) : order[i] = a[i]
      /\ \A i \in 1..Len(b) : order[Len(a) + i] = b[i]
      /\ \A i \in 1..Len(order) : i \in 1..Len(a) \/ (i - Len(a) \in 1..Len(b) /\ order[i] = b[i - Len(a)])
      /\ Len(a) \in Nat /\ Len(b) \in Nat
  BY <1>2, <1>3
<1>6. \A i, j \in 1..Len(order) : order[i] = order[j] => i = j
  <2> SUFFICES ASSUME NEW i \in 1..Len(order), NEW j \in 1..Len(order), order[i] = order[j] PROVE i = j
    OBVIOUS
  <2>1. CASE i \in 1..Len(a) /\ j \in 1..Len(a) BY <1>2, <1>5, <2>1
  <2>2. CASE i \notin 1..Len(a) /\ j \notin 1..Len(a)
    <3>1. i - Len(a) \in 1..Len(b) /\ j - Len(a) \in 1..Len(b) /\ b[i - Len(a)] = b[j - Len(a)]
      BY <1>5, <2>2
    <3>2. i - Len(a) = j - Len(a) BY <1>2, <3>1
    <3> QED BY <3>2, <1>5
  <2>3. ASSUME NEW k \in 1..Len(a), NEW l \in 1..Len(order), l \notin 1..Len(a) PROVE order[k] # order[l]
    <3>1. PICK x \in 1..Len(b) : order[l] = b[x] BY <1>5, <2>3
    <3>2. a[k] \in removed BY <1>2
    <3>3. b[x] \in others BY <1>2
    <3> QED BY <1>3, <1>5, <3>1, <3>2, <3>3
  <2> QED BY <2>1, <2>2, <2>3
<1>7. \A x \in removed \cup others : \E i \in 1..Len(order) : order[i] = x
  <2>1. ASSUME NEW x \in removed PROVE \E i \in 1..Len(order) : order[i] = x
    <3>1. PICK i \in 1..Len(a) : a[i] = x BY <1>2
    <3> QED BY <1>5, <3>1
  <2>2. ASSUME NEW x \in others PROVE \E i \in 1..Len(order) : order[i] = x
    <3>1. PICK i \in 1..Len(b) : b[i] = x BY <1>2
    <3>2. Len(a) + i \in 1..Len(order) /\ order[Len(a) + i] = x
      BY <1>5, <3>1
    <3> QED BY <3>2
  <2> QED BY <2>1, <2>2
<1> HIDE DEF order
<1>8. \A n \in EdTriggers : old[n] \in Values /\ new[n] \in Values
  BY DEF Drawn, EdNodes
<1>9. /\ m \in Seq(EdTriggers \X Values \X Values) /\ Len(m) = Len(order)
      /\ \A i \in 1..Len(m) : m[i][1] = order[i] /\ m[i][2] = old[m[i][1]] /\ m[i][3] = new[m[i][1]]
  <2>1. DOMAIN order = 1..Len(order) /\ Len(order) \in Nat /\ \A i \in 1..Len(order) : order[i] \in EdTriggers
    BY <1>5
  <2>2. \A i \in 1..Len(order) : <<order[i], old[order[i]], new[order[i]]>> \in EdTriggers \X Values \X Values
    BY <1>8, <2>1
  <2>3. m \in [1..Len(order) -> EdTriggers \X Values \X Values]
    BY <1>4, <2>1, <2>2
  <2>4. m \in Seq(EdTriggers \X Values \X Values) /\ Len(m) = Len(order)
    BY <2>1, <2>3
  <2> QED BY <1>4, <2>1, <2>4
<1>10. \A n \in EdTriggers : (\A i \in 1..Len(m) : m[i][1] # n) => n \notin removed \cup others
  BY <1>7, <1>9
<1>11. m = <<>> => Same(old, new)
  <2> SUFFICES ASSUME m = <<>> PROVE Same(old, new)
    OBVIOUS
  <2>1. Len(m) = 0 OBVIOUS
  <2> QED BY <1>x, <1>10, <2>1 DEF Same
<1>12. \A i, j \in 1..Len(m) : m[i][1] = m[j][1] => i = j BY <1>6, <1>9
<1> QED BY <1>9, <1>10, <1>11, <1>12, <1>x DEF m

LEMMA PersistedFacts ==
  ASSUME NEW n \in EdTriggers, NEW v \in Values, NEW w \in Values
  PROVE  /\ Persisted(n, v) \in {0, 1, 2, Gone}
         /\ ~Exists(v) => Persisted(n, v) = Gone
         /\ (v = w \/ (~Exists(v) /\ ~Exists(w))) => Persisted(n, v) = Persisted(n, w)
  BY DEF Persisted, Exists, Gone, NotYet, Values

LEMMA EdInitFits == EdInit => EdInv
<1> SUFFICES ASSUME EdInit PROVE EdInv
  OBVIOUS
<1>1. config \in Drawn
  BY EdAssumption DEF EdInit, Drawn, Values, EdNodes, NotYet, Gone
<1>2. triggerRows = [n \in EdTriggers |-> Persisted(n, config[n])]
  BY DEF EdInit
<1>3. triggerRows \in [EdTriggers -> {0, 1, 2, Gone}]
  BY <1>1, <1>2, PersistedFacts DEF Drawn, EdNodes
<1>4. links \subseteq Edge BY DEF EdInit
<1>5. EdTypes
  <2>1. /\ layouts = <<>> /\ mutations = <<>> /\ todo = <<>> /\ readOnly = FALSE /\ callbackFailed = FALSE
        /\ chartEdits = 0
    BY DEF EdInit
  <2>2. <<>> \in Seq(Drawn) /\ <<>> \in Seq(Drawn \X Drawn) /\ <<>> \in Seq(EdTriggers \X Values \X Values) /\ Len(<<>>) = 0
    OBVIOUS
  <2>3. chartEdits \in 0..MaxChartEdits /\ Len(layouts) <= 1
    BY <2>1, <2>2, EdAssumption
  <2>4. layouts \in Seq(Drawn) /\ mutations \in Seq(Drawn \X Drawn) /\ todo \in Seq(EdTriggers \X Values \X Values)
    BY <2>1, <2>2
  <2> QED BY <1>1, <1>3, <1>4, <2>1, <2>3, <2>4 DEF EdTypes
<1>6. ChainFits /\ TodoFits(Base)
  BY <1>2 DEF ChainFits, TodoFits, Base, EdInit
<1> QED BY <1>5, <1>6 DEF EdInv

\* A commit appends the pair of charts, unless no trigger row changes.
LEMMA CommitFits ==
  ASSUME EdInv, NEW nodes \in Drawn, NEW edges \in SUBSET Edge, Commit(nodes, edges),
         readOnly' \in BOOLEAN, layouts' \in Seq(Drawn), Len(layouts') <= 1, chartEdits' \in 0..MaxChartEdits
  PROVE  EdInv'
<1> DEFINE m == getNodeMutations(config, nodes)
<1>1. /\ config' = nodes /\ links' = edges /\ UNCHANGED <<todo, triggerRows, callbackFailed>>
      /\ mutations' = IF m = <<>> THEN mutations ELSE Append(mutations, <<config, nodes>>)
  BY DEF Commit
<1>2. m = <<>> => Same(config, nodes)
  BY MutationFacts DEF EdInv, EdTypes
<1> HIDE DEF m
<1>3. EdTypes' BY <1>1 DEF EdInv, EdTypes
<1>4. mutations \in Seq(Drawn \X Drawn) /\ config \in Drawn /\ todo \in Seq(EdTriggers \X Values \X Values)
  BY DEF EdInv, EdTypes
<1>5. ChainFits' /\ (Same(Base, Base') \/ Base' = Base)
  <2>1. CASE m = <<>>
    <3>1. mutations' = mutations BY <1>1, <2>1
    <3>2. CASE mutations = <<>>
      BY <1>1, <1>2, <2>1, <3>1, <3>2 DEF ChainFits, Base
    <3>3. CASE mutations # <<>>
      <4>1. Same(mutations[Len(mutations)][2], config)
        BY <3>3 DEF EdInv, ChainFits
      <4>2. Same(mutations[Len(mutations)][2], nodes)
        BY <1>2, <2>1, <4>1 DEF Same
      <4> QED BY <1>1, <3>1, <3>3, <4>2 DEF EdInv, ChainFits, Base
    <3> QED BY <3>2, <3>3
  <2>2. CASE m # <<>>
    <3> DEFINE p == <<config, nodes>>
               N == Len(mutations)
    <3>1. /\ mutations' = Append(mutations, p) /\ Len(mutations') = N + 1 /\ N \in Nat
          /\ mutations'[N + 1] = p /\ \A i \in 1..N : mutations'[i] = mutations[i]
      BY <1>1, <1>4, <2>2
    <3>2. p[1] = config /\ p[2] = nodes OBVIOUS
    <3>3. Same(nodes, nodes) /\ mutations' # <<>> BY <3>1 DEF Same
    <3> HIDE DEF p
    <3>4. ASSUME NEW i \in 1..N PROVE Same(mutations'[i][2], mutations'[i + 1][1])
      <4>1. CASE i = N
        <5>1. mutations # <<>> BY <1>4, <3>1, <4>1
        <5> QED BY <3>1, <3>2, <4>1, <5>1 DEF EdInv, ChainFits
      <4>2. CASE i # N
        <5>1. i \in 1..(N - 1) /\ i + 1 \in 1..N BY <3>1, <4>2
        <5> QED BY <3>1, <5>1 DEF EdInv, ChainFits
      <4> QED BY <4>1, <4>2
    <3>5. ChainFits' BY <1>1, <3>1, <3>2, <3>3, <3>4 DEF ChainFits
    <3>6. Base' = Base BY <1>4, <3>1, <3>2, <3>3 DEF Base
    <3> QED BY <3>5, <3>6
  <2> QED BY <2>1, <2>2
<1>6. ~callbackFailed' => TodoFits(Base)'
  <2> SUFFICES ASSUME ~callbackFailed PROVE TodoFits(Base)'
    BY <1>1
  <2>1. TodoFits(Base) BY DEF EdInv
  <2>2. Base \in Drawn /\ Base' \in Drawn
    BY <1>3, <1>4 DEF Base, EdTypes
  <2>3. \A n \in EdTriggers : Persisted(n, Base[n]) = Persisted(n, Base'[n])
    BY <1>5, <2>2, PersistedFacts DEF Same, Drawn, EdNodes
  <2>4. \A i \in 1..Len(todo) : todo[i][1] \in EdTriggers BY <1>4
  <2> QED BY <1>1, <2>1, <2>3, <2>4 DEF TodoFits
<1> QED BY <1>3, <1>5, <1>6 DEF EdInv

LEMMA EditFits ==
  ASSUME EdInv, NEW nodes \in Drawn, NEW edges \in SUBSET Edge, Edit(nodes, edges)
  PROVE  EdInv'
<1>1. Commit(nodes, edges) /\ UNCHANGED <<readOnly, layouts>> /\ chartEdits' = chartEdits + 1 /\ chartEdits < MaxChartEdits
  BY DEF Edit
<1>2. readOnly' \in BOOLEAN /\ layouts' \in Seq(Drawn) /\ Len(layouts') <= 1 /\ chartEdits' \in 0..MaxChartEdits
  BY <1>1, EdAssumption DEF EdInv, EdTypes
<1> QED BY <1>1, <1>2, CommitFits

LEMMA EdStepFits == EdInv /\ [EdNext]_edVars => EdInv'
<1> SUFFICES ASSUME EdInv, EdNext \/ UNCHANGED edVars PROVE EdInv'
  OBVIOUS
<1>a. /\ config \in Drawn /\ links \in SUBSET Edge /\ layouts \in Seq(Drawn) /\ Len(layouts) <= 1
      /\ mutations \in Seq(Drawn \X Drawn) /\ todo \in Seq(EdTriggers \X Values \X Values)
      /\ triggerRows \in [EdTriggers -> {0, 1, 2, Gone}]
      /\ readOnly \in BOOLEAN /\ callbackFailed \in BOOLEAN /\ chartEdits \in 0..MaxChartEdits
  BY DEF EdInv, EdTypes
<1>v. {0, 1, 2} \subseteq Values
  BY DEF Values
<1>b. ASSUME NEW n \in EdNodes, NEW v \in Values, n \in EdTasks => v # 2
      PROVE  [config EXCEPT ![n] = v] \in Drawn
  <2>1. config \in [EdNodes -> Values] /\ \A m \in EdTasks : config[m] # 2
    BY <1>a DEF Drawn
  <2>2. [config EXCEPT ![n] = v] \in [EdNodes -> Values] BY <2>1
  <2>3. \A m \in EdTasks : [config EXCEPT ![n] = v][m] # 2
    BY <1>b, <2>1 DEF EdNodes
  <2> QED BY <2>2, <2>3 DEF Drawn
<1>1. CASE UNCHANGED edVars
  BY <1>1 DEF edVars, EdInv, EdTypes, ChainFits, TodoFits, Base
<1>2. ASSUME NEW n \in EdNodes, addNode(n) PROVE EdInv'
  <2>1. [config EXCEPT ![n] = 0] \in Drawn BY <1>b, <1>v
  <2> QED BY <1>2, <1>a, <2>1, EditFits DEF addNode
<1>3. ASSUME NEW n \in EdNodes, ToggleField(n) PROVE EdInv'
  <2>1. n \in EdTasks /\ Exists(config[n]) /\ config[n] \in Values /\ config[n] # 2
    BY <1>3, <1>a DEF ToggleField, Present, Drawn
  <2>2. 1 - config[n] \in {0, 1} BY <2>1 DEF Exists, Values
  <2>3. [config EXCEPT ![n] = 1 - @] = [config EXCEPT ![n] = 1 - config[n]]
    OBVIOUS
  <2>4. [config EXCEPT ![n] = 1 - @] \in Drawn BY <1>b, <1>v, <2>2, <2>3
  <2> QED BY <1>3, <1>a, <2>4, EditFits DEF ToggleField
<1>4. ASSUME NEW n \in EdNodes, removeConnectedInput(n) PROVE EdInv'
  <2>1. [config EXCEPT ![n] = 0] \in Drawn BY <1>b, <1>v
  <2>2. {e \in links : e.to # n \/ e.handle # "x"} \in SUBSET Edge
    BY <1>a
  <2> QED BY <1>4, <2>1, <2>2, EditFits DEF removeConnectedInput
<1>5. ASSUME NEW n \in EdNodes, NEW v \in 0..2, updateFieldValue(n, v) PROVE EdInv'
  <2>1. n \in EdTriggers /\ n \notin EdTasks
    BY <1>5, EdAssumption DEF updateFieldValue
  <2>2. [config EXCEPT ![n] = v] \in Drawn BY <1>b, <1>v, <2>1
  <2> QED BY <1>5, <1>a, <2>2, EditFits DEF updateFieldValue
<1>6. ASSUME NEW S \in SUBSET EdNodes, DeleteNodes(S) PROVE EdInv'
  <2>1. [n \in EdNodes |-> IF n \in S THEN Gone ELSE config[n]] \in Drawn
    BY <1>a DEF Drawn, Values, Gone, EdNodes
  <2>2. {e \in links : e.from \notin S /\ e.to \notin S} \in SUBSET Edge
    BY <1>a
  <2> QED BY <1>6, <2>1, <2>2, EditFits DEF DeleteNodes
<1>7. ASSUME NEW e \in Edge, connectNodes(e) \/ DeleteEdge(e) PROVE EdInv'
  <2>1. links \cup {e} \in SUBSET Edge /\ links \ {e} \in SUBSET Edge
    BY <1>a
  <2>2. Edit(config, links \cup {e}) \/ Edit(config, links \ {e})
    BY <1>7 DEF connectNodes, DeleteEdge
  <2> QED BY <1>a, <2>1, <2>2, EditFits
<1>8. CASE onLayout
  <2>1. layouts' = <<config>> /\ UNCHANGED <<config, links, readOnly, mutations, todo, triggerRows, callbackFailed, chartEdits>>
    BY <1>8 DEF onLayout
  <2>2. <<config>> \in Seq(Drawn) /\ Len(<<config>>) = 1 BY <1>a
  <2>3. EdTypes' BY <1>a, <2>1, <2>2 DEF EdTypes
  <2> QED BY <2>1, <2>3 DEF EdInv, ChainFits, TodoFits, Base
<1>9. CASE LayoutDone
  <2> DEFINE nodes == [n \in EdNodes |-> IF Head(layouts)[n] = NotYet /\ config[n] # NotYet
                                          THEN Gone ELSE Head(layouts)[n]]
  <2>1. Head(layouts) \in Drawn BY <1>9, <1>a DEF LayoutDone
  <2>2. nodes \in Drawn BY <2>1 DEF Drawn, Values, Gone, EdNodes
  <2>3. Commit(nodes, links) /\ layouts' = <<>> /\ UNCHANGED <<readOnly, chartEdits>>
    BY <1>9 DEF LayoutDone
  <2>4. layouts' \in Seq(Drawn) /\ Len(layouts') <= 1 BY <2>3
  <2> HIDE DEF nodes
  <2> QED BY <1>a, <2>2, <2>3, <2>4, CommitFits
<1>10. CASE ShowRun
  <2>1. readOnly' \in BOOLEAN /\ UNCHANGED <<config, links, layouts, mutations, todo, triggerRows, callbackFailed, chartEdits>>
    BY <1>10, <1>a DEF ShowRun
  <2>2. EdTypes' BY <1>a, <2>1 DEF EdTypes
  <2> QED BY <2>1, <2>2 DEF EdInv, ChainFits, TodoFits, Base
<1>11. CASE dispatchNodeMutationCallbacks
  <2> DEFINE old == mutations[1][1]
             new == mutations[1][2]
             m == getNodeMutations(old, new)
  <2>1. /\ todo = <<>> /\ mutations # <<>> /\ todo' = m /\ mutations' = Tail(mutations)
        /\ UNCHANGED <<config, links, readOnly, layouts, triggerRows, callbackFailed, chartEdits>>
    BY <1>11, <1>a DEF dispatchNodeMutationCallbacks
  <2>2. old \in Drawn /\ new \in Drawn /\ Base = old
    BY <1>a, <2>1 DEF Base
  <2>3. /\ m \in Seq(EdTriggers \X Values \X Values)
        /\ \A i \in 1..Len(m) : m[i][2] = old[m[i][1]] /\ m[i][3] = new[m[i][1]]
        /\ \A i, j \in 1..Len(m) : m[i][1] = m[j][1] => i = j
        /\ \A n \in EdTriggers : (\A i \in 1..Len(m) : m[i][1] # n) =>
              old[n] = new[n] \/ (~Exists(old[n]) /\ ~Exists(new[n]))
    <3> HIDE DEF old, new
    <3> QED BY <2>2, MutationFacts
  <2> HIDE DEF old, new, m
  <2>4. /\ mutations' \in Seq(Drawn \X Drawn) /\ Len(mutations') = Len(mutations) - 1
        /\ Len(mutations) \in Nat \ {0} /\ (mutations' = <<>> <=> Len(mutations) = 1)
        /\ \A i \in 1..Len(mutations') : mutations'[i] = mutations[i + 1]
    <3>1. ASSUME NEW T, NEW q \in Seq(T), q # <<>>
          PROVE  /\ Tail(q) \in Seq(T) /\ Len(Tail(q)) = Len(q) - 1 /\ Len(q) \in Nat \ {0}
                 /\ \A i \in 1..Len(Tail(q)) : Tail(q)[i] = q[i + 1]
      BY <3>1
    <3>2. ASSUME NEW T, NEW q \in Seq(T) PROVE q = <<>> <=> Len(q) = 0
      OBVIOUS
    <3>3. mutations' \in Seq(Drawn \X Drawn) /\ Len(mutations') = Len(mutations) - 1 /\ Len(mutations) \in Nat \ {0}
          /\ \A i \in 1..Len(mutations') : mutations'[i] = mutations[i + 1]
      BY <1>a, <2>1, <3>1
    <3>4. mutations' = <<>> <=> Len(mutations) = 1 BY <3>2, <3>3
    <3> QED BY <3>3, <3>4
  <2>5. EdTypes' BY <1>a, <2>1, <2>3, <2>4 DEF EdTypes
  <2>6. ChainFits'
    <3>1. ASSUME NEW i \in 1..(Len(mutations') - 1) PROVE Same(mutations'[i][2], mutations'[i + 1][1])
      <4>1. i + 1 \in 1..(Len(mutations) - 1) /\ i \in 1..Len(mutations') /\ i + 1 \in 1..Len(mutations')
        BY <2>4
      <4> QED BY <2>4, <4>1 DEF EdInv, ChainFits
    <3>2. mutations' # <<>> => mutations'[Len(mutations')] = mutations[Len(mutations)]
      BY <2>4
    <3> QED BY <2>1, <3>1, <3>2 DEF EdInv, ChainFits
  <2>7. Same(new, Base') /\ Base' \in Drawn
    <3>1. CASE Len(mutations) = 1
      BY <1>a, <2>1, <2>4, <3>1 DEF EdInv, ChainFits, Base, new
    <3>2. CASE Len(mutations) # 1
      <4>1. 1 \in 1..(Len(mutations) - 1) /\ mutations'[1] = mutations[2] /\ mutations[2] \in Drawn \X Drawn
        BY <1>a, <2>4, <3>2
      <4>2. Same(mutations[1][2], mutations[2][1])
        BY <4>1 DEF EdInv, ChainFits
      <4>3. Base' = mutations[2][1] BY <2>4, <3>2, <4>1 DEF Base
      <4> QED BY <4>1, <4>2, <4>3 DEF new
    <3> QED BY <3>1, <3>2
  <2>8. ~callbackFailed' => TodoFits(Base)'
    <3> SUFFICES ASSUME ~callbackFailed PROVE TodoFits(Base)'
      BY <2>1
    <3>1. \A n \in EdTriggers : triggerRows[n] = Persisted(n, old[n])
      <4>1. TodoFits(old) /\ Len(todo) = 0 BY <2>1, <2>2 DEF EdInv
      <4> QED BY <4>1 DEF TodoFits
    <3>2. \A n \in EdTriggers : Persisted(n, new[n]) = Persisted(n, Base'[n])
      BY <2>2, <2>7, PersistedFacts DEF Same, Drawn, EdNodes
    <3>3. \A n \in EdTriggers : (\A i \in 1..Len(m) : m[i][1] # n) => Persisted(n, old[n]) = Persisted(n, new[n])
      BY <2>2, <2>3, PersistedFacts DEF Drawn, EdNodes
    <3>4. \A i \in 1..Len(m) : m[i][1] \in EdTriggers BY <2>3
    <3> QED BY <2>1, <2>3, <3>1, <3>2, <3>3, <3>4 DEF TodoFits
  <2> QED BY <2>5, <2>6, <2>8 DEF EdInv
<1>12. CASE Callback
  <2> DEFINE c == todo[1]
             t == c[1]
  <2>1. /\ todo # <<>> /\ triggerRows' = [triggerRows EXCEPT ![t] = RowAfter(c)] /\ todo' = Tail(todo)
        /\ UNCHANGED <<config, links, readOnly, layouts, mutations, callbackFailed, chartEdits>>
    <3>1. todo # <<>> => Head(todo) = todo[1] BY <1>a
    <3> QED BY <1>12, <3>1 DEF Callback
  <2>2. c \in EdTriggers \X Values \X Values /\ t \in EdTriggers /\ c[2] \in Values /\ c[3] \in Values
    BY <1>a, <2>1
  <2>3. /\ todo' \in Seq(EdTriggers \X Values \X Values) /\ Len(todo') = Len(todo) - 1 /\ Len(todo) \in Nat \ {0}
        /\ \A i \in 1..Len(todo') : todo'[i] = todo[i + 1]
    BY <1>a, <2>1
  <2>4. RowAfter(c) \in {0, 1, 2, Gone}
    BY <1>a, <2>2, PersistedFacts DEF RowAfter
  <2>5. EdTypes' BY <1>a, <2>1, <2>3, <2>4 DEF EdTypes
  <2>6. ChainFits' /\ Base' = Base BY <2>1 DEF EdInv, ChainFits, Base
  <2>7. ~callbackFailed' => TodoFits(Base)'
    <3> SUFFICES ASSUME ~callbackFailed PROVE TodoFits(Base)'
      BY <2>1
    <3>1. TodoFits(Base) /\ 1 \in 1..Len(todo) BY <2>3 DEF EdInv
    <3>2. triggerRows[t] = Persisted(t, c[2]) /\ Persisted(t, c[3]) = Persisted(t, Base[t])
      BY <3>1 DEF TodoFits
    <3>3. RowAfter(c) = Persisted(t, c[3])
      BY <2>2, <3>2, PersistedFacts DEF RowAfter
    <3>4. \A i \in 1..Len(todo') : i + 1 \in 1..Len(todo) /\ i + 1 # 1 /\ todo[i + 1] \in EdTriggers \X Values \X Values
      BY <1>a, <2>3
    <3>5. \A i \in 1..Len(todo') : todo'[i][1] # t /\ todo'[i][1] \in EdTriggers
      BY <2>3, <3>1, <3>4 DEF TodoFits
    <3>6. triggerRows'[t] = Persisted(t, Base[t]) /\ \A n \in EdTriggers \ {t} : triggerRows'[n] = triggerRows[n]
      BY <1>a, <2>1, <2>2, <3>2, <3>3
    <3> HIDE DEF c, t
    <3>7. ASSUME NEW i \in 1..Len(todo'), NEW j \in 1..Len(todo'), todo'[i][1] = todo'[j][1] PROVE i = j
      <4>1. i + 1 \in 1..Len(todo) /\ j + 1 \in 1..Len(todo) /\ todo[i + 1][1] = todo[j + 1][1]
        BY <2>3, <3>4, <3>7
      <4>2. \A x, y \in 1..Len(todo) : todo[x][1] = todo[y][1] => x = y
        BY <3>1 DEF TodoFits
      <4>3. i + 1 = j + 1 BY <4>1, <4>2
      <4> QED BY <4>3
    <3>8. ASSUME NEW i \in 1..Len(todo')
          PROVE  /\ triggerRows'[todo'[i][1]] = Persisted(todo'[i][1], todo'[i][2])
                 /\ Persisted(todo'[i][1], todo'[i][3]) = Persisted(todo'[i][1], Base'[todo'[i][1]])
      BY <2>3, <2>6, <3>1, <3>4, <3>5, <3>6 DEF TodoFits
    <3>9. ASSUME NEW n \in EdTriggers, \A i \in 1..Len(todo') : todo'[i][1] # n
          PROVE  triggerRows'[n] = Persisted(n, Base'[n])
      <4>1. CASE n = t BY <2>6, <3>6, <4>1
      <4>2. CASE n # t
        <5>1. ASSUME NEW i \in 1..Len(todo) PROVE todo[i][1] # n
          <6>1. CASE i = 1 BY <4>2, <6>1 DEF c, t
          <6>2. CASE i # 1
            <7>1. i - 1 \in 1..Len(todo') /\ (i - 1) + 1 = i
              BY <2>3, <6>2
            <7> QED BY <2>3, <3>9, <7>1
          <6> QED BY <6>1, <6>2
        <5>2. triggerRows[n] = Persisted(n, Base[n])
          BY <3>1, <5>1 DEF TodoFits
        <5> QED BY <2>6, <3>6, <4>2, <5>2
      <4> QED BY <4>1, <4>2
    <3> QED BY <3>7, <3>8, <3>9 DEF TodoFits
  <2> QED BY <2>5, <2>6, <2>7 DEF EdInv
<1>13. CASE CallbackThrows
  <2>1. todo' = <<>> /\ callbackFailed' = TRUE /\ UNCHANGED <<config, links, readOnly, layouts, mutations, triggerRows, chartEdits>>
    BY <1>13 DEF CallbackThrows
  <2>2. todo' \in Seq(EdTriggers \X Values \X Values) BY <2>1
  <2> QED BY <1>a, <2>1, <2>2 DEF EdInv, EdTypes, ChainFits
<1> QED
  BY <1>1, <1>2, <1>3, <1>4, <1>5, <1>6, <1>7, <1>8, <1>9, <1>10, <1>11, <1>12, <1>13 DEF EdNext

LEMMA EdInvEnough == EdInv => EdTypeOK /\ TriggersMirrorChart
<1> SUFFICES ASSUME EdInv PROVE EdTypeOK /\ TriggersMirrorChart
  OBVIOUS
<1>1. EdTypeOK BY DEF EdInv, EdTypes, EdTypeOK, Drawn, Values
<1>2. TriggersMirrorChart
  <2> SUFFICES ASSUME mutations = <<>>, todo = <<>>, ~callbackFailed
               PROVE  \A n \in EdTriggers : triggerRows[n] = Persisted(n, config[n])
    BY DEF TriggersMirrorChart
  <2>1. TodoFits(config) /\ Len(todo) = 0 BY DEF EdInv, Base
  <2> QED BY <2>1 DEF TodoFits
<1> QED BY <1>1, <1>2

-----------------------------------------------------------------------------
(* Blocks of the workflow editor                                           *)

NodeStates == [block : BlockIds \cup {NoBlock}, input : BOOLEAN, output : BOOLEAN, field : BOOLEAN,
               set : BOOLEAN, x : Nat, selected : BOOLEAN]
NodeTables == UNION {[S -> NodeStates] : S \in SUBSET AllIds}

InOneBlock(nodes, e) ==
    /\ e[1] \in DOMAIN nodes /\ e[2] \in DOMAIN nodes
    /\ nodes[e[1]].block # NoBlock /\ nodes[e[1]].block = nodes[e[2]].block

\* An edge that is not inside a block leaves it by an output of it, and arrives at an input
\* that is not configured.
PortsFit(nodes, edges) ==
    \A e \in edges : ~InOneBlock(nodes, e) =>
        /\ e[1] \in DOMAIN nodes /\ nodes[e[1]].block # NoBlock => nodes[e[1]].output
        /\ e[2] \in DOMAIN nodes => ~nodes[e[2]].set
        /\ e[2] \in DOMAIN nodes /\ nodes[e[2]].block # NoBlock => nodes[e[2]].input \/ nodes[e[2]].field

TemplateFits(t) ==
    /\ t.nodes \in NodeTables
    /\ t.edges \subseteq (DOMAIN t.nodes) \X (DOMAIN t.nodes)
    /\ t.origin \in Nat /\ \A n \in DOMAIN t.nodes : t.origin <= t.nodes[n].x

\* The snapshot that saving a block will write back.
SnapshotFits(s) ==
    /\ s.nodes \in NodeTables
    /\ s.edges \subseteq AllIds \X AllIds
    /\ PortsFit(s.nodes, s.edges)
    /\ s.picked \subseteq DOMAIN s.nodes
    /\ \A n \in s.picked : s.nodes[n].block = NoBlock
    /\ TemplateFits(s.template)
    /\ s.template.inputs = {e[2] : e \in {w \in s.edges : w[1] \notin s.picked /\ w[2] \in s.picked}}
    /\ s.template.outputs = {e[1] : e \in {w \in s.edges : w[1] \in s.picked /\ w[2] \notin s.picked}}

WbInv ==
    /\ raw \in NodeTables
    /\ wires \subseteq AllIds \X AllIds
    /\ PortsFit(raw, wires)
    /\ scope \in BlockIds \cup {NoBlock}
    /\ DOMAIN preview \subseteq BlockIds
    /\ saving = {} \/ \E s : saving = {s} /\ SnapshotFits(s)
    /\ dropping = {} \/ \E t : dropping = {t} /\ TemplateFits(t.template)
    /\ \A t \in library : TemplateFits(t.template)

\* A node with one of its fields changed.
Selecting(v, b) == [v EXCEPT !.selected = b]
MovedTo(v, x) == [v EXCEPT !.x = x]
Setting(v, b) == [v EXCEPT !.set = b]
SameNode(v, w) == /\ w \in NodeStates
                  /\ w.block = v.block /\ w.input = v.input /\ w.output = v.output /\ w.field = v.field

LEMMA NodeFacts ==
  ASSUME NEW v \in NodeStates
  PROVE  v.block \in BlockIds \cup {NoBlock} /\ v.x \in Nat /\ v.selected \in BOOLEAN
  BY DEF NodeStates

LEMMA SelectingFacts ==
  ASSUME NEW v \in NodeStates, NEW b \in BOOLEAN
  PROVE  SameNode(v, Selecting(v, b)) /\ Selecting(v, b).set = v.set /\ Selecting(v, b).x = v.x
  BY DEF NodeStates, SameNode, Selecting

LEMMA MovedFacts ==
  ASSUME NEW v \in NodeStates, NEW x \in Nat
  PROVE  SameNode(v, MovedTo(v, x)) /\ MovedTo(v, x).set = v.set
  BY DEF NodeStates, SameNode, MovedTo

LEMMA SettingFacts ==
  ASSUME NEW v \in NodeStates, NEW b \in BOOLEAN
  PROVE  SameNode(v, Setting(v, b)) /\ Setting(v, b).set = b
  BY DEF NodeStates, SameNode, Setting

LEMMA MarkedFacts ==
  ASSUME NEW v \in NodeStates, NEW t, NEW n, NEW b \in BlockIds
  PROVE  /\ Marked(t, v, n, b) \in NodeStates
         /\ Marked(t, v, n, b).block = b
         /\ Marked(t, v, n, b).input = (n \in t.inputs)
         /\ Marked(t, v, n, b).output = (n \in t.outputs)
         /\ Marked(t, v, n, b).set = v.set
         /\ Marked(t, v, n, b).x = v.x
<1>1. v.set \in BOOLEAN /\ v.x \in Nat BY DEF NodeStates
<1>2. (n \in t.inputs) \in BOOLEAN /\ (n \in t.outputs) \in BOOLEAN /\ (n \in t.fields) \in BOOLEAN
  OBVIOUS
<1>3. ASSUME NEW i \in BOOLEAN, NEW o \in BOOLEAN, NEW f \in BOOLEAN
      PROVE  /\ [block |-> b, input |-> i, output |-> o, field |-> f, set |-> v.set, x |-> v.x, selected |-> TRUE] \in NodeStates
  BY <1>1 DEF NodeStates
<1> QED BY <1>2, <1>3 DEF Marked

LEMMA NodeTableFacts ==
  ASSUME NEW t \in NodeTables
  PROVE  /\ DOMAIN t \subseteq AllIds /\ IsFiniteSet(DOMAIN t)
         /\ \A n \in DOMAIN t : t[n] \in NodeStates
         /\ \A U : U \subseteq DOMAIN t => Restrict(t, U) \in NodeTables /\ DOMAIN Restrict(t, U) = U
                                           /\ \A n \in U : Restrict(t, U)[n] = t[n]
<1>1. PICK S \in SUBSET AllIds : t \in [S -> NodeStates]
  BY DEF NodeTables
<1>2. DOMAIN t = S BY <1>1
<1>3. IsFiniteSet(S) BY WbAssumption, FS_Subset
<1>4. ASSUME NEW U, U \subseteq DOMAIN t
      PROVE  Restrict(t, U) \in NodeTables /\ DOMAIN Restrict(t, U) = U /\ \A n \in U : Restrict(t, U)[n] = t[n]
  <2>1. Restrict(t, U) \in [U -> NodeStates] /\ U \in SUBSET AllIds
    BY <1>1, <1>2, <1>4 DEF Restrict
  <2> QED BY <2>1 DEF NodeTables, Restrict
<1> QED BY <1>1, <1>2, <1>3, <1>4

LEMMA TablesMade ==
  ASSUME NEW S \in SUBSET AllIds, NEW f, DOMAIN f = S, f = [n \in S |-> f[n]], \A n \in S : f[n] \in NodeStates
  PROVE  f \in NodeTables
<1>1. f \in [S -> NodeStates] OBVIOUS
<1> QED BY <1>1 DEF NodeTables

\* The nodes change, the blocks and their ports do not.
SamePorts(nodes, others) ==
    /\ DOMAIN others = DOMAIN nodes
    /\ \A n \in DOMAIN nodes : /\ others[n].block = nodes[n].block /\ others[n].input = nodes[n].input
                               /\ others[n].output = nodes[n].output /\ others[n].field = nodes[n].field
                               /\ others[n].set = nodes[n].set

LEMMA PortsStay ==
  ASSUME NEW nodes, NEW others, NEW edges, SamePorts(nodes, others), PortsFit(nodes, edges)
  PROVE  PortsFit(others, edges)
  BY DEF SamePorts, PortsFit, InOneBlock

LEMMA WbInitFits == WbInit => WbInv
<1> SUFFICES ASSUME WbInit PROVE WbInv
  OBVIOUS
<1>1. PICK C \in {{}, RawIds \ {e[2] : e \in wires}}, first \in {CHOOSE n \in RawIds : TRUE} :
        raw = [n \in RawIds |-> [block |-> NoBlock, input |-> FALSE, output |-> FALSE, field |-> FALSE,
                    set |-> n \in C, x |-> IF n = first THEN 0 ELSE 1, selected |-> FALSE]]
  BY DEF WbInit
<1>2. wires \subseteq RawIds \X RawIds BY DEF WbInit
<1>3. wires \subseteq AllIds \X AllIds /\ RawIds \in SUBSET AllIds
  BY <1>2 DEF AllIds
<1>4. \A n \in RawIds : raw[n] \in NodeStates /\ raw[n].block = NoBlock /\ raw[n].set = (n \in C)
  BY <1>1 DEF NodeStates
<1>5. DOMAIN raw = RawIds /\ raw = [n \in RawIds |-> raw[n]] BY <1>1
<1>6. raw \in NodeTables BY <1>3, <1>4, <1>5, TablesMade
<1>7. \A e \in wires : e[2] \notin C /\ e[1] \in RawIds /\ e[2] \in RawIds
  BY <1>1, <1>2
<1>8. PortsFit(raw, wires) BY <1>4, <1>5, <1>7 DEF PortsFit
<1>9. scope = NoBlock /\ DOMAIN preview = {} /\ saving = {} /\ dropping = {} /\ library = {}
  BY DEF WbInit
<1> QED BY <1>3, <1>6, <1>8, <1>9 DEF WbInv

\* A step that changes the canvas and leaves what waits for the network alone.
LEMMA CanvasFits ==
  ASSUME WbInv, raw' \in NodeTables, wires' \subseteq AllIds \X AllIds, PortsFit(raw', wires'),
         scope' \in BlockIds \cup {NoBlock}, DOMAIN preview' \subseteq BlockIds,
         UNCHANGED <<saving, dropping, library>>
  PROVE  WbInv'
  BY DEF WbInv

LEMMA BlockFacts ==
  ASSUME WbInv
  PROVE  /\ \A n \in DOMAIN raw : raw[n] \in NodeStates /\ n \in AllIds
         /\ \A n \in displayedNodes \cap AllIds : n \in DOMAIN raw
         /\ \A e : Internal(e) <=> InOneBlock(raw, e)
         /\ Blocks \subseteq BlockIds
         /\ \A b : NodesOf(b) \subseteq DOMAIN raw
         /\ FreeBlock \subseteq BlockIds
<1>1. \A n \in DOMAIN raw : raw[n] \in NodeStates /\ n \in AllIds
  BY NodeTableFacts DEF WbInv
<1>2. Blocks \subseteq BlockIds BY <1>1, NodeFacts DEF Blocks
<1>3. \A b : NodesOf(b) \subseteq DOMAIN raw BY DEF NodesOf
<1>4. \A n \in displayedNodes \cap AllIds : n \in DOMAIN raw
  BY <1>2, <1>3, WbAssumption DEF displayedNodes
<1>5. \A e : Internal(e) <=> InOneBlock(raw, e)
  BY DEF Internal, InOneBlock, BlockOf
<1> QED BY <1>1, <1>2, <1>3, <1>4, <1>5 DEF FreeBlock

\* The least position of some nodes.
LEMMA AnchorFacts ==
  ASSUME NEW nodes \in NodeTables, NEW S, S \subseteq DOMAIN nodes, S # {}
  PROVE  LET m == Min({nodes[n].x : n \in S}) IN
         /\ m \in Nat /\ (\A n \in S : m <= nodes[n].x) /\ \E n \in S : nodes[n].x = m
<1> DEFINE X == {nodes[n].x : n \in S}
<1>1. X \subseteq Nat /\ X # {} BY NodeTableFacts, NodeFacts
<1>2. Min(X) \in X /\ \A y \in X : Min(X) <= y BY <1>1, MinOfNat
<1> QED BY <1>1, <1>2

LEMMA SelectFits ==
  ASSUME WbInv, NEW n \in AllIds, SelectNode(n)
  PROVE  WbInv'
<1>1. /\ n \in DOMAIN raw /\ raw' = [raw EXCEPT ![n].selected = ~@]
      /\ UNCHANGED <<wires, scope, preview, saving, dropping, library>>
  BY BlockFacts DEF SelectNode
<1>2. (~raw[n].selected) \in BOOLEAN /\ raw[n] \in NodeStates
  BY <1>1, BlockFacts
<1>3. /\ DOMAIN raw' = DOMAIN raw /\ raw' = [m \in DOMAIN raw |-> raw'[m]]
      /\ raw'[n] = Selecting(raw[n], ~raw[n].selected)
      /\ \A m \in DOMAIN raw : m # n => raw'[m] = raw[m]
  BY <1>1 DEF Selecting
<1>4. raw'[n] \in NodeStates BY <1>2, <1>3, SelectingFacts DEF SameNode
<1>5. raw' \in NodeTables
  <2>1. DOMAIN raw \in SUBSET AllIds /\ \A m \in DOMAIN raw : raw'[m] \in NodeStates
    BY <1>3, <1>4, BlockFacts
  <2> QED BY <1>3, <2>1, TablesMade
<1>6. SamePorts(raw, raw')
  <2>1. SameNode(raw[n], raw'[n]) /\ raw'[n].set = raw[n].set
    BY <1>2, <1>3, SelectingFacts
  <2> QED BY <1>3, <2>1 DEF SamePorts, SameNode
<1>7. PortsFit(raw', wires') BY <1>1, <1>6, PortsStay DEF WbInv
<1> QED BY <1>1, <1>5, <1>7, CanvasFits DEF WbInv

LEMMA SelectBlockFits ==
  ASSUME WbInv, NEW b, NEW v \in BOOLEAN, selectBlockNodes(b, v)
  PROVE  WbInv'
<1>1. /\ raw' = [n \in DOMAIN raw |-> [raw[n] EXCEPT !.selected = IF raw[n].block = b THEN v ELSE IF v THEN FALSE ELSE @]]
      /\ UNCHANGED <<wires, scope, preview, saving, dropping, library>>
  BY DEF selectBlockNodes
<1>2. \A n \in DOMAIN raw : raw[n] \in NodeStates /\ n \in AllIds /\ raw[n].selected \in BOOLEAN
  BY BlockFacts DEF NodeStates
<1>3. DOMAIN raw' = DOMAIN raw /\ raw' = [n \in DOMAIN raw |-> raw'[n]]
  BY <1>1
<1>4. \A n \in DOMAIN raw : \E s \in BOOLEAN : raw'[n] = Selecting(raw[n], s)
  <2> SUFFICES ASSUME NEW n \in DOMAIN raw PROVE \E s \in BOOLEAN : raw'[n] = Selecting(raw[n], s)
    OBVIOUS
  <2> DEFINE s == IF raw[n].block = b THEN v ELSE IF v THEN FALSE ELSE raw[n].selected
  <2>1. s \in BOOLEAN BY <1>2
  <2>2. raw'[n] = Selecting(raw[n], s) BY <1>1 DEF Selecting
  <2> QED BY <2>1, <2>2
<1>5. \A n \in DOMAIN raw : /\ raw'[n] \in NodeStates
                            /\ raw'[n].block = raw[n].block /\ raw'[n].input = raw[n].input
                            /\ raw'[n].output = raw[n].output /\ raw'[n].field = raw[n].field
                            /\ raw'[n].set = raw[n].set
  BY <1>2, <1>4, SelectingFacts DEF SameNode
<1>6. raw' \in NodeTables
  <2>1. DOMAIN raw \in SUBSET AllIds BY <1>2
  <2> QED BY <1>3, <1>5, <2>1, TablesMade
<1>7. PortsFit(raw', wires')
  <2>1. SamePorts(raw, raw') BY <1>3, <1>5 DEF SamePorts
  <2> QED BY <1>1, <2>1, PortsStay DEF WbInv
<1> QED BY <1>1, <1>6, <1>7, CanvasFits DEF WbInv

LEMMA MoveFits ==
  ASSUME WbInv, NEW b \in BlockIds, moveBlockNodes(b, 3)
  PROVE  WbInv'
<1> DEFINE anchor == getBlockAnchorPosition(b)
<1>1. /\ b \in DOMAIN preview /\ b \in Blocks /\ preview' = Restrict(preview, DOMAIN preview \ {b})
      /\ UNCHANGED <<wires, scope, saving, dropping, library>>
      /\ raw' = [n \in DOMAIN raw |-> IF raw[n].block = b THEN [raw[n] EXCEPT !.x = 3 + @ - anchor] ELSE raw[n]]
  BY DEF moveBlockNodes
<1>2. NodesOf(b) # {} /\ NodesOf(b) \subseteq DOMAIN raw
  BY <1>1 DEF Blocks, NodesOf
<1>3. anchor \in Nat /\ \A n \in NodesOf(b) : anchor <= raw[n].x
  BY <1>2, AnchorFacts DEF getBlockAnchorPosition, WbInv
<1> HIDE DEF anchor
<1>4. \A n \in DOMAIN raw : raw[n] \in NodeStates /\ n \in AllIds /\ raw[n].x \in Nat
  BY BlockFacts DEF NodeStates
<1>5. DOMAIN raw' = DOMAIN raw /\ raw' = [n \in DOMAIN raw |-> raw'[n]]
  BY <1>1
<1>6. \A n \in DOMAIN raw : raw'[n] = raw[n] \/ \E x \in Nat : raw'[n] = MovedTo(raw[n], x)
  <2> SUFFICES ASSUME NEW n \in DOMAIN raw, raw[n].block = b PROVE \E x \in Nat : raw'[n] = MovedTo(raw[n], x)
    BY <1>1
  <2>1. anchor <= raw[n].x BY <1>3 DEF NodesOf
  <2>2. 3 + raw[n].x - anchor \in Nat BY <1>3, <1>4, <2>1
  <2>3. raw'[n] = MovedTo(raw[n], 3 + raw[n].x - anchor)
    BY <1>1 DEF MovedTo
  <2> QED BY <2>2, <2>3
<1>7. \A n \in DOMAIN raw : /\ raw'[n] \in NodeStates
                            /\ raw'[n].block = raw[n].block /\ raw'[n].input = raw[n].input
                            /\ raw'[n].output = raw[n].output /\ raw'[n].field = raw[n].field
                            /\ raw'[n].set = raw[n].set
  BY <1>4, <1>6, MovedFacts DEF SameNode
<1>8. raw' \in NodeTables
  <2>1. DOMAIN raw \in SUBSET AllIds BY <1>4
  <2> QED BY <1>5, <1>7, <2>1, TablesMade
<1>9. PortsFit(raw', wires')
  <2>1. SamePorts(raw, raw') BY <1>5, <1>7 DEF SamePorts
  <2> QED BY <1>1, <2>1, PortsStay DEF WbInv
<1>10. DOMAIN preview' \subseteq BlockIds BY <1>1 DEF WbInv, Restrict
<1> QED BY <1>1, <1>8, <1>9, <1>10, CanvasFits DEF WbInv

\* Nodes go, with the edges between two nodes of one block.
LEMMA RemovalFits ==
  ASSUME WbInv, NEW S, S \subseteq DOMAIN raw, raw' = Restrict(raw, DOMAIN raw \ S), wires' \subseteq wires,
         \A e \in wires' : InOneBlock(raw, e) => e[1] \notin S /\ e[2] \notin S,
         scope' \in BlockIds \cup {NoBlock}, DOMAIN preview' \subseteq BlockIds,
         UNCHANGED <<saving, dropping, library>>
  PROVE  WbInv'
<1>1. raw' \in NodeTables /\ DOMAIN raw' = DOMAIN raw \ S /\ \A n \in DOMAIN raw' : raw'[n] = raw[n]
  <2>1. DOMAIN raw \ S \subseteq DOMAIN raw OBVIOUS
  <2> QED BY <2>1, NodeTableFacts DEF WbInv
<1>2. PortsFit(raw', wires')
  <2> SUFFICES ASSUME NEW e \in wires', ~InOneBlock(raw', e)
               PROVE  /\ e[1] \in DOMAIN raw' /\ raw'[e[1]].block # NoBlock => raw'[e[1]].output
                      /\ e[2] \in DOMAIN raw' => ~raw'[e[2]].set
                      /\ e[2] \in DOMAIN raw' /\ raw'[e[2]].block # NoBlock => raw'[e[2]].input \/ raw'[e[2]].field
    BY DEF PortsFit
  <2>1. ~InOneBlock(raw, e) BY <1>1 DEF InOneBlock
  <2> QED BY <1>1, <2>1 DEF WbInv, PortsFit
<1>3. wires' \subseteq AllIds \X AllIds BY DEF WbInv
<1> QED BY <1>1, <1>2, <1>3, CanvasFits

LEMMA RemoveNodeFits ==
  ASSUME WbInv, NEW n \in AllIds, RemoveNode(n)
  PROVE  WbInv'
<1>1. /\ n \in displayedNodes /\ n \in DOMAIN raw /\ raw' = Restrict(raw, DOMAIN raw \ {n})
      /\ wires' = {e \in wires : ~(n \in {e[1], e[2]}
                      /\ (scope = NoBlock \/ (e[1] \in NodesOf(scope) /\ e[2] \in NodesOf(scope))))}
      /\ UNCHANGED <<scope, preview, saving, dropping, library>>
  BY BlockFacts DEF RemoveNode
<1>2. ASSUME NEW e \in wires', InOneBlock(raw, e) PROVE e[1] # n /\ e[2] # n
  <2>1. CASE scope = NoBlock BY <1>1, <2>1
  <2>2. CASE scope # NoBlock
    <3>1. n \in NodesOf(scope) BY <1>1, <2>2 DEF displayedNodes
    <3>2. n \in {e[1], e[2]} => e[1] \in NodesOf(scope) /\ e[2] \in NodesOf(scope)
      BY <1>2, <3>1 DEF NodesOf, InOneBlock
    <3> QED BY <1>1, <3>2
  <2> QED BY <2>1, <2>2
<1>3. scope' \in BlockIds \cup {NoBlock} /\ DOMAIN preview' \subseteq BlockIds /\ wires' \subseteq wires
  BY <1>1 DEF WbInv
<1> DEFINE S == {n}
<1>4. S \subseteq DOMAIN raw /\ raw' = Restrict(raw, DOMAIN raw \ S)
  BY <1>1
<1>5. \A e \in wires' : InOneBlock(raw, e) => e[1] \notin S /\ e[2] \notin S
  BY <1>2
<1>6. UNCHANGED <<saving, dropping, library>> BY <1>1
<1> HIDE DEF S
<1> QED BY <1>3, <1>4, <1>5, <1>6, RemovalFits

LEMMA RemoveBlockFits ==
  ASSUME WbInv, NEW b, removeBlockFromWorkflow(b)
  PROVE  WbInv'
<1>1. /\ raw' = Restrict(raw, DOMAIN raw \ NodesOf(b))
      /\ wires' = {e \in wires : e[1] \notin NodesOf(b) /\ e[2] \notin NodesOf(b)}
      /\ preview' = Restrict(preview, DOMAIN preview \ {b})
      /\ UNCHANGED <<scope, saving, dropping, library>>
  BY DEF removeBlockFromWorkflow
<1>2. NodesOf(b) \subseteq DOMAIN raw BY DEF NodesOf
<1>3. scope' \in BlockIds \cup {NoBlock} /\ DOMAIN preview' \subseteq BlockIds /\ wires' \subseteq wires
  BY <1>1 DEF WbInv, Restrict
<1> QED BY <1>1, <1>2, <1>3, RemovalFits

\* A displayed edge resolves to the raw edge it stands for.
LEMMA Resolves ==
  ASSUME NEW e
  PROVE  resolveRawConnectionFromDisplayed(toDisplayedBoundaryEdge(e)) = <<e[1], e[2]>>
  BY DEF resolveRawConnectionFromDisplayed, toDisplayedBoundaryEdge, Shown, Own

LEMMA ConnectFits ==
  ASSUME WbInv, NEW s \in AllIds, NEW t \in AllIds, onConnect(s, t)
  PROVE  WbInv'
<1> DEFINE new == <<s, t>>
<1>0. new[1] = s /\ new[2] = t /\ new \in AllIds \X AllIds OBVIOUS
<1>1. /\ {s, t} \subseteq DOMAIN raw /\ ~raw[t].set /\ UNCHANGED <<raw, scope, preview, saving, dropping, library>>
      /\ IF scope # NoBlock THEN {s, t} \subseteq NodesOf(scope)
         ELSE /\ ~Internal(new)
              /\ BlockOf(s) # NoBlock => s \in outputPorts(BlockOf(s))
              /\ BlockOf(t) # NoBlock => t \in inputPorts(BlockOf(t)) \ configuredTargetPorts(BlockOf(t))
  BY DEF onConnect
<1>2. wires' = wires \cup {new}
  <2>1. CASE scope # NoBlock
    BY <2>1 DEF onConnect, resolveRawConnectionFromDisplayed, Own
  <2>2. CASE scope = NoBlock
    <3>1. wires' = wires \cup {resolveRawConnectionFromDisplayed(toDisplayedBoundaryEdge(new))}
      BY <2>2 DEF onConnect
    <3> QED BY <1>0, <3>1, Resolves
  <2> QED BY <2>1, <2>2
<1> HIDE DEF new
<1>3. ~InOneBlock(raw, new) =>
        /\ raw[s].block # NoBlock => raw[s].output
        /\ raw[t].block # NoBlock => raw[t].input \/ raw[t].field
  <2>1. CASE scope # NoBlock BY <1>0, <1>1, <2>1 DEF InOneBlock, NodesOf
  <2>2. CASE scope = NoBlock
    BY <1>1, <2>2 DEF BlockOf, outputPorts, inputPorts
  <2> QED BY <2>1, <2>2
<1>4. PortsFit(raw, wires \cup {new})
  BY <1>0, <1>1, <1>3 DEF WbInv, PortsFit
<1>5. wires' \subseteq AllIds \X AllIds BY <1>0, <1>2 DEF WbInv
<1> QED BY <1>1, <1>2, <1>4, <1>5, CanvasFits DEF WbInv

\* Saving starts with a snapshot that fits, and a template that can be dropped.
LEMMA CreateBlockFits ==
  ASSUME WbInv, CreateBlock
  PROVE  WbInv'
<1> DEFINE t == buildBlockTemplateFromSelection
           s == [nodes |-> raw, edges |-> wires, picked |-> Selected, template |-> t]
<1>1. /\ saving' = {s} /\ UNCHANGED <<raw, wires, scope, preview, dropping, library>>
      /\ Cardinality(Selected) > 1 /\ \A n \in Selected : raw[n].block = NoBlock
  BY DEF CreateBlock
<1>2. Selected \subseteq DOMAIN raw /\ Selected # {}
  <2>1. Selected \subseteq DOMAIN raw BY DEF Selected
  <2>2. Selected # {} BY <1>1, FS_EmptySet
  <2> QED BY <2>1, <2>2
<1>3. raw \in NodeTables /\ wires \subseteq AllIds \X AllIds /\ PortsFit(raw, wires)
  BY DEF WbInv
<1> DEFINE m == Min({raw[n].x : n \in Selected})
<1>4. m \in Nat /\ \A n \in Selected : m <= raw[n].x
  BY <1>2, <1>3, AnchorFacts
<1>5. Restrict(raw, Selected) \in NodeTables /\ DOMAIN Restrict(raw, Selected) = Selected
      /\ \A n \in Selected : Restrict(raw, Selected)[n] = raw[n]
  BY <1>2, <1>3, NodeTableFacts
<1>6. /\ t.nodes = Restrict(raw, Selected) /\ t.origin = m
      /\ t.edges = {e \in wires : e[1] \in Selected /\ e[2] \in Selected}
      /\ t.inputs = {e[2] : e \in {w \in wires : w[1] \notin Selected /\ w[2] \in Selected}}
      /\ t.outputs = {e[1] : e \in {w \in wires : w[1] \in Selected /\ w[2] \notin Selected}}
  BY DEF buildBlockTemplateFromSelection
<1> HIDE DEF t, m
<1>7. TemplateFits(t)
  <2>1. t.edges \subseteq Selected \X Selected BY <1>3, <1>6
  <2> QED BY <1>4, <1>5, <1>6, <2>1 DEF TemplateFits
<1>8. s.nodes = raw /\ s.edges = wires /\ s.picked = Selected /\ s.template = t
  OBVIOUS
<1> HIDE DEF s
<1>9. SnapshotFits(s)
  BY <1>1, <1>2, <1>3, <1>6, <1>7, <1>8 DEF SnapshotFits
<1> QED BY <1>1, <1>9 DEF WbInv

\* The snapshot is written back, its picked nodes marked as a new block.
LEMMA SavedFits ==
  ASSUME WbInv, NEW s, createBlockFromSelection(s)
  PROVE  WbInv'
<1> DEFINE b == CHOOSE x \in FreeBlock : TRUE
<1>1. s \in saving /\ b \in FreeBlock BY DEF createBlockFromSelection
<1>2. /\ raw' = [n \in DOMAIN s.nodes |-> IF n \in s.picked THEN Marked(s.template, s.nodes[n], n, b)
                                           ELSE [s.nodes[n] EXCEPT !.selected = FALSE]]
      /\ library' = library \cup {[id |-> b, template |-> s.template]}
      /\ wires' = s.edges /\ saving' = {} /\ UNCHANGED <<scope, preview, dropping>>
  BY DEF createBlockFromSelection
<1>3. SnapshotFits(s) BY <1>1 DEF WbInv
<1>4. b \in BlockIds /\ b # NoBlock BY <1>1, BlockFacts, WbAssumption
<1>5. \A n \in DOMAIN s.nodes : s.nodes[n].block # b
  BY <1>1 DEF FreeBlock
<1> HIDE DEF b
<1>6. \A n \in DOMAIN s.nodes : s.nodes[n] \in NodeStates /\ n \in AllIds
  BY <1>3, NodeTableFacts DEF SnapshotFits
<1>7. /\ DOMAIN raw' = DOMAIN s.nodes /\ raw' = [n \in DOMAIN s.nodes |-> raw'[n]]
      /\ \A n \in s.picked : raw'[n] = Marked(s.template, s.nodes[n], n, b)
      /\ \A n \in DOMAIN s.nodes \ s.picked : raw'[n] = Selecting(s.nodes[n], FALSE)
      /\ s.picked \subseteq DOMAIN s.nodes
  BY <1>2, <1>3 DEF Selecting, SnapshotFits
<1>8. \A n \in s.picked : /\ raw'[n] \in NodeStates /\ raw'[n].block = b
                          /\ raw'[n].input = (n \in s.template.inputs) /\ raw'[n].output = (n \in s.template.outputs)
                          /\ raw'[n].set = s.nodes[n].set
  BY <1>4, <1>6, <1>7, MarkedFacts
<1>9. \A n \in DOMAIN s.nodes \ s.picked : SameNode(s.nodes[n], raw'[n]) /\ raw'[n].set = s.nodes[n].set
  BY <1>6, <1>7, SelectingFacts
<1>10. raw' \in NodeTables
  <2>1. DOMAIN s.nodes \in SUBSET AllIds /\ \A n \in DOMAIN s.nodes : raw'[n] \in NodeStates
    BY <1>6, <1>8, <1>9 DEF SameNode
  <2> QED BY <1>7, <2>1, TablesMade
<1>11. PortsFit(raw', wires')
  <2> SUFFICES ASSUME NEW e \in s.edges, ~InOneBlock(raw', e)
               PROVE  /\ e[1] \in DOMAIN raw' /\ raw'[e[1]].block # NoBlock => raw'[e[1]].output
                      /\ e[2] \in DOMAIN raw' => ~raw'[e[2]].set
                      /\ e[2] \in DOMAIN raw' /\ raw'[e[2]].block # NoBlock => raw'[e[2]].input \/ raw'[e[2]].field
    BY <1>2 DEF PortsFit
  <2>1. ~(e[1] \in s.picked /\ e[2] \in s.picked)
    BY <1>4, <1>7, <1>8 DEF InOneBlock
  <2>2. ~InOneBlock(s.nodes, e)
    <3>1. CASE e[1] \in s.picked \/ e[2] \in s.picked
      BY <1>3, <3>1 DEF SnapshotFits, InOneBlock
    <3>2. CASE e[1] \notin s.picked /\ e[2] \notin s.picked
      BY <1>7, <1>9, <3>2 DEF InOneBlock, SameNode
    <3> QED BY <3>1, <3>2
  <2>3. /\ e[1] \in DOMAIN s.nodes /\ s.nodes[e[1]].block # NoBlock => s.nodes[e[1]].output
        /\ e[2] \in DOMAIN s.nodes => ~s.nodes[e[2]].set
        /\ e[2] \in DOMAIN s.nodes /\ s.nodes[e[2]].block # NoBlock => s.nodes[e[2]].input \/ s.nodes[e[2]].field
    BY <1>3, <2>2 DEF SnapshotFits, PortsFit
  <2>4. e[1] \in DOMAIN raw' /\ raw'[e[1]].block # NoBlock => raw'[e[1]].output
    <3>1. CASE e[1] \in s.picked
      <4>1. e[1] \in s.template.outputs
        BY <1>3, <2>1, <3>1 DEF SnapshotFits
      <4> QED BY <1>8, <3>1, <4>1
    <3>2. CASE e[1] \notin s.picked
      BY <1>7, <1>9, <2>3, <3>2 DEF SameNode
    <3> QED BY <3>1, <3>2
  <2>5. e[2] \in DOMAIN raw' => ~raw'[e[2]].set
    BY <1>7, <1>8, <1>9, <2>3
  <2>6. e[2] \in DOMAIN raw' /\ raw'[e[2]].block # NoBlock => raw'[e[2]].input \/ raw'[e[2]].field
    <3>1. CASE e[2] \in s.picked
      <4>1. e[2] \in s.template.inputs
        BY <1>3, <2>1, <3>1 DEF SnapshotFits
      <4> QED BY <1>8, <3>1, <4>1
    <3>2. CASE e[2] \notin s.picked
      BY <1>7, <1>9, <2>3, <3>2 DEF SameNode
    <3> QED BY <3>1, <3>2
  <2> QED BY <2>4, <2>5, <2>6
<1>12. \A t \in library' : TemplateFits(t.template)
  <2>1. [id |-> b, template |-> s.template].template = s.template
    OBVIOUS
  <2> QED BY <1>2, <1>3, <2>1 DEF WbInv, SnapshotFits
<1> QED BY <1>2, <1>3, <1>10, <1>11, <1>12 DEF WbInv, SnapshotFits

\* A template is dropped under fresh ids: its edges are all inside the new block.
LEMMA InsertFits ==
  ASSUME WbInv, NEW t \in dropping, insertBlockTemplate(t)
  PROVE  WbInv'
<1> DEFINE nodes == t.template.nodes
           old == DOMAIN nodes
           b == CHOOSE x \in FreeBlock : TRUE
<1>1. PICK id \in Injection(old, FreeClones) :
        LET back == [m \in {id[n] : n \in old} |-> CHOOSE n \in old : id[n] = m] IN
        /\ raw' = [m \in DOMAIN raw \cup DOMAIN back |->
                    IF m \in DOMAIN back
                    THEN [Marked(t.template, t.template.nodes[back[m]], back[m], b) EXCEPT !.x = @ - t.template.origin]
                    ELSE [raw[m] EXCEPT !.selected = FALSE]]
        /\ wires' = wires \cup {<<id[e[1]], id[e[2]]>> : e \in t.template.edges}
  BY DEF insertBlockTemplate
<1>2. dropping' = {} /\ UNCHANGED <<scope, preview, saving, library>> /\ b \in FreeBlock
  BY DEF insertBlockTemplate
<1>3. TemplateFits(t.template) BY DEF WbInv
<1>4. b \in BlockIds /\ b # NoBlock BY <1>2, BlockFacts, WbAssumption
<1> HIDE DEF b
<1> DEFINE new == {id[n] : n \in old}
           back == [m \in new |-> CHOOSE n \in old : id[n] = m]
<1>5. id \in [old -> FreeClones] /\ new \subseteq FreeClones /\ DOMAIN back = new
  BY DEF Injection
<1>6. \A m \in new : back[m] \in old OBVIOUS
<1>7. /\ DOMAIN raw' = DOMAIN raw \cup new /\ raw' = [m \in DOMAIN raw \cup new |-> raw'[m]]
      /\ \A m \in new : raw'[m] = [Marked(t.template, nodes[back[m]], back[m], b) EXCEPT !.x = @ - t.template.origin]
      /\ \A m \in DOMAIN raw \ new : raw'[m] = Selecting(raw[m], FALSE)
      /\ wires' = wires \cup {<<id[e[1]], id[e[2]]>> : e \in t.template.edges}
  BY <1>1, <1>5 DEF Selecting
<1>8. ASSUME NEW m \in new PROVE raw'[m] \in NodeStates /\ raw'[m].block = b
  <2> DEFINE mark == Marked(t.template, nodes[back[m]], back[m], b)
             origin == t.template.origin
  <2>1. back[m] \in old /\ nodes[back[m]] \in NodeStates /\ origin \in Nat /\ origin <= nodes[back[m]].x
    BY <1>3, <1>6, NodeTableFacts DEF TemplateFits
  <2>2. mark \in NodeStates /\ mark.block = b /\ mark.x = nodes[back[m]].x
    BY <1>4, <2>1, MarkedFacts
  <2>3. raw'[m] = MovedTo(mark, mark.x - origin) BY <1>7 DEF MovedTo
  <2> HIDE DEF mark, origin
  <2>4. mark.x - origin \in Nat
    <3>1. mark.x \in Nat BY <2>2, NodeFacts
    <3> QED BY <2>1, <2>2, <3>1
  <2>5. SameNode(mark, MovedTo(mark, mark.x - origin))
    <3> DEFINE y == mark.x - origin
    <3>1. y \in Nat BY <2>4
    <3> HIDE DEF y
    <3>2. SameNode(mark, MovedTo(mark, y)) BY <2>2, <3>1, MovedFacts
    <3> QED BY <3>2 DEF y
  <2>6. SameNode(mark, raw'[m]) BY <2>3, <2>5
  <2> QED BY <2>2, <2>6 DEF SameNode
<1>9. new \cap DOMAIN raw = {} /\ new \subseteq AllIds /\ \A e \in wires : e[1] \notin new /\ e[2] \notin new
  BY <1>5 DEF FreeClones, AllIds
<1>10. ASSUME NEW e \in t.template.edges PROVE id[e[1]] \in new /\ id[e[2]] \in new
  BY <1>3 DEF TemplateFits
<1> HIDE DEF new, back
<1>11. \A m \in DOMAIN raw : SameNode(raw[m], raw'[m]) /\ raw'[m].set = raw[m].set
  <2> SUFFICES ASSUME NEW m \in DOMAIN raw
               PROVE  SameNode(raw[m], raw'[m]) /\ raw'[m].set = raw[m].set
    OBVIOUS
  <2>1. m \in DOMAIN raw \ new /\ raw[m] \in NodeStates
    BY <1>9, BlockFacts
  <2>2. raw'[m] = Selecting(raw[m], FALSE) BY <1>7, <2>1
  <2>3. SameNode(raw[m], Selecting(raw[m], FALSE)) /\ Selecting(raw[m], FALSE).set = raw[m].set
    BY <2>1, SelectingFacts
  <2> QED BY <2>2, <2>3
<1>12. raw' \in NodeTables
  <2>1. DOMAIN raw \cup new \in SUBSET AllIds /\ \A m \in DOMAIN raw \cup new : raw'[m] \in NodeStates
    BY <1>8, <1>9, <1>11, BlockFacts DEF SameNode
  <2> QED BY <1>7, <2>1, TablesMade
<1>13. wires' \subseteq AllIds \X AllIds BY <1>7, <1>9, <1>10 DEF WbInv
<1>14. PortsFit(raw', wires')
  <2> SUFFICES ASSUME NEW e \in wires', ~InOneBlock(raw', e)
               PROVE  /\ e[1] \in DOMAIN raw' /\ raw'[e[1]].block # NoBlock => raw'[e[1]].output
                      /\ e[2] \in DOMAIN raw' => ~raw'[e[2]].set
                      /\ e[2] \in DOMAIN raw' /\ raw'[e[2]].block # NoBlock => raw'[e[2]].input \/ raw'[e[2]].field
    BY DEF PortsFit
  <2>1. e \in wires
    <3> SUFFICES ASSUME NEW f \in t.template.edges, e = <<id[f[1]], id[f[2]]>> PROVE FALSE
      BY <1>7
    <3>1. e[1] \in new /\ e[2] \in new BY <1>10
    <3> QED BY <1>4, <1>7, <1>8, <3>1 DEF InOneBlock
  <2>2. e[1] \notin new /\ e[2] \notin new BY <1>9, <2>1
  <2>3. ~InOneBlock(raw, e) BY <1>7, <1>11 DEF InOneBlock, SameNode
  <2>4. /\ e[1] \in DOMAIN raw /\ raw[e[1]].block # NoBlock => raw[e[1]].output
        /\ e[2] \in DOMAIN raw => ~raw[e[2]].set
        /\ e[2] \in DOMAIN raw /\ raw[e[2]].block # NoBlock => raw[e[2]].input \/ raw[e[2]].field
    BY <2>1, <2>3 DEF WbInv, PortsFit
  <2> QED BY <1>7, <1>11, <2>2, <2>4 DEF SameNode
<1> QED BY <1>2, <1>12, <1>13, <1>14 DEF WbInv

\* The fields of a block's panel.
LEMMA TargetFits ==
  ASSUME WbInv, NEW n, updateTargetValue(n) \/ removeTargetValue(n)
  PROVE  WbInv'
<1>1. /\ n \in SelectedTargets /\ connectedEdgesByPort(n) = {} /\ UNCHANGED <<wires, scope, preview, saving, dropping, library>>
      /\ \E v \in BOOLEAN : raw' = [raw EXCEPT ![n].set = v]
  BY DEF updateTargetValue, removeTargetValue
<1>2. PICK v \in BOOLEAN : raw' = [raw EXCEPT ![n].set = v] BY <1>1
<1>3. n \in DOMAIN raw /\ raw[n] \in NodeStates
  BY <1>1, BlockFacts DEF SelectedTargets, inputPorts, NodesOf
<1>4. /\ DOMAIN raw' = DOMAIN raw /\ raw' = [m \in DOMAIN raw |-> raw'[m]]
      /\ raw'[n] = Setting(raw[n], v) /\ \A m \in DOMAIN raw : m # n => raw'[m] = raw[m]
  BY <1>2, <1>3 DEF Setting
<1>5. SameNode(raw[n], raw'[n]) BY <1>3, <1>4, SettingFacts
<1>6. raw' \in NodeTables
  <2>1. DOMAIN raw \in SUBSET AllIds /\ \A m \in DOMAIN raw : raw'[m] \in NodeStates
    BY <1>4, <1>5, BlockFacts DEF SameNode
  <2> QED BY <1>4, <2>1, TablesMade
<1>7. PortsFit(raw', wires)
  <2> SUFFICES ASSUME NEW e \in wires, ~InOneBlock(raw', e)
               PROVE  /\ e[1] \in DOMAIN raw' /\ raw'[e[1]].block # NoBlock => raw'[e[1]].output
                      /\ e[2] \in DOMAIN raw' => ~raw'[e[2]].set
                      /\ e[2] \in DOMAIN raw' /\ raw'[e[2]].block # NoBlock => raw'[e[2]].input \/ raw'[e[2]].field
    BY DEF PortsFit
  <2>1. ~InOneBlock(raw, e) BY <1>4, <1>5 DEF InOneBlock, SameNode
  <2>2. e[2] # n
    <3> SUFFICES ASSUME e[2] = n PROVE FALSE
      OBVIOUS
    <3>1. e[1] \in NodesOf(BlockOf(n)) BY <1>1 DEF connectedEdgesByPort
    <3>2. raw[n].block # NoBlock
      <4>1. n \in inputPorts(getSelectedBlockId) /\ getSelectedBlockId # NoBlock
        BY <1>1 DEF SelectedTargets
      <4> QED BY <4>1 DEF inputPorts, NodesOf
    <3> QED BY <1>3, <2>1, <3>1, <3>2 DEF InOneBlock, NodesOf, BlockOf
  <2>3. /\ e[1] \in DOMAIN raw /\ raw[e[1]].block # NoBlock => raw[e[1]].output
        /\ e[2] \in DOMAIN raw => ~raw[e[2]].set
        /\ e[2] \in DOMAIN raw /\ raw[e[2]].block # NoBlock => raw[e[2]].input \/ raw[e[2]].field
    BY <2>1 DEF WbInv, PortsFit
  <2> QED BY <1>4, <1>5, <2>2, <2>3 DEF SameNode
<1> QED BY <1>1, <1>6, <1>7, CanvasFits DEF WbInv

LEMMA WbStepFits == WbInv /\ [WbNext]_wbVars => WbInv'
<1> SUFFICES ASSUME WbInv, WbNext \/ UNCHANGED wbVars PROVE WbInv'
  OBVIOUS
<1>1. CASE UNCHANGED wbVars BY <1>1 DEF wbVars, WbInv
<1>2. ASSUME NEW n \in AllIds,
             SelectNode(n) \/ RemoveNode(n) \/ updateTargetValue(n) \/ removeTargetValue(n) \/ removeConnectedTargetEdges(n)
      PROVE  WbInv'
  <2>1. CASE removeConnectedTargetEdges(n)
    <3>1. wires' = wires \ connectedEdgesByPort(n) /\ UNCHANGED <<raw, scope, preview, saving, dropping, library>>
      BY <2>1 DEF removeConnectedTargetEdges
    <3>2. wires' \subseteq AllIds \X AllIds /\ PortsFit(raw', wires')
      BY <3>1 DEF WbInv, PortsFit
    <3> QED BY <3>1, <3>2, CanvasFits DEF WbInv
  <2> QED BY <1>2, <2>1, SelectFits, RemoveNodeFits, TargetFits
<1>3. ASSUME NEW b \in BlockIds,
             \/ \E v \in BOOLEAN : selectBlockNodes(b, v)
             \/ DragBlock(b) \/ moveBlockNodes(b, 3) \/ removeBlockFromWorkflow(b) \/ enterScope(b)
      PROVE  WbInv'
  <2>1. CASE DragBlock(b)
    <3>1. preview' = [x \in DOMAIN preview \cup {b} |-> IF x = b THEN 3 ELSE preview[x]]
          /\ UNCHANGED <<raw, wires, scope, saving, dropping, library>>
      BY <2>1 DEF DragBlock
    <3>2. DOMAIN preview' \subseteq BlockIds BY <3>1 DEF WbInv
    <3> QED BY <3>1, <3>2, CanvasFits DEF WbInv
  <2>2. CASE enterScope(b) BY <2>2, CanvasFits DEF WbInv, enterScope
  <2> QED BY <1>3, <2>1, <2>2, SelectBlockFits, MoveFits, RemoveBlockFits
<1>4. CASE exitScope BY <1>4, CanvasFits DEF WbInv, exitScope
<1>5. CASE UploadFails BY <1>5 DEF WbInv, UploadFails
<1>6. ASSUME NEW t \in library, onDrop(t) PROVE WbInv'
  <2>1. dropping' = {t} /\ UNCHANGED <<raw, wires, scope, preview, saving, library>>
    BY <1>6 DEF onDrop
  <2>2. TemplateFits(t.template) BY DEF WbInv
  <2> QED BY <2>1, <2>2 DEF WbInv
<1> QED
  BY <1>1, <1>2, <1>3, <1>4, <1>5, <1>6, ConnectFits, CreateBlockFits, SavedFits, InsertFits DEF WbNext

LEMMA WbInvEnough == WbInv => WbTypeOK /\ ProjectionIsFaithful
<1> SUFFICES ASSUME WbInv PROVE WbTypeOK /\ ProjectionIsFaithful
  OBVIOUS
<1>1. WbTypeOK
  <2>1. Cardinality(saving) <= 1 /\ Cardinality(dropping) <= 1
    <3>1. \A S : (S = {} \/ \E x : S = {x}) => Cardinality(S) <= 1
      <4> SUFFICES ASSUME NEW S, S = {} \/ \E x : S = {x} PROVE Cardinality(S) <= 1
        OBVIOUS
      <4>1. CASE S = {} BY <4>1, FS_EmptySet
      <4>2. ASSUME NEW x, S = {x} PROVE Cardinality(S) <= 1
        <5>1. Cardinality({x}) = 1 BY FS_Singleton
        <5> QED BY <4>2, <5>1
      <4> QED BY <4>1, <4>2
    <3>2. (saving = {} \/ \E x : saving = {x}) /\ (dropping = {} \/ \E x : dropping = {x})
      BY DEF WbInv
    <3> QED BY <3>1, <3>2
  <2>2. DOMAIN raw \subseteq AllIds /\ \A n \in DOMAIN raw : raw[n].block \in BlockIds \cup {NoBlock}
    BY BlockFacts, NodeFacts
  <2> QED BY <2>1, <2>2 DEF WbTypeOK, WbInv
<1>2. ASSUME scope = NoBlock
      PROVE  /\ {resolveRawConnectionFromDisplayed(c) : c \in displayedEdges} = {e \in wires : ~Internal(e)}
             /\ Cardinality(displayedEdges) = Cardinality({e \in wires : ~Internal(e)})
  <2> DEFINE W == {e \in wires : ~Internal(e)}
             f == [e \in W |-> toDisplayedBoundaryEdge(e)]
             R(c) == resolveRawConnectionFromDisplayed(c)
  <2>1. displayedEdges = {toDisplayedBoundaryEdge(e) : e \in W}
    BY <1>2 DEF displayedEdges
  <2>2. \A e \in W : R(toDisplayedBoundaryEdge(e)) = e
    BY Resolves DEF WbInv
  <2>3. {R(c) : c \in displayedEdges} = W
    <3> HIDE DEF W, R
    <3> QED BY <2>1, <2>2
  <2>4. IsFiniteSet(W)
    <3>1. IsFiniteSet(AllIds \X AllIds) BY WbAssumption, FS_Product
    <3>2. W \in SUBSET (AllIds \X AllIds) BY DEF WbInv
    <3> QED BY <3>1, <3>2, FS_Subset
  <2>5. f \in Bijection(W, displayedEdges)
    <3> HIDE DEF W, R
    <3>1. f \in [W -> displayedEdges] /\ \A c \in displayedEdges : \E e \in W : f[e] = c
      BY <2>1
    <3>2. \A d, e \in W : f[d] = f[e] => d = e BY <2>2
    <3> QED BY <3>1, <3>2 DEF Bijection, Injection, Surjection, IsInjective
  <2>6. Cardinality(displayedEdges) = Cardinality(W)
    BY <2>4, <2>5, FS_Bijection DEF ExistsBijection
  <2> QED BY <2>3, <2>6
<1>3. ASSUME scope = NoBlock PROVE \A n \in DOMAIN raw : Shown(n) \in displayedNodes
  BY <1>3 DEF Shown, displayedNodes, BlockOf, NodesOf, Blocks
<1>4. ASSUME NEW e \in wires, ~Internal(e)
      PROVE  /\ BlockOf(e[1]) # NoBlock => e[1] \in outputPorts(BlockOf(e[1]))
             /\ BlockOf(e[2]) # NoBlock => e[2] \in inputPorts(BlockOf(e[2])) \ configuredTargetPorts(BlockOf(e[2]))
  <2>1. ~InOneBlock(raw, e) BY <1>4, BlockFacts
  <2>2. /\ e[1] \in DOMAIN raw /\ raw[e[1]].block # NoBlock => raw[e[1]].output
        /\ e[2] \in DOMAIN raw => ~raw[e[2]].set
        /\ e[2] \in DOMAIN raw /\ raw[e[2]].block # NoBlock => raw[e[2]].input \/ raw[e[2]].field
    BY <2>1 DEF WbInv, PortsFit
  <2> QED BY <2>2 DEF BlockOf, outputPorts, inputPorts, configuredTargetPorts, NodesOf
<1> QED BY <1>1, <1>2, <1>3, <1>4 DEF ProjectionIsFaithful

-----------------------------------------------------------------------------
(* The composition                                                         *)

\* The parts, each when it is at work.
PlatformPartsInv ==
    /\ part = "executor" => WfInv
    /\ part = "manual" => MtInv
    /\ part = "runs" => RsInv
    /\ part = "authz" => FgaInv
    /\ part = "scheduler" => CsInv
    /\ part = "schedule" => CbInv
    /\ part = "editor" => EdInv
    /\ part = "blocks" => WbInv
    /\ part = "pages" => MpInv
    /\ part = "table" => DtInv
    /\ part = "bootstrap" => LbInv
    /\ part = "access" => AcInv
    /\ part = "storage" => PsInv

\* The invariant of each component holds in every state of the platform: the component at work
\* keeps its own, whatever the others would do.  Each is what its component keeps between two
\* steps (queues, caches, calls under way and what they will write), and has the component's type
\* invariant and its safety property as consequences.
THEOREM PlatformPartsInvariance == Spec => []PlatformPartsInv
<1>1. Init => PlatformPartsInv
  <2>1. Init =>
          /\ part = "executor" => WfInit
          /\ part = "manual" => MtInit
          /\ part = "runs" => RsInit
          /\ part = "authz" => FgaInit
          /\ part = "scheduler" => CsInit
          /\ part = "schedule" => CbInit
          /\ part = "editor" => EdInit
          /\ part = "blocks" => WbInit
          /\ part = "pages" => MpInit
          /\ part = "table" => DtInit
          /\ part = "bootstrap" => LbInit
          /\ part = "access" => AcInit
          /\ part = "storage" => PsInit
    BY DEF Init
  <2> QED
    BY <2>1, WfInitFits, MtInitFits, RsInitFits, FgaInitFits, CsInitFits, CbInitFits, EdInitFits, WbInitFits, MpInitFits, DtInitFits, LbInitFits, AcInitFits, PsInitFits
    DEF PlatformPartsInv
<1>2. PlatformPartsInv /\ [Next]_vars => PlatformPartsInv'
  <2> SUFFICES ASSUME PlatformPartsInv, [Next]_vars PROVE PlatformPartsInv'
    OBVIOUS
  <2>1. /\ part' = part
        /\ part = "executor" => [WfNext]_wfVars
        /\ part = "manual" => [MtNext]_mtVars
        /\ part = "runs" => [RsNext]_rsVars
        /\ part = "authz" => [FgaNext]_fgaVars
        /\ part = "scheduler" => [CsNext]_csVars
        /\ part = "schedule" => [CbNext]_cbVars
        /\ part = "editor" => [EdNext]_edVars
        /\ part = "blocks" => [WbNext]_wbVars
        /\ part = "pages" => [MpNext]_mpVars
        /\ part = "table" => [DtNext]_dtVars
        /\ part = "bootstrap" => [LbNext]_lbVars
        /\ part = "access" => [AcNext]_acVars
        /\ part = "storage" => [PsNext]_psVars
    <3>1. CASE UNCHANGED vars BY <3>1 DEF vars
    <3>2. CASE Next
      BY <3>2 DEF Next, CsStep, CbStep, WfStep, EdStep, WbStep, RsStep, MtStep, AcStep, LbStep, FgaStep, DtStep,
                  MpStep, PsStep, OthersOff
    <3> QED BY <3>1, <3>2
  <2>2. part = "executor" => WfInv'
    BY <2>1, WfStepFits DEF PlatformPartsInv
  <2>3. part = "manual" => MtInv'
    BY <2>1, MtStepFits DEF PlatformPartsInv
  <2>4. part = "runs" => RsInv' BY <2>1, RsStepFits DEF PlatformPartsInv
  <2>5. part = "authz" => FgaInv'
    BY <2>1, FgaStepFits DEF PlatformPartsInv
  <2>6. part = "scheduler" => CsInv'
    BY <2>1, CsStepFits DEF PlatformPartsInv
  <2>7. part = "schedule" => CbInv'
    BY <2>1, CbStepFits DEF PlatformPartsInv
  <2>8. part = "editor" => EdInv'
    BY <2>1, EdStepFits DEF PlatformPartsInv
  <2>9. part = "blocks" => WbInv'
    BY <2>1, WbStepFits DEF PlatformPartsInv
  <2>10. part = "pages" => MpInv'
    BY <2>1, MpStepFits DEF PlatformPartsInv
  <2>11. part = "table" => DtInv'
    BY <2>1, DtStepFits DEF PlatformPartsInv
  <2>12. part = "bootstrap" => LbInv'
    BY <2>1, LbStepFits DEF PlatformPartsInv
  <2>13. part = "access" => AcInv'
    BY <2>1, AcStepFits DEF PlatformPartsInv
  <2>14. part = "storage" => PsInv'
    BY <2>1, PsStepFits DEF PlatformPartsInv
  <2> QED
    BY <2>1, <2>2, <2>3, <2>4, <2>5, <2>6, <2>7, <2>8, <2>9, <2>10, <2>11, <2>12, <2>13, <2>14 DEF PlatformPartsInv
<1> QED BY <1>1, <1>2, PTL DEF Spec

\* A run does, and shows, what its chart and its starter say, for every chart, every list of
\* triggers and any number of runs and nodes: nodes execute only on dependencies that sources which
\* completed satisfy and are skipped only for a reason, a run started by hand fires the trigger that
\* was confirmed, and the overlay is of the run selected (workflowAutomation.ts,
\* workflow-run-button.tsx, sidebar-runs-tab.tsx).
THEOREM RunsAreWhatTheirChartsSay == Spec => []RunIsWhatTheChartSays
<1>1. PlatformPartsInv => RunIsWhatTheChartSays
  BY WfInvEnough, MtInvEnough, RsInvEnough DEF PlatformPartsInv, RunIsWhatTheChartSays
<1> QED BY <1>1, PlatformPartsInvariance, PTL

\* What is drawn is what is stored, for any number of nodes, triggers, blocks, edits and passes:
\* the trigger rows mirror the chart once the callbacks have run, the collapsed canvas resolves
\* to the edges it stands for, a schedule survives reopening its builder, and a quiet reconcile
\* pass leaves the stored triggers scheduled, each job within its attempts
\* (use-fluxery-editor-state.ts, block-utils.ts, cron-builder.tsx, reconciler.ts, queue.ts).
THEOREM WorkflowsAreKeptAsDrawn == Spec => []WorkflowIsKeptAsDrawn
<1>1. PlatformPartsInv => WorkflowIsKeptAsDrawn
  BY EdInvEnough, WbInvEnough, CbInvEnough, CsInvEnough DEF PlatformPartsInv, WorkflowIsKeptAsDrawn
<1> QED BY <1>1, PlatformPartsInvariance, PTL

\* The administration pages and their tables come to rest on what was asked and saved, for any
\* rows, columns, users and calls: the query string holds the filters the controls show and a page
\* chosen under them, a clearing replaced in the debounce timer apart, and a page at rest shows what
\* the server holds, unless another browser or a call with a lost answer changed it or a call joined
\* a first load that had been read already (use-data-table.ts, the access-control pages).
THEOREM PagesShowWhatTheyWereAsked == Spec => []PagesShowWhatWasAsked
<1>1. PlatformPartsInv => PagesShowWhatWasAsked
  BY MpInvEnough, DtInvEnough DEF PlatformPartsInv, PagesShowWhatWasAsked
<1> QED BY <1>1, PlatformPartsInvariance, PTL

\* What OpenFGA grants follows what the database holds, for any rows, users, concurrent requests
\* and deaths of the scripts: once the handlers have ended, an object whose last one ended alone has
\* the tuples of its row, where an installation of the bootstrap has no child tuple; the scripts
\* converge however often they died; and a request is served only under this release's authorization
\* model (mutations.ts and the access-control router, local-db-bootstrap.ts, seed-demo-data.ts,
\* openfga-state.ts).
THEOREM AccessFollowsRows == Spec => []AccessFollowsTheRows
<1>1. PlatformPartsInv => AccessFollowsTheRows
  BY AcInvEnough, LbInvEnough, FgaInvEnough DEF PlatformPartsInv, AccessFollowsTheRows
<1> QED BY <1>1, PlatformPartsInvariance, PTL

LEMMA RunTypes ==
    /\ WfInv => WfTypeOK
    /\ MtInv => MtTypeOK
    /\ RsInv => RsTypeOK
<1>1. WfInv => WfTypeOK BY DEF WfInv, WfShape, WfTypeOK, WfKeys
<1>2. MtInv => MtTypeOK BY DEF MtInv, MtTypeOK
<1>3. RsInv => RsTypeOK
  <2> SUFFICES ASSUME RsInv PROVE RsTypeOK
    OBVIOUS
  <2>1. \A r \in RunIds : engine[r].status \in ActiveStatuses \cup FinalStatuses
    BY RecordFacts DEF RsInv, EngineFits
  <2>2. PageShape /\ OverlayFits BY DEF RsInv
  <2> QED BY <2>1, <2>2 DEF PageShape, OverlayFits, RsTypeOK
<1> QED BY <1>1, <1>2, <1>3

\* The variables of every part keep their types, for every value of the constants (the tables,
\* caches and state hooks of the modules of the platform).
THEOREM WebPlatformTypes == Spec => []WebPlatformTypeOK
<1>1. PlatformPartsInv => WebPlatformTypeOK
  BY RunTypes, FgaInvEnough, CsInvEnough, CbInvEnough, EdInvEnough, WbInvEnough, MpInvEnough, DtInvEnough,
     LbInvEnough, AcInvEnough, PsInvEnough
  DEF PlatformPartsInv, WebPlatformTypeOK
<1> QED BY <1>1, PlatformPartsInvariance, PTL
=============================================================================
