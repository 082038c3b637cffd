-------------------------- MODULE IpcServerProofs --------------------------
(***************************************************************************)
(* Proofs about IpcServer, for any services, connections and notifications. *)
(***************************************************************************)
EXTENDS IpcServer, TLAPS

(***************************************************************************)
(* The inductive invariant.                                                 *)
(***************************************************************************)

\* A connection has a handler, and belongs to a service, once it is dialled.
ConnShape ==
  \A c \in Conns :
    /\ side[c] = "unused" <=> handler[c] = "none"
    /\ side[c] = "unused" <=> owner[c] = Nobody

IInv ==
  /\ TypeOK
  /\ ConnShape
  /\ RegistryIsLive
  /\ GoneIsReported

LEMMA InitInv == Init => IInv
<1> SUFFICES ASSUME Init PROVE IInv
  OBVIOUS
<1>1. TypeOK
  <2>1. inbox \in [Conns -> Seq({"register", "report"})]
    BY DEF Init
  <2>2. outbox \in [Conns -> Seq({Answer} \cup Notes)]
    BY DEF Init
  <2> QED
    BY <2>1, <2>2 DEF Init, TypeOK, Status
<1>2. ConnShape
  BY DEF Init, ConnShape
<1>3. RegistryIsLive
  BY DEF Init, RegistryIsLive
<1>4. GoneIsReported
  BY DEF Init, GoneIsReported
<1> QED
  BY <1>1, <1>2, <1>3, <1>4 DEF IInv

-----------------------------------------------------------------------------
(* The clients                                                              *)

LEMMA DialStep ==
  ASSUME IInv, NEW s \in Services, NEW c \in Conns, Dial(s, c)
  PROVE  IInv'
<1>0. TypeOK /\ ConnShape /\ RegistryIsLive /\ GoneIsReported
  BY DEF IInv
<1>1. /\ owner'[c] = s /\ side'[c] = "registering" /\ handler'[c] = "serving"
      /\ side[c] = "unused" /\ services' = services /\ statuses' = statuses
  BY <1>0 DEF Dial, TypeOK
<1>2. \A d \in Conns : d # c => /\ owner'[d] = owner[d] /\ side'[d] = side[d]
                                /\ handler'[d] = handler[d]
  BY <1>0 DEF Dial, TypeOK
<1>3. TypeOK'
  <2>1. inbox' \in [Conns -> Seq({"register", "report"})]
    <3>1. <<"register">> \in Seq({"register", "report"})
      OBVIOUS
    <3> QED
      BY <1>0, <3>1 DEF Dial, TypeOK
  <2> QED
    BY <1>0, <2>1 DEF Dial, TypeOK
<1>4. ConnShape'
  BY <1>0, <1>1, <1>2, NobodyAssumption DEF ConnShape
<1>5. handler[c] = "none" /\ owner[c] = Nobody
  BY <1>0, <1>1 DEF ConnShape
<1>6. RegistryIsLive'
  <2> SUFFICES ASSUME NEW t \in Services, services[t] # None
               PROVE  handler'[services[t]] \in {"serving", "replying"} /\ owner'[services[t]] = t
    BY <1>1 DEF RegistryIsLive, Serving
  <2>1. services[t] \in Conns
    BY <1>0 DEF TypeOK
  <2>2. handler[services[t]] \in {"serving", "replying"} /\ owner[services[t]] = t
    BY <1>0 DEF RegistryIsLive, Serving
  <2> QED
    BY <1>2, <1>5, <2>1, <2>2
<1>7. GoneIsReported'
  BY <1>0, <1>1, <1>2, <1>5, NobodyAssumption DEF GoneIsReported, Serving
<1> QED
  BY <1>3, <1>4, <1>6, <1>7 DEF IInv

\* What leaves the handlers, the registry and the statuses alone, and uses no
\* fresh connection, keeps the invariant.
LEMMA Elsewhere ==
  ASSUME IInv, TypeOK', owner' = owner, handler' = handler, services' = services,
         statuses' = statuses,
         \A c \in Conns : side'[c] = "unused" <=> side[c] = "unused"
  PROVE  IInv'
BY DEF IInv, ConnShape, RegistryIsLive, GoneIsReported, Serving

\* What a read does to the notifications is a fate.
LEMMA FateType ==
  ASSUME TypeOK, NEW frames, NEW fate \in {"delivered", "swallowed"}, Fate(frames, fate)
  PROVE  note' \in [Notes -> {"new", "found", "sent", "refused", "delivered", "swallowed"}]
BY DEF TypeOK, Fate

LEMMA ClientStep ==
  ASSUME IInv, NEW c \in Conns, ClientReads(c) \/ SendReport(c) \/ Abandon(c)
  PROVE  IInv'
<1>0. TypeOK
  BY DEF IInv
<1>1. ASSUME NEW m \in 1..Len(outbox[c]), ReadRegistered(c, m) PROVE IInv'
  <2>1. SubSeq(outbox[c], m + 1, Len(outbox[c])) \in Seq({Answer} \cup Notes)
    <3>1. outbox[c] \in Seq({Answer} \cup Notes)
      BY <1>0 DEF TypeOK
    <3> QED
      BY <3>1
  <2>2. note' \in [Notes -> {"new", "found", "sent", "refused", "delivered", "swallowed"}]
    BY <1>0, <1>1, FateType DEF ReadRegistered
  <2>3. TypeOK'
    BY <1>0, <1>1, <2>1, <2>2 DEF ReadRegistered, TypeOK
  <2>4. \A d \in Conns : side'[d] = "unused" <=> side[d] = "unused"
    BY <1>0, <1>1 DEF ReadRegistered, TypeOK
  <2> QED
    BY <1>1, <2>3, <2>4, Elsewhere DEF ReadRegistered
<1>2. CASE ReadFrame(c)
  <2>1. Tail(outbox[c]) \in Seq({Answer} \cup Notes)
    <3>1. outbox[c] \in Seq({Answer} \cup Notes) /\ outbox[c] # <<>>
      BY <1>0, <1>2 DEF TypeOK, ReadFrame
    <3> QED
      BY <3>1
  <2>2. note' \in [Notes -> {"new", "found", "sent", "refused", "delivered", "swallowed"}]
    BY <1>0, <1>2, FateType DEF ReadFrame
  <2>3. TypeOK'
    BY <1>0, <1>2, <2>1, <2>2 DEF ReadFrame, TypeOK
  <2> QED
    BY <1>2, <2>3, Elsewhere DEF ReadFrame
<1>3. CASE SendReport(c)
  <2>1. Append(inbox[c], "report") \in Seq({"register", "report"})
    <3>1. inbox[c] \in Seq({"register", "report"})
      BY <1>0 DEF TypeOK
    <3> QED
      BY <3>1
  <2>2. TypeOK'
    BY <1>0, <1>3, <2>1 DEF SendReport, TypeOK
  <2> QED
    BY <1>3, <2>2, Elsewhere DEF SendReport
<1>4. CASE Abandon(c)
  <2>1. TypeOK'
    <3>1. <<>> \in Seq({Answer} \cup Notes)
      OBVIOUS
    <3> QED
      BY <1>0, <1>4, <3>1 DEF Abandon, TypeOK
  <2>2. \A d \in Conns : side'[d] = "unused" <=> side[d] = "unused"
    BY <1>0, <1>4 DEF Abandon, TypeOK
  <2> QED
    BY <1>4, <2>1, <2>2, Elsewhere DEF Abandon
<1> QED
  BY <1>1, <1>2, <1>3, <1>4 DEF ClientReads

-----------------------------------------------------------------------------
(* The handlers                                                             *)

\* A handler at work belongs to a service.
LEMMA ServingOwner ==
  ASSUME IInv, NEW c \in Conns, Serving(c)
  PROVE  owner[c] \in Services
BY DEF IInv, TypeOK, ConnShape, Serving

\* A handler that goes on with its work, and with the answer to it.
LEMMA WorkStep ==
  ASSUME IInv, NEW c \in Conns, HandleRegister(c) \/ HandleReport(c) \/ WriteAnswer(c)
  PROVE  IInv'
<1>0. TypeOK /\ ConnShape /\ RegistryIsLive /\ GoneIsReported
  BY DEF IInv
<1>1. handler[c] \in {"serving", "replying"} /\ owner' = owner /\ side' = side
  BY DEF HandleRegister, HandleReport, WriteAnswer
<1>2. owner[c] \in Services
  BY <1>1, ServingOwner DEF Serving
<1>3. /\ handler'[c] \in {"serving", "replying"}
      /\ \A d \in Conns : d # c => handler'[d] = handler[d]
      /\ handler' \in [Conns -> {"none", "serving", "replying", "gone"}]
  BY <1>0 DEF HandleRegister, HandleReport, WriteAnswer, Reply, TypeOK
<1>4. /\ statuses' \in [Services -> Status]
      /\ \A s \in Services : s # owner[c] => statuses'[s] = statuses[s]
  BY <1>0, <1>2 DEF HandleRegister, HandleReport, WriteAnswer, TypeOK, Status
<1>5. /\ services' \in [Services -> Conns \cup {None}]
      /\ \A s \in Services : services'[s] = services[s] \/ (s = owner[c] /\ services'[s] = c)
  BY <1>0, <1>2 DEF HandleRegister, HandleReport, WriteAnswer, TypeOK
<1>6. TypeOK'
  <2>1. inbox' \in [Conns -> Seq({"register", "report"})]
    <3>1. inbox[c] \in Seq({"register", "report"})
      BY <1>0 DEF TypeOK
    <3>2. inbox[c] # <<>> => Tail(inbox[c]) \in Seq({"register", "report"})
      BY <3>1
    <3> QED
      BY <1>0, <3>2 DEF HandleRegister, HandleReport, WriteAnswer, TypeOK
  <2>2. outbox' \in [Conns -> Seq({Answer} \cup Notes)]
    <3>1. outbox[c] \in Seq({Answer} \cup Notes)
      BY <1>0 DEF TypeOK
    <3>2. Append(outbox[c], Answer) \in Seq({Answer} \cup Notes)
      BY <3>1
    <3> QED
      BY <1>0, <3>2 DEF HandleRegister, HandleReport, WriteAnswer, TypeOK
  <2>3. UNCHANGED <<owner, side, reports, note, target>>
    BY DEF HandleRegister, HandleReport, WriteAnswer
  <2> QED
    BY <1>0, <1>3, <1>4, <1>5, <2>1, <2>2, <2>3 DEF TypeOK
<1>7. ConnShape'
  BY <1>0, <1>1, <1>3 DEF ConnShape
<1>8. RegistryIsLive'
  <2> SUFFICES ASSUME NEW s \in Services, services'[s] # None
               PROVE  handler'[services'[s]] \in {"serving", "replying"} /\ owner[services'[s]] = s
    BY <1>1 DEF RegistryIsLive, Serving
  <2>1. CASE services'[s] = services[s]
    <3>1. services[s] \in Conns
      BY <1>0, <2>1 DEF TypeOK
    <3> QED
      BY <1>0, <1>3, <2>1, <3>1 DEF RegistryIsLive, Serving
  <2>2. CASE s = owner[c] /\ services'[s] = c
    BY <1>3, <2>2
  <2> QED
    BY <1>5, <2>1, <2>2
<1>9. GoneIsReported'
  BY <1>0, <1>1, <1>3, <1>4 DEF GoneIsReported, Serving
<1> QED
  BY <1>6, <1>7, <1>8, <1>9 DEF IInv

\* The end of a handler.
LEMMA UnregisterStep ==
  ASSUME IInv, NEW c \in Conns, Unregister(c)
  PROVE  IInv'
<1>0. TypeOK /\ ConnShape /\ RegistryIsLive /\ GoneIsReported
  BY DEF IInv
<1>1. handler[c] \in {"serving", "replying"} /\ owner' = owner /\ side' = side
  BY DEF Unregister
<1>2. owner[c] \in Services
  BY <1>1, ServingOwner DEF Serving
<1>3. /\ handler'[c] = "gone"
      /\ \A d \in Conns : d # c => handler'[d] = handler[d]
      /\ statuses'[owner[c]] = "disconnected"
      /\ \A s \in Services : s # owner[c] => statuses'[s] = statuses[s]
  BY <1>0, <1>2 DEF Unregister, TypeOK
<1>4. \A s \in Services :
        services'[s] = IF s = owner[c] /\ services[s] = c THEN None ELSE services[s]
  BY <1>0, <1>2 DEF Unregister, TypeOK
<1>5. TypeOK'
  BY <1>0, <1>2 DEF Unregister, TypeOK, Status
<1>6. ConnShape'
  BY <1>0, <1>1, <1>3 DEF ConnShape
<1>7. RegistryIsLive'
  <2> SUFFICES ASSUME NEW s \in Services, services'[s] # None
               PROVE  handler'[services'[s]] \in {"serving", "replying"} /\ owner[services'[s]] = s
    BY <1>1 DEF RegistryIsLive, Serving
  <2>1. services'[s] = services[s] /\ services[s] \in Conns
    BY <1>0, <1>4 DEF TypeOK
  <2>2. owner[services[s]] = s /\ handler[services[s]] \in {"serving", "replying"}
    BY <1>0, <2>1 DEF RegistryIsLive, Serving
  <2>3. services[s] # c
    BY <1>4, <2>1, <2>2, NobodyAssumption
  <2> QED
    BY <1>3, <2>1, <2>2, <2>3
<1>8. GoneIsReported'
  BY <1>0, <1>1, <1>3 DEF GoneIsReported, Serving
<1> QED
  BY <1>5, <1>6, <1>7, <1>8 DEF IInv

\* A notification is looked up, and written, apart from all this.
LEMMA NoteStep ==
  ASSUME IInv, NEW n \in Notes, WriteNote(n) \/ \E s \in Services : Lookup(n, s)
  PROVE  IInv'
<1>0. TypeOK
  BY DEF IInv
<1>1. ASSUME NEW s \in Services, Lookup(n, s) PROVE IInv'
  <2>1. TypeOK'
    BY <1>0, <1>1 DEF Lookup, TypeOK
  <2> QED
    BY <1>1, <2>1, Elsewhere DEF Lookup
<1>2. CASE WriteNote(n)
  <2>1. outbox' \in [Conns -> Seq({Answer} \cup Notes)]
    <3>1. \A c \in Conns : Append(outbox[c], n) \in Seq({Answer} \cup Notes)
      <4>1. \A c \in Conns : outbox[c] \in Seq({Answer} \cup Notes)
        BY <1>0 DEF TypeOK
      <4> QED
        BY <4>1
    <3>2. outbox \in [Conns -> Seq({Answer} \cup Notes)]
      BY <1>0 DEF TypeOK
    <3>3. CASE UNCHANGED outbox
      BY <3>2, <3>3
    <3>4. CASE outbox' = [outbox EXCEPT ![target[n]] = Append(@, n)]
      <4>1. outbox' = [d \in Conns |-> IF d = target[n] THEN Append(outbox[d], n) ELSE outbox[d]]
        BY <3>2, <3>4
      <4> QED
        BY <3>1, <3>2, <4>1
    <3> QED
      BY <1>2, <3>3, <3>4 DEF WriteNote
  <2>2. TypeOK'
    BY <1>0, <1>2, <2>1 DEF WriteNote, TypeOK
  <2> QED
    BY <1>2, <2>2, Elsewhere DEF WriteNote
<1> QED
  BY <1>1, <1>2

-----------------------------------------------------------------------------
(* The theorems                                                             *)

\* The invariant holds in every reachable state.
THEOREM Invariance == Spec => []IInv
<1>1. IInv /\ [Next]_vars => IInv'
  <2> SUFFICES ASSUME IInv, [Next]_vars PROVE IInv'
    OBVIOUS
  <2>1. CASE UNCHANGED vars
    BY <2>1 DEF vars, IInv, TypeOK, ConnShape, RegistryIsLive, GoneIsReported, Serving
  <2>2. CASE Next
    BY <2>2, DialStep, ClientStep, WorkStep, UnregisterStep, NoteStep DEF Next, HandlerStep
  <2> QED
    BY <2>1, <2>2
<1> QED
  BY InitInv, <1>1, PTL DEF Spec

\* Every reachable state of the server is well formed.
THEOREM TypeCorrect == Spec => []TypeOK
<1>1. IInv => TypeOK
  BY DEF IInv
<1> QED
  BY Invariance, <1>1, PTL

\* s.services never points to a connection whose handler has ended, nor to one
\* of another service.
THEOREM LiveRegistry == Spec => []RegistryIsLive
<1>1. IInv => RegistryIsLive
  BY DEF IInv
<1> QED
  BY Invariance, <1>1, PTL

\* When the last handler of a service has ended, s.statuses says disconnected.
THEOREM GoneShows == Spec => []GoneIsReported
<1>1. IInv => GoneIsReported
  BY DEF IInv
<1> QED
  BY Invariance, <1>1, PTL

\* unregister of one connection never drops the entry of another in use.
THEOREM OwnEntry == Spec => OnlyOwnEntryDropped
<1> DEFINE A == \A s \in Services :
                  services[s] # None /\ services'[s] = None => side[services[s]] = "closed"
<1>1. IInv /\ [Next]_vars => [A]_vars
  <2> SUFFICES ASSUME IInv, Next, NEW s \in Services, services[s] # None, services'[s] = None
               PROVE  side[services[s]] = "closed"
    BY DEF A
  <2>1. CASE services' = services
    BY <2>1
  <2>2. ASSUME NEW c \in Conns, HandleRegister(c) PROVE services'[s] # None
    BY <2>2, NobodyAssumption DEF HandleRegister, IInv, TypeOK
  <2>3. ASSUME NEW c \in Conns, Unregister(c) PROVE side[services[s]] = "closed"
    BY <2>3 DEF Unregister, IInv, TypeOK
  <2>4. ASSUME NEW c \in Conns,
               ClientReads(c) \/ SendReport(c) \/ Abandon(c) \/ HandleReport(c) \/ WriteAnswer(c)
        PROVE  services' = services
    BY <2>4 DEF ClientReads, ReadFrame, ReadRegistered, SendReport, Abandon, HandleReport,
                WriteAnswer
  <2>5. ASSUME NEW t \in Services, NEW c \in Conns, Dial(t, c) PROVE services' = services
    BY <2>5 DEF Dial
  <2>6. ASSUME NEW n \in Notes, WriteNote(n) \/ \E t \in Services : Lookup(n, t)
        PROVE  services' = services
    BY <2>6 DEF WriteNote, Lookup
  <2> QED
    BY <2>1, <2>2, <2>3, <2>4, <2>5, <2>6 DEF Next, HandlerStep
<1> QED
  BY Invariance, <1>1, PTL DEF Spec, OnlyOwnEntryDropped, A
=============================================================================
