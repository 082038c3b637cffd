----------------------------- MODULE IpcServer -----------------------------
(***************************************************************************)
(* The IPC server inside cloud-comm (device/internal/ipc/server.go): one    *)
(* handler goroutine per connection, the registry of services and the table *)
(* of their statuses, and the notifications routed to registered services.  *)
(*                                                                          *)
(* A service keeps one connection at a time (IpcClient), but the server may *)
(* still be busy with an abandoned one: the handler reads what is buffered, *)
(* and meets the end of the stream only after it.  The client's end is      *)
(* modelled as far as registerService and readLoop read the stream.         *)
(***************************************************************************)
EXTENDS Integers, Sequences, FiniteSets

CONSTANTS
  Services,   \* service names
  Conns,      \* connections, each dialled once
  Notes,      \* notifications: MQTT commands and messages of other services
  Nobody,     \* no service
  None,       \* a nil *serviceClient
  MaxReports  \* bound: report-status requests sent

ASSUME NobodyAssumption == Nobody \notin Services /\ None \notin Conns
ASSUME BoundAssumption == MaxReports \in Nat
\* A frame is an answer or a notification, by its type field.
ASSUME NotesAssumption == "answer" \notin Notes

VARIABLES
  owner,     \* the service that dialled each connection
  side,      \* the client's end: "unused", "registering", "reading", "closed"
  inbox,     \* requests on their way to the handler
  outbox,    \* frames on their way to the client
  handler,   \* "none", "serving", "replying", "gone"
  services,  \* s.services: the connection registered for each service
  statuses,  \* s.statuses
  reports,   \* report-status requests sent so far
  note,      \* "new", "found", "sent", "refused", "delivered", "swallowed"
  target     \* the connection sendNotification looked up for each note

vars == <<owner, side, inbox, outbox, handler, services, statuses, reports, note, target>>

\* "reported" is what a service says of itself; "disconnected" is the status
\* "stopped" with the reason "ipc disconnected", which only unregister writes.
Status == {"unknown", "registered", "reported", "disconnected"}
Answer == "answer"

Init ==
  /\ owner = [c \in Conns |-> Nobody]
  /\ side = [c \in Conns |-> "unused"]
  /\ inbox = [c \in Conns |-> <<>>]
  /\ outbox = [c \in Conns |-> <<>>]
  /\ handler = [c \in Conns |-> "none"]
  /\ services = [s \in Services |-> None]
  /\ statuses = [s \in Services |-> "unknown"]
  /\ reports = 0
  /\ note = [n \in Notes |-> "new"]
  /\ target = [n \in Notes |-> None]

-----------------------------------------------------------------------------
(* The clients (client.go)                                                  *)

\* reconnectLoop: dial, and write register-service.  One connection at a time.
Dial(s, c) ==
  /\ side[c] = "unused"
  /\ \A d \in Conns : owner[d] = s => side[d] = "closed"
  /\ owner' = [owner EXCEPT ![c] = s]
  /\ side' = [side EXCEPT ![c] = "registering"]
  /\ handler' = [handler EXCEPT ![c] = "serving"]
  /\ inbox' = [inbox EXCEPT ![c] = <<"register">>]
  /\ UNCHANGED <<outbox, services, statuses, reports, note, target>>

\* What becomes of the frames a read has taken off the stream.
Fate(frames, fate) ==
  note' = [n \in Notes |-> IF \E i \in DOMAIN frames : frames[i] = n THEN fate ELSE note[n]]

\* registerService: the first line of the stream is taken for the answer,
\* and the reader it was read with is dropped with all it had buffered.
ReadRegistered(c, m) ==
  /\ side[c] = "registering"
  /\ m \in 1..Len(outbox[c])
  /\ side' = [side EXCEPT ![c] = "reading"]
  /\ outbox' = [outbox EXCEPT ![c] = SubSeq(@, m + 1, Len(@))]
  /\ Fate(SubSeq(outbox[c], 1, m), "swallowed")
  /\ UNCHANGED <<owner, inbox, handler, services, statuses, reports, target>>

\* readLoop: one frame at a time.
ReadFrame(c) ==
  /\ side[c] = "reading"
  /\ outbox[c] # <<>>
  /\ outbox' = [outbox EXCEPT ![c] = Tail(@)]
  /\ Fate(<<Head(outbox[c])>>, "delivered")
  /\ UNCHANGED <<owner, side, inbox, handler, services, statuses, reports, target>>

\* ReportStatus, or replayLastStatus after a reconnect.
SendReport(c) ==
  /\ side[c] = "reading"
  /\ reports < MaxReports
  /\ reports' = reports + 1
  /\ inbox' = [inbox EXCEPT ![c] = Append(@, "report")]
  /\ UNCHANGED <<owner, side, outbox, handler, services, statuses, note, target>>

\* markDisconnected after a timeout, a failed registration, or the end of the
\* service: the client closes its end, and what it has not read is lost.
Abandon(c) ==
  /\ side[c] \in {"registering", "reading"}
  /\ side' = [side EXCEPT ![c] = "closed"]
  /\ outbox' = [outbox EXCEPT ![c] = <<>>]
  /\ UNCHANGED <<owner, inbox, handler, services, statuses, reports, note, target>>

-----------------------------------------------------------------------------
(* handleConnection and handleRequest                                       *)

Reply(c) == handler' = [handler EXCEPT ![c] = "replying"]

\* "register-service": the registry and the status, under s.mu.
HandleRegister(c) ==
  /\ handler[c] = "serving"
  /\ inbox[c] # <<>> /\ Head(inbox[c]) = "register"
  /\ inbox' = [inbox EXCEPT ![c] = Tail(@)]
  /\ services' = [services EXCEPT ![owner[c]] = c]
  /\ statuses' = [statuses EXCEPT ![owner[c]] = "registered"]
  /\ Reply(c)
  /\ UNCHANGED <<owner, side, outbox, reports, note, target>>

\* "report-status": whoever is registered.
HandleReport(c) ==
  /\ handler[c] = "serving"
  /\ inbox[c] # <<>> /\ Head(inbox[c]) = "report"
  /\ inbox' = [inbox EXCEPT ![c] = Tail(@)]
  /\ statuses' = [statuses EXCEPT ![owner[c]] = "reported"]
  /\ Reply(c)
  /\ UNCHANGED <<owner, side, outbox, services, reports, note, target>>

\* The answer is written after s.mu is released.
WriteAnswer(c) ==
  /\ handler[c] = "replying"
  /\ side[c] # "closed"
  /\ outbox' = [outbox EXCEPT ![c] = Append(@, Answer)]
  /\ handler' = [handler EXCEPT ![c] = "serving"]
  /\ UNCHANGED <<owner, side, inbox, services, statuses, reports, note, target>>

\* Mutants of unregister: the entry is deleted whoever is registered; the
\* registry alone, or the status alone, is updated.
DeletesAny(c) ==
  /\ handler[c] = "replying" \/ (handler[c] = "serving" /\ inbox[c] = <<>>)
  /\ side[c] = "closed"
  /\ services' = [services EXCEPT ![owner[c]] = None]
  /\ statuses' = [statuses EXCEPT ![owner[c]] = "disconnected"]
  /\ handler' = [handler EXCEPT ![c] = "gone"]
  /\ UNCHANGED <<owner, side, inbox, outbox, reports, note, target>>
KeepsStatus(c) ==
  /\ handler[c] = "replying" \/ (handler[c] = "serving" /\ inbox[c] = <<>>)
  /\ side[c] = "closed"
  /\ services' = [services EXCEPT ![owner[c]] = IF @ = c THEN None ELSE @]
  /\ handler' = [handler EXCEPT ![c] = "gone"]
  /\ UNCHANGED <<owner, side, inbox, outbox, statuses, reports, note, target>>
KeepsEntry(c) ==
  /\ handler[c] = "replying" \/ (handler[c] = "serving" /\ inbox[c] = <<>>)
  /\ side[c] = "closed"
  /\ statuses' = [statuses EXCEPT ![owner[c]] = "disconnected"]
  /\ handler' = [handler EXCEPT ![c] = "gone"]
  /\ UNCHANGED <<owner, side, inbox, outbox, services, reports, note, target>>

\* Mutant: a tombstone is stored where the entry should be deleted.
LeavesTombstone(c) ==
  /\ handler[c] = "replying" \/ (handler[c] = "serving" /\ inbox[c] = <<>>)
  /\ side[c] = "closed"
  /\ services' = [services EXCEPT ![owner[c]] = IF @ = c THEN Nobody ELSE @]
  /\ statuses' = [statuses EXCEPT ![owner[c]] = "disconnected"]
  /\ handler' = [handler EXCEPT ![c] = "gone"]
  /\ UNCHANGED <<owner, side, inbox, outbox, reports, note, target>>

\* unregister, when the stream has ended or the answer cannot be written.
\* The registry is guarded by current == client, the status is not.
Unregister(c) ==
  /\ handler[c] = "replying" \/ (handler[c] = "serving" /\ inbox[c] = <<>>)
  /\ side[c] = "closed"
  /\ services' = [services EXCEPT ![owner[c]] = IF @ = c THEN None ELSE @]
  /\ statuses' = [statuses EXCEPT ![owner[c]] = "disconnected"]
  /\ handler' = [handler EXCEPT ![c] = "gone"]
  /\ UNCHANGED <<owner, side, inbox, outbox, reports, note, target>>

-----------------------------------------------------------------------------
(* sendNotification, for NotifyService and NotifyLocalService               *)

\* The lookup, under s.mu.
Lookup(n, s) ==
  /\ note[n] = "new"
  /\ target' = [target EXCEPT ![n] = services[s]]
  /\ note' = [note EXCEPT ![n] = IF services[s] = None THEN "refused" ELSE "found"]
  /\ UNCHANGED <<owner, side, inbox, outbox, handler, services, statuses, reports>>

\* Mutant: the registry is asked again before the write, and a client that
\* it no longer names is not written to.
DropsReplaced(n) ==
  LET c == target[n] IN
  /\ note[n] = "found"
  /\ IF side[c] = "closed" \/ services[owner[c]] # c
     THEN note' = [note EXCEPT ![n] = "refused"] /\ UNCHANGED outbox
     ELSE /\ note' = [note EXCEPT ![n] = "sent"]
          /\ outbox' = [outbox EXCEPT ![c] = Append(@, n)]
  /\ UNCHANGED <<owner, side, inbox, handler, services, statuses, reports, target>>

\* The write, on a connection that may have been closed or replaced since.
WriteNote(n) ==
  LET c == target[n] IN
  /\ note[n] = "found"
  /\ IF side[c] = "closed"
     THEN note' = [note EXCEPT ![n] = "refused"] /\ UNCHANGED outbox
     ELSE /\ note' = [note EXCEPT ![n] = "sent"]
          /\ outbox' = [outbox EXCEPT ![c] = Append(@, n)]
  /\ UNCHANGED <<owner, side, inbox, handler, services, statuses, reports, target>>

-----------------------------------------------------------------------------

ClientReads(c) == ReadFrame(c) \/ \E m \in 1..Len(outbox[c]) : ReadRegistered(c, m)
HandlerStep(c) == HandleRegister(c) \/ HandleReport(c) \/ WriteAnswer(c) \/ Unregister(c)

Next ==
  \/ \E s \in Services, c \in Conns : Dial(s, c)
  \/ \E c \in Conns : ClientReads(c) \/ SendReport(c) \/ Abandon(c) \/ HandlerStep(c)
  \/ \E n \in Notes : WriteNote(n) \/ \E s \in Services : Lookup(n, s)

Spec == Init /\ [][Next]_vars

\* The handlers and the clients' read loops run; so does a notification under
\* way.  Nothing makes a client connect, report or leave.
Fairness ==
  /\ \A c \in Conns : WF_vars(HandlerStep(c)) /\ WF_vars(ClientReads(c))
  /\ \A n \in Notes : WF_vars(WriteNote(n))

FairSpec == Spec /\ Fairness

-----------------------------------------------------------------------------
(* Properties                                                               *)

\* The shape of the state.
TypeOK ==
  /\ owner \in [Conns -> Services \cup {Nobody}]
  /\ side \in [Conns -> {"unused", "registering", "reading", "closed"}]
  /\ inbox \in [Conns -> Seq({"register", "report"})]
  /\ outbox \in [Conns -> Seq({Answer} \cup Notes)]
  /\ handler \in [Conns -> {"none", "serving", "replying", "gone"}]
  /\ services \in [Services -> Conns \cup {None}]
  /\ statuses \in [Services -> Status]
  /\ reports \in Nat
  /\ note \in [Notes -> {"new", "found", "sent", "refused", "delivered", "swallowed"}]
  /\ target \in [Notes -> Conns \cup {None}]

Serving(c) == handler[c] \in {"serving", "replying"}

\* The registry never points to a connection whose handler has ended, nor to
\* one of another service, however registrations and disconnects overlap.
RegistryIsLive ==
  \A s \in Services :
    services[s] # None => Serving(services[s]) /\ owner[services[s]] = s

\* When the last handler of a service has ended its status says so: no report
\* of an earlier connection is left standing.
GoneIsReported ==
  \A s \in Services :
    /\ \E c \in Conns : owner[c] = s /\ handler[c] = "gone"
    /\ \A c \in Conns : owner[c] = s => ~Serving(c)
    => statuses[s] = "disconnected"

\* The end of one connection never removes the registration of another that
\* is in use: an entry is dropped only once its own client has gone.
OnlyOwnEntryDropped ==
  [][\A s \in Services :
       services[s] # None /\ services'[s] = None => side[services[s]] = "closed"]_vars

\* A service that stays away leaves the registry and shows as disconnected.
AbsenceShows ==
  \A s \in Services :
    (<>[](\A c \in Conns : owner[c] = s => side[c] = "closed"))
      => <>[](services[s] = None /\ statuses[s] \in {"unknown", "disconnected"})

\* A client that reads gets the notifications found for it, or leaves: whatever
\* happens to its registration between the lookup and the write (the late
\* registration and end of an abandoned connection may replace and then delete
\* it), sendNotification writes to the client it looked up.
ReaderGetsItsNotes ==
  \A n \in Notes, c \in Conns :
    (note[n] = "found" /\ target[n] = c /\ side[c] = "reading")
      ~> (note[n] = "delivered" \/ side[c] = "closed")

\* The reason unregister gives, "ipc disconnected", taken at its word: the
\* service has no registered connection.
DisconnectedMeansGone ==
  \A s \in Services : statuses[s] = "disconnected" => services[s] = None

\* A command routed to a registered service without an error reaches its
\* readLoop; registerService does not take it for its own answer.
NoNoteSwallowed == \A n \in Notes : note[n] # "swallowed"
=============================================================================
