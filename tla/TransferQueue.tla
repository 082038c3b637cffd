---------------------------- MODULE TransferQueue ----------------------------
(***************************************************************************)
(* What cloud-transfer promises whoever hands it a transfer, without        *)
(* tables, clocks, verdicts or restarts: a transfer is accepted once, is in *)
(* one worker's hands at a time, may come back any number of times, and is  *)
(* settled for good - as completed only if its data has arrived, as failed  *)
(* only by the worker that held it or while nobody does.  CloudTransfer     *)
(* implements it (CloudTransfer!ImplementsQueue).                           *)
(***************************************************************************)
CONSTANTS Transfers, Workers, NoTransfer

VARIABLES
  status,   \* [Transfers -> {"absent", "open", "completed", "failed"}]
  hands,    \* [Workers -> Transfers \cup {NoTransfer}]
  arrived   \* the transfers whose data has been moved

queueVars == <<status, hands, arrived>>

InHands == {hands[w] : w \in Workers} \ {NoTransfer}

Init ==
  /\ status = [x \in Transfers |-> "absent"]
  /\ hands = [w \in Workers |-> NoTransfer]
  /\ arrived = {}

Accept(x) ==
  /\ status[x] = "absent"
  /\ status' = [status EXCEPT ![x] = "open"]
  /\ UNCHANGED <<hands, arrived>>

Take(w, x) ==
  /\ hands[w] = NoTransfer
  /\ status[x] = "open" /\ x \notin InHands
  /\ hands' = [hands EXCEPT ![w] = x]
  /\ UNCHANGED <<status, arrived>>

Arrive(w) ==
  /\ hands[w] # NoTransfer
  /\ arrived' = arrived \cup {hands[w]}
  /\ UNCHANGED <<status, hands>>

\* A worker lets go of its transfer: settled, or open as before.
GiveBack(w, s) ==
  /\ hands[w] # NoTransfer
  /\ s = "completed" => hands[w] \in arrived
  /\ status' = [status EXCEPT ![hands[w]] = s]
  /\ hands' = [hands EXCEPT ![w] = NoTransfer]
  /\ UNCHANGED arrived

\* Open transfers that nobody holds are given up, any number at a time.
GiveUp(given) ==
  /\ UNCHANGED <<hands, arrived>>
  /\ \A x \in given : status[x] = "open" /\ x \notin InHands
  /\ status' = [x \in Transfers |-> IF x \in given THEN "failed" ELSE status[x]]

\* Every worker dies; what it held stays open, or was given up meanwhile.
Die(given) ==
  /\ given \subseteq InHands
  /\ hands' = [w \in Workers |-> NoTransfer]
  /\ status' = [x \in Transfers |-> IF x \in given THEN "failed" ELSE status[x]]
  /\ UNCHANGED arrived

Next ==
  \/ \E given \in SUBSET Transfers : GiveUp(given)
  \/ \E x \in Transfers : Accept(x)
  \/ \E w \in Workers, x \in Transfers : Take(w, x)
  \/ \E w \in Workers : Arrive(w)
  \/ \E w \in Workers, s \in {"open", "completed", "failed"} : GiveBack(w, s)
  \/ \E given \in SUBSET Transfers : Die(given)

Spec == Init /\ [][Next]_queueVars
=============================================================================
