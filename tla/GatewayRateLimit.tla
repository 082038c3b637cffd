-------------------------- MODULE GatewayRateLimit --------------------------
(***************************************************************************)
(* The rate limit of one socket of the live gateway (ws-handler.ts): a      *)
(* sliding window over all messages and one over the commands, under limits *)
(* that come from the environment and are normalised first.                 *)
(***************************************************************************)
EXTENDS Integers, Sequences, FiniteSets

CONSTANTS
  Settings,        \* what the environment may say of each limit; 0 stands for every unusable value
  DefaultMessages, \* defaultGatewayRateLimit.maxMessages
  DefaultCommands, \* defaultGatewayRateLimit.maxCommandMessages
  WindowMs,        \* windowMs, in ticks
  LastTick         \* bound on the clock

\* Unusable settings are 0, and defaultGatewayRateLimit is usable.
ASSUME LimitsAssumption ==
  /\ Settings \subseteq Nat
  /\ {DefaultMessages, DefaultCommands} \subseteq Nat \ {0}
  /\ {WindowMs, LastTick} \subseteq Nat

VARIABLES
  rateLimit,           \* the normalised limits: [maxMessages, maxCommandMessages]
  nowMs,               \* deps.now()
  messageTimestamps, commandTimestamps,  \* the limiter of the socket
  limited,             \* "no", or the violation that closed the socket
  accepted             \* history: the instants of the messages and of the commands that came through

glVars == <<rateLimit, nowMs, messageTimestamps, commandTimestamps, limited, accepted>>

\* Mutant: the limit on commands is not tied to the one on messages.
UntiedLimits(messages, commands) ==
  [maxMessages |-> IF messages > 0 THEN messages ELSE DefaultMessages,
   maxCommandMessages |-> IF commands > 0 THEN commands ELSE DefaultCommands]

normalizeGatewayRateLimit(messages, commands) ==
  LET maxMessages == IF messages > 0 THEN messages ELSE DefaultMessages IN
  [maxMessages |-> maxMessages,
   maxCommandMessages |-> IF commands > 0 /\ commands <= maxMessages THEN commands
                          ELSE IF DefaultCommands < maxMessages THEN DefaultCommands ELSE maxMessages]

GlInit ==
  /\ \E messages, commands \in Settings : rateLimit = normalizeGatewayRateLimit(messages, commands)
  /\ nowMs = 0
  /\ messageTimestamps = <<>> /\ commandTimestamps = <<>>
  /\ limited = "no"
  /\ accepted = [messages |-> <<>>, commands |-> <<>>]

-----------------------------------------------------------------------------

\* Mutant: an instant just as old as the window is dropped too.
PrunesEdge(timestamps, cutoffMs) ==
  LET old == {i \in DOMAIN timestamps : \A j \in 1..i : timestamps[j] <= cutoffMs} IN
  SubSeq(timestamps, Cardinality(old) + 1, Len(timestamps))

\* The expired instants at the front, and how many they are: firstActiveIndex.
ExpiredPrefix(timestamps, cutoffMs) ==
  {i \in DOMAIN timestamps : \A j \in 1..i : timestamps[j] < cutoffMs}

pruneExpiredTimestamps(timestamps, cutoffMs) ==
  SubSeq(timestamps, Cardinality(ExpiredPrefix(timestamps, cutoffMs)) + 1, Len(timestamps))

\* A message arrives.  It is counted as a message, and if it is a command as
\* one of those too; over a limit the socket is closed and the limiter dropped.
Inbound(command) ==
  LET messages == pruneExpiredTimestamps(messageTimestamps, nowMs - WindowMs)
      commands == pruneExpiredTimestamps(commandTimestamps, nowMs - WindowMs)
      tooMany == Len(messages) >= rateLimit.maxMessages
      tooManyCommands == command /\ Len(commands) >= rateLimit.maxCommandMessages
  IN
  /\ limited = "no"
  /\ limited' = IF tooMany THEN "too many websocket messages"
                ELSE IF tooManyCommands THEN "too many websocket commands" ELSE "no"
  /\ messageTimestamps' = IF limited' = "no" THEN Append(messages, nowMs) ELSE <<>>
  /\ commandTimestamps' = IF limited' # "no" THEN <<>>
                          ELSE IF command THEN Append(commands, nowMs) ELSE commandTimestamps
  /\ accepted' = IF limited' # "no" THEN accepted
                 ELSE [messages |-> Append(accepted.messages, nowMs),
                       commands |-> IF command THEN Append(accepted.commands, nowMs)
                                    ELSE accepted.commands]
  /\ UNCHANGED <<rateLimit, nowMs>>

ClockTicks ==
  /\ nowMs < LastTick
  /\ nowMs' = nowMs + 1
  /\ UNCHANGED <<rateLimit, messageTimestamps, commandTimestamps, limited, accepted>>

GlNext == Inbound(TRUE) \/ Inbound(FALSE) \/ ClockTicks

GlSpec == GlInit /\ [][GlNext]_glVars

-----------------------------------------------------------------------------

\* The shape of the state.
GlTypeOK ==
  /\ rateLimit \in [maxMessages : Nat, maxCommandMessages : Nat]
  /\ nowMs \in 0..LastTick
  /\ {messageTimestamps, commandTimestamps} \subseteq Seq(0..LastTick)
  /\ limited \in {"no", "too many websocket messages", "too many websocket commands"}
  /\ accepted \in [messages : Seq(0..LastTick), commands : Seq(0..LastTick)]

\* How many of the instants fall into an interval.
CountIn(instants, from, to) == Cardinality({i \in DOMAIN instants : instants[i] \in from..to})

\* However the messages are spread, no interval as long as the window, its two
\* ends included, lets more through than the limits say; the limits are usable
\* and ordered whatever was configured; and a socket is closed only after a
\* window that really was full.
RateIsBounded ==
  /\ 0 < rateLimit.maxCommandMessages /\ rateLimit.maxCommandMessages <= rateLimit.maxMessages
  /\ \A t \in 0..LastTick :
       /\ CountIn(accepted.messages, t, t + WindowMs) <= rateLimit.maxMessages
       /\ CountIn(accepted.commands, t, t + WindowMs) <= rateLimit.maxCommandMessages
  /\ limited = "too many websocket messages" =>
       \E t \in 0..nowMs : CountIn(accepted.messages, t - WindowMs, t) = rateLimit.maxMessages
  /\ limited = "too many websocket commands" =>
       \E t \in 0..nowMs : CountIn(accepted.commands, t - WindowMs, t) = rateLimit.maxCommandMessages
=============================================================================
