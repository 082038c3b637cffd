---------------------------- MODULE DevicePanels ----------------------------
(***************************************************************************)
(* The audio-manager and cloud-transfer panels: cards that put jobs into a    *)
(* queue of the device and cards that show that queue.  A panel's queries      *)
(* live in the cache of TanStack Query (external: a refetch of a query that     *)
(* has data gives up the request in flight, one without data joins it).  A      *)
(* snapshot is the number of jobs the device had made when it took it;          *)
(* requests and answers may be lost, the caller then times out.                *)
(***************************************************************************)
EXTENDS Integers

CONSTANTS MaxDeviceJobs,   \* how many jobs get made
          Filters,         \* values of the browser's filter, each its own query
          MaxPanelTurns    \* how often the operator, a timer or a fault acts

\* The browser has a filter to begin with.
ASSUME DpAssumption == MaxDeviceJobs \in Nat /\ Filters # {}

VARIABLES panel,      \* "audio" or "transfer"
          panelOnline,     \* transportState = "connected"
          drafts,     \* card -> "blank", "filled", "unparsable"
          sending,    \* card -> the mutation and its request
          jobsMade,       \* jobs the device has made
          acked,      \* newest job whose enqueue was answered
          picked,     \* selectedJobId, 0 for none
          filter,     \* the browser's filter
          jobsRefreshKey, \* refreshKey # 0
          cache,      \* query -> [data, error, flight]
          panelTurns  \* bounds what the operator, the timers and the network do

dpVars == <<panel, panelOnline, drafts, sending, jobsMade, acked, picked, filter, jobsRefreshKey, cache, panelTurns>>

Cards(p) == IF p = "audio" THEN {"play"} ELSE {"upload", "download"}
AllCards == Cards("audio") \cup Cards("transfer")
JobIds == 1..MaxDeviceJobs

\* Keys of the queries: get-status, list with its filter, get-job with its id.
StatusCard == <<"status", 0>>
JobBrowser(f) == <<"list", f>>
SelectedCard(j) == <<"item", j>>
Queries == {StatusCard} \cup {JobBrowser(f) : f \in Filters} \cup {SelectedCard(j) : j \in JobIds}

\* A request in flight: none, on its way to the device, or answered with a snapshot.
NoFlight == -2
OnItsWay == -1
NoData == -1
Empty == [data |-> NoData, error |-> FALSE, flight |-> NoFlight]

\* The queries the panel's cards have mounted.
Mounted(f, j) == {StatusCard, JobBrowser(f)} \cup (IF j = 0 THEN {} ELSE {SelectedCard(j)})

\* refetch() and invalidateQueries().
Refetched(x) == IF x.data = NoData /\ x.flight # NoFlight THEN x ELSE [x EXCEPT !.flight = OnItsWay]

\* A query that settles re-renders its card, whose effect depends on the query
\* object, new at every render: once refreshKey is set, it refetches.
Settled(x, refreshes) == IF refreshes THEN Refetched([x EXCEPT !.flight = NoFlight]) ELSE [x EXCEPT !.flight = NoFlight]

DpInit ==
    /\ panel \in {"audio", "transfer"}
    /\ panelOnline = FALSE
    /\ drafts = [c \in AllCards |-> "blank"]
    /\ sending = [c \in AllCards |-> [state |-> "idle", flight |-> NoFlight]]
    /\ jobsMade = 0 /\ acked = 0 /\ picked = 0 /\ jobsRefreshKey = FALSE
    /\ filter = CHOOSE f \in Filters : TRUE
    /\ cache = [q \in Queries |-> Empty] /\ panelTurns = 0

PanelTurn == panelTurns < MaxPanelTurns /\ panelTurns' = panelTurns + 1

\* Mounting a query or enabling it: fetched when it has no data, and when its
\* data has become stale.
MayFetch(S) ==
    {[q \in Queries |-> IF q \in S /\ cache[q].flight = NoFlight /\ (cache[q].data = NoData \/ q \in stale)
                        THEN [cache[q] EXCEPT !.flight = OnItsWay] ELSE cache[q]] : stale \in SUBSET S}

Connected ==
    /\ ~panelOnline /\ panelOnline' = TRUE
    /\ cache' \in MayFetch(Mounted(filter, picked))
    /\ PanelTurn
    /\ UNCHANGED <<panel, drafts, sending, jobsMade, acked, picked, filter, jobsRefreshKey>>

Disconnected ==
    /\ panelOnline /\ panelOnline' = FALSE
    /\ PanelTurn
    /\ UNCHANGED <<panel, drafts, sending, jobsMade, acked, picked, filter, jobsRefreshKey, cache>>

\* Typing; only the transfer cards have metadata that must parse.
Types(c, d) ==
    /\ c \in Cards(panel) /\ drafts[c] # d
    /\ d = "unparsable" => panel = "transfer"
    /\ drafts' = [drafts EXCEPT ![c] = d]
    /\ PanelTurn
    /\ UNCHANGED <<panel, panelOnline, sending, jobsMade, acked, picked, filter, jobsRefreshKey, cache>>

\* toPlayAudioInput, toUploadInput, toDownloadInput: parseMetadata throws.
Sendable(c) == CASE panel = "audio" -> drafts[c] # "blank" [] OTHER -> TRUE
Parses(c) == drafts[c] # "unparsable"

\* handleSubmit: the mutation is reset before the input is built.
handleSubmit(c) ==
    /\ c \in Cards(panel) /\ panelOnline
    /\ sending[c].state # "pending" /\ Sendable(c)
    /\ sending' = [sending EXCEPT ![c] = IF Parses(c) THEN [state |-> "pending", flight |-> OnItsWay]
                                         ELSE [state |-> "idle", flight |-> NoFlight]]
    /\ PanelTurn
    /\ UNCHANGED <<panel, panelOnline, drafts, jobsMade, acked, picked, filter, jobsRefreshKey, cache>>

\* The device makes a job or refuses (0).
DeviceEnqueues(c) ==
    /\ sending[c].flight = OnItsWay
    /\ \/ sending' = [sending EXCEPT ![c].flight = 0] /\ jobsMade' = jobsMade
       \/ /\ jobsMade < MaxDeviceJobs
          /\ jobsMade' = jobsMade + 1
          /\ sending' = [sending EXCEPT ![c].flight = jobsMade + 1]
    /\ UNCHANGED <<panel, panelOnline, drafts, acked, picked, filter, jobsRefreshKey, cache, panelTurns>>

\* Mutant: the invalidations alone, without the refresh key.
OnlyInvalidates(c) ==
    LET k == sending[c].flight
        mine == Mounted(filter, k)
    IN  /\ panelOnline /\ k >= 1
        /\ sending' = [sending EXCEPT ![c] = [state |-> "idle", flight |-> NoFlight]]
        /\ drafts' = [drafts EXCEPT ![c] = "blank"]
        /\ acked' = IF k > acked THEN k ELSE acked
        /\ picked' = k /\ jobsRefreshKey' = jobsRefreshKey
        /\ cache' = [q \in Queries |-> IF q \in mine THEN Refetched(cache[q]) ELSE cache[q]]
        /\ UNCHANGED <<panel, panelOnline, jobsMade, filter, panelTurns>>

\* onSuccess and handleQueued: the draft is emptied, the job selected, the
\* refresh key raised; the mounted queries are refetched, by their invalidation
\* and by their effects.  Unmounted lists are marked, and fetched when mounted.
onSuccess(c) ==
    LET k == sending[c].flight
        mine == Mounted(filter, k)
    IN  /\ panelOnline /\ k >= 1
        /\ sending' = [sending EXCEPT ![c] = [state |-> "idle", flight |-> NoFlight]]
        /\ drafts' = [drafts EXCEPT ![c] = "blank"]
        /\ acked' = IF k > acked THEN k ELSE acked
        /\ picked' = k /\ jobsRefreshKey' = TRUE
        /\ cache' = [q \in Queries |-> IF q \in mine THEN Refetched(cache[q]) ELSE cache[q]]
        /\ UNCHANGED <<panel, panelOnline, jobsMade, filter, panelTurns>>

\* An error answer, or 120 s without any: the request or its answer is lost.
onError(c) ==
    /\ sending[c].state = "pending"
    /\ sending' = [sending EXCEPT ![c] = [state |-> "error", flight |-> NoFlight]]
    /\ PanelTurn
    /\ UNCHANGED <<panel, panelOnline, drafts, jobsMade, acked, picked, filter, jobsRefreshKey, cache>>

DeviceAnswers(q) ==
    /\ cache[q].flight = OnItsWay
    /\ cache' = [cache EXCEPT ![q].flight = jobsMade]
    /\ UNCHANGED <<panel, panelOnline, drafts, sending, jobsMade, acked, picked, filter, jobsRefreshKey, panelTurns>>

QueryResolves(q) ==
    LET x == cache[q]
        mine == q \in Mounted(filter, picked)
    IN  /\ panelOnline /\ x.flight >= 0
        /\ cache' = [cache EXCEPT ![q] = Settled([x EXCEPT !.data = x.flight, !.error = FALSE], jobsRefreshKey /\ mine)]
        /\ UNCHANGED <<panel, panelOnline, drafts, sending, jobsMade, acked, picked, filter, jobsRefreshKey, panelTurns>>

QueryFails(q) ==
    LET x == cache[q]
        mine == q \in Mounted(filter, picked)
    IN  /\ x.flight # NoFlight
        /\ cache' = [cache EXCEPT ![q] = Settled([x EXCEPT !.error = TRUE], jobsRefreshKey /\ mine)]
        /\ PanelTurn
        /\ UNCHANGED <<panel, panelOnline, drafts, sending, jobsMade, acked, picked, filter, jobsRefreshKey>>

\* Refresh buttons and refetchInterval, both while connected and idle; the
\* selected card has neither.
AutoRefresh(q) ==
    /\ panelOnline /\ q \in Mounted(filter, 0)
    /\ cache[q].flight = NoFlight
    /\ cache' = [cache EXCEPT ![q].flight = OnItsWay]
    /\ PanelTurn
    /\ UNCHANGED <<panel, panelOnline, drafts, sending, jobsMade, acked, picked, filter, jobsRefreshKey>>

\* Another filter or another job: its query is mounted, fetched if it needs to
\* be, and refetched by the effect.
Refreshed(S, c) == IF jobsRefreshKey THEN [q \in Queries |-> IF q \in S THEN Refetched(c[q]) ELSE c[q]] ELSE c

setFilter(f) ==
    /\ filter # f /\ filter' = f
    /\ IF panelOnline THEN \E c \in MayFetch({JobBrowser(f)}) : cache' = Refreshed({JobBrowser(f)}, c)
       ELSE cache' = Refreshed({JobBrowser(f)}, cache)
    /\ PanelTurn
    /\ UNCHANGED <<panel, panelOnline, drafts, sending, jobsMade, acked, picked, jobsRefreshKey>>

\* A row of the list is clicked: it shows the jobs of its snapshot.
onSelectJob(j) ==
    /\ picked # j /\ j <= cache[JobBrowser(filter)].data /\ picked' = j
    /\ IF panelOnline THEN \E c \in MayFetch({SelectedCard(j)}) : cache' = Refreshed({SelectedCard(j)}, c)
       ELSE cache' = Refreshed({SelectedCard(j)}, cache)
    /\ PanelTurn
    /\ UNCHANGED <<panel, panelOnline, drafts, sending, jobsMade, acked, filter, jobsRefreshKey>>

\* What one card's operator and its request do.
CardStep(c) ==
    \/ \E d \in {"blank", "filled", "unparsable"} : Types(c, d)
    \/ handleSubmit(c) \/ onSuccess(c) \/ onError(c)
PlayAudioCard == CardStep("play")
EnqueueUploadCard == CardStep("upload")
EnqueueDownloadCard == CardStep("download")

DpNext ==
    \/ Connected \/ Disconnected
    \/ PlayAudioCard \/ EnqueueUploadCard \/ EnqueueDownloadCard
    \/ \E c \in AllCards : DeviceEnqueues(c)
    \/ \E q \in Queries : DeviceAnswers(q) \/ QueryResolves(q) \/ QueryFails(q) \/ AutoRefresh(q)
    \/ \E f \in Filters : setFilter(f)
    \/ \E j \in JobIds : onSelectJob(j)

DpSpec == DpInit /\ [][DpNext]_dpVars

---------------------------------------------------------------------------
DpTypeOK ==
    /\ panel \in {"audio", "transfer"} /\ panelOnline \in BOOLEAN /\ jobsRefreshKey \in BOOLEAN
    /\ jobsMade \in 0..MaxDeviceJobs /\ acked \in 0..jobsMade /\ picked \in 0..jobsMade /\ filter \in Filters
    /\ \A c \in AllCards : drafts[c] \in {"blank", "filled", "unparsable"}
    /\ \A c \in AllCards : sending[c].state \in {"idle", "pending", "error"} /\ sending[c].flight \in -2..jobsMade
    /\ \A q \in Queries : cache[q].data \in -1..jobsMade /\ cache[q].flight \in -2..jobsMade

\* Once an enqueue has been answered, no card rests on what the queue was
\* before it: a mounted query whose data is older has a request in flight that
\* left after the answer; and a card that sends has a request that can settle it.
QueuedJobIsShown ==
    /\ \A q \in Mounted(filter, picked) :
         cache[q].data # NoData /\ cache[q].data < acked => cache[q].flight = OnItsWay \/ cache[q].flight >= acked
    /\ \A c \in AllCards : sending[c].flight # NoFlight => sending[c].state = "pending"
=============================================================================
