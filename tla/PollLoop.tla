------------------------------- MODULE PollLoop -------------------------------
(***************************************************************************)
(* The poll loop of the daemon (runPollLoop, internal/daemon/start.go) and *)
(* what hangs on it: the wake-up by a fix that is queued over IPC, the     *)
(* progress record SyncState, the discovery of repositories, the events a  *)
(* cycle publishes, and an open inbox that reloads when it hears of them   *)
(* (subscribeInboxNotifications in internal/cli/root.go, Update in         *)
(* internal/tui/tui.go).                                                   *)
(*                                                                         *)
(* What a cycle does to an item is Triage's and FixStage's matter: here it *)
(* changes rows, or fails, or finds a job to run.  All the events an inbox *)
(* subscribes to make it reload, so that they need only be counted.        *)
(***************************************************************************)
EXTENDS Naturals, Sequences, FiniteSets

CONSTANTS
    Recs,           \* recommendations that agents may write
    Static,         \* the repositories named in the configuration
    Dynamic,        \* those that the configured sources yield on GitHub
    None,           \* no repository
    MaxJobs,        \* bound: fix jobs
    MaxItems,       \* bound: the items that need triage in one cycle
    BufCap,         \* the buffer of a subscriber, 16 in the code
    MaxFaults       \* bound: failures, a stop of the daemon counted as one

ASSUME BoundsAssumption ==
    /\ MaxJobs \in Nat /\ MaxItems \in Nat /\ MaxFaults \in Nat
    /\ BufCap \in Nat \ {0}
ASSUME ReposAssumption == Static \cap Dynamic = {} /\ None \notin Static \cup Dynamic
ASSUME RecsAssumption == IsFiniteSet(Recs) /\ Recs \cap Nat = {}

VARIABLES
    recs, jobs,         \* rows: recommendations and, oldest first, fix jobs
    serving,            \* jobs whose IPC handler has still to wake the loop
    seen,               \* jobs that need no wake-up: a fix stage has met them, a failed cycle
                        \* left them aside, or no IPC handler created them
    pc, cycle,          \* the loop: where it is, and what the cycle works with
    wake, tick, ticking,\* its two channels, and is there a ticker yet
    progress,           \* SyncState
    discovery,          \* newConfiguredRepoResolver: what is cached, and is an attempt due
    inbox, reload,      \* the inbox, and what the reload on notification has read
    news,               \* rows the daemon changed since the inbox last read them
    faults

db == <<recs, jobs>>
ipc == <<serving, seen>>
loop == <<pc, cycle>>
clock == <<wake, tick, ticking>>
view == <<inbox, reload, news>>
vars == <<db, ipc, loop, clock, progress, discovery, view, faults>>

Repos == Static \cup Dynamic

Places == {"stopped", "resolve", "snapshot", "sync", "repo", "work", "agents", "items", "item",
            "end", "emitRecs", "emitJobs", "select", "backoff"}

Jobs == DOMAIN jobs

RecStates == {"none", "live", "gone"}
JobStates == {"queued", "running", "ended"}

Cycles ==
    [repos : SUBSET Repos, todo : SUBSET Repos, items : 0 .. MaxItems, failed : BOOLEAN,
     recs : [Recs -> RecStates], jobs : Seq(JobStates)]

\* Between cycles the phase is the empty string, written "idle" here.
SyncStates ==
    [phase : {"idle", "sync", "agents"}, repo : Repos \cup {None}, syncing : SUBSET Repos,
     total : 0 .. MaxItems, done : 0 .. MaxItems, item : BOOLEAN]

Resolvers == [known : SUBSET Dynamic, ever : BOOLEAN, due : BOOLEAN]

Inboxes ==
    [sub : {"none", "asked", "snapshot", "on", "dead"}, snapshot : 0 .. Cardinality(Recs),
     buffer : 0 .. BufCap, notify : BOOLEAN, fresh : BOOLEAN]

RowsTyped ==
    /\ recs \in [Recs -> RecStates]
    /\ jobs \in Seq(JobStates) /\ Len(jobs) <= MaxJobs
    /\ serving \subseteq Jobs /\ seen \subseteq Jobs

LoopTyped ==
    /\ pc \in Places
    /\ cycle \in Cycles
    /\ wake \in BOOLEAN /\ tick \in BOOLEAN /\ ticking \in BOOLEAN
    /\ progress \in SyncStates
    /\ discovery \in Resolvers
    /\ faults \in 0 .. MaxFaults

ViewTyped ==
    /\ inbox \in Inboxes
    /\ reload \in {"idle", "fresh", "stale"}
    /\ news \subseteq Recs \cup Jobs

TypeOK == RowsTyped /\ LoopTyped /\ ViewTyped

NoCycle == [repos |-> {}, todo |-> {}, items |-> 0, failed |-> FALSE,
            recs |-> [r \in Recs |-> "none"], jobs |-> << >>]

NewSyncState == [phase |-> "idle", repo |-> None, syncing |-> {},
                 total |-> 0, done |-> 0, item |-> FALSE]

NewResolver == [known |-> {}, ever |-> FALSE, due |-> TRUE]

ClosedInbox == [sub |-> "none", snapshot |-> 0, buffer |-> 0, notify |-> FALSE,
                fresh |-> FALSE]

Init ==
    /\ recs = [r \in Recs |-> "none"] /\ jobs = << >>
    /\ serving = {} /\ seen = {}
    /\ pc = "resolve" /\ cycle = NoCycle
    /\ wake = FALSE /\ tick = FALSE /\ ticking = FALSE
    /\ progress = NewSyncState
    /\ discovery = NewResolver
    /\ inbox = ClosedInbox
    /\ reload = "idle"
    /\ news = {}
    /\ faults = 0

GoTo(place) == pc' = place

Fault == faults < MaxFaults /\ faults' = faults + 1

Listening == pc # "stopped"

-----------------------------------------------------------------------------
(* Rows and those who look at them.                                        *)

Live(rs) == {r \in Recs : rs[r] = "live"}

\* Rows have changed: what the inbox shows, and what a reload has read, is old.
Outdate(set) ==
    /\ inbox' = [inbox EXCEPT !.fresh = FALSE]
    /\ reload' = IF reload = "fresh" THEN "stale" ELSE reload
    /\ news' = set

Subscribed == inbox.sub \in {"snapshot", "on"}

ByDaemon(rows) == Outdate(IF Subscribed THEN news \cup rows ELSE {})
ByOthers(rows) == Outdate(news \ rows)

\* A manual triage writes a recommendation.
Recommend(r) ==
    /\ recs[r] = "none"
    /\ recs' = [recs EXCEPT ![r] = "live"]
    /\ ByOthers({r})
    /\ UNCHANGED <<jobs, ipc, loop, clock, progress, discovery, faults>>

\* Somebody approves or dismisses it.
Decide(r) ==
    /\ recs[r] = "live"
    /\ recs' = [recs EXCEPT ![r] = "gone"]
    /\ ByOthers({r})
    /\ UNCHANGED <<jobs, ipc, loop, clock, progress, discovery, faults>>

\* A fix.start over IPC creates a job; an approval whose dial failed, perhaps just
\* before the daemon came up, does so itself.
CreateFixJob ==
    /\ Len(jobs) < MaxJobs
    /\ jobs' = Append(jobs, "queued")
    /\ \/ Listening /\ serving' = serving \cup {Len(jobs) + 1} /\ UNCHANGED seen
       \/ seen' = seen \cup {Len(jobs) + 1} /\ UNCHANGED serving
    /\ ByOthers({})
    /\ UNCHANGED <<recs, loop, clock, progress, discovery, faults>>

MutPublish(rows) ==
    IF Subscribed
    THEN inbox' = [inbox EXCEPT !.buffer = @ + Cardinality(rows)]
    ELSE UNCHANGED inbox

\* Each event goes into the buffer of a subscriber that has room, and is lost to it
\* otherwise; nobody is waited for.
Publish(rows) ==
    IF Subscribed
    THEN inbox' = [inbox EXCEPT !.buffer =
                      IF @ + Cardinality(rows) < BufCap THEN @ + Cardinality(rows) ELSE BufCap]
    ELSE UNCHANGED inbox

MutFixStarted(j) ==
    /\ j \in serving
    /\ serving' = serving \ {j}
    /\ Publish({j})
    /\ news' = IF Subscribed THEN news \cup {j} ELSE {}
    /\ wake' = (wake \/ pc = "select")
    /\ UNCHANGED <<db, seen, loop, tick, ticking, progress, discovery, reload, faults>>

\* The handler of fix.start goes on when the row is there: it tells subscribers and
\* wakes the loop.  When there is a wake-up already, one cycle serves both.
FixStarted(j) ==
    /\ j \in serving
    /\ serving' = serving \ {j}
    /\ Publish({j})
    /\ news' = IF Subscribed THEN news \cup {j} ELSE {}
    /\ wake' = TRUE
    /\ UNCHANGED <<db, seen, loop, tick, ticking, progress, discovery, reload, faults>>

-----------------------------------------------------------------------------
(* The progress record.                                                    *)

MutBeginCycle == [progress EXCEPT !.phase = "sync"]

BeginCycle == [progress EXCEPT !.phase = "sync", !.total = 0, !.done = 0, !.item = FALSE,
                               !.syncing = {}]

RepoBegin(r) == [progress EXCEPT !.repo = r, !.syncing = @ \cup {r}]

RepoEnd(r) == [progress EXCEPT !.syncing = @ \ {r}]

BeginAgents(n) == [progress EXCEPT !.phase = "agents", !.total = n, !.done = 0, !.item = FALSE,
                                   !.repo = None]

AgentItemBegin == [progress EXCEPT !.item = TRUE]

AgentItemEnd == [progress EXCEPT !.done = @ + 1, !.item = FALSE]

EndAgents == [progress EXCEPT !.item = FALSE]

EndCycle == [progress EXCEPT !.phase = "idle", !.repo = None, !.item = FALSE]

-----------------------------------------------------------------------------
(* The cycle.                                                              *)

\* A step of the loop that finds no rows to change.
Quiet == UNCHANGED <<db, view>>

\* The daemon ends the life of a recommendation, or of none.  One that another
\* process wrote since the cycle began is not in the comparison: no news of it.
MaySupersede ==
    \/ UNCHANGED <<recs, view>>
    \/ \E r \in Live(recs) :
          /\ recs' = [recs EXCEPT ![r] = "gone"]
          /\ ByDaemon({r} \cap Live(cycle.recs))

\* It writes one, or none.
MayRecommend ==
    \/ UNCHANGED <<recs, view>>
    \/ \E r \in Recs :
          /\ recs[r] = "none"
          /\ recs' = [recs EXCEPT ![r] = "live"]
          /\ ByDaemon({r})

\* The cycle ends before its fix stage: jobs wait for the next tick.
GiveUp == GoTo("backoff") /\ seen' = Jobs

WorkOn(found) ==
    /\ cycle' = [NoCycle EXCEPT !.repos = Static \cup found]
    /\ GoTo("snapshot")
    /\ UNCHANGED seen

\* The sources are asked once per discovery interval.  While they have never been
\* answered a failure ends the cycle, but at the next one, within the interval,
\* there are just the static repositories.
Resolve ==
    /\ pc = "resolve"
    /\ \/ /\ discovery.due
          /\ discovery' = [known |-> Dynamic, ever |-> TRUE, due |-> FALSE]
          /\ WorkOn(Dynamic)
          /\ UNCHANGED faults
       \/ /\ discovery.due
          /\ discovery' = [discovery EXCEPT !.due = FALSE]
          /\ Fault
          /\ IF discovery.ever THEN WorkOn(discovery.known) ELSE GiveUp /\ UNCHANGED cycle
       \/ ~discovery.due /\ WorkOn(discovery.known) /\ UNCHANGED <<discovery, faults>>
    /\ Quiet
    /\ UNCHANGED <<serving, clock, progress>>

\* The rows are read as they are before the cycle.
Snapshot ==
    /\ pc = "snapshot"
    /\ \/ /\ cycle' = [cycle EXCEPT !.todo = cycle.repos, !.recs = recs, !.jobs = jobs]
          /\ progress' = BeginCycle
          /\ GoTo("sync")
          /\ UNCHANGED <<seen, faults>>
       \/ Fault /\ GiveUp /\ UNCHANGED <<cycle, progress>>
    /\ Quiet
    /\ UNCHANGED <<serving, clock, discovery>>

SyncRepo ==
    /\ pc = "sync"
    /\ \E r \in cycle.todo : progress' = RepoBegin(r)
    /\ GoTo("repo")
    /\ Quiet
    /\ UNCHANGED <<ipc, cycle, clock, discovery, faults>>

RepoSynced ==
    /\ pc = "repo"
    /\ \E err \in BOOLEAN :
          /\ cycle' = [cycle EXCEPT !.todo = @ \ {progress.repo}, !.failed = @ \/ err]
          /\ progress' = RepoEnd(progress.repo)
          /\ IF err THEN Fault ELSE UNCHANGED faults
    /\ MaySupersede
    /\ GoTo("sync")
    /\ UNCHANGED <<jobs, ipc, clock, discovery>>

\* Probe and contributor sweep; then the fix stage takes the oldest queued job.
FixStage ==
    /\ pc = "sync" /\ cycle.todo = {}
    /\ \E err \in BOOLEAN :
          /\ cycle' = [cycle EXCEPT !.failed = @ \/ err]
          /\ IF err THEN Fault ELSE UNCHANGED faults
    /\ seen' = Jobs
    /\ LET queued == {j \in Jobs : jobs[j] = "queued"} IN
          \/ /\ queued = {}
             /\ GoTo("agents")
             /\ Quiet
          \/ \E j \in queued :
                /\ \A k \in queued : j <= k
                /\ jobs' = [jobs EXCEPT ![j] = "running"]
                /\ ByDaemon({j})
                /\ GoTo("work")
                /\ UNCHANGED recs
    /\ UNCHANGED <<serving, clock, progress, discovery>>

\* The fix ends; no agent triages in this cycle.
FixDone ==
    /\ pc = "work"
    /\ \E j \in Jobs :
          /\ jobs[j] = "running"
          /\ jobs' = [jobs EXCEPT ![j] = "ended"]
          /\ ByDaemon({j})
    /\ GoTo("end")
    /\ UNCHANGED <<recs, ipc, cycle, clock, progress, discovery, faults>>

ListItems ==
    /\ pc = "agents"
    /\ \/ \E n \in 0 .. MaxItems :
             /\ cycle' = [cycle EXCEPT !.items = n]
             /\ progress' = BeginAgents(n)
             /\ GoTo("items")
             /\ UNCHANGED faults
       \/ Fault /\ cycle' = [cycle EXCEPT !.failed = TRUE] /\ GoTo("end") /\ UNCHANGED progress
    /\ Quiet
    /\ UNCHANGED <<ipc, clock, discovery>>

TriageItem ==
    /\ pc = "items" /\ cycle.items > 0
    /\ cycle' = [cycle EXCEPT !.items = @ - 1]
    /\ progress' = AgentItemBegin
    /\ GoTo("item")
    /\ Quiet
    /\ UNCHANGED <<ipc, clock, discovery, faults>>

\* An agent that fails leaves no recommendation; the cycle does not mind.
ItemTriaged ==
    /\ pc = "item"
    /\ MayRecommend
    /\ progress' = AgentItemEnd
    /\ GoTo("items")
    /\ UNCHANGED <<jobs, ipc, cycle, clock, discovery, faults>>

\* The stale detector closes the stage.
AgentsDone ==
    /\ pc = "items" /\ cycle.items = 0
    /\ MayRecommend
    /\ progress' = EndAgents
    /\ GoTo("end")
    /\ UNCHANGED <<jobs, ipc, cycle, clock, discovery, faults>>

MutChangedRecs == Live(recs) \ Live(cycle.recs)

ChangedRecs == (Live(recs) \ Live(cycle.recs)) \cup (Live(cycle.recs) \ Live(recs))

ChangedJobs == {j \in Jobs : j \in DOMAIN cycle.jobs => jobs[j] # cycle.jobs[j]}

\* What the cycle did is not announced.
KeepQuiet == news' = news \ (ChangedRecs \cup ChangedJobs) /\ GoTo("backoff")

\* A cycle longer than the interval drops the tick that came meanwhile.
CycleEnds ==
    /\ pc = "end"
    /\ progress' = EndCycle
    /\ \/ UNCHANGED tick
       \/ tick /\ tick' = FALSE
    /\ IF cycle.failed THEN KeepQuiet ELSE GoTo("emitRecs") /\ UNCHANGED news
    /\ UNCHANGED <<db, ipc, cycle, wake, ticking, discovery, inbox, reload, faults>>

\* The rows are read again and compared; there is an event for each that differs.
Emit(rows) ==
    /\ Publish(rows)
    /\ UNCHANGED <<news, faults>>

CannotCompare == Fault /\ KeepQuiet /\ UNCHANGED <<inbox, cycle, ticking>>

EmitRecommendationEvents ==
    /\ pc = "emitRecs"
    /\ \/ Emit(ChangedRecs) /\ GoTo("emitJobs") /\ UNCHANGED <<cycle, ticking>>
       \/ CannotCompare
    /\ UNCHANGED <<db, ipc, wake, tick, progress, discovery, reload>>

\* The ticker is made after the first cycle.
EmitFixJobEvents ==
    /\ pc = "emitJobs"
    /\ \/ Emit(ChangedJobs) /\ GoTo("select") /\ ticking' = TRUE /\ cycle' = NoCycle
       \/ CannotCompare
    /\ UNCHANGED <<db, ipc, wake, tick, progress, discovery, reload>>

MutBackOff ==
    /\ pc = "backoff"
    /\ GoTo("select")
    /\ cycle' = NoCycle
    /\ Quiet
    /\ UNCHANGED <<ipc, clock, progress, discovery, faults>>

\* Whatever the error was, the loop waits and goes on.
BackOff ==
    /\ pc = "backoff"
    /\ GoTo("select")
    /\ ticking' = TRUE
    /\ cycle' = NoCycle
    /\ Quiet
    /\ UNCHANGED <<ipc, wake, tick, progress, discovery, faults>>

WakeUp ==
    /\ pc = "select" /\ wake
    /\ wake' = FALSE
    /\ GoTo("resolve")
    /\ Quiet
    /\ UNCHANGED <<ipc, cycle, tick, ticking, progress, discovery, faults>>

OnTick ==
    /\ pc = "select" /\ tick
    /\ tick' = FALSE
    /\ GoTo("resolve")
    /\ Quiet
    /\ UNCHANGED <<ipc, cycle, wake, ticking, progress, discovery, faults>>

\* The poll interval ends, or the discovery interval; nobody looks at the tick
\* before a cycle has ended.
Ticks ==
    /\ pc \in {"end", "select"}
    /\ ticking /\ tick' = TRUE
    /\ Quiet
    /\ UNCHANGED <<ipc, loop, wake, ticking, progress, discovery, faults>>

DiscoveryDue ==
    /\ pc = "select"
    /\ discovery' = [discovery EXCEPT !.due = TRUE]
    /\ Quiet
    /\ UNCHANGED <<ipc, loop, clock, progress, faults>>

\* A signal ends the loop.  The server waits for its handlers; subscribers are cut
\* off, and what is still in their buffers is lost.
Stop ==
    /\ pc = "select" /\ Fault
    /\ serving = {}
    /\ GoTo("stopped")
    /\ wake' = FALSE /\ tick' = FALSE /\ ticking' = FALSE
    /\ progress' = NewSyncState
    /\ discovery' = NewResolver
    /\ inbox' = IF inbox.sub \in {"asked", "snapshot", "on"}
                 THEN [inbox EXCEPT !.sub = "dead", !.snapshot = 0, !.buffer = 0] ELSE inbox
    /\ news' = {}
    /\ UNCHANGED <<db, ipc, cycle, reload>>

Start ==
    /\ pc = "stopped"
    /\ GoTo("resolve")
    /\ Quiet
    /\ UNCHANGED <<ipc, cycle, clock, progress, discovery, faults>>

-----------------------------------------------------------------------------
(* The inbox.                                                              *)

\* The entries are loaded first, then the subscription is asked for.
OpenInbox ==
    /\ inbox.sub = "none"
    /\ inbox' = [inbox EXCEPT !.sub = IF Listening THEN "asked" ELSE "dead", !.fresh = TRUE]
    /\ UNCHANGED <<db, ipc, loop, clock, progress, discovery, reload, news, faults>>

\* The server has answered already when it registers the subscriber, and sends it
\* an event for each live recommendation before those of its buffer.
Register ==
    /\ inbox.sub = "asked"
    /\ \/ /\ inbox' = [inbox EXCEPT !.sub = "snapshot", !.snapshot = Cardinality(Live(recs))]
          /\ news' = {}
          /\ UNCHANGED faults
       \/ Fault /\ inbox' = [inbox EXCEPT !.sub = "dead"] /\ UNCHANGED news
    /\ UNCHANGED <<db, ipc, loop, clock, progress, discovery, reload>>

\* Client and forwarder pass each event on as a token of the notification channel,
\* which holds one.
Send ==
    /\ \/ /\ inbox.sub = "snapshot"
          /\ inbox' = IF inbox.snapshot = 0 THEN [inbox EXCEPT !.sub = "on"]
                       ELSE [inbox EXCEPT !.snapshot = @ - 1, !.notify = TRUE]
       \/ /\ inbox.sub = "on" /\ inbox.buffer > 0
          /\ inbox' = [inbox EXCEPT !.buffer = @ - 1, !.notify = TRUE]
    /\ UNCHANGED <<db, ipc, loop, clock, progress, discovery, reload, news, faults>>

\* The model takes the token, runs a reload, and waits for the next token.
NotifyReload ==
    /\ inbox.notify /\ reload = "idle"
    /\ inbox' = [inbox EXCEPT !.notify = FALSE]
    /\ \/ reload' = "fresh" /\ UNCHANGED faults
       \/ Fault /\ UNCHANGED reload
    /\ news' = {}
    /\ UNCHANGED <<db, ipc, loop, clock, progress, discovery>>

\* Its result reaches the model, perhaps after that of a later reload.
ApplyReload ==
    /\ reload # "idle"
    /\ inbox' = [inbox EXCEPT !.fresh = (reload = "fresh")]
    /\ reload' = "idle"
    /\ UNCHANGED <<db, ipc, loop, clock, progress, discovery, news, faults>>

MutRefreshTick ==
    /\ inbox.sub \notin {"none", "dead"}
    /\ inbox' = [inbox EXCEPT !.fresh = TRUE]
    /\ news' = {}
    /\ UNCHANGED <<db, ipc, loop, clock, progress, discovery, reload, faults>>

\* Every 5 seconds there is a reload anyway.  It may overtake the other one or be
\* overtaken; it is enough that one of the two is late.
RefreshTick ==
    /\ inbox.sub # "none"
    /\ \/ inbox' = [inbox EXCEPT !.fresh = TRUE] /\ UNCHANGED faults
       \/ Fault /\ UNCHANGED inbox
    /\ news' = {}
    /\ UNCHANGED <<db, ipc, loop, clock, progress, discovery, reload>>

-----------------------------------------------------------------------------

LoopStep ==
    \/ Resolve \/ Snapshot \/ SyncRepo \/ RepoSynced \/ FixStage \/ FixDone
    \/ ListItems \/ TriageItem \/ ItemTriaged \/ AgentsDone \/ CycleEnds
    \/ EmitRecommendationEvents \/ EmitFixJobEvents
    \/ BackOff \/ WakeUp \/ OnTick \/ Start

InboxStep == Register \/ Send \/ NotifyReload \/ ApplyReload

Next ==
    \/ \E r \in Recs : Recommend(r) \/ Decide(r)
    \/ CreateFixJob
    \/ \E j \in Jobs : FixStarted(j)
    \/ LoopStep \/ Ticks \/ DiscoveryDue \/ Stop
    \/ OpenInbox \/ InboxStep \/ RefreshTick

Spec == Init /\ [][Next]_vars

\* Every goroutine goes on, timers fire (the discovery interval ends also when the
\* loop is elsewhere each time), and a daemon that was stopped is started again.
\* Nobody has to queue a fix, decide, or open an inbox.
Fairness ==
    /\ WF_vars(LoopStep) /\ WF_vars(Ticks) /\ SF_vars(DiscoveryDue)
    /\ WF_vars(\E j \in Jobs : FixStarted(j))
    /\ WF_vars(InboxStep) /\ WF_vars(RefreshTick)

FairSpec == Spec /\ Fairness

-----------------------------------------------------------------------------

\* What "ezoss status" shows fits together at any moment: a repository is syncing
\* only in the data stage and only the current one, an item is in the hands of an
\* agent only in the agents stage, and no more items are done than there were.
ProgressIsConsistent ==
    /\ progress.syncing \subseteq {progress.repo}
    /\ progress.repo # None => progress.phase = "sync"
    /\ progress.item => progress.phase = "agents"
    /\ progress.done + (IF progress.item THEN 1 ELSE 0) <= progress.total
    /\ progress.phase = "sync" => progress.total = 0

\* Job rows are committed before the wake-up is sent, so that one wake-up may stand
\* for two jobs and none is overlooked: a queued job whose handler is done has been
\* met by a fix stage, was left aside by a failed cycle, or a cycle is to come.
WakeReachesFixStage ==
    \A j \in Jobs :
        jobs[j] = "queued" /\ j \notin serving \cup seen
          => wake \/ pc \in {"resolve", "snapshot", "sync", "repo", "stopped"}

\* Events are dropped when a buffer is full, and tokens coalesce; still, after a
\* cycle that went well whatever the daemon changed is news under way to a
\* subscribed inbox, or the inbox has read it since.
NewsIsUnderWay ==
    pc = "select" /\ Subscribed /\ news # {}
      => inbox.snapshot > 0 \/ inbox.buffer > 0 \/ inbox.notify

\* A queued job is run in the end, however it was queued and whatever failed.
JobIsRun ==
    \A j \in 1 .. MaxJobs :
        (j \in Jobs /\ jobs[j] = "queued") ~> (j \in Jobs /\ jobs[j] = "ended")

\* An open inbox comes to show what the rows are, also when events were lost, the
\* daemon that would send them is gone, or a reload was overtaken by another.
InboxComesUpToDate == <>[](inbox.sub # "none" => inbox.fresh)

\* Every configured repository is synced again and again, also when the first
\* discovery failed.
EveryRepoIsSynced == \A r \in Repos : []<>(r \in progress.syncing)

=============================================================================
