-------------------------------- MODULE Triage --------------------------------
(***************************************************************************)
(* How recommendations come and go: the poll cycle of the daemon and the   *)
(* one of a manual triage or rerun (PollOnce in internal/daemon/poll.go),  *)
(* two processes on one database; the user who approves or dismisses what  *)
(* they recommend (internal/cli/root.go); and GitHub.                      *)
(*                                                                         *)
(* There is one repository, which the user maintains, and issues of others *)
(* in it.  A process's gh calls and its database statements are separate   *)
(* steps where it uses after the one what it read before; consecutive      *)
(* statements about the same issue are one step.                           *)
(*                                                                         *)
(* GitHub's clock, now, ticks with every change there, and the local clock *)
(* is in step with it.  Creation times in nanoseconds only tell whether a  *)
(* recommendation was inserted before a cycle started or after.            *)
(***************************************************************************)
EXTENDS Naturals, Sequences, FiniteSetsExt

CONSTANTS
    Items,      \* the issues of the repository
    ProbeOn,    \* activity_probe_interval is not 0
    Manual,     \* users start manual triage runs and reruns
    Decisions,  \* what the user does with recommendations
    MaxTime,    \* bound: how often GitHub changes
    MaxRecs     \* bound: how many recommendations are ever inserted

ASSUME SwitchesAssumption == ProbeOn \in BOOLEAN /\ Manual \in BOOLEAN
ASSUME DecisionsAssumption == Decisions \subseteq {"dismiss", "comment", "close"}
ASSUME BoundsAssumption == MaxTime \in Nat /\ MaxRecs \in Nat

VARIABLES
    now,            \* GitHub's clock
    gh,             \* GitHub: the issues
    row,            \* items: a row for each issue
    recs,           \* recommendations, in the order of their insertion
    lastRefresh,    \* repos.last_triaged_refresh_at; 0 for none
    proc,           \* the two processes that run poll cycles
    user            \* the inbox action under way

store == <<row, recs, lastRefresh>>
vars == <<now, gh, store, proc, user>>

Procs == {"daemon", "manual"}

Time == 0 .. MaxTime

\* An issue: its updated_at; and of its timeline, when ezoss/triaged was added
\* last and when somebody else was active last.
Issues == [open : BOOLEAN, label : BOOLEAN, updated : Time, labeledAt : Time, activeAt : Time]

\* known: the row exists.  selfAt: last_self_activity_at; 0 for none.
Rows == [known : BOOLEAN, open : BOOLEAN, triaged : BOOLEAN, lastEvent : Time, selfAt : Time]

\* at: created_at.  live: superseded_at is not set.
Recs == [item : Items, at : Time, live : BOOLEAN]

Stages == {"idle", "load", "list", "sync", "reconcile", "reconciled",
           "refresh", "refreshed", "probe", "probing", "probed", "agents"}

NoRow == [known |-> FALSE, open |-> TRUE, triaged |-> FALSE, lastEvent |-> 0, selfAt |-> 0]

\* A cycle.  polledAt: when it started; cutoff: how many recommendations there
\* were then.  todo: what is left of its stage, as listed when that began, with
\* the issues or rows listed; at: what it has read and is about to write.  For
\* the properties only, overtaken: the other process has begun a cycle since;
\* newer: what cycles that began later have recommended.
Idle == [stage |-> "idle", polledAt |-> 0, cutoff |-> 0, overtaken |-> FALSE, newer |-> {},
         todo |-> {}, listed |-> {}, issues |-> << >>, at |-> << >>, write |-> NoRow]

AtRest == [step |-> "idle"]

TypeOK ==
    /\ now \in Time
    /\ gh \in [Items -> Issues]
    /\ row \in [Items -> Rows]
    /\ recs \in Seq(Recs) /\ Len(recs) <= MaxRecs
    /\ lastRefresh \in Time
    /\ \A p \in Procs :
        /\ proc[p].stage \in Stages
        /\ proc[p].polledAt \in Time /\ proc[p].polledAt <= now
        /\ proc[p].cutoff \in 0 .. Len(recs)
        /\ proc[p].overtaken \in BOOLEAN
        /\ proc[p].newer \subseteq DOMAIN recs
        /\ proc[p].todo \subseteq Items \cup DOMAIN recs
        /\ proc[p].listed \subseteq Items
        /\ proc[p].write \in Rows
    /\ user.step \in {"idle", "labeled", "posted", "acted"}

Init ==
    /\ now = 0
    /\ gh = [i \in Items |-> [open |-> TRUE, label |-> FALSE, updated |-> 0,
                              labeledAt |-> 0, activeAt |-> 0]]
    /\ row = [i \in Items |-> NoRow]
    /\ recs = << >>
    /\ lastRefresh = 0
    /\ proc = [p \in Procs |-> Idle]
    /\ user = AtRest

-----------------------------------------------------------------------------

RecsOf(i) == {r \in DOMAIN recs : recs[r].item = i}

LiveRecs(i) == {r \in RecsOf(i) : recs[r].live}

\* MarkRecommendationSuperseded, for a set of recommendations.
Supersede(S) ==
    recs' = [r \in DOMAIN recs |-> IF r \in S THEN [recs[r] EXCEPT !.live = FALSE] ELSE recs[r]]

LatestRecommendationCreatedAt(i) == Max({recs[r].at : r \in RecsOf(i)} \cup {0})

\* Somebody else than who put the label on was active after that, and after since.
HasActivityAfterLabelSince(i, since) ==
    gh[i].labeledAt > 0 /\ gh[i].activeAt > gh[i].labeledAt /\ gh[i].activeAt > since

\* The process moves on within its cycle.
Goto(p, stage, todo, issues) ==
    proc' = [proc EXCEPT ![p] = [@ EXCEPT !.stage = stage, !.todo = todo, !.issues = issues,
                                          !.at = << >>, !.write = NoRow]]

\* The process has read what it needs to know about x and will write w.
Read(p, stage, x, w) ==
    proc' = [proc EXCEPT ![p] = [@ EXCEPT !.stage = stage, !.todo = proc[p].todo \ {x},
                                          !.at = <<x>>, !.write = w]]

\* The process is done with the repository for this cycle.
EndSync(p) ==
    proc' = [proc EXCEPT ![p] = [Idle EXCEPT !.stage = "probe", !.cutoff = proc[p].cutoff,
                                             !.overtaken = proc[p].overtaken,
                                             !.newer = proc[p].newer]]

Skip(p, x) == proc' = [proc EXCEPT ![p].todo = @ \ {x}]

\* A cycle starts; the other process's cycle, if there is one, is older.
MutBeginCycle(p, cycle) ==
    proc' = [q \in Procs |->
                IF q = p THEN [cycle EXCEPT !.polledAt = now, !.cutoff = Len(recs) + 1]
                         ELSE [proc[q] EXCEPT !.overtaken = proc[q].stage \notin {"idle", "load"}]]

BeginCycle(p, cycle) ==
    proc' = [q \in Procs |->
                IF q = p THEN [cycle EXCEPT !.polledAt = now, !.cutoff = Len(recs)]
                         ELSE [proc[q] EXCEPT !.overtaken = proc[q].stage \notin {"idle", "load"}]]

-----------------------------------------------------------------------------
(***************************************************************************)
(* Stage A.1, the sync of the repository: syncRepoData.                    *)
(***************************************************************************)

DaemonBegins ==
    /\ proc["daemon"].stage = "idle"
    /\ BeginCycle("daemon", [Idle EXCEPT !.stage = "list"])
    /\ UNCHANGED <<now, gh, store, user>>

ListNeedingTriage ==
    /\ proc["daemon"].stage = "list"
    /\ LET open == {i \in Items : gh[i].open /\ ~gh[i].label} IN
        proc' = [proc EXCEPT !["daemon"] =
                    [@ EXCEPT !.stage = "sync", !.todo = open, !.listed = open, !.issues = gh]]
    /\ UNCHANGED <<now, gh, store, user>>

\* The row is overwritten with what was listed; last_self_activity_at is lost.
SyncedRow(issue) ==
    [known |-> TRUE, open |-> issue.open, triaged |-> issue.label,
     lastEvent |-> issue.updated, selfAt |-> 0]

SyncItem(p, i) ==
    /\ proc[p].stage = "sync"
    /\ i \in proc[p].todo
    /\ row' = [row EXCEPT ![i] = SyncedRow(proc[p].issues[i])]
    /\ Skip(p, i)
    /\ UNCHANGED <<now, gh, recs, lastRefresh, user>>

\* Next the live recommendations.  The manual poller has no way to get a single
\* item and reconciles nothing.
BeginReconcile ==
    /\ proc["daemon"].stage = "sync"
    /\ proc["daemon"].todo = {}
    /\ Goto("daemon", "reconcile", {r \in DOMAIN recs : recs[r].live}, << >>)
    /\ UNCHANGED <<now, gh, store, user>>

\* A row that was not triaged although the label is there stays so while the
\* issue has not changed, or when the timeline shows activity.
ReconciledGHTriaged(i) ==
    /\ gh[i].label
    /\ \/ row[i].triaged
       \/ ~gh[i].open
       \/ row[i].lastEvent # gh[i].updated /\ ~HasActivityAfterLabelSince(i, row[i].selfAt)

\* An issue with a live recommendation that was not listed is looked up.
ReconcileRead(r) ==
    LET i == recs[r].item IN
    /\ proc["daemon"].stage = "reconcile"
    /\ r \in proc["daemon"].todo
    /\ IF row[i].triaged \/ i \in proc["daemon"].listed
       THEN Skip("daemon", r)
       ELSE Read("daemon", "reconciled", r,
                 [row[i] EXCEPT !.open = gh[i].open, !.triaged = ReconciledGHTriaged(i),
                                !.lastEvent = gh[i].updated])
    /\ UNCHANGED <<now, gh, store, user>>

ReconcileWrite(r) ==
    LET w == proc["daemon"].write IN
    /\ proc["daemon"].stage = "reconciled"
    /\ proc["daemon"].at = <<r>>
    /\ row' = [row EXCEPT ![recs[r].item] = w]
    /\ Supersede(IF ~w.open \/ w.triaged THEN {r} ELSE {})
    /\ Goto("daemon", "reconcile", proc["daemon"].todo, << >>)
    /\ UNCHANGED <<now, gh, lastRefresh, user>>

\* A gh call fails: the repository is left as it is for this cycle.
SyncFails ==
    /\ proc["daemon"].stage \in {"list", "reconcile", "refresh"}
    /\ EndSync("daemon")
    /\ UNCHANGED <<now, gh, store, user>>

-----------------------------------------------------------------------------
(***************************************************************************)
(* The hourly refresh of issues that have the label: refreshTriagedItems.  *)
(***************************************************************************)

Synced(p) ==
    /\ proc[p].stage = IF p = "daemon" THEN "reconcile" ELSE "sync"
    /\ proc[p].todo = {}

NotDue(p) ==
    /\ Synced(p)
    /\ EndSync(p)
    /\ UNCHANGED <<now, gh, store, user>>

\* What changed since the last refresh; the first time, what is open.  A manual
\* poller's list is always empty.
ListTriaged(p) ==
    /\ Synced(p)
    /\ Goto(p, "refresh",
            {i \in Items : /\ p = "daemon"
                           /\ gh[i].label
                           /\ gh[i].updated >= lastRefresh
                           /\ lastRefresh = 0 => gh[i].open},
            gh)
    /\ UNCHANGED <<now, gh, store, user>>

ShouldCheckPostLabelActivity(i, seen) ==
    /\ row[i].known
    /\ ~row[i].triaged \/ (row[i].lastEvent # seen.updated /\ seen.updated > row[i].selfAt)

RefreshRead(i) ==
    LET seen == proc["daemon"].issues[i]
        hasActivity == /\ seen.open
                       /\ ShouldCheckPostLabelActivity(i, seen)
                       /\ HasActivityAfterLabelSince(i, row[i].selfAt)
    IN
    /\ proc["daemon"].stage = "refresh"
    /\ i \in proc["daemon"].todo
    /\ Read("daemon", "refreshed", i,
            [known |-> TRUE, open |-> seen.open, triaged |-> ~hasActivity,
             lastEvent |-> seen.updated, selfAt |-> row[i].selfAt])
    /\ UNCHANGED <<now, gh, store, user>>

RefreshWrite(i) ==
    /\ proc["daemon"].stage = "refreshed"
    /\ proc["daemon"].at = <<i>>
    /\ row' = [row EXCEPT ![i] = proc["daemon"].write]
    /\ Goto("daemon", "refresh", proc["daemon"].todo, proc["daemon"].issues)
    /\ UNCHANGED <<now, gh, recs, lastRefresh, user>>

\* The time of the refresh is the start of the cycle, whoever ran it.
EndRefresh(p) ==
    /\ proc[p].stage = "refresh"
    /\ proc[p].todo = {}
    /\ lastRefresh' = proc[p].polledAt
    /\ EndSync(p)
    /\ UNCHANGED <<now, gh, row, recs, user>>

-----------------------------------------------------------------------------
(***************************************************************************)
(* The deep activity probe: probeActivityForRepo.                          *)
(***************************************************************************)

MutMaintainerOpenTriagedItems ==
    {i \in Items : row[i].known /\ row[i].open /\ row[i].triaged /\ LiveRecs(i) # {}}

MaintainerOpenTriagedItems == {i \in Items : row[i].known /\ row[i].open /\ row[i].triaged}

ProbeList ==
    /\ ProbeOn
    /\ proc["daemon"].stage = "probe"
    /\ Goto("daemon", "probing", MaintainerOpenTriagedItems, row)
    /\ UNCHANGED <<now, gh, store, user>>

ProbeRead(i) ==
    /\ proc["daemon"].stage = "probing"
    /\ i \in proc["daemon"].todo
    /\ IF HasActivityAfterLabelSince(i, LatestRecommendationCreatedAt(i))
       THEN Read("daemon", "probed", i, [proc["daemon"].issues[i] EXCEPT !.triaged = FALSE])
       ELSE Skip("daemon", i)
    /\ UNCHANGED <<now, gh, store, user>>

\* The row as listed is written back, but for its gate.
ProbeWrite(i) ==
    /\ proc["daemon"].stage = "probed"
    /\ proc["daemon"].at = <<i>>
    /\ row' = [row EXCEPT ![i] = proc["daemon"].write]
    /\ Supersede(LiveRecs(i))
    /\ Goto("daemon", "probing", proc["daemon"].todo, proc["daemon"].issues)
    /\ UNCHANGED <<now, gh, lastRefresh, user>>

-----------------------------------------------------------------------------
(***************************************************************************)
(* Stage C, the agents: runAgentsStage.                                    *)
(***************************************************************************)

\* ListItemsNeedingTriage.
NeedsTriage(i) ==
    /\ row[i].known /\ row[i].open /\ ~row[i].triaged
    /\ \A r \in LiveRecs(i) : recs[r].at < row[i].lastEvent

BeginAgents(p) ==
    /\ \/ proc[p].stage = "probe"
       \/ proc[p].stage = "probing" /\ proc[p].todo = {}
    /\ Goto(p, "agents", {i \in Items : NeedsTriage(i)}, << >>)
    /\ UNCHANGED <<now, gh, store, user>>

\* The fix stage found work, and the agents wait for the next cycle.
FixStageDidWork ==
    /\ \/ proc["daemon"].stage = "probe"
       \/ proc["daemon"].stage = "probing" /\ proc["daemon"].todo = {}
    /\ proc' = [proc EXCEPT !["daemon"] = Idle]
    /\ UNCHANGED <<now, gh, store, user>>

MutCreatedBefore(p, r) == TRUE

\* The recommendation was inserted before the cycle began.
CreatedBefore(p, r) == r <= proc[p].cutoff

MutNewerActive(p, i) == {}

NewerActive(p, i) == {r \in LiveRecs(i) : ~CreatedBefore(p, r)}

\* InsertRecommendationReplacingActiveBefore: the older ones are superseded.
Recommend(p, i) ==
    LET r == Len(recs) + 1 IN
    /\ proc[p].stage = "agents"
    /\ i \in proc[p].todo
    /\ NewerActive(p, i) = {}
    /\ r <= MaxRecs
    /\ recs' = Append([s \in DOMAIN recs |->
                          [recs[s] EXCEPT !.live = @ /\ ~(recs[s].item = i /\ CreatedBefore(p, s))]],
                      [item |-> i, at |-> now, live |-> TRUE])
    /\ proc' = [q \in Procs |->
                   IF q = p THEN [proc[p] EXCEPT !.todo = @ \ {i}]
                   ELSE IF proc[q].overtaken /\ ~proc[p].overtaken
                   THEN [proc[q] EXCEPT !.newer = @ \cup {r}]
                   ELSE proc[q]]
    /\ UNCHANGED <<now, gh, row, lastRefresh, user>>

\* The run's result is thrown away.
Discard(p, i) ==
    /\ proc[p].stage = "agents"
    /\ i \in proc[p].todo
    /\ NewerActive(p, i) # {}
    /\ Skip(p, i)
    /\ UNCHANGED <<now, gh, store, user>>

TriageFails(p, i) ==
    /\ proc[p].stage = "agents"
    /\ i \in proc[p].todo
    /\ Skip(p, i)
    /\ UNCHANGED <<now, gh, store, user>>

EndCycle(p) ==
    /\ proc[p].stage = "agents"
    /\ proc[p].todo = {}
    /\ proc' = [proc EXCEPT ![p] = Idle]
    /\ UNCHANGED <<now, gh, store, user>>

-----------------------------------------------------------------------------
(***************************************************************************)
(* Manual triage: rerunInboxEntries and the triage command.                *)
(***************************************************************************)

\* A rerun first supersedes the recommendation it was started from.
ManualStarts(i) ==
    /\ Manual
    /\ proc["manual"].stage = "idle"
    /\ \E S \in {{}} \cup {{r} : r \in RecsOf(i)} : Supersede(S)
    /\ proc' = [proc EXCEPT !["manual"] = [Idle EXCEPT !.stage = "load", !.todo = {i}]]
    /\ UNCHANGED <<now, gh, row, lastRefresh, user>>

\* The issue as it is now, but without the label if its row is not triaged.
ManualLoads ==
    /\ proc["manual"].stage = "load"
    /\ BeginCycle("manual",
            [proc["manual"] EXCEPT !.stage = "sync",
                !.issues = [i \in Items |->
                    [gh[i] EXCEPT !.label = gh[i].label /\ (row[i].known => row[i].triaged)]]])
    /\ UNCHANGED <<now, gh, store, user>>

ManualFails ==
    /\ proc["manual"].stage # "idle"
    /\ proc' = [proc EXCEPT !["manual"] = Idle]
    /\ UNCHANGED <<now, gh, store, user>>

-----------------------------------------------------------------------------
(***************************************************************************)
(* The user at the inbox: approveInboxEntries and dismissInboxEntries.     *)
(***************************************************************************)

\* What GitHub makes of a change.
Changes(i, issue) ==
    /\ now < MaxTime
    /\ now' = now + 1
    /\ gh' = [gh EXCEPT ![i] = [issue EXCEPT !.updated = now + 1]]

\* The recommendation was live when the inbox was loaded.  Adding a label that is
\* there already changes nothing.
EditLabels(r, decision) ==
    LET i == recs[r].item IN
    /\ user = AtRest
    /\ user' = [step |-> "labeled", rec |-> r, decision |-> decision]
    /\ IF gh[i].label THEN UNCHANGED <<now, gh>>
       ELSE Changes(i, [gh[i] EXCEPT !.label = TRUE, !.labeledAt = now + 1])
    /\ UNCHANGED <<store, proc>>

\* The comment, or the close or merge.
Post ==
    /\ user.step = "labeled"
    /\ user' = [user EXCEPT !.step = "posted"]
    /\ LET i == recs[user.rec].item IN
        \/ user.decision = "dismiss" /\ UNCHANGED <<now, gh>>
        \/ user.decision = "comment" /\ Changes(i, gh[i])
        \/ user.decision = "close" /\ Changes(i, [gh[i] EXCEPT !.open = FALSE])
    /\ UNCHANGED <<store, proc>>

ActOnOption ==
    /\ user.step = "posted"
    /\ user' = [user EXCEPT !.step = "acted"]
    /\ Supersede({user.rec})
    /\ UNCHANGED <<now, gh, row, lastRefresh, proc>>

MarkTriaged ==
    LET i == recs[user.rec].item IN
    /\ user.step = "acted"
    /\ user' = AtRest
    /\ row' = [row EXCEPT ![i] = [@ EXCEPT !.triaged = TRUE, !.selfAt = now,
                                           !.open = row[i].open /\ user.decision # "close"]]
    /\ UNCHANGED <<now, gh, recs, lastRefresh, proc>>

\* A call fails; what the action has done stays done.
UserFails ==
    /\ user # AtRest
    /\ user' = AtRest
    /\ UNCHANGED <<now, gh, store, proc>>

-----------------------------------------------------------------------------
(***************************************************************************)
(* Everybody else on GitHub.                                               *)
(***************************************************************************)

Activity(i) ==
    /\ gh[i].open
    /\ Changes(i, [gh[i] EXCEPT !.activeAt = now + 1])
    /\ UNCHANGED <<store, proc, user>>

\* A merged PR that refers to the issue is activity, but no update of it.
QuietActivity(i) ==
    /\ gh[i].open
    /\ now < MaxTime
    /\ now' = now + 1
    /\ gh' = [gh EXCEPT ![i].activeAt = now + 1]
    /\ UNCHANGED <<store, proc, user>>

Unlabel(i) ==
    /\ gh[i].label
    /\ Changes(i, [gh[i] EXCEPT !.label = FALSE])
    /\ UNCHANGED <<store, proc, user>>

CloseByOther(i) ==
    /\ gh[i].open
    /\ Changes(i, [gh[i] EXCEPT !.open = FALSE, !.activeAt = now + 1])
    /\ UNCHANGED <<store, proc, user>>

-----------------------------------------------------------------------------

CycleStep(p) ==
    \/ NotDue(p) \/ ListTriaged(p) \/ EndRefresh(p)
    \/ BeginAgents(p) \/ EndCycle(p)
    \/ \E i \in Items :
        SyncItem(p, i) \/ Recommend(p, i) \/ Discard(p, i) \/ TriageFails(p, i)

DaemonStep ==
    \/ DaemonBegins \/ ListNeedingTriage \/ BeginReconcile \/ SyncFails
    \/ ProbeList \/ FixStageDidWork
    \/ \E r \in DOMAIN recs : ReconcileRead(r) \/ ReconcileWrite(r)
    \/ \E i \in Items : RefreshRead(i) \/ RefreshWrite(i) \/ ProbeRead(i) \/ ProbeWrite(i)
    \/ CycleStep("daemon")

ManualStep == ManualLoads \/ ManualFails \/ CycleStep("manual")

UserStep ==
    \/ \E r \in DOMAIN recs, d \in Decisions : EditLabels(r, d)
    \/ Post \/ ActOnOption \/ MarkTriaged \/ UserFails

Next ==
    \/ DaemonStep
    \/ ManualStep
    \/ UserStep
    \/ \E i \in Items : ManualStarts(i) \/ Activity(i) \/ QuietActivity(i) \/ Unlabel(i) \/ CloseByOther(i)

Spec == Init /\ [][Next]_vars

\* The daemon polls for ever, gh does not fail for ever, and the probe's hour
\* passes again and again.
Fairness ==
    /\ WF_vars(DaemonStep)
    /\ SF_vars(ProbeList)

FairSpec == Spec /\ Fairness

=============================================================================
