--------------------------------- MODULE Inbox ---------------------------------
(***************************************************************************)
(* The inbox (internal/tui/tui.go) and what its keys do to the database    *)
(* and on GitHub (internal/cli/root.go: approveInboxEntries and its like). *)
(* One session is detailed: the lists it shows, the cursor, the editor and *)
(* the rerun dialog, reloads, which may come late, and the work it has     *)
(* started in the background.  Daemon and other sessions change rows.      *)
(*                                                                         *)
(* A recommendation is an item and a number: the item's first, second...   *)
(* An option is known by what it would do to the item; an edit of the      *)
(* draft changes that, and stands for an edit of labels and text too.      *)
(***************************************************************************)
EXTENDS Naturals, Sequences, SequencesExt, FiniteSets, Lists

CONSTANTS
    Items,
    Contributors,   \* the items with the role "contributor"
    Plan,           \* the options that agents write for an item, in order
    Edits,          \* what a user may make of an option
    None,
    MaxRecs,        \* bound: recommendations of each item
    MaxJobs,        \* bound: fix jobs
    MaxKeys,        \* bound: keys pressed, the end of a dialog not counted
    FaultKinds      \* bound: of these disturbances, one happens

Changes == {"comment", "changes", "close", "merge", "fix"}

ASSUME ItemsAssumption == IsFiniteSet(Items) /\ Contributors \subseteq Items
ASSUME PlanAssumption ==
    /\ Plan \in [Items -> Seq(Changes)] /\ \A i \in Items : Plan[i] # << >>
    /\ Edits \subseteq Changes
ASSUME NoneAssumption == None \notin FaultKinds
ASSUME BoundsAssumption ==
    /\ MaxRecs \in [Items -> Nat \ {0}] /\ MaxJobs \in Nat /\ MaxKeys \in Nat
    /\ FaultKinds \subseteq {"github", "db", "quit", "elsewhere"}

VARIABLES
    recs,           \* how many recommendations an item has had
    live,           \* items whose latest recommendation is live, newest first
    state,          \* the items' state, as the database has it
    jobs,           \* fix jobs, oldest first
    approvals,      \* rows of decisions, of failed attempts too
    github,         \* the items' state there, labels and comments
    all, entries,   \* the session's entries, and those that the filter lets through
    cursor, filter,
    dialog,         \* the entry in the editor or with the rerun input open
    reload,         \* what a reload has read and not yet delivered
    tasks,          \* the actions under way, by recommendation
    keys, fault     \* bounded: keys pressed, and what has failed

db == <<recs, live, state, jobs, approvals>>
lists == <<all, entries, cursor, filter>>
vars == <<db, github, lists, dialog, reload, tasks, keys, fault>>

Recs == UNION {{i} \X (1 .. MaxRecs[i]) : i \in Items}

ItemOf(r) == r[1]

Options == UNION {DOMAIN Plan[i] : i \in Items}

Entries == [rec : Recs, active : Options, plan : UNION {[1 .. Len(Plan[i]) -> Changes] : i \in Items}]

Verbs == {"approve", "mark", "rerun", "fix"}
Places == {"idle", "queue", "labels", "comment", "act", "record", "persist", "item", "refetch",
            "supersede", "triage", "done"}

Idle == [verb |-> None, entry |-> None, at |-> "idle", failed |-> FALSE, updated |-> << >>]
NoDialog == [what |-> "none", entry |-> None]

TypeOK ==
    /\ \A i \in Items : recs[i] \in 1 .. MaxRecs[i]
    /\ \A k, l \in DOMAIN live : live[k] = live[l] => k = l
    /\ state \in [Items -> {"open", "closed", "merged"}]
    /\ Len(jobs) <= MaxJobs
    /\ \A k \in DOMAIN jobs :
          jobs[k] \in [rec : Recs, option : Options,
                       status : {"queued", "running", "shown", "over"}]
    /\ \A a \in approvals : a.rec \in Recs /\ a.option \in DOMAIN Plan[ItemOf(a.rec)]
    /\ github.state \in [Items -> {"open", "closed", "merged"}]
    /\ github.labelled \subseteq Items /\ github.commented \subseteq Recs
    /\ \A e \in ToSet(all) \cup ToSet(entries) :
          e \in Entries /\ e.active \in DOMAIN e.plan /\ Len(e.plan) = Len(Plan[ItemOf(e.rec)])
    /\ cursor \in 1 .. Len(entries) \/ (cursor = 1 /\ entries = << >>)
    /\ filter \in {"all", "maintainer", "contributor"}
    /\ dialog = NoDialog \/ (dialog.what \in {"edit", "rerun"} /\ dialog.entry \in Entries)
    /\ \A r \in Recs :
          /\ tasks[r].at \in Places
          /\ tasks[r] = Idle \/ (tasks[r].verb \in Verbs /\ tasks[r].entry.rec = r)
    /\ keys \in 0 .. MaxKeys /\ fault \in FaultKinds \cup {None}

-----------------------------------------------------------------------------
(* What a session reads.                                                   *)

JobsOf(i) == {k \in DOMAIN jobs : ItemOf(jobs[k].rec) = i}

\* LatestFixJobForItem, or 0
LatestJob(i) == IF JobsOf(i) = {} THEN 0 ELSE CHOOSE k \in JobsOf(i) : \A l \in JobsOf(i) : l <= k

Active(k) == jobs[k].status \in {"queued", "running"}

\* The option a job works on is the one shown first.
BuildEntry(r, k) ==
    [rec |-> r, plan |-> Plan[ItemOf(r)],
     active |-> IF k # 0 /\ jobs[k].rec = r THEN jobs[k].option ELSE 1]

Latest(i) == <<i, recs[i]>>

\* Jobs stay in the inbox until they are over, when their option was approved or an
\* approval of it was tried.
ShownJob(i) ==
    LET remaining == {k \in JobsOf(i) : jobs[k].status # "over"} IN
    IF remaining = {} THEN 0 ELSE CHOOSE k \in remaining : \A l \in remaining : l <= k

HasApprovedOption(k) ==
    \E a \in approvals :
        /\ a.decision = "approve"
        /\ a.rec = jobs[k].rec /\ a.option = jobs[k].option

FixItems ==
    {i \in Items : /\ i \notin ToSet(live) /\ state[i] = "open"
                   /\ ShownJob(i) # 0 /\ HasApprovedOption(ShownJob(i))}

IsOpen(i) == state[i] = "open"

LoadInboxEntries ==
    LET open == Only(live, {i \in Items : IsOpen(i)})
        fixes == SetToSeq(FixItems) IN
    [k \in DOMAIN open |-> BuildEntry(Latest(open[k]), LatestJob(open[k]))]
    \o [k \in DOMAIN fixes |-> BuildEntry(jobs[ShownJob(fixes[k])].rec, ShownJob(fixes[k]))]

-----------------------------------------------------------------------------
(* The lists.                                                              *)

Change(e) == e.plan[e.active]

HasPrompt(e) == Plan[ItemOf(e.rec)][e.active] = "fix"

Edited(e) == e.plan[e.active] # Plan[ItemOf(e.rec)][e.active]

Passes(r, f) == f = "all" \/ (ItemOf(r) \in Contributors <=> f = "contributor")

ApplyRoleFilter(list, f) ==
    Only(list, {e \in ToSet(list) : Passes(e.rec, f)})

RecSeq(list) == [k \in DOMAIN list |-> list[k].rec]

RecsOf(list) == {list[k].rec : k \in DOMAIN list}

IndexOf(list, r) == CHOOSE k \in DOMAIN list : list[k].rec = r

Replace(list, r, e) == [k \in DOMAIN list |-> IF list[k].rec = r THEN e ELSE list[k]]

RemoveRec(list, r) == Only(list, {e \in ToSet(list) : e.rec # r})

Within(k, list) == IF k > Len(list) THEN (IF list = << >> THEN 1 ELSE Len(list)) ELSE k

MutRemoveEntry(r) ==
    /\ all' = RemoveRec(all, r)
    /\ entries' = RemoveRec(entries, r)
    /\ UNCHANGED cursor

\* removeEntries: the cursor stays with its entry, or with its place.
RemoveEntry(r) ==
    /\ all' = RemoveRec(all, r)
    /\ entries' = RemoveRec(entries, r)
    /\ cursor' = IF cursor \in DOMAIN entries /\ entries[cursor].rec \in RecsOf(entries')
                 THEN IndexOf(entries', entries[cursor].rec)
                 ELSE Within(cursor, entries')

MutReplaceEntry(r, e) ==
    /\ entries' = Replace(entries, r, e)
    /\ UNCHANGED <<all, cursor>>

\* replaceAllEntry, and the same in the visible list
ReplaceEntry(r, e) ==
    /\ entries' = Replace(entries, r, e)
    /\ all' = Replace(all, IF e.rec \in RecsOf(all) THEN e.rec ELSE r, e)
    /\ UNCHANGED cursor

Touched(e) == Edited(e) \/ e.active > 1

\* What applyReload keeps of an entry: all of it when the option in view is edited or
\* is not the first, else nothing.
Kept(r) ==
    LET In(list) == {e \in ToSet(list) : e.rec = r /\ Touched(e)}
    IN IF In(entries) # {} THEN In(entries) ELSE In(all)

Preserve(rows) ==
    [k \in DOMAIN rows |->
        LET old == Kept(rows[k].rec) IN IF old = {} THEN rows[k] ELSE CHOOSE e \in old : TRUE]

MutApplyReload(rows) ==
    /\ all' = Preserve(rows)
    /\ entries' = Preserve(ApplyRoleFilter(rows, filter))
    /\ cursor' = Within(cursor, entries')
    /\ UNCHANGED filter

ApplyReload(rows) ==
    /\ all' = Preserve(rows)
    /\ entries' = Preserve(ApplyRoleFilter(rows, filter))
    /\ cursor' = IF cursor \in DOMAIN entries /\ entries[cursor].rec \in RecsOf(entries')
                 THEN IndexOf(entries', entries[cursor].rec)
                 ELSE Within(cursor, entries')
    /\ UNCHANGED filter

Open(rows) ==
    /\ all = rows /\ entries = rows
    /\ cursor = 1 /\ filter = "all"
    /\ dialog = NoDialog
    /\ reload = None
    /\ tasks = [r \in Recs |-> Idle]

Init ==
    /\ recs = [i \in Items |-> 1]
    /\ live = SetToSeq(Items)
    /\ state = [i \in Items |-> "open"]
    /\ jobs = << >>
    /\ approvals = {}
    /\ github = [state |-> [i \in Items |-> "open"], labelled |-> {}, commented |-> {}]
    /\ Open(LoadInboxEntries)
    /\ keys = 0 /\ fault = None

Fault(kind) == kind \in FaultKinds /\ fault = None /\ fault' = kind

-----------------------------------------------------------------------------
(* Keys.                                                                   *)

Press == dialog = NoDialog /\ keys < MaxKeys /\ keys' = keys + 1

PressOnEntry == Press /\ entries # << >>

Current == entries[cursor]

MoveCursor ==
    /\ PressOnEntry
    /\ \E k \in {cursor - 1, cursor + 1} : k \in DOMAIN entries /\ cursor' = k
    /\ UNCHANGED <<db, github, all, entries, filter, dialog, reload, tasks, fault>>

CycleOption ==
    /\ PressOnEntry
    /\ \E o \in DOMAIN Current.plan \ {Current.active} :
          ReplaceEntry(Current.rec, [Current EXCEPT !.active = o])
    /\ UNCHANGED <<db, github, filter, dialog, reload, tasks, fault>>

CycleRoleFilter ==
    /\ Press
    /\ filter' = CASE filter = "all" -> "maintainer"
                   [] filter = "maintainer" -> "contributor"
                   [] filter = "contributor" -> "all"
    /\ entries' = ApplyRoleFilter(all, filter')
    /\ cursor' = 1
    /\ UNCHANGED <<db, github, all, dialog, reload, tasks, fault>>

\* guardConflict
Free(e) == tasks[e.rec] = Idle

StartAction(verb, place, e) ==
    /\ Free(e)
    /\ tasks' = [tasks EXCEPT ![e.rec] = [Idle EXCEPT !.verb = verb, !.entry = e, !.at = place]]

QueuesFix(e) == Change(e) = "fix" /\ HasPrompt(e)

\* Labels are first: when they cannot be set nothing else is done.  A contributor's
\* item gets none, and only what a contributor may do to it.
LabelsOr(e, place) == IF ItemOf(e.rec) \in Contributors THEN place ELSE "labels"

Effects(e) ==
    CASE Change(e) \in {"changes", "merge"} /\ ItemOf(e.rec) \in Contributors -> "record"
      [] Change(e) \in {"changes", "close"} -> "act"
      [] OTHER -> "comment"

AdvanceCursor == cursor' = Within(cursor + 1, entries)

ApproveCurrent ==
    /\ PressOnEntry
    /\ StartAction("approve", IF QueuesFix(Current) THEN "queue"
                              ELSE LabelsOr(Current, Effects(Current)), Current)
    /\ AdvanceCursor
    /\ UNCHANGED <<db, github, all, entries, filter, dialog, reload, fault>>

FixCurrent ==
    /\ PressOnEntry /\ HasPrompt(Current)
    /\ StartAction("fix", "queue", Current)
    /\ AdvanceCursor
    /\ UNCHANGED <<db, github, all, entries, filter, dialog, reload, fault>>

DismissCurrent ==
    /\ PressOnEntry
    /\ StartAction("mark", LabelsOr(Current, "persist"), Current)
    /\ AdvanceCursor
    /\ UNCHANGED <<db, github, all, entries, filter, dialog, reload, fault>>

\* The editor and the rerun input work on the entry as it is now.
OpenDialog(what) ==
    /\ PressOnEntry /\ Free(Current)
    /\ dialog' = [what |-> what, entry |-> Current]
    /\ UNCHANGED <<db, github, lists, reload, tasks, fault>>

EditCurrent == OpenDialog("edit")

OpenRerunInput == OpenDialog("rerun")

\* The state change, labels and draft of the option in view, as the user has left them.
ParseEdited(e, change) == [e EXCEPT !.plan[e.active] = change]

\* The edited entry replaces the one that is there by now, or is dropped.
ApplyEditFinished ==
    /\ dialog.what = "edit"
    /\ dialog' = NoDialog
    /\ \/ UNCHANGED lists
       \/ \E change \in Edits :
             LET e == ParseEdited(dialog.entry, change) IN
             /\ e.rec \in RecsOf(all)
             /\ ReplaceEntry(e.rec, e)
             /\ UNCHANGED filter
    /\ UNCHANGED <<db, github, reload, tasks, keys, fault>>

RerunEntry ==
    /\ dialog.what = "rerun"
    /\ StartAction("rerun", "supersede", dialog.entry)
    /\ dialog' = NoDialog
    /\ UNCHANGED <<db, github, lists, reload, keys, fault>>

\* Esc, or something is under way for the entry by now.
DropRerunInput ==
    /\ dialog.what = "rerun"
    /\ dialog' = NoDialog
    /\ UNCHANGED <<db, github, lists, reload, tasks, keys, fault>>

-----------------------------------------------------------------------------
(* Reloads, after a notification or every 5 seconds.                       *)

ReadRows ==
    /\ reload = None
    /\ reload' = LoadInboxEntries
    /\ UNCHANGED <<keys, db, github, lists, dialog, tasks, fault>>

DeliverReload ==
    /\ reload # None
    /\ reload' = None
    /\ UNCHANGED <<keys, db, github, dialog, tasks, fault>>
    /\ ApplyReload(reload)

MutRefreshTick ==
    /\ \A k \in DOMAIN entries : ~Edited(entries[k])
    /\ \E rows \in {LoadInboxEntries} : ApplyReload(rows)
    /\ UNCHANGED <<keys, db, github, dialog, reload, tasks, fault>>

\* A reload that overtakes the other.
RefreshTick ==
    /\ UNCHANGED <<keys, db, github, dialog, reload, tasks, fault>>
    /\ \E rows \in {LoadInboxEntries} : ApplyReload(rows)

-----------------------------------------------------------------------------
(* The actions under way, each in a goroutine of its own.                  *)

At(r, place) == tasks[r].at = place

Approving(r) == tasks[r].verb = "approve"

StepTo(r, place) == tasks' = [tasks EXCEPT ![r].at = place]

Fail(r) == tasks' = [tasks EXCEPT ![r].at = "done", ![r].failed = TRUE]

Finish(r, updated) == tasks' = [tasks EXCEPT ![r].at = "done", ![r].updated = updated]

Without(i) == Only(live, Items \ {i})

\* Superseding a recommendation that is not live any more does nothing.
Supersede(r) == live' = IF r = Latest(ItemOf(r)) THEN Without(ItemOf(r)) ELSE live

MutQueueFix(r) ==
    LET e == tasks[r].entry
        k == LatestJob(ItemOf(r))
        Queued == IF Approving(r) THEN StepTo(r, LabelsOr(e, Effects(e))) ELSE Finish(r, << >>) IN
    /\ At(r, "queue")
    /\ IF k # 0 /\ jobs[k].status = "running"
       THEN Queued /\ UNCHANGED <<jobs, fault>>
       ELSE Len(jobs) < MaxJobs /\ jobs' = Append(jobs, [rec |-> r, option |-> e.active, status |-> "queued"])
            /\ Queued /\ UNCHANGED fault
    /\ UNCHANGED <<keys, recs, live, state, approvals, github, lists, dialog, reload>>

\* A job that waits is replaced, one that an agent works on is not: that is good
\* enough for the approval of the same option.
QueueFix(r) ==
    LET e == tasks[r].entry
        k == LatestJob(ItemOf(r))
        new == [rec |-> r, option |-> e.active, status |-> "queued"]
        Queued == IF Approving(r) THEN StepTo(r, LabelsOr(e, Effects(e))) ELSE Finish(r, << >>) IN
    /\ At(r, "queue")
    /\ IF k # 0 /\ jobs[k].status = "running"
       THEN /\ IF Approving(r) /\ jobs[k].rec = r /\ jobs[k].option = e.active
               THEN Queued ELSE Fail(r)
            /\ UNCHANGED <<jobs, fault>>
       ELSE \/ /\ Len(jobs) < MaxJobs
               /\ jobs' = Append(IF k # 0 /\ jobs[k].status = "queued"
                                 THEN [jobs EXCEPT ![k].status = "over"] ELSE jobs, new)
               /\ Queued /\ UNCHANGED fault
            \/ Len(jobs) = MaxJobs /\ Fail(r) /\ UNCHANGED <<jobs, fault>>
            \/ Fault("db") /\ Fail(r) /\ UNCHANGED jobs
    /\ UNCHANGED <<keys, recs, live, state, approvals, github, lists, dialog, reload>>

EditLabels(r) ==
    /\ At(r, "labels")
    /\ \/ /\ github' = [github EXCEPT !.labelled = @ \cup {ItemOf(r)}]
          /\ StepTo(r, IF Approving(r) THEN Effects(tasks[r].entry) ELSE "persist")
          /\ UNCHANGED fault
       \/ /\ Fault("github")
          /\ IF Approving(r) THEN StepTo(r, "record") ELSE Fail(r)
          /\ UNCHANGED github
    /\ UNCHANGED <<keys, db, lists, dialog, reload>>

Comment(r) ==
    /\ At(r, "comment")
    /\ \/ /\ github' = [github EXCEPT !.commented = @ \cup {r}]
          /\ StepTo(r, IF Change(tasks[r].entry) = "merge" THEN "act" ELSE "persist")
          /\ UNCHANGED fault
       \/ Fault("github") /\ StepTo(r, "record") /\ UNCHANGED github
    /\ UNCHANGED <<keys, db, lists, dialog, reload>>

MutAct(r) ==
    LET i == ItemOf(r)
        c == Change(tasks[r].entry)
        to == CASE c = "close" -> "closed" [] c = "merge" -> "merged"
                [] c = "changes" -> github.state[i] IN
    /\ At(r, "act")
    /\ \/ /\ github.state[i] \in {"open", to}
          /\ github' = [github EXCEPT !.state[i] = to, !.commented = @ \cup {r}]
          /\ StepTo(r, "persist")
          /\ UNCHANGED fault
       \/ github.state[i] \notin {"open", to} /\ StepTo(r, "persist") /\ UNCHANGED <<github, fault>>
       \/ Fault("github") /\ StepTo(r, "persist") /\ UNCHANGED github
    /\ UNCHANGED <<keys, db, lists, dialog, reload>>

\* A close and a review carry their comment with them.  Nothing is closed that was
\* merged, or the other way round.
Act(r) ==
    LET i == ItemOf(r)
        c == Change(tasks[r].entry)
        to == CASE c = "close" -> "closed" [] c = "merge" -> "merged"
                [] c = "changes" -> github.state[i] IN
    /\ At(r, "act")
    /\ \/ /\ github.state[i] \in {"open", to}
          /\ github' = [github EXCEPT !.state[i] = to, !.commented = @ \cup {r}]
          /\ StepTo(r, "persist")
          /\ UNCHANGED fault
       \/ github.state[i] \notin {"open", to} /\ StepTo(r, "record") /\ UNCHANGED <<github, fault>>
       \/ Fault("github") /\ StepTo(r, "record") /\ UNCHANGED github
    /\ UNCHANGED <<keys, db, lists, dialog, reload>>

Row(r, decision, failed) ==
    [rec |-> r, option |-> tasks[r].entry.active, change |-> Change(tasks[r].entry),
     decision |-> decision, failed |-> failed]

MutRecordFailedAttempt(r) ==
    /\ At(r, "record")
    /\ Fail(r)
    /\ UNCHANGED <<keys, db, github, lists, dialog, reload, fault>>

RecordFailedAttempt(r) ==
    /\ At(r, "record")
    /\ \/ approvals' = approvals \cup {Row(r, "approve", TRUE)} /\ UNCHANGED fault
       \/ Fault("db") /\ UNCHANGED approvals
    /\ Fail(r)
    /\ UNCHANGED <<keys, recs, live, state, jobs, github, lists, dialog, reload>>

\* actOnOption: the row, and the end of the recommendation, live or not.
Persist(r) ==
    /\ At(r, "persist")
    /\ \/ /\ approvals' = approvals \cup {Row(r, tasks[r].verb, FALSE)}
          /\ Supersede(r)
          /\ StepTo(r, "item")
          /\ UNCHANGED fault
       \/ Fault("db") /\ Fail(r) /\ UNCHANGED <<approvals, live>>
    /\ UNCHANGED <<keys, recs, state, jobs, github, lists, dialog, reload>>

\* The item is triaged, and closed or merged when that was approved.
UpdateItem(r) ==
    LET i == ItemOf(r)
        e == tasks[r].entry IN
    /\ At(r, "item")
    /\ \/ /\ state' = [state EXCEPT ![i] =
                IF ~Approving(r) THEN @
                ELSE CASE Change(e) = "close" -> "closed" [] Change(e) = "merge" -> "merged"
                       [] OTHER -> @]
          /\ IF Approving(r) /\ QueuesFix(e) THEN StepTo(r, "refetch") ELSE Finish(r, << >>)
          /\ UNCHANGED fault
       \/ Fault("db") /\ Fail(r) /\ UNCHANGED state
    /\ UNCHANGED <<keys, recs, live, jobs, approvals, github, lists, dialog, reload>>

\* An approved fix stays in the inbox with its job.
Refetch(r) ==
    /\ At(r, "refetch")
    /\ Finish(r, Only(LoadInboxEntries, {e \in ToSet(LoadInboxEntries) : e.rec = r}))
    /\ UNCHANGED <<keys, db, github, lists, dialog, reload, fault>>

SupersedeForRerun(r) ==
    /\ At(r, "supersede")
    /\ \/ Supersede(r) /\ StepTo(r, "triage") /\ UNCHANGED fault
       \/ Fault("db") /\ Fail(r) /\ UNCHANGED live
    /\ UNCHANGED <<keys, recs, state, jobs, approvals, github, lists, dialog, reload>>

CanRecommend(i) == i \notin ToSet(live) /\ recs[i] < MaxRecs[i] /\ IsOpen(i)

Recommend(i) == recs' = [recs EXCEPT ![i] = @ + 1] /\ live' = <<i>> \o live

\* An item that has a new recommendation by now is not triaged: that one is shown.
Retriage(r) ==
    LET i == ItemOf(r)
        Show(q) == Finish(r, <<[rec |-> q, active |-> 1, plan |-> Plan[i]]>>) IN
    /\ At(r, "triage")
    /\ \/ CanRecommend(i) /\ Recommend(i) /\ Show(<<i, recs[i] + 1>>) /\ UNCHANGED fault
       \/ i \in ToSet(live) /\ Show(Latest(i)) /\ UNCHANGED <<recs, live, fault>>
       \/ /\ i \notin ToSet(live) /\ Fail(r)
          /\ CanRecommend(i) => Fault("github")
          /\ ~CanRecommend(i) => UNCHANGED fault
          /\ UNCHANGED <<recs, live>>
    /\ UNCHANGED <<keys, state, jobs, approvals, github, lists, dialog, reload>>

\* The result reaches the lists.
ApplyActionFinished(r) ==
    LET t == tasks[r] IN
    /\ At(r, "done")
    /\ tasks' = [tasks EXCEPT ![r] = Idle]
    /\ \/ /\ t.failed \/ t.verb = "fix" \/ (t.verb = "rerun" /\ t.updated = << >>)
          /\ UNCHANGED lists
       \/ /\ ~t.failed /\ t.verb \in {"approve", "rerun"} /\ t.updated # << >>
          /\ ReplaceEntry(r, t.updated[1])
          /\ UNCHANGED filter
       \/ /\ ~t.failed /\ t.verb \in {"approve", "mark"} /\ t.updated = << >>
          /\ RemoveEntry(r)
          /\ UNCHANGED filter
    /\ UNCHANGED <<keys, db, github, dialog, reload, fault>>

\* The session ends and takes its goroutines with it; another is opened.
QuitAndReopen ==
    /\ dialog = NoDialog /\ \E r \in Recs : tasks[r] # Idle
    /\ Fault("quit")
    /\ all' = LoadInboxEntries /\ entries' = LoadInboxEntries
    /\ cursor' = 1 /\ filter' = "all"
    /\ reload' = None
    /\ tasks' = [r \in Recs |-> Idle]
    /\ UNCHANGED <<keys, db, github, dialog>>

-----------------------------------------------------------------------------
(* Daemon and other sessions.                                              *)

DecideElsewhere(i) ==
    /\ i \in ToSet(live)
    /\ Fault("elsewhere")
    /\ live' = Without(i)
    /\ UNCHANGED <<keys, recs, state, jobs, approvals, github, lists, dialog, reload, tasks>>

DaemonRecommends(i) ==
    /\ CanRecommend(i) /\ Recommend(i)
    /\ UNCHANGED <<keys, state, jobs, approvals, github, lists, dialog, reload, tasks, fault>>

JobMoves(k) ==
    /\ \E to \in {"running", "shown", "over"} :
          /\ <<jobs[k].status, to>> \in {<<"queued", "running">>, <<"running", "shown">>,
                                        <<"shown", "over">>}
          /\ jobs' = [jobs EXCEPT ![k].status = to]
    /\ UNCHANGED <<keys, recs, live, state, approvals, github, lists, dialog, reload, tasks, fault>>

\* The sync stores what GitHub says; of an item that is not open nothing is live.
SyncItem(i) ==
    /\ state[i] # github.state[i]
    /\ state' = [state EXCEPT ![i] = github.state[i]]
    /\ live' = IF github.state[i] = "open" THEN live ELSE Without(i)
    /\ UNCHANGED <<keys, recs, jobs, approvals, github, lists, dialog, reload, tasks, fault>>

-----------------------------------------------------------------------------

Key ==
    \/ MoveCursor \/ CycleOption \/ CycleRoleFilter
    \/ ApproveCurrent \/ FixCurrent \/ DismissCurrent
    \/ EditCurrent \/ OpenRerunInput \/ ApplyEditFinished \/ RerunEntry \/ DropRerunInput

TaskStep(r) ==
    \/ QueueFix(r) \/ EditLabels(r) \/ Comment(r) \/ Act(r) \/ RecordFailedAttempt(r)
    \/ Persist(r) \/ UpdateItem(r) \/ Refetch(r) \/ SupersedeForRerun(r) \/ Retriage(r)

Message == DeliverReload \/ RefreshTick \/ \E r \in Recs : ApplyActionFinished(r)

Next ==
    \/ Key \/ ReadRows \/ DeliverReload \/ RefreshTick \/ QuitAndReopen
    \/ \E r \in Recs : TaskStep(r) \/ ApplyActionFinished(r)
    \/ \E i \in Items : DecideElsewhere(i) \/ DaemonRecommends(i) \/ SyncItem(i)
    \/ \E k \in DOMAIN jobs : JobMoves(k)

Spec == Init /\ [][Next]_vars

\* The refresh timer fires, and nothing more: work under way may hang, a reload that
\* was read may never come, and nobody has to press a key.
Fairness == WF_vars(RefreshTick)

FairSpec == Spec /\ Fairness

-----------------------------------------------------------------------------

\* However filter keys, results, removals and reloads follow one another, the list
\* on view has the entries, in their order, that the filter lets through of all the
\* session's (entries and allEntries, kept side by side in tui.go).  Their contents
\* may differ: the result of a rerun that comes after a reload has listed the new
\* recommendation replaces it, with edits, in allEntries only.
ViewIsFiltered ==
    RecSeq(entries) = RecSeq(ApplyRoleFilter(all, filter))

\* A decision that counts (its row ends the recommendation) was carried out on
\* GitHub before: labels, comment, and the item closed or merged; after a failure
\* half-way, a retry and another session's work too.
DecisionIsOnGitHub ==
    \A a \in approvals :
        LET i == ItemOf(a.rec) IN
        ~a.failed =>
            /\ i \notin Contributors => i \in github.labelled
            /\ a.decision = "approve" => a.rec \in github.commented
            /\ a.decision = "approve" /\ a.change = "close" => github.state[i] = "closed"
            /\ a.decision = "approve" /\ a.change = "merge" => github.state[i] = "merged"

\* The other way round: what an approval posted on GitHub has left a row, be it that
\* of a failed attempt.  Nothing is claimed once any write to the database has failed
\* or the user has quit in the middle: then it may be posted again by the next attempt.
EffectsAreOnRecord ==
    fault \notin {"db", "quit"} =>
        \A r \in github.commented :
            \/ \E a \in approvals : a.rec = r
            \/ tasks[r].at \in {"comment", "act", "record", "persist"}

\* An approved fix was queued for the very option that was approved: a job that is
\* in flight stands in for it only when it works on that option.  An option that the
\* user has made a fix has no prompt, and its approval queues nothing.
ApprovedFixHasJob ==
    \A a \in approvals :
        a.decision = "approve" /\ ~a.failed /\ a.change = "fix" /\ Plan[ItemOf(a.rec)][a.option] = "fix"
          => \E k \in DOMAIN jobs : jobs[k].rec = a.rec /\ jobs[k].option = a.option

\* Messages, that is reloads and results of background work, leave the cursor on the
\* recommendation it is on as long as that is listed: the next key is for it.
CursorKeepsItsRecommendation ==
    [][Message /\ entries # << >> /\ Current.rec \in RecsOf(entries')
         => entries'[cursor'].rec = Current.rec]_vars

\* In the end the session lists what there is to decide, and nothing else, also when
\* late reloads brought back what was decided, or work failed half-way.
ViewConverges ==
    <>[](RecsOf(entries) = RecsOf(ApplyRoleFilter(LoadInboxEntries, filter)))

=============================================================================
