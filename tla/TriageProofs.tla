----------------------------- MODULE TriageProofs -----------------------------
(***************************************************************************)
(* What TLAPS proves of Triage, for any number of issues, changes and      *)
(* recommendations: an issue never has two live recommendations, no result *)
(* takes the place of one of a cycle that began later, and the types.      *)
(*                                                                         *)
(* Two actions alone make a recommendation live or dead: Supersede, which  *)
(* only makes them dead, and Recommend, which inserts one when every live  *)
(* one of the issue is older than the cycle, and makes those dead.         *)
(***************************************************************************)
EXTENDS TriageProperties, TLAPS

\* OneLiveRecommendation, and what makes recs a sequence of recommendations.
IInv ==
    /\ now \in Time
    /\ recs \in Seq(Recs)
    /\ OneLiveRecommendation

\* Superseding recommendations keeps the invariant.
LEMMA SupersedeIsSafe ==
    ASSUME recs \in Seq(Recs), OneLiveRecommendation, NEW S, Supersede(S)
    PROVE  recs' \in Seq(Recs) /\ OneLiveRecommendation'
<1>1. DOMAIN recs = 1 .. Len(recs) /\ Len(recs) \in Nat
  OBVIOUS
<1>2. DOMAIN recs' = DOMAIN recs
  BY DEF Supersede
<1>3. ASSUME NEW r \in DOMAIN recs
      PROVE  /\ recs'[r] \in Recs
             /\ recs'[r].item = recs[r].item
             /\ recs'[r].live => recs[r].live
  <2>1. recs[r] \in Recs
    BY <1>1
  <2>2. recs'[r] = IF r \in S THEN [recs[r] EXCEPT !.live = FALSE] ELSE recs[r]
    BY DEF Supersede
  <2>. QED  BY <2>1, <2>2 DEF Recs
<1>4. recs' \in Seq(Recs)
  BY <1>1, <1>2, <1>3 DEF Supersede
<1>5. OneLiveRecommendation'
  BY <1>2, <1>3 DEF OneLiveRecommendation
<1>. QED  BY <1>4, <1>5

\* A cycle's result is inserted when the issue has no live recommendation since
\* the cycle began, and supersedes the ones it had before.
LEMMA RecommendIsSafe ==
    ASSUME IInv, NEW p \in Procs, NEW i \in Items, Recommend(p, i)
    PROVE  recs' \in Seq(Recs) /\ OneLiveRecommendation'
<1>. DEFINE new  == [item |-> i, at |-> now, live |-> TRUE]
            Old(s) == [recs[s] EXCEPT !.live =
                          @ /\ ~(recs[s].item = i /\ CreatedBefore(p, s))]
            old == [s \in DOMAIN recs |-> Old(s)]
<1>1. recs \in Seq(Recs) /\ DOMAIN recs = 1 .. Len(recs) /\ Len(recs) \in Nat
  BY DEF IInv
<1>2. recs' = Append(old, new)
  BY DEF Recommend
<1>3. new \in Recs
  BY DEF IInv, Recs
<1>4. ASSUME NEW s \in DOMAIN recs
      PROVE  /\ Old(s) \in Recs
             /\ Old(s).item = recs[s].item
             /\ Old(s).live => recs[s].live /\ recs[s].item # i
  <2>1. recs[s] \in Recs
    BY <1>1
  <2>2. Old(s) \in Recs /\ Old(s).item = recs[s].item
    BY <2>1 DEF Recs
  <2>3. Old(s).live <=> recs[s].live /\ ~(recs[s].item = i /\ CreatedBefore(p, s))
    BY <2>1 DEF Recs
  <2>4. recs[s].live /\ recs[s].item = i => CreatedBefore(p, s)
    BY DEF Recommend, NewerActive, LiveRecs, RecsOf
  <2>. QED  BY <2>2, <2>3, <2>4
<1>5. old \in Seq(Recs) /\ Len(old) = Len(recs)
  BY <1>1, <1>4
<1>6. /\ recs' \in Seq(Recs)
      /\ DOMAIN recs' = DOMAIN recs \cup {Len(recs) + 1}
      /\ recs'[Len(recs) + 1] = new
      /\ \A s \in DOMAIN recs : recs'[s] = Old(s)
  <2>. HIDE DEF new, old
  <2>1. /\ recs' \in Seq(Recs)
        /\ DOMAIN recs' = 1 .. Len(recs) + 1
        /\ recs'[Len(recs) + 1] = new
        /\ \A s \in 1 .. Len(recs) : recs'[s] = old[s]
    BY <1>1, <1>2, <1>3, <1>5
  <2>2. \A s \in DOMAIN recs : old[s] = Old(s)
    BY DEF old
  <2>. QED  BY <1>1, <2>1, <2>2
<1>. HIDE DEF Old, old
<1>7. OneLiveRecommendation'
  <2>1. SUFFICES ASSUME NEW r \in DOMAIN recs', NEW s \in DOMAIN recs',
                        recs'[r].item = recs'[s].item, recs'[r].live, recs'[s].live
                 PROVE  r = s
    BY DEF OneLiveRecommendation
  <2>2. CASE r \in DOMAIN recs /\ s \in DOMAIN recs
    BY <1>4, <1>6, <2>1, <2>2 DEF IInv, OneLiveRecommendation
  <2>3. CASE r = Len(recs) + 1 \/ s = Len(recs) + 1
    BY <1>1, <1>4, <1>6, <2>1, <2>3
  <2>. QED  BY <1>6, <2>2, <2>3
<1>. QED  BY <1>6, <1>7

\* Nothing is recommended yet.
LEMMA InitIsSafe == Init => IInv
BY BoundsAssumption DEF Init, IInv, OneLiveRecommendation, Time

\* GitHub's clock stays within its bound.
LEMMA ClockIsBounded ==
    ASSUME now \in Time, NEW i, NEW issue, Changes(i, issue)
    PROVE  now' \in Time
BY BoundsAssumption DEF Changes, Time

\* Every step keeps the invariant.
LEMMA StepIsSafe == IInv /\ [Next]_vars => IInv'
<1>. SUFFICES ASSUME IInv, [Next]_vars
              PROVE  IInv'
  OBVIOUS
<1>. USE DEF store
<1>0. now \in Time /\ recs \in Seq(Recs) /\ OneLiveRecommendation
  BY DEF IInv
\* What leaves the clock and the recommendations alone.
<1>1. ASSUME UNCHANGED <<now, recs>>
      PROVE  IInv'
  BY <1>0, <1>1 DEF IInv, OneLiveRecommendation
\* What supersedes some.
<1>2. ASSUME NEW S, Supersede(S), UNCHANGED now
      PROVE  IInv'
  BY <1>0, <1>2, SupersedeIsSafe DEF IInv
\* What changes something on GitHub.
<1>3. ASSUME now' \in Time, UNCHANGED recs
      PROVE  IInv'
  BY <1>0, <1>3 DEF IInv, OneLiveRecommendation
<1>4. ASSUME NEW p \in Procs, CycleStep(p)
      PROVE  IInv'
  <2>1. ASSUME NEW i \in Items, Recommend(p, i)
        PROVE  IInv'
    BY <1>0, <2>1, RecommendIsSafe DEF Recommend, IInv
  <2>2. CASE NotDue(p) \/ ListTriaged(p) \/ EndRefresh(p) \/ BeginAgents(p) \/ EndCycle(p)
    BY <1>1, <2>2 DEF NotDue, ListTriaged, EndRefresh, BeginAgents, EndCycle
  <2>3. ASSUME NEW i \in Items, SyncItem(p, i) \/ Discard(p, i) \/ TriageFails(p, i)
        PROVE  IInv'
    BY <1>1, <2>3 DEF SyncItem, Discard, TriageFails
  <2>. QED  BY <1>4, <2>1, <2>2, <2>3 DEF CycleStep
<1>5. CASE DaemonStep
  <2>1. CASE DaemonBegins \/ ListNeedingTriage \/ BeginReconcile \/ SyncFails \/ ProbeList
             \/ FixStageDidWork
    BY <1>1, <2>1 DEF DaemonBegins, ListNeedingTriage, BeginReconcile, SyncFails, ProbeList,
                      FixStageDidWork
  <2>2. ASSUME NEW r \in DOMAIN recs, ReconcileRead(r) \/ ReconcileWrite(r)
        PROVE  IInv'
    BY <1>1, <1>2, <2>2 DEF ReconcileRead, ReconcileWrite
  <2>3. ASSUME NEW i \in Items, RefreshRead(i) \/ RefreshWrite(i) \/ ProbeRead(i)
        PROVE  IInv'
    BY <1>1, <2>3 DEF RefreshRead, RefreshWrite, ProbeRead
  <2>4. ASSUME NEW i \in Items, ProbeWrite(i)
        PROVE  IInv'
    BY <1>2, <2>4 DEF ProbeWrite
  <2>5. CASE CycleStep("daemon")
    BY <1>4, <2>5 DEF Procs
  <2>. QED  BY <1>5, <2>1, <2>2, <2>3, <2>4, <2>5 DEF DaemonStep
<1>6. CASE ManualStep
  <2>1. CASE ManualLoads \/ ManualFails
    BY <1>1, <2>1 DEF ManualLoads, ManualFails
  <2>2. CASE CycleStep("manual")
    BY <1>4, <2>2 DEF Procs
  <2>. QED  BY <1>6, <2>1, <2>2 DEF ManualStep
<1>7. CASE UserStep
  <2>1. ASSUME NEW r \in DOMAIN recs, NEW d \in Decisions, EditLabels(r, d)
        PROVE  IInv'
    BY <1>0, <1>1, <1>3, <2>1, ClockIsBounded DEF EditLabels
  <2>2. CASE Post
    <3>1. UNCHANGED recs
      BY <2>2 DEF Post
    <3>2. now' \in Time
      BY <1>0, <2>2, ClockIsBounded DEF Post
    <3>. QED  BY <1>3, <3>1, <3>2
  <2>3. CASE ActOnOption
    BY <1>2, <2>3 DEF ActOnOption
  <2>4. CASE MarkTriaged \/ UserFails
    BY <1>1, <2>4 DEF MarkTriaged, UserFails
  <2>. QED  BY <1>7, <2>1, <2>2, <2>3, <2>4 DEF UserStep
<1>8. ASSUME NEW i \in Items, ManualStarts(i)
      PROVE  IInv'
  BY <1>2, <1>8 DEF ManualStarts
<1>9. ASSUME NEW i \in Items, Activity(i) \/ Unlabel(i) \/ CloseByOther(i)
      PROVE  IInv'
  BY <1>0, <1>3, <1>9, ClockIsBounded DEF Activity, Unlabel, CloseByOther
<1>10. ASSUME NEW i \in Items, QuietActivity(i)
       PROVE  IInv'
  BY <1>0, <1>3, <1>10, BoundsAssumption DEF QuietActivity, Time
<1>11. CASE UNCHANGED vars
  BY <1>1, <1>11 DEF vars
<1>. QED  BY <1>5, <1>6, <1>7, <1>8, <1>9, <1>10, <1>11 DEF Next

\* An issue never has two live recommendations, whatever the daemon, manual runs
\* and inbox actions do at the same time (InsertRecommendationReplacingActiveBefore).
THEOREM OneLive == Spec => []OneLiveRecommendation
<1>1. IInv => OneLiveRecommendation
  BY DEF IInv
<1>. QED  BY <1>1, InitIsSafe, StepIsSafe, PTL DEF Spec

-----------------------------------------------------------------------------
(* Types, and which results are newer.                                     *)

\* A cycle as a record.
Cycles ==
    [stage : Stages, polledAt : Time, cutoff : Nat, overtaken : BOOLEAN, newer : SUBSET Nat,
     todo : SUBSET (Items \cup Nat), listed : SUBSET Items,
     issues : [Items -> Issues] \cup [Items -> Rows] \cup {<< >>},
     at : Seq(Items \cup Nat), write : Rows]

\* A cycle, at time n with k recommendations: what is left of its stage is what the
\* stage is about, and the results of later cycles were inserted after it began.
CycleOK(c, n, k) ==
    /\ c \in Cycles
    /\ c.polledAt <= n
    /\ c.cutoff <= k
    /\ c.newer \subseteq 1 .. k
    /\ \A r \in c.newer : r > c.cutoff
    /\ c.stage \in {"idle", "load"} => ~c.overtaken /\ c.newer = {}
    /\ c.stage \notin {"reconcile", "reconciled"} => c.todo \subseteq Items
    /\ c.todo \subseteq Items \cup 1 .. k
    /\ c.stage \in {"sync", "refresh", "refreshed"} => c.issues \in [Items -> Issues]
    /\ c.stage \in {"probing", "probed"} => c.issues \in [Items -> Rows]

CyclesOK(f, n, k) ==
    /\ f \in [Procs -> Cycles]
    /\ \A p \in Procs : CycleOK(f[p], n, k)

\* The inbox action under way is about a recommendation there is.
UserOK(u, k) ==
    \/ u = AtRest
    \/ u \in [step : {"labeled", "posted", "acted"}, rec : 1 .. k, decision : Decisions]

Typed ==
    /\ gh \in [Items -> Issues]
    /\ row \in [Items -> Rows]
    /\ Len(recs) <= MaxRecs
    /\ lastRefresh \in Time
    /\ CyclesOK(proc, now, Len(recs))
    /\ UserOK(user, Len(recs))

\* A cycle that is over.
LEMMA IdleIs ==
    ASSUME NEW n \in Nat, NEW k \in Nat
    PROVE  CycleOK(Idle, n, k)
<1>1. 0 \in Time
    BY BoundsAssumption DEF Time
<1>2. NoRow \in Rows
    BY <1>1 DEF NoRow, Rows
<1>3. Idle \in Cycles
    BY <1>1, <1>2 DEF Idle, Cycles, Stages
<1>4. Idle.polledAt = 0 /\ Idle.cutoff = 0 /\ Idle.overtaken = FALSE /\ Idle.newer = {}
      /\ Idle.todo = {} /\ Idle.stage = "idle"
    BY DEF Idle
<1> QED BY <1>3, <1>4 DEF CycleOK

\* Time passes and recommendations are inserted.
LEMMA CyclesGrow ==
    ASSUME NEW n \in Nat, NEW m \in Nat, n <= m, NEW k \in Nat, NEW l \in Nat, k <= l,
           NEW c, CycleOK(c, n, k)
    PROVE  CycleOK(c, m, l)
<1>1. c \in Cycles /\ c.polledAt \in Nat /\ c.cutoff \in Nat
    BY DEF CycleOK, Cycles, Time
<1>2. c.polledAt <= m /\ c.cutoff <= l
    BY <1>1 DEF CycleOK
<1>3. 1 .. k \subseteq 1 .. l
    OBVIOUS
<1> QED BY <1>1, <1>2, <1>3 DEF CycleOK

\* Goto, of a cycle alone.
LEMMA GotoIs ==
    ASSUME CyclesOK(proc, now, Len(recs)), NEW p \in Procs, NEW stage \in Stages, NEW todo \in SUBSET (Items \cup Nat),
           NEW issues \in [Items -> Issues] \cup [Items -> Rows] \cup {<< >>},
           Goto(p, stage, todo, issues)
    PROVE  \E c \in Cycles :
            /\ proc' = [proc EXCEPT ![p] = c]
            /\ c.stage = stage /\ c.todo = todo /\ c.issues = issues
            /\ c.polledAt = proc[p].polledAt /\ c.cutoff = proc[p].cutoff
            /\ c.newer = proc[p].newer /\ c.overtaken = proc[p].overtaken
<1> DEFINE c == [proc[p] EXCEPT !.stage = stage, !.todo = todo, !.issues = issues,
                                          !.at = << >>, !.write = NoRow]
<1>1. proc[p] \in Cycles
    BY DEF CyclesOK
<1>2. NoRow \in Rows /\ << >> \in Seq(Items \cup Nat)
    BY BoundsAssumption DEF NoRow, Rows, Time
<1>3. c \in Cycles
    BY <1>1, <1>2 DEF Cycles
<1>4. /\ c.stage = stage /\ c.todo = todo /\ c.issues = issues
            /\ c.polledAt = proc[p].polledAt /\ c.cutoff = proc[p].cutoff
            /\ c.newer = proc[p].newer /\ c.overtaken = proc[p].overtaken
    BY <1>1 DEF Cycles
<1>5. proc' = [proc EXCEPT ![p] = c]
    BY DEF Goto, CyclesOK
<1> HIDE DEF c
<1> QED BY <1>3, <1>4, <1>5

\* Read, of a cycle alone.
LEMMA ReadIs ==
    ASSUME CyclesOK(proc, now, Len(recs)), NEW p \in Procs, NEW stage \in Stages, NEW x \in Items \cup Nat,
           NEW w \in Rows, Read(p, stage, x, w)
    PROVE  \E c \in Cycles :
            /\ proc' = [proc EXCEPT ![p] = c]
            /\ c.stage = stage /\ c.todo = proc[p].todo \ {x} /\ c.issues = proc[p].issues
            /\ c.polledAt = proc[p].polledAt /\ c.cutoff = proc[p].cutoff
            /\ c.newer = proc[p].newer /\ c.overtaken = proc[p].overtaken
<1> DEFINE c == [proc[p] EXCEPT !.stage = stage, !.todo = proc[p].todo \ {x}, !.at = <<x>>,
                                !.write = w]
<1>1. proc[p] \in Cycles
    BY DEF CyclesOK
<1>2. <<x>> \in Seq(Items \cup Nat)
    OBVIOUS
<1>3. c \in Cycles
    BY <1>1, <1>2 DEF Cycles
<1>4. /\ c.stage = stage /\ c.todo = proc[p].todo \ {x} /\ c.issues = proc[p].issues
            /\ c.polledAt = proc[p].polledAt /\ c.cutoff = proc[p].cutoff
            /\ c.newer = proc[p].newer /\ c.overtaken = proc[p].overtaken
    BY <1>1 DEF Cycles
<1>5. proc' = [proc EXCEPT ![p] = c]
    BY DEF Read
<1> HIDE DEF c
<1> QED BY <1>3, <1>4, <1>5

\* Skip, of a cycle alone.
LEMMA SkipIs ==
    ASSUME CyclesOK(proc, now, Len(recs)), NEW p \in Procs, NEW x, Skip(p, x)
    PROVE  \E c \in Cycles :
            /\ proc' = [proc EXCEPT ![p] = c]
            /\ c.stage = proc[p].stage /\ c.todo = proc[p].todo \ {x} /\ c.issues = proc[p].issues
            /\ c.polledAt = proc[p].polledAt /\ c.cutoff = proc[p].cutoff
            /\ c.newer = proc[p].newer /\ c.overtaken = proc[p].overtaken
<1> DEFINE c == [proc[p] EXCEPT !.todo = @ \ {x}]
<1>1. proc[p] \in Cycles
    BY DEF CyclesOK
<1>2. c \in Cycles
    BY <1>1 DEF Cycles
<1>3. /\ c.stage = proc[p].stage /\ c.todo = proc[p].todo \ {x} /\ c.issues = proc[p].issues
            /\ c.polledAt = proc[p].polledAt /\ c.cutoff = proc[p].cutoff
            /\ c.newer = proc[p].newer /\ c.overtaken = proc[p].overtaken
    BY <1>1 DEF Cycles
<1>4. proc' = [proc EXCEPT ![p] = c]
    BY DEF Skip, CyclesOK
<1> HIDE DEF c
<1> QED BY <1>2, <1>3, <1>4

\* EndSync, of a cycle alone.
LEMMA EndSyncIs ==
    ASSUME CyclesOK(proc, now, Len(recs)), NEW p \in Procs, EndSync(p)
    PROVE  \E c \in Cycles :
            /\ proc' = [proc EXCEPT ![p] = c]
            /\ c.stage = "probe" /\ c.todo = {}
            /\ c.polledAt = 0 /\ c.cutoff = proc[p].cutoff
            /\ c.newer = proc[p].newer /\ c.overtaken = proc[p].overtaken
<1> DEFINE c == [Idle EXCEPT !.stage = "probe", !.cutoff = proc[p].cutoff,
                             !.overtaken = proc[p].overtaken, !.newer = proc[p].newer]
<1>1. proc[p] \in Cycles
    BY DEF CyclesOK
<1>2. Idle \in Cycles /\ Idle.polledAt = 0 /\ Idle.todo = {}
    <2>1. CycleOK(Idle, 0, 0)
        BY IdleIs
    <2> QED BY <2>1 DEF CycleOK, Idle
<1>3. c \in Cycles
    BY <1>1, <1>2 DEF Cycles, Stages
<1>4. /\ c.stage = "probe" /\ c.todo = {}
            /\ c.polledAt = 0 /\ c.cutoff = proc[p].cutoff
            /\ c.newer = proc[p].newer /\ c.overtaken = proc[p].overtaken
    BY <1>1, <1>2 DEF Cycles
<1>5. proc' = [proc EXCEPT ![p] = c]
    BY DEF EndSync
<1> HIDE DEF c
<1> QED BY <1>3, <1>4, <1>5

\* One cycle goes on.
LEMMA CycleMoves ==
    ASSUME now \in Nat, now' \in Nat, now <= now', Len(recs) \in Nat, Len(recs') \in Nat,
           Len(recs) <= Len(recs'), CyclesOK(proc, now, Len(recs)), NEW p \in Procs,
           NEW c, CycleOK(c, now', Len(recs')), proc' = [proc EXCEPT ![p] = c]
    PROVE  CyclesOK(proc', now', Len(recs'))
<1>1. \A q \in Procs : CycleOK(proc[q], now', Len(recs'))
    BY CyclesGrow DEF CyclesOK
<1>2. c \in Cycles
    BY DEF CycleOK
<1>3. proc' \in [Procs -> Cycles]
    BY <1>2 DEF CyclesOK
<1>4. \A q \in Procs : proc'[q] = IF q = p THEN c ELSE proc[q]
    BY DEF CyclesOK
<1> QED BY <1>1, <1>3, <1>4 DEF CyclesOK

\* A cycle goes on within the same repository: its times and its newer results stay.
LEMMA CycleGoesOn ==
    ASSUME now \in Nat, Len(recs) \in Nat, now' = now, Len(recs') = Len(recs),
           CyclesOK(proc, now, Len(recs)), NEW p \in Procs,
           NEW c \in Cycles, proc' = [proc EXCEPT ![p] = c],
           c.polledAt = proc[p].polledAt \/ c.polledAt = 0, c.cutoff = proc[p].cutoff,
           c.newer = proc[p].newer, c.overtaken = proc[p].overtaken,
           c.stage \notin {"idle", "load"} \/ c.stage = proc[p].stage,
           c.stage \notin {"reconcile", "reconciled"} => c.todo \subseteq Items,
           c.todo \subseteq Items \cup 1 .. Len(recs),
           c.stage \in {"sync", "refresh", "refreshed"} => c.issues \in [Items -> Issues],
           c.stage \in {"probing", "probed"} => c.issues \in [Items -> Rows]
    PROVE  CyclesOK(proc', now', Len(recs'))
<1>1. CycleOK(proc[p], now, Len(recs))
    BY DEF CyclesOK
<1>2. CycleOK(c, now, Len(recs))
    BY <1>1 DEF CycleOK
<1>3. CycleOK(c, now', Len(recs'))
    BY <1>2
<1>4. now' \in Nat /\ Len(recs') \in Nat /\ now <= now' /\ Len(recs) <= Len(recs')
    OBVIOUS
<1> HIDE DEF CycleOK, CyclesOK
<1> QED BY <1>3, <1>4, CycleMoves

\* A cycle begins: nobody is ahead of it, and the other one is behind it.
LEMMA BeginIs ==
    ASSUME now \in Time, Len(recs) \in Nat, now' = now, Len(recs') = Len(recs),
           CyclesOK(proc, now, Len(recs)), NEW p \in Procs,
           NEW cycle \in Cycles, BeginCycle(p, cycle), cycle.newer = {},
           cycle.stage \in {"list", "sync"}, cycle.todo \subseteq Items,
           cycle.stage = "sync" => cycle.issues \in [Items -> Issues]
    PROVE  CyclesOK(proc', now', Len(recs'))
<1> DEFINE c == [cycle EXCEPT !.polledAt = now, !.cutoff = Len(recs)]
           d(q) == [proc[q] EXCEPT !.overtaken = proc[q].stage \notin {"idle", "load"}]
<1>1. now \in Nat /\ \A q \in Procs : proc[q] \in Cycles /\ CycleOK(proc[q], now, Len(recs))
    BY DEF CyclesOK, Time
<1>2. CycleOK(c, now, Len(recs))
    <2>1. c \in Cycles
        BY <1>1 DEF Cycles
    <2>2. /\ c.polledAt = now /\ c.cutoff = Len(recs) /\ c.newer = {} /\ c.stage = cycle.stage
          /\ c.todo = cycle.todo /\ c.issues = cycle.issues
        BY DEF Cycles
    <2> HIDE DEF c
    <2> QED BY <1>1, <2>1, <2>2 DEF CycleOK
<1>3. ASSUME NEW q \in Procs
      PROVE  CycleOK(d(q), now, Len(recs))
    <2>1. proc[q] \in Cycles /\ CycleOK(proc[q], now, Len(recs))
        BY <1>1
    <2>2. d(q) \in Cycles
        BY <2>1 DEF Cycles
    <2>3. /\ d(q).polledAt = proc[q].polledAt /\ d(q).cutoff = proc[q].cutoff
          /\ d(q).newer = proc[q].newer /\ d(q).stage = proc[q].stage
          /\ d(q).todo = proc[q].todo /\ d(q).issues = proc[q].issues
          /\ d(q).overtaken <=> proc[q].stage \notin {"idle", "load"}
        BY <2>1 DEF Cycles
    <2> HIDE DEF d
    <2> QED BY <2>1, <2>2, <2>3 DEF CycleOK
<1>4. proc' = [q \in Procs |-> IF q = p THEN c ELSE d(q)]
    BY DEF BeginCycle
<1> HIDE DEF c, d
<1>5. \A q \in Procs : CycleOK(proc'[q], now, Len(recs))
    BY <1>2, <1>3, <1>4
<1>6. \A q \in Procs : proc'[q] \in Cycles
    BY <1>5 DEF CycleOK
<1>7. proc' \in [Procs -> Cycles]
    BY <1>4, <1>6
<1> QED BY <1>5, <1>7 DEF CyclesOK

\* The steps that only go on within a cycle.
LEMMA PlainTypes ==
    ASSUME IInv, Typed, NEW p \in Procs,
           \/ p = "daemon" /\ (DaemonBegins \/ ListNeedingTriage \/ BeginReconcile \/ SyncFails
                               \/ ProbeList \/ FixStageDidWork)
           \/ p = "manual" /\ (ManualLoads \/ ManualFails)
           \/ NotDue(p) \/ ListTriaged(p) \/ EndRefresh(p) \/ BeginAgents(p) \/ EndCycle(p)
    PROVE  Typed'
<1>1. /\ now \in Time /\ now \in Nat /\ recs \in Seq(Recs) /\ Len(recs) \in Nat
      /\ CyclesOK(proc, now, Len(recs)) /\ \A q \in Procs : CycleOK(proc[q], now, Len(recs))
      /\ gh \in [Items -> Issues] /\ row \in [Items -> Rows] /\ lastRefresh \in Time
    BY DEF IInv, Typed, Time, CyclesOK
<1>2. /\ UNCHANGED <<now, gh, row, recs, user>>
      /\ lastRefresh' \in {lastRefresh, proc[p].polledAt}
    BY DEF DaemonBegins, ListNeedingTriage, BeginReconcile, SyncFails, ProbeList, FixStageDidWork,
           ManualLoads, ManualFails, NotDue, ListTriaged, EndRefresh, BeginAgents, EndCycle, store
<1>3. lastRefresh' \in Time
    BY <1>1, <1>2 DEF CycleOK, Cycles
<1>4. ASSUME CyclesOK(proc', now', Len(recs'))
      PROVE  Typed'
    BY <1>1, <1>2, <1>3, <1>4 DEF Typed
<1>5. now' = now /\ Len(recs') = Len(recs)
    BY <1>2
<1>6. "daemon" \in Procs /\ "manual" \in Procs /\ Procs = {"daemon", "manual"}
    BY DEF Procs
<1>7. CycleOK(Idle, now, Len(recs)) /\ Idle \in Cycles /\ Idle.newer = {} /\ Idle.todo = {}
    BY <1>1, IdleIs DEF CycleOK, Idle
<1>8. CASE DaemonBegins
    <2> DEFINE c == [Idle EXCEPT !.stage = "list"]
    <2>1. c \in Cycles /\ c.newer = {} /\ c.todo = {} /\ c.stage = "list"
        BY <1>7 DEF Cycles, Stages
    <2>2. BeginCycle("daemon", c)
        BY <1>8 DEF DaemonBegins
    <2> HIDE DEF c
    <2>3. CyclesOK(proc', now', Len(recs'))
        BY <1>1, <1>5, <1>6, <2>1, <2>2, BeginIs
    <2> QED BY <1>4, <2>3
<1>9. CASE ListNeedingTriage
    <2> DEFINE open == {i \in Items : gh[i].open /\ ~gh[i].label}
               c == [proc["daemon"] EXCEPT !.stage = "sync", !.todo = open, !.listed = open,
                                           !.issues = gh]
    <2>1. proc["daemon"] \in Cycles
        BY <1>1, <1>6 DEF CyclesOK
    <2>2. open \in SUBSET Items
        OBVIOUS
    <2>3. proc' = [proc EXCEPT !["daemon"] = c]
        BY <1>9 DEF ListNeedingTriage
    <2> HIDE DEF open
    <2>4. c \in Cycles
        BY <1>1, <2>1, <2>2 DEF Cycles, Stages
    <2>5. /\ c.polledAt = proc["daemon"].polledAt /\ c.cutoff = proc["daemon"].cutoff
          /\ c.newer = proc["daemon"].newer /\ c.overtaken = proc["daemon"].overtaken
          /\ c.stage = "sync" /\ c.todo = open /\ c.issues = gh
        BY <2>1 DEF Cycles
    <2> HIDE DEF c
    <2>6. CyclesOK(proc', now', Len(recs'))
        BY <1>1, <1>5, <1>6, <2>2, <2>3, <2>4, <2>5, CycleGoesOn
    <2> QED BY <1>4, <2>6
<1>10. ASSUME NEW stage \in Stages \ {"idle", "load", "sync"}, NEW todo \in SUBSET (Items \cup 1 .. Len(recs)),
              NEW issues \in [Items -> Issues] \cup [Items -> Rows] \cup {<< >>},
              Goto(p, stage, todo, issues),
              stage # "reconcile" => todo \subseteq Items,
              stage \in {"refresh", "refreshed"} => issues \in [Items -> Issues],
              stage \in {"probing", "probed"} => issues \in [Items -> Rows]
       PROVE  Typed'
    <2>1. todo \in SUBSET (Items \cup Nat)
        BY <1>1
    <2>2. PICK c \in Cycles :
            /\ proc' = [proc EXCEPT ![p] = c]
            /\ c.stage = stage /\ c.todo = todo /\ c.issues = issues
            /\ c.polledAt = proc[p].polledAt /\ c.cutoff = proc[p].cutoff
            /\ c.newer = proc[p].newer /\ c.overtaken = proc[p].overtaken
        BY <1>1, <1>10, <2>1, GotoIs
    <2>3. CyclesOK(proc', now', Len(recs'))
        BY <1>1, <1>5, <1>10, <2>2, CycleGoesOn
    <2> QED BY <1>4, <2>3
<1>11. CASE p = "daemon" /\ BeginReconcile
    <2>1. {r \in DOMAIN recs : recs[r].live} \subseteq 1 .. Len(recs)
        BY <1>1
    <2> QED BY <1>10, <1>11, <2>1 DEF BeginReconcile, Stages
<1>12. CASE ListTriaged(p)
    BY <1>1, <1>10, <1>12 DEF ListTriaged, Stages
<1>13. CASE p = "daemon" /\ ProbeList
    BY <1>1, <1>10, <1>13 DEF ProbeList, Stages, MaintainerOpenTriagedItems
<1>14. CASE BeginAgents(p)
    BY <1>10, <1>14 DEF BeginAgents, Stages
<1>15. CASE (p = "daemon" /\ SyncFails) \/ NotDue(p) \/ EndRefresh(p)
    <2>1. EndSync(p)
        BY <1>15 DEF SyncFails, NotDue, EndRefresh
    <2>2. PICK c \in Cycles :
            /\ proc' = [proc EXCEPT ![p] = c]
            /\ c.stage = "probe" /\ c.todo = {}
            /\ c.polledAt = 0 /\ c.cutoff = proc[p].cutoff
            /\ c.newer = proc[p].newer /\ c.overtaken = proc[p].overtaken
        BY <1>1, <2>1, EndSyncIs
    <2>3. CyclesOK(proc', now', Len(recs'))
        BY <1>1, <1>5, <2>2, CycleGoesOn
    <2> QED BY <1>4, <2>3
<1>16. CASE (p = "daemon" /\ FixStageDidWork) \/ (p = "manual" /\ ManualFails) \/ EndCycle(p)
    <2>1. proc' = [proc EXCEPT ![p] = Idle]
        BY <1>16 DEF FixStageDidWork, ManualFails, EndCycle
    <2>2. CyclesOK(proc', now', Len(recs'))
        <3>1. /\ CycleOK(Idle, now', Len(recs')) /\ now' \in Nat /\ Len(recs') \in Nat
              /\ now <= now' /\ Len(recs) <= Len(recs')
            BY <1>1, <1>5, <1>7
        <3> HIDE DEF CycleOK, CyclesOK
        <3> QED BY <1>1, <2>1, <3>1, CycleMoves
    <2> QED BY <1>4, <2>2
<1>17. CASE p = "manual" /\ ManualLoads
    <2> DEFINE issues == [i \in Items |->
                    [gh[i] EXCEPT !.label = gh[i].label /\ (row[i].known => row[i].triaged)]]
               c == [proc["manual"] EXCEPT !.stage = "sync", !.issues = issues]
    <2>1. proc["manual"] \in Cycles /\ proc["manual"].stage = "load"
        BY <1>1, <1>6, <1>17 DEF CyclesOK, ManualLoads
    <2>2. issues \in [Items -> Issues]
        <3>1. ASSUME NEW i \in Items
              PROVE  [gh[i] EXCEPT !.label = gh[i].label /\ (row[i].known => row[i].triaged)] \in Issues
            <4>1. gh[i] \in Issues
                BY <1>1
            <4>2. (gh[i].label /\ (row[i].known => row[i].triaged)) \in BOOLEAN
                OBVIOUS
            <4> QED BY <4>1, <4>2 DEF Issues
        <3> QED BY <3>1
    <2>3. BeginCycle("manual", c)
        BY <1>17 DEF ManualLoads
    <2> HIDE DEF issues
    <2>4. c \in Cycles
        BY <2>1, <2>2 DEF Cycles, Stages
    <2>5. c.newer = proc["manual"].newer /\ c.stage = "sync" /\ c.todo = proc["manual"].todo
          /\ c.issues = issues
        BY <2>1 DEF Cycles
    <2>6. proc["manual"].newer = {} /\ proc["manual"].todo \subseteq Items
        BY <1>1, <1>6, <2>1 DEF CycleOK
    <2> HIDE DEF c
    <2>7. CyclesOK(proc', now', Len(recs'))
        BY <1>1, <1>5, <1>6, <2>2, <2>3, <2>4, <2>5, <2>6, BeginIs
    <2> QED BY <1>4, <2>7
<1> QED BY <1>8, <1>9, <1>11, <1>12, <1>13, <1>14, <1>15, <1>16, <1>17

\* Superseding neither inserts nor removes.
LEMMA SupersedeKeepsLength ==
    ASSUME recs \in Seq(Recs), NEW S, Supersede(S)
    PROVE  Len(recs') = Len(recs)
BY DEF Supersede

\* A cycle skips an issue.
LEMMA SkipTypes ==
    ASSUME now \in Nat, Len(recs) \in Nat, now' = now, Len(recs') = Len(recs),
           CyclesOK(proc, now, Len(recs)), NEW p \in Procs, NEW x, Skip(p, x)
    PROVE  CyclesOK(proc', now', Len(recs'))
<1>1. PICK c \in Cycles :
        /\ proc' = [proc EXCEPT ![p] = c]
        /\ c.stage = proc[p].stage /\ c.todo = proc[p].todo \ {x} /\ c.issues = proc[p].issues
        /\ c.polledAt = proc[p].polledAt /\ c.cutoff = proc[p].cutoff
        /\ c.newer = proc[p].newer /\ c.overtaken = proc[p].overtaken
    BY SkipIs
<1>2. CycleOK(proc[p], now, Len(recs))
    BY DEF CyclesOK
<1>3. /\ c.stage \notin {"reconcile", "reconciled"} => c.todo \subseteq Items
      /\ c.todo \subseteq Items \cup 1 .. Len(recs)
      /\ c.stage \in {"sync", "refresh", "refreshed"} => c.issues \in [Items -> Issues]
      /\ c.stage \in {"probing", "probed"} => c.issues \in [Items -> Rows]
    BY <1>1, <1>2 DEF CycleOK
<1> QED BY <1>1, <1>3, CycleGoesOn

\* A cycle has read what it needs to know about one of its issues.
LEMMA ReadTypes ==
    ASSUME now \in Nat, Len(recs) \in Nat, now' = now, Len(recs') = Len(recs),
           CyclesOK(proc, now, Len(recs)), NEW p \in Procs, NEW x \in Items \cup Nat, NEW w \in Rows,
           NEW stage, Read(p, stage, x, w),
           <<proc[p].stage, stage>> \in {<<"reconcile", "reconciled">>, <<"refresh", "refreshed">>,
                                         <<"probing", "probed">>}
    PROVE  CyclesOK(proc', now', Len(recs'))
<1>1. stage \in Stages /\ stage \in {"reconciled", "refreshed", "probed"}
    BY DEF Stages
<1>2. PICK c \in Cycles :
        /\ proc' = [proc EXCEPT ![p] = c]
        /\ c.stage = stage /\ c.todo = proc[p].todo \ {x} /\ c.issues = proc[p].issues
        /\ c.polledAt = proc[p].polledAt /\ c.cutoff = proc[p].cutoff
        /\ c.newer = proc[p].newer /\ c.overtaken = proc[p].overtaken
    BY <1>1, ReadIs
<1>3. CycleOK(proc[p], now, Len(recs))
    BY DEF CyclesOK
<1>4. /\ c.stage \notin {"idle", "load"}
      /\ c.stage \notin {"reconcile", "reconciled"} => c.todo \subseteq Items
      /\ c.todo \subseteq Items \cup 1 .. Len(recs)
      /\ c.stage \in {"sync", "refresh", "refreshed"} => c.issues \in [Items -> Issues]
      /\ c.stage \in {"probing", "probed"} => c.issues \in [Items -> Rows]
    BY <1>1, <1>2, <1>3 DEF CycleOK
<1> QED BY <1>2, <1>4, CycleGoesOn

\* A cycle has written it and goes on with the next one.
LEMMA WrittenTypes ==
    ASSUME now \in Nat, Len(recs) \in Nat, now' = now, Len(recs') = Len(recs),
           CyclesOK(proc, now, Len(recs)), NEW p \in Procs, NEW stage, NEW issues,
           Goto(p, stage, proc[p].todo, issues),
           \/ proc[p].stage = "reconciled" /\ stage = "reconcile" /\ issues = << >>
           \/ proc[p].stage = "refreshed" /\ stage = "refresh" /\ issues = proc[p].issues
           \/ proc[p].stage = "probed" /\ stage = "probing" /\ issues = proc[p].issues
    PROVE  CyclesOK(proc', now', Len(recs'))
<1>1. stage \in Stages /\ stage \in {"reconcile", "refresh", "probing"}
    BY DEF Stages
<1>2. CycleOK(proc[p], now, Len(recs))
    BY DEF CyclesOK
<1>3. /\ proc[p].todo \in SUBSET (Items \cup Nat)
      /\ issues \in [Items -> Issues] \cup [Items -> Rows] \cup {<< >>}
    BY <1>2 DEF CycleOK, Cycles
<1>4. PICK c \in Cycles :
        /\ proc' = [proc EXCEPT ![p] = c]
        /\ c.stage = stage /\ c.todo = proc[p].todo /\ c.issues = issues
        /\ c.polledAt = proc[p].polledAt /\ c.cutoff = proc[p].cutoff
        /\ c.newer = proc[p].newer /\ c.overtaken = proc[p].overtaken
    <2>1. PICK todo : todo = proc[p].todo
        OBVIOUS
    <2>2. todo \in SUBSET (Items \cup Nat) /\ Goto(p, stage, todo, issues)
        BY <1>3, <2>1
    <2>3. \E c \in Cycles :
            /\ proc' = [proc EXCEPT ![p] = c]
            /\ c.stage = stage /\ c.todo = todo /\ c.issues = issues
            /\ c.polledAt = proc[p].polledAt /\ c.cutoff = proc[p].cutoff
            /\ c.newer = proc[p].newer /\ c.overtaken = proc[p].overtaken
        BY <1>1, <1>3, <2>2, GotoIs
    <2> QED BY <2>1, <2>3
<1>5. /\ c.stage \notin {"idle", "load"}
      /\ c.stage \notin {"reconcile", "reconciled"} => c.todo \subseteq Items
      /\ c.todo \subseteq Items \cup 1 .. Len(recs)
      /\ c.stage \in {"sync", "refresh", "refreshed"} => c.issues \in [Items -> Issues]
      /\ c.stage \in {"probing", "probed"} => c.issues \in [Items -> Rows]
    BY <1>1, <1>2, <1>4 DEF CycleOK
<1> QED BY <1>4, <1>5, CycleGoesOn

\* A result is inserted: it is newer for the cycle that the other one overtook.
LEMMA RecommendTypes ==
    ASSUME IInv, Typed, NEW p \in Procs, NEW i \in Items, Recommend(p, i)
    PROVE  Typed'
<1>1. /\ now \in Nat /\ recs \in Seq(Recs) /\ Len(recs) \in Nat /\ MaxRecs \in Nat
      /\ CyclesOK(proc, now, Len(recs)) /\ \A q \in Procs : CycleOK(proc[q], now, Len(recs))
    BY BoundsAssumption DEF IInv, Typed, Time, CyclesOK
<1> DEFINE r == Len(recs) + 1
<1>2. Len(recs') = r /\ r <= MaxRecs /\ UNCHANGED <<now, gh, row, lastRefresh, user>>
    <2> DEFINE old == [s \in DOMAIN recs |->
                          [recs[s] EXCEPT !.live = @ /\ ~(recs[s].item = i /\ CreatedBefore(p, s))]]
               new == [item |-> i, at |-> now, live |-> TRUE]
    <2>1. recs' = Append(old, new) /\ r <= MaxRecs
          /\ UNCHANGED <<now, gh, row, lastRefresh, user>>
        BY DEF Recommend
    <2>2. DOMAIN old = 1 .. Len(recs)
        BY <1>1
    <2> HIDE DEF old, new
    <2>3. Len(old) = Len(recs) /\ recs' \in Seq(Recs)
        BY <1>1, <2>2, RecommendIsSafe
    <2>4. DOMAIN recs' = 1 .. Len(recs) + 1
        BY <1>1, <2>1, <2>3 DEF Append
    <2> QED BY <1>1, <2>1, <2>3, <2>4
<1> DEFINE mine == [proc[p] EXCEPT !.todo = @ \ {i}]
           theirs(q) == [proc[q] EXCEPT !.newer = @ \cup {r}]
<1>3. CycleOK(mine, now, r)
    <2>1. proc[p] \in Cycles /\ CycleOK(proc[p], now, Len(recs))
        BY <1>1 DEF CycleOK
    <2>2. mine \in Cycles
        BY <2>1 DEF Cycles
    <2>3. /\ mine.polledAt = proc[p].polledAt /\ mine.cutoff = proc[p].cutoff
          /\ mine.newer = proc[p].newer /\ mine.stage = proc[p].stage
          /\ mine.todo = proc[p].todo \ {i} /\ mine.issues = proc[p].issues
          /\ mine.overtaken = proc[p].overtaken
        BY <2>1 DEF Cycles
    <2> HIDE DEF mine
    <2>4. CycleOK(mine, now, Len(recs))
        BY <2>1, <2>2, <2>3 DEF CycleOK
    <2>5. Len(recs) <= r /\ r \in Nat /\ now <= now
        BY <1>1
    <2> QED BY <1>1, <2>4, <2>5, CyclesGrow
<1>4. ASSUME NEW q \in Procs
      PROVE  CycleOK(proc[q], now, r) /\ (proc[q].overtaken => CycleOK(theirs(q), now, r))
    <2>1. proc[q] \in Cycles /\ CycleOK(proc[q], now, Len(recs))
        BY <1>1 DEF CycleOK
    <2>2. CycleOK(proc[q], now, r)
        <3>1. Len(recs) <= r /\ r \in Nat /\ now <= now
            BY <1>1
        <3> QED BY <1>1, <2>1, <3>1, CyclesGrow
    <2>3. theirs(q) \in Cycles
        <3>1. proc[q].newer \cup {r} \in SUBSET Nat
            BY <1>1, <2>1 DEF Cycles
        <3> HIDE DEF r
        <3> QED BY <2>1, <3>1 DEF Cycles
    <2>4. /\ theirs(q).polledAt = proc[q].polledAt /\ theirs(q).cutoff = proc[q].cutoff
          /\ theirs(q).newer = proc[q].newer \cup {r} /\ theirs(q).stage = proc[q].stage
          /\ theirs(q).todo = proc[q].todo /\ theirs(q).issues = proc[q].issues
          /\ theirs(q).overtaken = proc[q].overtaken
        BY <2>1 DEF Cycles
    <2>5. proc[q].cutoff \in Nat /\ proc[q].cutoff <= Len(recs)
        BY <2>1 DEF CycleOK, Cycles
    <2> HIDE DEF theirs
    <2>6. ASSUME proc[q].overtaken
          PROVE  CycleOK(theirs(q), now, r)
        <3>1. theirs(q).newer \subseteq 1 .. r /\ \A s \in theirs(q).newer : s > theirs(q).cutoff
            BY <1>1, <2>2, <2>4, <2>5 DEF CycleOK
        <3> QED BY <2>2, <2>3, <2>4, <2>6, <3>1 DEF CycleOK
    <2> QED BY <2>2, <2>6
<1>5. proc' = [q \in Procs |->
                   IF q = p THEN mine
                   ELSE IF proc[q].overtaken /\ ~proc[p].overtaken THEN theirs(q) ELSE proc[q]]
    BY DEF Recommend
<1> HIDE DEF mine, theirs, r
<1>6. \A q \in Procs : CycleOK(proc'[q], now, r)
    BY <1>3, <1>4, <1>5
<1>7. CyclesOK(proc', now', Len(recs'))
    <2>1. \A q \in Procs : proc'[q] \in Cycles
        BY <1>6 DEF CycleOK
    <2>2. proc' \in [Procs -> Cycles]
        BY <1>5, <2>1
    <2> QED BY <1>2, <1>6, <2>2 DEF CyclesOK
<1>8. UserOK(user', Len(recs'))
    <2>1. 1 .. Len(recs) \subseteq 1 .. Len(recs')
        BY <1>1, <1>2 DEF r
    <2> QED BY <1>2, <2>1 DEF Typed, UserOK
<1> QED BY <1>2, <1>7, <1>8 DEF Typed

\* The steps that write a row, or read what they will write.
LEMMA ItemTypes ==
    ASSUME IInv, Typed, NEW p \in Procs, NEW i \in Items,
           \/ SyncItem(p, i) \/ Discard(p, i) \/ TriageFails(p, i)
           \/ RefreshRead(i) \/ RefreshWrite(i) \/ ProbeRead(i) \/ ProbeWrite(i)
    PROVE  Typed'
<1>1. /\ now \in Nat /\ recs \in Seq(Recs) /\ Len(recs) \in Nat /\ "daemon" \in Procs
      /\ CyclesOK(proc, now, Len(recs)) /\ \A q \in Procs : CycleOK(proc[q], now, Len(recs))
      /\ gh \in [Items -> Issues] /\ row \in [Items -> Rows]
    BY DEF IInv, Typed, Time, CyclesOK, Procs
<1>2. UNCHANGED <<now, gh, lastRefresh, user>>
    BY DEF SyncItem, Discard, TriageFails, RefreshRead, RefreshWrite, ProbeRead, ProbeWrite, store
<1>3. Len(recs') = Len(recs)
    BY <1>1, SupersedeKeepsLength
    DEF SyncItem, Discard, TriageFails, RefreshRead, RefreshWrite, ProbeRead, ProbeWrite, store
<1>4. ASSUME CyclesOK(proc', now', Len(recs')), row' \in [Items -> Rows]
      PROVE  Typed'
    BY <1>2, <1>3, <1>4 DEF Typed
<1>5. now' = now
    BY <1>2
<1>6. CASE SyncItem(p, i)
    <2>1. row' = [row EXCEPT ![i] = SyncedRow(proc[p].issues[i])] /\ Skip(p, i)
          /\ proc[p].issues[i] \in Issues
        BY <1>1, <1>6 DEF SyncItem, CycleOK
    <2>2. SyncedRow(proc[p].issues[i]) \in Rows
        BY <2>1, BoundsAssumption DEF SyncedRow, Issues, Rows, Time
    <2>3. row' \in [Items -> Rows]
        BY <1>1, <2>1, <2>2
    <2> QED BY <1>1, <1>3, <1>4, <1>5, <2>1, <2>3, SkipTypes
<1>7. CASE Discard(p, i) \/ TriageFails(p, i)
    <2>1. row' = row /\ Skip(p, i)
        BY <1>7 DEF Discard, TriageFails, store
    <2> QED BY <1>1, <1>3, <1>4, <1>5, <2>1, SkipTypes
<1>8. CASE RefreshRead(i)
    <2> DEFINE seen == proc["daemon"].issues[i]
               hasActivity == /\ seen.open
                              /\ ShouldCheckPostLabelActivity(i, seen)
                              /\ HasActivityAfterLabelSince(i, row[i].selfAt)
               w == [known |-> TRUE, open |-> seen.open, triaged |-> ~hasActivity,
                     lastEvent |-> seen.updated, selfAt |-> row[i].selfAt]
    <2>1. seen \in Issues /\ row[i] \in Rows /\ proc["daemon"].stage = "refresh"
        BY <1>1, <1>8 DEF RefreshRead, CycleOK
    <2>2. Read("daemon", "refreshed", i, w) /\ row' = row
        BY <1>8 DEF RefreshRead, store
    <2>3. (~hasActivity) \in BOOLEAN
        OBVIOUS
    <2> HIDE DEF seen, hasActivity
    <2>4. w \in Rows
        BY <2>1, <2>3 DEF Rows, Issues
    <2> HIDE DEF w
    <2>5. CyclesOK(proc', now', Len(recs'))
        BY <1>1, <1>3, <1>5, <2>1, <2>2, <2>4, ReadTypes
    <2> QED BY <1>1, <1>4, <2>2, <2>5
<1>9. CASE ProbeRead(i)
    <2>1. CASE Skip("daemon", i)
        <3>1. row' = row
            BY <1>9 DEF ProbeRead, store
        <3> QED BY <1>1, <1>3, <1>4, <1>5, <2>1, <3>1, SkipTypes
    <2>2. CASE ~Skip("daemon", i)
        <3> DEFINE w == [proc["daemon"].issues[i] EXCEPT !.triaged = FALSE]
        <3>1. Read("daemon", "probed", i, w) /\ row' = row /\ proc["daemon"].stage = "probing"
            BY <1>9, <2>2 DEF ProbeRead, store
        <3>2. proc["daemon"].issues[i] \in Rows
            BY <1>1, <3>1 DEF CycleOK
        <3>3. w \in Rows
            BY <3>2 DEF Rows
        <3> HIDE DEF w
        <3>4. CyclesOK(proc', now', Len(recs'))
            BY <1>1, <1>3, <1>5, <3>1, <3>3, ReadTypes
        <3> QED BY <1>1, <1>4, <3>1, <3>4
    <2> QED BY <2>1, <2>2
<1>10. CASE RefreshWrite(i) \/ ProbeWrite(i)
    <2>1. proc["daemon"].write \in Rows
        BY <1>1 DEF CycleOK, Cycles
    <2>2. row' = [row EXCEPT ![i] = proc["daemon"].write]
        BY <1>10 DEF RefreshWrite, ProbeWrite
    <2>3. row' \in [Items -> Rows]
        BY <1>1, <2>1, <2>2
    <2>4. PICK stage :
            /\ Goto("daemon", stage, proc["daemon"].todo, proc["daemon"].issues)
            /\ \/ proc["daemon"].stage = "refreshed" /\ stage = "refresh"
               \/ proc["daemon"].stage = "probed" /\ stage = "probing"
        BY <1>10 DEF RefreshWrite, ProbeWrite
    <2>5. CyclesOK(proc', now', Len(recs'))
        BY <1>1, <1>3, <1>5, <2>4, WrittenTypes
    <2> QED BY <1>4, <2>3, <2>5
<1> QED BY <1>6, <1>7, <1>8, <1>9, <1>10

\* The steps about a recommendation.
LEMMA RecTypes ==
    ASSUME IInv, Typed, NEW r \in DOMAIN recs, ReconcileRead(r) \/ ReconcileWrite(r)
    PROVE  Typed'
<1>1. /\ now \in Nat /\ recs \in Seq(Recs) /\ Len(recs) \in Nat /\ "daemon" \in Procs
      /\ CyclesOK(proc, now, Len(recs)) /\ \A q \in Procs : CycleOK(proc[q], now, Len(recs))
      /\ gh \in [Items -> Issues] /\ row \in [Items -> Rows]
    BY DEF IInv, Typed, Time, CyclesOK, Procs
<1>2. UNCHANGED <<now, gh, lastRefresh, user>>
    BY DEF ReconcileRead, ReconcileWrite, store
<1>3. Len(recs') = Len(recs) /\ now' = now
    BY <1>1, <1>2, SupersedeKeepsLength DEF ReconcileRead, ReconcileWrite, store
<1>4. ASSUME CyclesOK(proc', now', Len(recs')), row' \in [Items -> Rows]
      PROVE  Typed'
    BY <1>2, <1>3, <1>4 DEF Typed
<1>5. r \in Nat /\ recs[r].item \in Items
    <2>1. recs[r] \in Recs
        BY <1>1
    <2> QED BY <1>1, <2>1 DEF Recs
<1>6. CASE ReconcileRead(r) /\ Skip("daemon", r)
    <2>1. row' = row
        BY <1>6 DEF ReconcileRead, store
    <2> QED BY <1>1, <1>3, <1>4, <1>6, <2>1, SkipTypes
<1>7. CASE ReconcileRead(r) /\ ~Skip("daemon", r)
    <2> DEFINE i == recs[r].item
               w == [row[i] EXCEPT !.open = gh[i].open, !.triaged = ReconciledGHTriaged(i),
                                   !.lastEvent = gh[i].updated]
    <2>1. Read("daemon", "reconciled", r, w) /\ row' = row /\ proc["daemon"].stage = "reconcile"
        BY <1>7 DEF ReconcileRead, store
    <2>2. row[i] \in Rows /\ gh[i] \in Issues
        BY <1>1, <1>5
    <2>3. ReconciledGHTriaged(i) \in BOOLEAN
        BY DEF ReconciledGHTriaged
    <2> HIDE DEF i
    <2>4. w \in Rows
        BY <2>2, <2>3 DEF Rows, Issues
    <2> HIDE DEF w
    <2>5. CyclesOK(proc', now', Len(recs'))
        BY <1>1, <1>3, <1>5, <2>1, <2>4, ReadTypes
    <2> QED BY <1>1, <1>4, <2>1, <2>5
<1>8. CASE ReconcileWrite(r)
    <2>1. proc["daemon"].write \in Rows
        BY <1>1 DEF CycleOK, Cycles
    <2>2. /\ row' = [row EXCEPT ![recs[r].item] = proc["daemon"].write]
          /\ Goto("daemon", "reconcile", proc["daemon"].todo, << >>)
          /\ proc["daemon"].stage = "reconciled"
        BY <1>8 DEF ReconcileWrite
    <2>3. row' \in [Items -> Rows]
        BY <1>1, <2>1, <2>2
    <2>4. CyclesOK(proc', now', Len(recs'))
        BY <1>1, <1>3, <2>2, WrittenTypes
    <2> QED BY <1>4, <2>3, <2>4
<1> QED BY <1>6, <1>7, <1>8

\* A manual run is started.
LEMMA ManualTypes ==
    ASSUME IInv, Typed, NEW i \in Items, ManualStarts(i)
    PROVE  Typed'
<1>1. /\ now \in Nat /\ recs \in Seq(Recs) /\ Len(recs) \in Nat /\ "manual" \in Procs
      /\ CyclesOK(proc, now, Len(recs))
    BY DEF IInv, Typed, Time, Procs
<1>2. UNCHANGED <<now, gh, row, lastRefresh, user>>
    BY DEF ManualStarts
<1>3. Len(recs') = Len(recs) /\ now' = now
    BY <1>1, <1>2, SupersedeKeepsLength DEF ManualStarts
<1> DEFINE c == [Idle EXCEPT !.stage = "load", !.todo = {i}]
<1>4. CycleOK(Idle, now, Len(recs)) /\ Idle.newer = {} /\ Idle.overtaken = FALSE
    BY <1>1, IdleIs DEF Idle
<1>5. c \in Cycles
    BY <1>4 DEF CycleOK, Cycles, Stages
<1>6. /\ c.stage = "load" /\ c.todo = {i} /\ c.newer = {} /\ c.overtaken = FALSE
      /\ c.polledAt = Idle.polledAt /\ c.cutoff = Idle.cutoff
    BY <1>4 DEF CycleOK, Cycles
<1>7. proc' = [proc EXCEPT !["manual"] = c]
    BY DEF ManualStarts
<1> HIDE DEF c
<1>8. CycleOK(c, now', Len(recs'))
    BY <1>3, <1>4, <1>5, <1>6 DEF CycleOK
<1>9. now' \in Nat /\ Len(recs') \in Nat /\ now <= now' /\ Len(recs) <= Len(recs')
    BY <1>1, <1>3
<1>10. CyclesOK(proc', now', Len(recs'))
    BY <1>1, <1>7, <1>8, <1>9, CycleMoves
<1> QED BY <1>2, <1>3, <1>10 DEF Typed

\* What GitHub makes of a change leaves an issue an issue.
LEMMA ChangesTypes ==
    ASSUME now \in Time, gh \in [Items -> Issues], NEW i \in Items, NEW issue \in Issues, Changes(i, issue)
    PROVE  gh' \in [Items -> Issues] /\ now' = now + 1 /\ now' \in Time
<1>1. now' = now + 1 /\ now + 1 \in Time /\ gh' = [gh EXCEPT ![i] = [issue EXCEPT !.updated = now + 1]]
    BY BoundsAssumption DEF Changes, Time
<1>2. [issue EXCEPT !.updated = now + 1] \in Issues
    BY <1>1 DEF Issues
<1> QED BY <1>1, <1>2

\* GitHub's clock ticks.
LEMMA ClockTypes ==
    ASSUME now \in Time, now' \in Time, now <= now', Len(recs) \in Nat, Len(recs') = Len(recs),
           CyclesOK(proc, now, Len(recs)), proc' = proc
    PROVE  CyclesOK(proc', now', Len(recs'))
<1>1. now \in Nat /\ now' \in Nat /\ Len(recs) <= Len(recs)
    BY DEF Time
<1>2. \A p \in Procs : CycleOK(proc[p], now', Len(recs))
    BY <1>1, CyclesGrow DEF CyclesOK
<1> QED BY <1>2 DEF CyclesOK

\* What somebody does on GitHub.
LEMMA ActivityTypes ==
    ASSUME IInv, Typed, NEW i \in Items,
           Activity(i) \/ QuietActivity(i) \/ Unlabel(i) \/ CloseByOther(i)
    PROVE  Typed'
<1>1. /\ now \in Time /\ now \in Nat /\ recs \in Seq(Recs) /\ Len(recs) \in Nat
      /\ CyclesOK(proc, now, Len(recs)) /\ gh \in [Items -> Issues] /\ gh[i] \in Issues
    BY DEF IInv, Typed, Time
<1>2. UNCHANGED <<row, recs, lastRefresh, proc, user>>
    BY DEF Activity, QuietActivity, Unlabel, CloseByOther, store
<1>3. gh' \in [Items -> Issues] /\ now' = now + 1 /\ now' \in Time
    <2>1. CASE QuietActivity(i)
        <3>1. now' = now + 1 /\ now + 1 \in Time /\ gh' = [gh EXCEPT ![i].activeAt = now + 1]
            BY <1>1, <2>1, BoundsAssumption DEF QuietActivity, Time
        <3>2. [gh[i] EXCEPT !.activeAt = now + 1] \in Issues
            BY <1>1, <3>1 DEF Issues
        <3>3. gh' = [gh EXCEPT ![i] = [gh[i] EXCEPT !.activeAt = now + 1]]
            BY <3>1
        <3> QED BY <1>1, <3>1, <3>2, <3>3
    <2>2. CASE ~QuietActivity(i)
        <3>1. PICK issue : /\ Changes(i, issue)
                           /\ \/ issue = [gh[i] EXCEPT !.activeAt = now + 1]
                              \/ issue = [gh[i] EXCEPT !.label = FALSE]
                              \/ issue = [gh[i] EXCEPT !.open = FALSE, !.activeAt = now + 1]
            BY <2>2 DEF Activity, Unlabel, CloseByOther
        <3>2. now + 1 \in Time
            BY <1>1, <3>1, BoundsAssumption DEF Changes, Time
        <3>3. issue \in Issues
            BY <1>1, <3>1, <3>2 DEF Issues
        <3> QED BY <1>1, <3>1, <3>3, ChangesTypes
    <2> QED BY <2>1, <2>2
<1>4. now <= now' /\ Len(recs') = Len(recs)
    BY <1>1, <1>2, <1>3
<1>5. CyclesOK(proc', now', Len(recs'))
    BY <1>1, <1>2, <1>3, <1>4, ClockTypes
<1> QED BY <1>2, <1>3, <1>4, <1>5 DEF Typed

\* The user's inbox action.
LEMMA UserTypes ==
    ASSUME IInv, Typed, UserStep
    PROVE  Typed'
<1>1. /\ now \in Time /\ now \in Nat /\ recs \in Seq(Recs) /\ Len(recs) \in Nat
      /\ CyclesOK(proc, now, Len(recs)) /\ gh \in [Items -> Issues] /\ row \in [Items -> Rows]
      /\ UserOK(user, Len(recs))
    BY DEF IInv, Typed, Time
<1>2. ASSUME NEW r \in 1 .. Len(recs)
      PROVE  recs[r].item \in Items
    <2>1. recs[r] \in Recs
        BY <1>1
    <2> QED BY <2>1 DEF Recs
<1>3. UNCHANGED <<lastRefresh, proc>>
    BY DEF UserStep, EditLabels, Post, ActOnOption, MarkTriaged, UserFails, store
<1>4. Len(recs') = Len(recs)
    BY <1>1, SupersedeKeepsLength DEF UserStep, EditLabels, Post, ActOnOption, MarkTriaged, UserFails, store
<1>5. ASSUME now' \in Time, now <= now', gh' \in [Items -> Issues], row' \in [Items -> Rows],
             UserOK(user', Len(recs))
      PROVE  Typed'
    <2>1. CyclesOK(proc', now', Len(recs'))
        BY <1>1, <1>3, <1>4, <1>5, ClockTypes
    <2> QED BY <1>3, <1>4, <1>5, <2>1 DEF Typed
<1>6. now <= now
    BY <1>1
<1>7. ASSUME NEW r \in DOMAIN recs, NEW d \in Decisions, EditLabels(r, d)
      PROVE  Typed'
    <2> DEFINE i == recs[r].item
    <2>1. i \in Items /\ r \in 1 .. Len(recs)
        BY <1>1, <1>2
    <2>2. user' = [step |-> "labeled", rec |-> r, decision |-> d] /\ row' = row
        BY <1>7 DEF EditLabels, store
    <2>3. UserOK(user', Len(recs))
        BY <2>1, <2>2 DEF UserOK
    <2>4. CASE UNCHANGED <<now, gh>>
        BY <1>1, <1>5, <1>6, <2>2, <2>3, <2>4
    <2>5. CASE Changes(i, [gh[i] EXCEPT !.label = TRUE, !.labeledAt = now + 1])
        <3>1. now + 1 \in Time
            BY <1>1, <2>5, BoundsAssumption DEF Changes, Time
        <3>2. gh[i] \in Issues
            BY <1>1, <2>1
        <3> HIDE DEF i
        <3>3. [gh[i] EXCEPT !.label = TRUE, !.labeledAt = now + 1] \in Issues
            BY <3>1, <3>2 DEF Issues
        <3>4. gh' \in [Items -> Issues] /\ now' = now + 1 /\ now' \in Time
            BY <1>1, <2>1, <2>5, <3>3, ChangesTypes
        <3> QED BY <1>1, <1>5, <2>2, <2>3, <3>4
    <2> QED BY <1>7, <2>4, <2>5 DEF EditLabels
<1>8. ASSUME Post
      PROVE  Typed'
    <2> DEFINE i == recs[user.rec].item
    <2>1. /\ user.step = "labeled" /\ user' = [user EXCEPT !.step = "posted"] /\ row' = row
          /\ \/ UNCHANGED <<now, gh>>
             \/ Changes(i, gh[i])
             \/ Changes(i, [gh[i] EXCEPT !.open = FALSE])
        BY <1>8 DEF Post, store
    <2>2. user \in [step : {"labeled", "posted", "acted"}, rec : 1 .. Len(recs), decision : Decisions]
        BY <1>1, <2>1 DEF UserOK, AtRest
    <2>3. UserOK(user', Len(recs))
        BY <2>1, <2>2 DEF UserOK
    <2>4. i \in Items /\ gh[i] \in Issues
        BY <1>1, <1>2, <2>2
    <2>5. CASE UNCHANGED <<now, gh>>
        BY <1>1, <1>5, <1>6, <2>1, <2>3, <2>5
    <2> HIDE DEF i
    <2>6. ASSUME NEW issue \in Issues, Changes(i, issue)
          PROVE  Typed'
        <3>1. gh' \in [Items -> Issues] /\ now' = now + 1 /\ now' \in Time
            BY <1>1, <2>4, <2>6, ChangesTypes
        <3> QED BY <1>1, <1>5, <2>1, <2>3, <3>1
    <2>7. [gh[i] EXCEPT !.open = FALSE] \in Issues
        BY <2>4 DEF Issues
    <2> QED BY <2>1, <2>4, <2>5, <2>6, <2>7
<1>9. CASE ActOnOption
    <2>1. user.step = "posted" /\ user' = [user EXCEPT !.step = "acted"] /\ UNCHANGED <<now, gh, row>>
        BY <1>9 DEF ActOnOption
    <2>2. user \in [step : {"labeled", "posted", "acted"}, rec : 1 .. Len(recs), decision : Decisions]
        BY <1>1, <2>1 DEF UserOK, AtRest
    <2>3. UserOK(user', Len(recs))
        BY <2>1, <2>2 DEF UserOK
    <2> QED BY <1>1, <1>5, <1>6, <2>1, <2>3
<1>10. CASE MarkTriaged
    <2> DEFINE i == recs[user.rec].item
    <2>1. /\ user.step = "acted" /\ user' = AtRest /\ UNCHANGED <<now, gh>>
          /\ row' = [row EXCEPT ![i] = [row[i] EXCEPT !.triaged = TRUE, !.selfAt = now,
                                            !.open = row[i].open /\ user.decision # "close"]]
        BY <1>10 DEF MarkTriaged
    <2>2. user.rec \in 1 .. Len(recs)
        BY <1>1, <2>1 DEF UserOK, AtRest
    <2>3. i \in Items /\ row[i] \in Rows
        BY <1>1, <1>2, <2>2
    <2> HIDE DEF i
    <2>4. (row[i].open /\ user.decision # "close") \in BOOLEAN
        OBVIOUS
    <2>5. [row[i] EXCEPT !.triaged = TRUE, !.selfAt = now,
                         !.open = row[i].open /\ user.decision # "close"] \in Rows
        BY <1>1, <2>3, <2>4 DEF Rows
    <2>6. row' \in [Items -> Rows]
        BY <1>1, <2>1, <2>5
    <2>7. UserOK(user', Len(recs))
        BY <2>1 DEF UserOK
    <2> QED BY <1>1, <1>5, <1>6, <2>1, <2>6, <2>7
<1>11. CASE UserFails
    <2>1. user' = AtRest /\ UNCHANGED <<now, gh, row>>
        BY <1>11 DEF UserFails, store
    <2> QED BY <1>1, <1>5, <1>6, <2>1 DEF UserOK
<1> QED BY <1>7, <1>8, <1>9, <1>10, <1>11 DEF UserStep

\* Nothing is known, listed or recommended yet.
LEMMA InitTypes == Init => Typed
<1> SUFFICES ASSUME Init PROVE Typed
    OBVIOUS
<1>1. now = 0 /\ recs = << >> /\ Len(recs) = 0 /\ 0 \in Time
    BY BoundsAssumption DEF Init, Time
<1>2. gh \in [Items -> Issues]
    BY <1>1 DEF Init, Issues
<1>3. row \in [Items -> Rows]
    BY <1>1 DEF Init, Rows, NoRow
<1>4. CyclesOK(proc, now, Len(recs))
    <2>1. CycleOK(Idle, 0, 0)
        BY IdleIs
    <2>2. Idle \in Cycles
        BY <2>1 DEF CycleOK
    <2> QED BY <1>1, <2>1, <2>2 DEF Init, CyclesOK
<1>5. Len(recs) <= MaxRecs /\ lastRefresh \in Time /\ UserOK(user, Len(recs))
    BY <1>1, BoundsAssumption DEF Init, UserOK
<1> QED BY <1>2, <1>3, <1>4, <1>5 DEF Typed

\* Every step keeps the types.
LEMMA StepTypes == IInv /\ Typed /\ [Next]_vars => Typed'
<1> SUFFICES ASSUME IInv, Typed, [Next]_vars PROVE Typed'
    OBVIOUS
<1>1. CASE UNCHANGED vars
    BY <1>1 DEF vars, store, Typed
<1>2. ASSUME NEW p \in Procs, CycleStep(p)
      PROVE  Typed'
    BY <1>2, PlainTypes, ItemTypes, RecommendTypes DEF CycleStep
<1>3. "daemon" \in Procs /\ "manual" \in Procs
    BY DEF Procs
<1>4. CASE DaemonStep
    <2>1. CASE DaemonBegins \/ ListNeedingTriage \/ BeginReconcile \/ SyncFails \/ ProbeList
               \/ FixStageDidWork
        BY <1>3, <2>1, PlainTypes
    <2> QED BY <1>2, <1>3, <1>4, <2>1, RecTypes, ItemTypes DEF DaemonStep
<1>5. CASE ManualStep
    BY <1>2, <1>3, <1>5, PlainTypes DEF ManualStep
<1>6. CASE UserStep
    BY <1>6, UserTypes
<1> QED BY <1>1, <1>4, <1>5, <1>6, ManualTypes, ActivityTypes DEF Next

\* The types and the recommendations together are inductive.
LEMMA TriageInvariant == Spec => [](IInv /\ Typed)
<1> USE InitIsSafe, InitTypes, StepIsSafe, StepTypes
<1> HIDE DEF IInv, Typed, Init, Next, vars
<1> QED BY PTL DEF Spec

\* Every variable stays in its type: the clock is never behind what a cycle or a row
\* has seen, and a cycle is only ever about issues and recommendations there are.
THEOREM TriageTypes == Spec => []TypeOK
<1>1. IInv /\ Typed => TypeOK
    <2> SUFFICES ASSUME IInv, Typed PROVE TypeOK
        OBVIOUS
    <2>1. DOMAIN recs = 1 .. Len(recs) /\ Len(recs) \in Nat
        BY DEF IInv
    <2>2. ASSUME NEW p \in Procs
          PROVE  /\ proc[p].stage \in Stages
                 /\ proc[p].polledAt \in Time /\ proc[p].polledAt <= now
                 /\ proc[p].cutoff \in 0 .. Len(recs)
                 /\ proc[p].overtaken \in BOOLEAN
                 /\ proc[p].newer \subseteq DOMAIN recs
                 /\ proc[p].todo \subseteq Items \cup DOMAIN recs
                 /\ proc[p].listed \subseteq Items
                 /\ proc[p].write \in Rows
        <3>1. CycleOK(proc[p], now, Len(recs))
            BY DEF Typed, CyclesOK
        <3> QED BY <2>1, <3>1 DEF CycleOK, Cycles
    <2>3. user.step \in {"idle", "labeled", "posted", "acted"}
        BY DEF Typed, UserOK, AtRest
    <2> QED BY <2>2, <2>3 DEF IInv, Typed, TypeOK
<1> HIDE DEF IInv, Typed, TypeOK
<1> QED BY <1>1, TriageInvariant, PTL

\* A result is inserted only when no live one of the issue is newer than the cycle, and
\* what a later cycle recommended was inserted after this one began: so it is never
\* replaced by, nor comes beside, an older result.
THEOREM NewerStay == Spec => NewerResultsStay
<1> DEFINE A == \A p \in Procs, i \in Items :
                    Recommend(p, i) => \A r \in LiveRecs(i) : r \notin proc[p].newer
<1>1. IInv /\ Typed => A
    <2> SUFFICES ASSUME IInv, Typed, NEW p \in Procs, NEW i \in Items, Recommend(p, i),
                        NEW r \in LiveRecs(i)
                 PROVE  r \notin proc[p].newer
        OBVIOUS
    <2>1. CycleOK(proc[p], now, Len(recs))
        BY DEF Typed, CyclesOK
    <2>2. r <= proc[p].cutoff
        BY DEF Recommend, NewerActive, CreatedBefore
    <2>3. r \in Nat /\ proc[p].cutoff \in Nat
        BY <2>1 DEF IInv, LiveRecs, RecsOf, CycleOK, Cycles
    <2> QED BY <2>1, <2>2, <2>3 DEF CycleOK
<1>2. Spec => [][A]_vars
    <2> HIDE DEF A, IInv, Typed
    <2> QED BY <1>1, TriageInvariant, PTL
<1> QED BY <1>2 DEF NewerResultsStay

=============================================================================
