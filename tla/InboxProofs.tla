------------------------------ MODULE InboxProofs ------------------------------
(***************************************************************************)
(* The types of Inbox, for any items, plans, bounds and disturbances.      *)
(*                                                                         *)
(* TypeOK is not inductive: what a list, a reload or a task holds becomes  *)
(* an entry on view later.  Typed says for each group of variables what    *)
(* holds of them, and that no list has two entries of one item; without    *)
(* that the place of an entry (IndexOf) would not be its only one.         *)
(***************************************************************************)
EXTENDS Inbox, ListTheorems

-----------------------------------------------------------------------------
(* Types, one part for each group of variables.                            *)

States == {"open", "closed", "merged"}

GoodEntries ==
    {e \in [rec : Recs, active : Nat, plan : Seq(Changes)] :
        Len(e.plan) = Len(Plan[ItemOf(e.rec)]) /\ e.active \in DOMAIN e.plan}

\* No two entries of a list are for one item.
ListOK(list) ==
    /\ list \in Seq(GoodEntries)
    /\ \A k, l \in DOMAIN list : ItemOf(list[k].rec) = ItemOf(list[l].rec) => k = l

GoodJobs ==
    {j \in [rec : Recs, option : Nat, status : {"queued", "running", "shown", "over"}] :
        j.option \in DOMAIN Plan[ItemOf(j.rec)]}

GoodRows ==
    {a \in [rec : Recs, option : Nat, change : Changes, decision : {"approve", "mark"},
            failed : BOOLEAN] : a.option \in DOMAIN Plan[ItemOf(a.rec)]}

DbOK ==
    /\ recs \in [Items -> Nat] /\ \A i \in Items : recs[i] \in 1 .. MaxRecs[i]
    /\ live \in Seq(Items) /\ \A k, l \in DOMAIN live : live[k] = live[l] => k = l
    /\ state \in [Items -> States]
    /\ jobs \in Seq(GoodJobs) /\ Len(jobs) <= MaxJobs
    /\ approvals \subseteq GoodRows

GithubOK == github \in [state : [Items -> States], labelled : SUBSET Items, commented : SUBSET Recs]

CursorOK == cursor \in 1 .. Len(entries) \/ (cursor = 1 /\ entries = << >>)

ListsOK ==
    /\ ListOK(all) /\ ListOK(entries) /\ CursorOK
    /\ filter \in {"all", "maintainer", "contributor"}

PendingOK ==
    /\ reload = None \/ ListOK(reload)
    /\ dialog = NoDialog \/ dialog \in [what : {"edit", "rerun"}, entry : GoodEntries]

Working ==
    [verb : Verbs, entry : GoodEntries, at : Places \ {"idle"}, failed : BOOLEAN,
     updated : Seq(GoodEntries)]

\* Where a task can be, by what was asked for and for which entry.
FitsAt(verb, e, place) ==
    /\ place \in {"labels", "persist", "item"} => verb \in {"approve", "mark"}
    /\ place \in {"comment", "act", "record", "refetch"} => verb = "approve"
    /\ place = "comment" => Change(e) # "close"
    /\ place = "act" => Change(e) \in {"changes", "close", "merge"}

\* What a task is about, and shows when it ends, is of its item.
TaskFor(r, t) ==
    /\ t.entry.rec = r /\ FitsAt(t.verb, t.entry, t.at)
    /\ \A k \in DOMAIN t.updated : ItemOf(t.updated[k].rec) = ItemOf(r)

TasksOK ==
    /\ tasks \in [Recs -> {Idle} \cup Working]
    /\ \A r \in Recs : tasks[r] # Idle => TaskFor(r, tasks[r])

BoundsOK == keys \in 0 .. MaxKeys /\ fault \in FaultKinds \cup {None}

Typed == DbOK /\ GithubOK /\ ListsOK /\ PendingOK /\ TasksOK /\ BoundsOK

-----------------------------------------------------------------------------

\* The places of a task, apart from idle.
LEMMA PlacesAre ==
    /\ {"queue", "labels", "comment", "act", "record", "persist", "item", "refetch"}
            \subseteq Places \ {"idle"}
    /\ {"supersede", "triage", "done"} \subseteq Places \ {"idle"}
BY DEF Places

\* A recommendation has an item, and an item and a number make one.
LEMMA RecsAre ==
    /\ \A r \in Recs : ItemOf(r) \in Items
    /\ \A i \in Items : \A n \in 1 .. MaxRecs[i] : <<i, n>> \in Recs /\ ItemOf(<<i, n>>) = i
BY DEF Recs, ItemOf

\* A plan has an option at least.
LEMMA PlansAre ==
    \A i \in Items : /\ Plan[i] \in Seq(Changes) /\ Len(Plan[i]) \in Nat \ {0}
                     /\ DOMAIN Plan[i] = 1 .. Len(Plan[i])
<1> SUFFICES ASSUME NEW i \in Items
             PROVE  /\ Plan[i] \in Seq(Changes) /\ Len(Plan[i]) \in Nat \ {0}
                    /\ DOMAIN Plan[i] = 1 .. Len(Plan[i])
    OBVIOUS
<1>1. Plan[i] \in Seq(Changes) /\ Plan[i] # << >>
    BY PlanAssumption
<1> QED BY <1>1, LenProperties, EmptySeq

\* An entry of a good list is well formed.
LEMMA EntriesAre ==
    ASSUME NEW e \in GoodEntries
    PROVE  /\ e.rec \in Recs /\ ItemOf(e.rec) \in Items
           /\ e.active \in DOMAIN e.plan /\ e.active \in DOMAIN Plan[ItemOf(e.rec)]
           /\ DOMAIN e.plan = DOMAIN Plan[ItemOf(e.rec)]
           /\ Change(e) \in Changes
           /\ e \in Entries /\ Len(e.plan) = Len(Plan[ItemOf(e.rec)])
<1>1. /\ e.rec \in Recs /\ e.active \in Nat /\ e.plan \in Seq(Changes)
      /\ Len(e.plan) = Len(Plan[ItemOf(e.rec)]) /\ e.active \in DOMAIN e.plan
      /\ e = [rec |-> e.rec, active |-> e.active, plan |-> e.plan]
    BY DEF GoodEntries
<1>2. ItemOf(e.rec) \in Items
    BY <1>1, RecsAre
<1>3. DOMAIN e.plan = 1 .. Len(e.plan) /\ e.plan \in [1 .. Len(e.plan) -> Changes]
    BY <1>1, LenProperties
<1>4. DOMAIN e.plan = DOMAIN Plan[ItemOf(e.rec)]
    BY <1>1, <1>2, <1>3, PlansAre
<1>5. Change(e) \in Changes
    BY <1>1, <1>3 DEF Change
<1>6. e.active \in Options
    BY <1>1, <1>2, <1>4 DEF Options
<1>7. e.plan \in UNION {[1 .. Len(Plan[i]) -> Changes] : i \in Items}
    BY <1>1, <1>2, <1>3
<1>8. e \in Entries
    BY <1>1, <1>6, <1>7 DEF Entries
<1> QED BY <1>1, <1>2, <1>4, <1>5, <1>8

\* What an edit or a choice of another option makes of an entry.
LEMMA EntryChanges ==
    ASSUME NEW e \in GoodEntries
    PROVE  /\ \A o \in DOMAIN e.plan :
                /\ [e EXCEPT !.active = o] \in GoodEntries
                /\ [e EXCEPT !.active = o].rec = e.rec
           /\ \A change \in Changes :
                ParseEdited(e, change) \in GoodEntries /\ ParseEdited(e, change).rec = e.rec
<1>1. /\ e.rec \in Recs /\ e.active \in Nat /\ e.plan \in Seq(Changes)
      /\ Len(e.plan) = Len(Plan[ItemOf(e.rec)]) /\ e.active \in DOMAIN e.plan
      /\ e = [rec |-> e.rec, active |-> e.active, plan |-> e.plan]
    BY DEF GoodEntries
<1>2. DOMAIN e.plan \subseteq Nat
    BY <1>1, LenProperties
<1>3. ASSUME NEW o \in DOMAIN e.plan
      PROVE  [e EXCEPT !.active = o] \in GoodEntries /\ [e EXCEPT !.active = o].rec = e.rec
    <2>1. [e EXCEPT !.active = o] = [rec |-> e.rec, active |-> o, plan |-> e.plan]
        BY <1>1
    <2> QED BY <1>1, <1>2, <2>1 DEF GoodEntries
<1>4. ASSUME NEW change \in Changes
      PROVE  ParseEdited(e, change) \in GoodEntries /\ ParseEdited(e, change).rec = e.rec
    <2> DEFINE plan == [e.plan EXCEPT ![e.active] = change]
    <2>1. ParseEdited(e, change) = [rec |-> e.rec, active |-> e.active, plan |-> plan]
        BY <1>1 DEF ParseEdited
    <2>2. plan \in Seq(Changes) /\ Len(plan) = Len(e.plan) /\ DOMAIN plan = DOMAIN e.plan
        BY <1>1, ExceptSeq, LenProperties
    <2> HIDE DEF plan
    <2> QED BY <1>1, <2>1, <2>2 DEF GoodEntries
<1> QED BY <1>3, <1>4

-----------------------------------------------------------------------------
(* The operators on lists keep them good.                                  *)

\* What ListOK says, as facts for the provers.
LEMMA GoodList ==
    ASSUME NEW list, ListOK(list)
    PROVE  /\ list \in Seq(GoodEntries) /\ Len(list) \in Nat /\ DOMAIN list = 1 .. Len(list)
           /\ \A k \in DOMAIN list : list[k] \in GoodEntries /\ list[k].rec \in Recs
           /\ \A k, l \in DOMAIN list : ItemOf(list[k].rec) = ItemOf(list[l].rec) => k = l
<1>1. list \in Seq(GoodEntries)
    BY DEF ListOK
<1>2. Len(list) \in Nat /\ DOMAIN list = 1 .. Len(list) /\ \A k \in DOMAIN list : list[k] \in GoodEntries
    BY <1>1, LenProperties
<1> QED BY <1>1, <1>2, EntriesAre DEF ListOK

\* Only keeps a good list good.
LEMMA OnlyListOK ==
    ASSUME NEW list, ListOK(list), NEW kept
    PROVE  /\ ListOK(Only(list, kept))
           /\ \A k \in DOMAIN Only(list, kept) :
                Only(list, kept)[k] \in kept /\ \E l \in DOMAIN list : list[l] = Only(list, kept)[k]
<1> DEFINE new == Only(list, kept)
<1>1. /\ list \in Seq(GoodEntries) /\ Len(list) \in Nat /\ DOMAIN list = 1 .. Len(list)
      /\ \A k, l \in DOMAIN list : ItemOf(list[k].rec) = ItemOf(list[l].rec) => k = l
    BY GoodList
<1>2. new \in Seq(GoodEntries)
    BY <1>1, OnlyElements
<1>3. PICK m, p : KeptAt(list, kept, list, kept, m, p)
    BY <1>1, OnlyByPlaces
<1>4. /\ m \in Nat /\ p \in [1 .. m -> 1 .. Len(list)]
      /\ \A a, b \in 1 .. m : a < b => p[a] < p[b]
      /\ \A k \in 1 .. Len(list) : list[k] \in kept <=> \E a \in 1 .. m : p[a] = k
      /\ new = [a \in 1 .. m |-> list[p[a]]]
    BY <1>3 DEF KeptAt
<1>5. \A a, b \in 1 .. m : p[a] = p[b] => a = b
    BY <1>4
<1>6. \A a \in 1 .. m : new[a] = list[p[a]] /\ p[a] \in DOMAIN list
    BY <1>1, <1>4
<1>7. DOMAIN new = 1 .. m
    BY <1>4
<1>8. \A k, l \in DOMAIN new : ItemOf(new[k].rec) = ItemOf(new[l].rec) => k = l
    <2> HIDE DEF new
    <2> QED BY <1>1, <1>5, <1>6, <1>7
<1>9. \A k \in DOMAIN new : new[k] \in kept /\ \E l \in DOMAIN list : list[l] = new[k]
    <2> HIDE DEF new
    <2> QED BY <1>1, <1>4, <1>6, <1>7
<1> QED BY <1>2, <1>8, <1>9 DEF ListOK

\* To replace an entry by one of the same item keeps a good list good.
LEMMA ReplaceListOK ==
    ASSUME NEW list, ListOK(list), NEW r \in Recs, NEW e \in GoodEntries,
           ItemOf(e.rec) = ItemOf(r)
    PROVE  /\ ListOK(Replace(list, r, e))
           /\ Len(Replace(list, r, e)) = Len(list)
           /\ DOMAIN Replace(list, r, e) = DOMAIN list
           /\ \A k \in DOMAIN list : Replace(list, r, e)[k] = IF list[k].rec = r THEN e ELSE list[k]
<1> DEFINE new == Replace(list, r, e)
<1>1. /\ list \in Seq(GoodEntries) /\ Len(list) \in Nat /\ DOMAIN list = 1 .. Len(list)
      /\ \A k \in DOMAIN list : list[k] \in GoodEntries
      /\ \A k, l \in DOMAIN list : ItemOf(list[k].rec) = ItemOf(list[l].rec) => k = l
    BY GoodList
<1>2. /\ new = [k \in 1 .. Len(list) |-> IF list[k].rec = r THEN e ELSE list[k]]
    BY <1>1 DEF Replace
<1> HIDE DEF new
<1>3. new \in [1 .. Len(list) -> GoodEntries]
    BY <1>1, <1>2
<1>4. new \in Seq(GoodEntries)
    BY <1>1, <1>3, IsASeq
<1>5. Len(new) = Len(list) /\ DOMAIN new = DOMAIN list
    BY <1>1, <1>3, <1>4, LenProperties
<1>6. \A k \in DOMAIN list : new[k] = IF list[k].rec = r THEN e ELSE list[k]
    BY <1>1, <1>2
<1>7. \A k \in DOMAIN list : ItemOf(new[k].rec) = ItemOf(list[k].rec)
    BY <1>6
<1>8. \A k, l \in DOMAIN new : ItemOf(new[k].rec) = ItemOf(new[l].rec) => k = l
    BY <1>1, <1>5, <1>7
<1> QED BY <1>4, <1>5, <1>6, <1>8 DEF ListOK, new

\* What a reload keeps of the session's entries changes no recommendation.
LEMMA PreserveListOK ==
    ASSUME NEW rows, ListOK(rows), ListOK(all), ListOK(entries)
    PROVE  /\ ListOK(Preserve(rows))
           /\ Len(Preserve(rows)) = Len(rows) /\ DOMAIN Preserve(rows) = DOMAIN rows
           /\ \A k \in DOMAIN rows :
                /\ Preserve(rows)[k].rec = rows[k].rec
                /\ Kept(rows[k].rec) # {} => Preserve(rows)[k] \in Kept(rows[k].rec)
<1> DEFINE new == Preserve(rows)
<1>1. /\ rows \in Seq(GoodEntries) /\ Len(rows) \in Nat /\ DOMAIN rows = 1 .. Len(rows)
      /\ \A k \in DOMAIN rows : rows[k] \in GoodEntries
      /\ \A k, l \in DOMAIN rows : ItemOf(rows[k].rec) = ItemOf(rows[l].rec) => k = l
    BY GoodList
<1>2. \A r : \A e \in Kept(r) : e \in GoodEntries /\ e.rec = r
    <2> TAKE r
    <2> TAKE e \in Kept(r)
    <2>1. (e \in ToSet(entries) \/ e \in ToSet(all)) /\ e.rec = r
        BY DEF Kept
    <2> QED BY <2>1, GoodList DEF ToSet
<1>3. ASSUME NEW k \in DOMAIN rows
      PROVE  /\ new[k] \in GoodEntries /\ new[k].rec = rows[k].rec
             /\ Kept(rows[k].rec) # {} => new[k] \in Kept(rows[k].rec)
    <2>1. new[k] = IF Kept(rows[k].rec) = {} THEN rows[k]
                   ELSE CHOOSE e \in Kept(rows[k].rec) : TRUE
        BY DEF Preserve
    <2>2. CASE Kept(rows[k].rec) = {}
        BY <1>1, <2>1, <2>2
    <2>3. CASE Kept(rows[k].rec) # {}
        <3>1. new[k] \in Kept(rows[k].rec)
            BY <2>1, <2>3
        <3> QED BY <1>2, <3>1
    <2> QED BY <2>2, <2>3
<1>4. DOMAIN new = 1 .. Len(rows) /\ new = [k \in 1 .. Len(rows) |-> new[k]]
    BY <1>1 DEF Preserve
<1> HIDE DEF new
<1>5. new \in [1 .. Len(rows) -> GoodEntries]
    BY <1>1, <1>3, <1>4
<1>6. new \in Seq(GoodEntries)
    BY <1>1, <1>5, IsASeq
<1>7. Len(new) = Len(rows)
    BY <1>1, <1>5, <1>6, LenProperties
<1>8. \A k, l \in DOMAIN new : ItemOf(new[k].rec) = ItemOf(new[l].rec) => k = l
    BY <1>1, <1>3, <1>4
<1> QED BY <1>1, <1>3, <1>4, <1>6, <1>7, <1>8 DEF ListOK, new

-----------------------------------------------------------------------------
(* What is read from the database is a good list.                          *)

\* The latest job of an item and the one shown are jobs of that item.
LEMMA JobsAre ==
    ASSUME DbOK
    PROVE  /\ Len(jobs) \in Nat /\ DOMAIN jobs = 1 .. Len(jobs)
           /\ \A k \in DOMAIN jobs :
                /\ jobs[k] \in GoodJobs /\ jobs[k].rec \in Recs /\ k # 0
                /\ jobs[k].option \in DOMAIN Plan[ItemOf(jobs[k].rec)]
           /\ \A i : LatestJob(i) = 0 \/ LatestJob(i) \in JobsOf(i)
           /\ \A i : ShownJob(i) = 0 \/ ShownJob(i) \in JobsOf(i)
<1>1. /\ Len(jobs) \in Nat /\ DOMAIN jobs = 1 .. Len(jobs)
      /\ \A k \in DOMAIN jobs : jobs[k] \in GoodJobs
    BY LenProperties DEF DbOK
<1>2. ASSUME NEW i PROVE LatestJob(i) = 0 \/ LatestJob(i) \in JobsOf(i)
    <2>1. JobsOf(i) \in SUBSET (0 .. Len(jobs))
        BY <1>1 DEF JobsOf
    <2>2. CASE JobsOf(i) = {}
        BY <2>2 DEF LatestJob
    <2>3. CASE JobsOf(i) # {}
        <3>1. \E k \in JobsOf(i) : \A l \in JobsOf(i) : l <= k
            BY <1>1, <2>1, <2>3, Greatest
        <3> QED BY <2>3, <3>1 DEF LatestJob
    <2> QED BY <2>2, <2>3
<1>3. ASSUME NEW i PROVE ShownJob(i) = 0 \/ ShownJob(i) \in JobsOf(i)
    <2> DEFINE remaining == {k \in JobsOf(i) : jobs[k].status # "over"}
    <2>1. remaining \in SUBSET (0 .. Len(jobs))
        BY <1>1 DEF JobsOf
    <2>2. CASE remaining = {}
        BY <2>2 DEF ShownJob
    <2>3. CASE remaining # {}
        <3>1. \E k \in remaining : \A l \in remaining : l <= k
            <4> HIDE DEF remaining
            <4> QED BY <1>1, <2>1, <2>3, Greatest
        <3> QED BY <2>3, <3>1 DEF ShownJob
    <2> QED BY <2>2, <2>3
<1> QED BY <1>1, <1>2, <1>3 DEF GoodJobs

\* buildInboxEntry gives a well-formed entry.
LEMMA BuildEntryIsGood ==
    ASSUME DbOK, NEW r \in Recs, NEW k, k = 0 \/ k \in DOMAIN jobs
    PROVE  BuildEntry(r, k) \in GoodEntries /\ BuildEntry(r, k).rec = r
<1> DEFINE active == IF k # 0 /\ jobs[k].rec = r THEN jobs[k].option ELSE 1
<1>1. ItemOf(r) \in Items
    BY RecsAre
<1>2. /\ Plan[ItemOf(r)] \in Seq(Changes) /\ Len(Plan[ItemOf(r)]) \in Nat \ {0}
      /\ DOMAIN Plan[ItemOf(r)] = 1 .. Len(Plan[ItemOf(r)])
    BY <1>1, PlansAre
<1>3. active \in DOMAIN Plan[ItemOf(r)] /\ active \in Nat
    BY <1>2, JobsAre
<1> HIDE DEF active
<1>4. [rec |-> r, plan |-> Plan[ItemOf(r)], active |-> active] \in GoodEntries
    BY <1>2, <1>3 DEF GoodEntries
<1>5. BuildEntry(r, k) = [rec |-> r, plan |-> Plan[ItemOf(r)], active |-> active]
    BY DEF BuildEntry, active
<1> QED BY <1>4, <1>5

\* An item has a latest recommendation.
LEMMA LatestIsRec ==
    ASSUME DbOK, NEW i \in Items
    PROVE  Latest(i) \in Recs /\ ItemOf(Latest(i)) = i
BY RecsAre DEF DbOK, Latest

\* A reload reads no item twice: live ones first, then items with fixes only.
LEMMA LoadListOK ==
    ASSUME DbOK
    PROVE  ListOK(LoadInboxEntries)
<1> DEFINE open == Only(live, {i \in Items : IsOpen(i)})
           fixes == SetToSeq(FixItems)
           rows == [k \in DOMAIN open |-> BuildEntry(Latest(open[k]), LatestJob(open[k]))]
           more == [k \in DOMAIN fixes |->
                        BuildEntry(jobs[ShownJob(fixes[k])].rec, ShownJob(fixes[k]))]
<1>1. live \in Seq(Items) /\ Len(live) \in Nat /\ DOMAIN live = 1 .. Len(live)
    BY LenProperties DEF DbOK
<1>2. open \in Seq(Items) /\ ToSet(open) \subseteq ToSet(live)
    BY <1>1, OnlyElements
<1>3. \A k, l \in DOMAIN open : open[k] = open[l] => k = l
    <2>1. PICK m, p : KeptAt(live, {i \in Items : IsOpen(i)}, live, {i \in Items : IsOpen(i)}, m, p)
        BY <1>1, OnlyByPlaces
    <2>2. /\ m \in Nat /\ p \in [1 .. m -> 1 .. Len(live)]
          /\ \A a, b \in 1 .. m : a < b => p[a] < p[b]
          /\ open = [a \in 1 .. m |-> live[p[a]]]
        BY <2>1 DEF KeptAt
    <2>3. \A a, b \in 1 .. m : p[a] = p[b] => a = b
        BY <2>2
    <2>4. \A a \in 1 .. m : open[a] = live[p[a]] /\ p[a] \in DOMAIN live
        BY <1>1, <2>2
    <2>5. DOMAIN open = 1 .. m
        BY <2>2
    <2> HIDE DEF open
    <2> QED BY <2>3, <2>4, <2>5 DEF DbOK
<1>4. IsFiniteSet(FixItems) /\ FixItems \subseteq Items /\ FixItems \cap ToSet(live) = {}
    BY ItemsAssumption, FS_Subset DEF FixItems
<1>5. /\ fixes \in Seq(FixItems)
      /\ \A k, l \in DOMAIN fixes : fixes[k] = fixes[l] => k = l
    BY <1>4, SetToSeqLists
<1> HIDE DEF open, fixes
<1>6. ASSUME NEW k \in DOMAIN open
      PROVE  /\ open[k] \in Items /\ open[k] \in ToSet(live)
             /\ rows[k] \in GoodEntries /\ ItemOf(rows[k].rec) = open[k]
    <2>1. open[k] \in Items /\ open[k] \in ToSet(live)
        BY <1>2, LenProperties DEF ToSet
    <2>2. LatestJob(open[k]) = 0 \/ LatestJob(open[k]) \in DOMAIN jobs
        BY JobsAre DEF JobsOf
    <2>3. Latest(open[k]) \in Recs /\ ItemOf(Latest(open[k])) = open[k]
        BY <2>1, LatestIsRec
    <2>4. rows[k] = BuildEntry(Latest(open[k]), LatestJob(open[k]))
        OBVIOUS
    <2> HIDE DEF rows
    <2> QED BY <2>1, <2>2, <2>3, <2>4, BuildEntryIsGood
<1>7. ASSUME NEW k \in DOMAIN fixes
      PROVE  /\ fixes[k] \in Items /\ fixes[k] \notin ToSet(live)
             /\ more[k] \in GoodEntries /\ ItemOf(more[k].rec) = fixes[k]
    <2>1. fixes[k] \in FixItems
        BY <1>5, LenProperties
    <2>2. fixes[k] \in Items /\ fixes[k] \notin ToSet(live) /\ ShownJob(fixes[k]) # 0
        BY <2>1 DEF FixItems
    <2>3. ShownJob(fixes[k]) \in JobsOf(fixes[k])
        BY <2>2, JobsAre
    <2>4. /\ ShownJob(fixes[k]) \in DOMAIN jobs /\ jobs[ShownJob(fixes[k])].rec \in Recs
          /\ ItemOf(jobs[ShownJob(fixes[k])].rec) = fixes[k]
        BY <2>3, JobsAre DEF JobsOf
    <2>5. more[k] = BuildEntry(jobs[ShownJob(fixes[k])].rec, ShownJob(fixes[k]))
        OBVIOUS
    <2> HIDE DEF more
    <2> QED BY <2>2, <2>4, <2>5, BuildEntryIsGood
<1>8. /\ DOMAIN open = 1 .. Len(open) /\ Len(open) \in Nat /\ DOMAIN fixes = 1 .. Len(fixes)
      /\ Len(fixes) \in Nat /\ DOMAIN rows = DOMAIN open /\ DOMAIN more = DOMAIN fixes
    BY <1>2, <1>5, LenProperties
<1>9. rows \in [1 .. Len(open) -> GoodEntries] /\ more \in [1 .. Len(fixes) -> GoodEntries]
    <2>1. rows = [k \in DOMAIN open |-> rows[k]] /\ more = [k \in DOMAIN fixes |-> more[k]]
        OBVIOUS
    <2> HIDE DEF rows, more
    <2> QED BY <1>6, <1>7, <1>8, <2>1
<1> HIDE DEF rows, more
<1>10. /\ rows \in Seq(GoodEntries) /\ more \in Seq(GoodEntries)
       /\ Len(rows) = Len(open) /\ Len(more) = Len(fixes)
    BY <1>8, <1>9, IsASeq, LenProperties
<1> DEFINE both == rows \o more
<1>11. /\ both \in Seq(GoodEntries) /\ Len(both) = Len(rows) + Len(more)
       /\ \A k \in 1 .. Len(rows) + Len(more) :
            both[k] = IF k <= Len(rows) THEN rows[k] ELSE more[k - Len(rows)]
    BY <1>10, ConcatProperties
<1> HIDE DEF both
<1>12. DOMAIN both = 1 .. Len(open) + Len(fixes)
    BY <1>10, <1>11, LenProperties
<1> DEFINE Of(k) == IF k <= Len(open) THEN open[k] ELSE fixes[k - Len(open)]
<1>13. ASSUME NEW k \in DOMAIN both PROVE ItemOf(both[k].rec) = Of(k)
    <2>1. CASE k <= Len(open)
        <3>1. k \in DOMAIN open /\ both[k] = rows[k]
            BY <1>8, <1>10, <1>11, <1>12, <2>1
        <3> QED BY <1>6, <2>1, <3>1
    <2>2. CASE ~(k <= Len(open))
        <3>1. k - Len(open) \in DOMAIN fixes /\ both[k] = more[k - Len(open)]
            BY <1>8, <1>10, <1>11, <1>12, <2>2
        <3> QED BY <1>7, <2>2, <3>1
    <2> QED BY <2>1, <2>2
<1>14. ASSUME NEW k \in DOMAIN both, NEW l \in DOMAIN both, Of(k) = Of(l) PROVE k = l
    <2>0. k \in 1 .. Len(open) + Len(fixes) /\ l \in 1 .. Len(open) + Len(fixes)
        BY <1>12
    <2>1. \A n \in 1 .. Len(open) + Len(fixes) :
             \/ n <= Len(open) /\ n \in DOMAIN open
             \/ ~(n <= Len(open)) /\ n - Len(open) \in DOMAIN fixes
        BY <1>8
    <2>2. CASE k <= Len(open) /\ l <= Len(open)
        BY <1>3, <1>14, <2>0, <2>1, <2>2
    <2>3. CASE ~(k <= Len(open)) /\ ~(l <= Len(open))
        <3>1. k - Len(open) = l - Len(open)
            BY <1>5, <1>14, <2>0, <2>1, <2>3
        <3> QED BY <1>8, <2>0, <3>1
    <2>4. CASE k <= Len(open) /\ ~(l <= Len(open))
        BY <1>6, <1>7, <1>14, <2>0, <2>1, <2>4
    <2>5. CASE ~(k <= Len(open)) /\ l <= Len(open)
        BY <1>6, <1>7, <1>14, <2>0, <2>1, <2>5
    <2> QED BY <2>2, <2>3, <2>4, <2>5
<1>15. both = LoadInboxEntries
    BY DEF both, rows, more, open, fixes, LoadInboxEntries
<1>16. ListOK(both)
    <2> HIDE DEF Of
    <2> QED BY <1>11, <1>13, <1>14 DEF ListOK
<1> QED BY <1>15, <1>16

-----------------------------------------------------------------------------
(* The operations on the lists, and on the tasks.                          *)

\* A cursor that is clamped is on an entry.
LEMMA WithinOK ==
    ASSUME NEW list, ListOK(list), NEW k \in Nat \ {0}
    PROVE  Within(k, list) \in 1 .. Len(list) \/ (Within(k, list) = 1 /\ list = << >>)
<1>1. list \in Seq(GoodEntries) /\ Len(list) \in Nat
    BY GoodList
<1>2. list # << >> => Len(list) # 0
    BY <1>1, EmptySeq
<1> QED BY <1>1, <1>2 DEF Within

\* An entry is found where it is.
LEMMA IndexOfOK ==
    ASSUME NEW list, NEW r \in RecsOf(list)
    PROVE  IndexOf(list, r) \in DOMAIN list /\ list[IndexOf(list, r)].rec = r
BY DEF RecsOf, IndexOf

\* A key finds an entry under the cursor.
LEMMA CursorNat ==
    ASSUME ListsOK
    PROVE  /\ cursor \in Nat \ {0}
           /\ entries # << >> => cursor \in DOMAIN entries /\ Current \in GoodEntries
<1>1. /\ entries \in Seq(GoodEntries) /\ Len(entries) \in Nat /\ DOMAIN entries = 1 .. Len(entries)
      /\ \A k \in DOMAIN entries : entries[k] \in GoodEntries
    BY GoodList DEF ListsOK
<1> QED BY <1>1 DEF ListsOK, CursorOK, Current

\* The cursor after an action.
LEMMA AdvanceCursorOK ==
    ASSUME ListsOK, AdvanceCursor, UNCHANGED <<all, entries, filter>>
    PROVE  ListsOK'
<1>1. cursor \in Nat \ {0}
    BY CursorNat
<1>2. cursor + 1 \in Nat \ {0}
    BY <1>1
<1>3. Within(cursor + 1, entries) \in 1 .. Len(entries) \/ (Within(cursor + 1, entries) = 1 /\ entries = << >>)
    BY <1>2, WithinOK DEF ListsOK
<1>4. CursorOK'
    BY <1>3 DEF CursorOK, AdvanceCursor
<1> QED BY <1>4 DEF ListsOK, ListOK

\* Lists and cursor after an entry is replaced.
LEMMA ReplaceEntryOK ==
    ASSUME ListsOK, NEW r \in Recs, NEW e \in GoodEntries, ItemOf(e.rec) = ItemOf(r),
           ReplaceEntry(r, e), UNCHANGED filter
    PROVE  ListsOK'
<1>1. e.rec \in Recs
    BY EntriesAre
<1>2. ListOK(entries') /\ Len(entries') = Len(entries) /\ DOMAIN entries' = DOMAIN entries
    BY ReplaceListOK DEF ReplaceEntry, ListsOK
<1>3. ListOK(all')
    <2>1. CASE e.rec \in RecsOf(all)
        BY <1>1, <2>1, ReplaceListOK DEF ReplaceEntry, ListsOK
    <2>2. CASE e.rec \notin RecsOf(all)
        BY <1>1, <2>2, ReplaceListOK DEF ReplaceEntry, ListsOK
    <2> QED BY <2>1, <2>2
<1>4. entries' \in Seq(GoodEntries) /\ entries \in Seq(GoodEntries)
    BY <1>2, GoodList DEF ListsOK
<1>5. CursorOK'
    BY <1>2, <1>4, EmptySeq DEF CursorOK, ListsOK, ReplaceEntry
<1> QED BY <1>2, <1>3, <1>5 DEF ListsOK

\* Lists and cursor after an entry is removed.
LEMMA RemoveEntryOK ==
    ASSUME ListsOK, NEW r \in Recs, RemoveEntry(r), UNCHANGED filter
    PROVE  ListsOK'
<1>1. ListOK(entries') /\ ListOK(all')
    BY OnlyListOK DEF RemoveEntry, RemoveRec, ListsOK
<1>2. cursor \in Nat \ {0}
    BY CursorNat
<1>3. Within(cursor, entries') \in 1 .. Len(entries') \/ (Within(cursor, entries') = 1 /\ entries' = << >>)
    BY <1>1, <1>2, WithinOK
<1>4. DOMAIN entries' = 1 .. Len(entries')
    BY <1>1, GoodList
<1>5. CursorOK'
    <2>1. CASE cursor \in DOMAIN entries /\ entries[cursor].rec \in RecsOf(entries')
        BY <1>4, <2>1, IndexOfOK DEF CursorOK, RemoveEntry
    <2>2. CASE ~(cursor \in DOMAIN entries /\ entries[cursor].rec \in RecsOf(entries'))
        BY <1>3, <2>2 DEF CursorOK, RemoveEntry
    <2> QED BY <2>1, <2>2
<1> QED BY <1>1, <1>5 DEF ListsOK

\* Lists and cursor after a reload.
LEMMA ApplyReloadOK ==
    ASSUME ListsOK, NEW rows, ListOK(rows), ApplyReload(rows)
    PROVE  ListsOK'
<1>1. ListOK(ApplyRoleFilter(rows, filter))
    BY OnlyListOK DEF ApplyRoleFilter
<1>2. ListOK(entries') /\ ListOK(all')
    BY <1>1, PreserveListOK DEF ApplyReload, ListsOK
<1>3. cursor \in Nat \ {0}
    BY CursorNat
<1>4. Within(cursor, entries') \in 1 .. Len(entries') \/ (Within(cursor, entries') = 1 /\ entries' = << >>)
    BY <1>2, <1>3, WithinOK
<1>5. DOMAIN entries' = 1 .. Len(entries')
    BY <1>2, GoodList
<1>6. CursorOK'
    <2>1. CASE cursor \in DOMAIN entries /\ entries[cursor].rec \in RecsOf(entries')
        BY <1>5, <2>1, IndexOfOK DEF CursorOK, ApplyReload
    <2>2. CASE ~(cursor \in DOMAIN entries /\ entries[cursor].rec \in RecsOf(entries'))
        BY <1>4, <2>2 DEF CursorOK, ApplyReload
    <2> QED BY <2>1, <2>2
<1> QED BY <1>2, <1>6 DEF ListsOK, ApplyReload

\* All tasks but r's are as they were, and r's is t.
Becomes(r, t) == tasks'[r] = t /\ \A q \in Recs : q # r => tasks'[q] = tasks[q]

\* One task changes, and is well formed.
LEMMA BecomesOK ==
    ASSUME TasksOK, NEW r \in Recs, NEW t, tasks' = [tasks EXCEPT ![r] = t],
           t = Idle \/ (t \in Working /\ TaskFor(r, t))
    PROVE  TasksOK' /\ Becomes(r, t)
<1>1. \A q \in Recs : tasks[q] = Idle \/ (tasks[q] \in Working /\ TaskFor(q, tasks[q]))
    BY DEF TasksOK
<1>2. Becomes(r, t)
    BY DEF TasksOK, Becomes
<1>3. DOMAIN tasks' = Recs /\ tasks' = [q \in Recs |-> tasks'[q]]
    BY DEF TasksOK
<1>4. \A q \in Recs : tasks'[q] = Idle \/ (tasks'[q] \in Working /\ TaskFor(q, tasks'[q]))
    BY <1>1, <1>2 DEF Becomes
<1>5. tasks' \in [Recs -> {Idle} \cup Working]
    BY <1>3, <1>4
<1>6. TasksOK'
    BY <1>4, <1>5 DEF TasksOK, Working, TaskFor, GoodEntries, Recs, ItemOf, Idle
<1> QED BY <1>2, <1>6

\* A task that has begun is not idle.
LEMMA BegunTask ==
    ASSUME TasksOK, NEW r \in Recs, tasks[r].at # "idle"
    PROVE  /\ tasks[r] \in Working /\ TaskFor(r, tasks[r]) /\ tasks[r].at \in Places \ {"idle"}
           /\ tasks[r].entry \in GoodEntries /\ tasks[r].entry.rec = r /\ tasks[r].verb \in Verbs
           /\ FitsAt(tasks[r].verb, tasks[r].entry, tasks[r].at)
<1>1. tasks[r] # Idle
    BY DEF Idle
<1> QED BY <1>1 DEF TasksOK, Working, TaskFor

\* A task goes to its next place.
LEMMA StepToOK ==
    ASSUME TasksOK, NEW r \in Recs, tasks[r].at # "idle", NEW place \in Places \ {"idle"},
           FitsAt(tasks[r].verb, tasks[r].entry, place), StepTo(r, place)
    PROVE  TasksOK' /\ Becomes(r, [tasks[r] EXCEPT !.at = place])
<1>1. tasks[r] \in Working /\ TaskFor(r, tasks[r])
    BY BegunTask
<1> DEFINE t == [tasks[r] EXCEPT !.at = place]
<1>2. t \in Working /\ TaskFor(r, t)
    BY <1>1 DEF Working, TaskFor
<1>3. tasks' = [tasks EXCEPT ![r] = t]
    BY DEF StepTo
<1> HIDE DEF t
<1>4. TasksOK' /\ Becomes(r, t)
    BY <1>2, <1>3, BecomesOK
<1> QED BY <1>4 DEF t

\* A task fails.
LEMMA FailOK ==
    ASSUME TasksOK, NEW r \in Recs, tasks[r].at # "idle", Fail(r)
    PROVE  TasksOK' /\ Becomes(r, [tasks[r] EXCEPT !.at = "done", !.failed = TRUE])
<1>1. tasks[r] \in Working /\ TaskFor(r, tasks[r])
    BY BegunTask
<1> DEFINE t == [tasks[r] EXCEPT !.at = "done", !.failed = TRUE]
<1>2. t \in Working /\ TaskFor(r, t)
    <2> DEFINE u == [tasks[r] EXCEPT !.at = "done"]
    <2>1. "done" \in Places \ {"idle"}
        BY PlacesAre
    <2>2. u \in Working /\ TaskFor(r, u)
        BY <1>1, <2>1 DEF Working, TaskFor, FitsAt
    <2> HIDE DEF u
    <2>3. [u EXCEPT !.failed = TRUE] \in Working /\ TaskFor(r, [u EXCEPT !.failed = TRUE])
        BY <2>2 DEF Working, TaskFor
    <2> QED BY <2>3 DEF u
<1>3. tasks' = [tasks EXCEPT ![r] = t]
    BY DEF Fail, TasksOK
<1> HIDE DEF t
<1>4. TasksOK' /\ Becomes(r, t)
    BY <1>2, <1>3, BecomesOK
<1> QED BY <1>4 DEF t

\* A task ends with what it shows.
LEMMA FinishOK ==
    ASSUME TasksOK, NEW r \in Recs, tasks[r].at # "idle", NEW updated \in Seq(GoodEntries),
           \A k \in DOMAIN updated : ItemOf(updated[k].rec) = ItemOf(r),
           Finish(r, updated)
    PROVE  TasksOK' /\ Becomes(r, [tasks[r] EXCEPT !.at = "done", !.updated = updated])
<1>1. tasks[r] \in Working /\ TaskFor(r, tasks[r])
    BY BegunTask
<1> DEFINE t == [tasks[r] EXCEPT !.at = "done", !.updated = updated]
<1>2. t \in Working /\ TaskFor(r, t)
    <2> DEFINE u == [tasks[r] EXCEPT !.at = "done"]
    <2>1. "done" \in Places \ {"idle"}
        BY PlacesAre
    <2>2. u \in Working /\ TaskFor(r, u)
        BY <1>1, <2>1 DEF Working, TaskFor, FitsAt
    <2> HIDE DEF u
    <2>3. /\ [u EXCEPT !.updated = updated] \in Working
          /\ TaskFor(r, [u EXCEPT !.updated = updated])
        BY <2>2 DEF Working, TaskFor
    <2> QED BY <2>3 DEF u
<1>3. tasks' = [tasks EXCEPT ![r] = t]
    BY DEF Finish, TasksOK
<1> HIDE DEF t
<1>4. TasksOK' /\ Becomes(r, t)
    BY <1>2, <1>3, BecomesOK
<1> QED BY <1>4 DEF t

\* A task begins, where none is under way for the recommendation.
LEMMA StartActionOK ==
    ASSUME TasksOK, NEW e \in GoodEntries, NEW verb \in Verbs, NEW place \in Places \ {"idle"},
           FitsAt(verb, e, place), StartAction(verb, place, e)
    PROVE  /\ TasksOK' /\ tasks[e.rec] = Idle /\ e.rec \in Recs
           /\ Becomes(e.rec, [Idle EXCEPT !.verb = verb, !.entry = e, !.at = place])
<1> DEFINE t == [Idle EXCEPT !.verb = verb, !.entry = e, !.at = place]
<1>1. t.entry = e /\ t.verb = verb /\ t.at = place /\ t.updated = << >>
    BY DEF Idle
<1>2. t \in Working
    <2> DEFINE Task(verbs, es, places) ==
                   [verb : verbs, entry : es, at : places, failed : BOOLEAN,
                    updated : Seq(GoodEntries)]
               a == [Idle EXCEPT !.verb = verb]
               b == [a EXCEPT !.entry = e]
    <2>1. Idle \in Task({None}, {None}, {"idle"})
        BY EmptySeq DEF Idle
    <2>2. a \in Task(Verbs, {None}, {"idle"})
        BY <2>1
    <2> HIDE DEF a
    <2>3. b \in Task(Verbs, GoodEntries, {"idle"})
        BY <2>2
    <2> HIDE DEF b
    <2>4. [b EXCEPT !.at = place] \in Working
        BY <2>3 DEF Working
    <2> QED BY <2>4 DEF a, b
<1>3. t \in Working /\ TaskFor(e.rec, t)
    <2> HIDE DEF t
    <2>1. DOMAIN << >> = {}
        BY EmptySeq
    <2> QED BY <1>1, <1>2, <2>1 DEF TaskFor
<1>4. tasks' = [tasks EXCEPT ![e.rec] = t] /\ tasks[e.rec] = Idle /\ e.rec \in Recs
    BY EntriesAre DEF StartAction, Free
<1> HIDE DEF t
<1>5. TasksOK' /\ Becomes(e.rec, t)
    BY <1>3, <1>4, BecomesOK
<1> QED BY <1>4, <1>5 DEF t

-----------------------------------------------------------------------------
(* Every step keeps the types.                                             *)

\* What a step leaves alone keeps its types.
LEMMA Frames ==
    /\ DbOK /\ UNCHANGED db => DbOK'
    /\ GithubOK /\ UNCHANGED github => GithubOK'
    /\ ListsOK /\ UNCHANGED lists => ListsOK'
    /\ PendingOK /\ UNCHANGED <<dialog, reload>> => PendingOK'
    /\ TasksOK /\ UNCHANGED tasks => TasksOK'
    /\ BoundsOK /\ UNCHANGED keys /\ UNCHANGED fault => BoundsOK'
<1>1. DbOK /\ UNCHANGED db => DbOK'
    BY DEF DbOK, db
<1>2. GithubOK /\ UNCHANGED github => GithubOK'
    BY DEF GithubOK
<1>3. ListsOK /\ UNCHANGED lists => ListsOK'
    BY DEF ListsOK, CursorOK, lists
<1>4. PendingOK /\ UNCHANGED <<dialog, reload>> => PendingOK'
    BY DEF PendingOK
<1>5. TasksOK /\ UNCHANGED tasks => TasksOK'
    BY DEF TasksOK
<1>6. BoundsOK /\ UNCHANGED keys /\ UNCHANGED fault => BoundsOK'
    BY DEF BoundsOK
<1> QED BY <1>1, <1>2, <1>3, <1>4, <1>5, <1>6

\* A disturbance is counted.
LEMMA FaultOK ==
    ASSUME NEW kind, BoundsOK, Fault(kind), UNCHANGED keys
    PROVE  BoundsOK'
BY DEF Fault, BoundsOK

\* A key is counted.
LEMMA PressOK ==
    ASSUME BoundsOK, Press, UNCHANGED fault
    PROVE  BoundsOK'
BY BoundsAssumption DEF Press, BoundsOK

\* Of the live items, those that pass: none twice.
LEMMA OnlyLive ==
    ASSUME DbOK, NEW kept
    PROVE  /\ Only(live, kept) \in Seq(Items)
           /\ \A k, l \in DOMAIN Only(live, kept) :
                Only(live, kept)[k] = Only(live, kept)[l] => k = l
           /\ ToSet(Only(live, kept)) = ToSet(live) \cap kept
<1> DEFINE new == Only(live, kept)
<1>1. live \in Seq(Items) /\ Len(live) \in Nat /\ DOMAIN live = 1 .. Len(live)
    BY LenProperties DEF DbOK
<1>2. new \in Seq(Items) /\ ToSet(new) = ToSet(live) \cap kept
    BY <1>1, OnlyElements
<1>3. PICK m, p : KeptAt(live, kept, live, kept, m, p)
    BY <1>1, OnlyByPlaces
<1>4. /\ m \in Nat /\ p \in [1 .. m -> 1 .. Len(live)]
      /\ \A a, b \in 1 .. m : a < b => p[a] < p[b]
      /\ new = [a \in 1 .. m |-> live[p[a]]]
    BY <1>3 DEF KeptAt
<1>5. \A a, b \in 1 .. m : p[a] = p[b] => a = b
    BY <1>4
<1>6. \A a \in 1 .. m : new[a] = live[p[a]] /\ p[a] \in DOMAIN live
    BY <1>1, <1>4
<1>7. DOMAIN new = 1 .. m
    BY <1>4
<1>8. \A k, l \in DOMAIN new : new[k] = new[l] => k = l
    <2> HIDE DEF new
    <2> QED BY <1>5, <1>6, <1>7 DEF DbOK
<1> QED BY <1>2, <1>8

\* A recommendation ends.
LEMMA SupersedeOK ==
    ASSUME DbOK, NEW r \in Recs, Supersede(r),
           UNCHANGED <<recs, state, jobs>>, approvals' \subseteq GoodRows
    PROVE  DbOK'
<1>1. /\ live' \in Seq(Items)
      /\ \A k, l \in DOMAIN live' : live'[k] = live'[l] => k = l
    <2>1. CASE r = Latest(ItemOf(r))
        <3>1. live' = Only(live, Items \ {ItemOf(r)})
            BY <2>1 DEF Supersede, Without
        <3> QED BY <3>1, OnlyLive
    <2>2. CASE r # Latest(ItemOf(r))
        BY <2>2 DEF Supersede, DbOK
    <2> QED BY <2>1, <2>2
<1> QED BY <1>1 DEF DbOK

\* A recommendation is added in front of the live ones.
LEMMA RecommendOK ==
    ASSUME DbOK, NEW i \in Items, CanRecommend(i), Recommend(i),
           UNCHANGED <<state, jobs, approvals>>
    PROVE  DbOK'
<1>1. recs' \in [Items -> Nat] /\ \A j \in Items : recs'[j] \in 1 .. MaxRecs[j]
    <2>1. recs' = [recs EXCEPT ![i] = recs[i] + 1] /\ recs[i] < MaxRecs[i]
        BY DEF Recommend, CanRecommend
    <2>2. MaxRecs[i] \in Nat /\ recs[i] \in Nat
        BY BoundsAssumption DEF DbOK
    <2>3. recs[i] + 1 \in 1 .. MaxRecs[i]
        BY <2>1, <2>2
    <2> QED BY <2>1, <2>3 DEF DbOK
<1>2. /\ live' \in Seq(Items) /\ Len(live') = 1 + Len(live) /\ Len(live) \in Nat
      /\ live'[1] = i /\ \A k \in 2 .. Len(live) + 1 : live'[k] = live[k - 1]
    <2>1. live' = <<i>> \o live /\ live \in Seq(Items)
        BY DEF Recommend, DbOK
    <2>2. <<i>> \in Seq(Items) /\ Len(<<i>>) = 1 /\ <<i>>[1] = i
        OBVIOUS
    <2>3. /\ live' \in Seq(Items) /\ Len(live') = 1 + Len(live)
          /\ \A k \in 1 .. 1 + Len(live) :
                live'[k] = IF k <= 1 THEN <<i>>[k] ELSE live[k - 1]
        BY <2>1, <2>2, ConcatProperties
    <2>4. Len(live) \in Nat
        BY <2>1, LenProperties
    <2> QED BY <2>2, <2>3, <2>4
<1>3. DOMAIN live' = 1 .. Len(live) + 1 /\ DOMAIN live = 1 .. Len(live)
    BY <1>2, LenProperties DEF DbOK
<1>4. \A k \in DOMAIN live : live[k] # i
    BY DEF CanRecommend, ToSet
<1>5. \A k, l \in DOMAIN live' : live'[k] = live'[l] => k = l
    <2> SUFFICES ASSUME NEW k \in DOMAIN live', NEW l \in DOMAIN live', live'[k] = live'[l]
                 PROVE  k = l
        OBVIOUS
    <2>1. \A n \in DOMAIN live' : n = 1 \/ (n \in 2 .. Len(live) + 1 /\ n - 1 \in DOMAIN live)
        BY <1>2, <1>3
    <2>2. CASE k # 1 /\ l # 1
        <3>1. k - 1 = l - 1
            BY <1>2, <2>1, <2>2 DEF DbOK
        <3> QED BY <1>2, <1>3, <3>1
    <2>3. CASE k = 1 /\ l # 1
        BY <1>2, <1>4, <2>1, <2>3
    <2>4. CASE k # 1 /\ l = 1
        BY <1>2, <1>4, <2>1, <2>4
    <2> QED BY <2>2, <2>3, <2>4
<1> QED BY <1>1, <1>2, <1>5 DEF DbOK

\* An item ends or changes its state.
LEMMA WithoutOK ==
    ASSUME DbOK, NEW i, live' = Without(i) \/ live' = live,
           state' \in [Items -> States], UNCHANGED <<recs, jobs, approvals>>
    PROVE  DbOK'
<1>1. /\ live' \in Seq(Items)
      /\ \A k, l \in DOMAIN live' : live'[k] = live'[l] => k = l
    <2>1. CASE live' = Without(i)
        BY <2>1, OnlyLive DEF Without
    <2>2. CASE live' = live
        BY <2>2 DEF DbOK
    <2> QED BY <2>1, <2>2
<1> QED BY <1>1 DEF DbOK

\* Jobs change, and nothing else of the database.
LEMMA JobsOK ==
    ASSUME DbOK, UNCHANGED <<recs, live, state, approvals>>,
           jobs' \in Seq(GoodJobs), Len(jobs') <= MaxJobs
    PROVE  DbOK'
BY DEF DbOK

\* A job whose status changes is still a job for the same option.
LEMMA StatusOK ==
    ASSUME DbOK, NEW k \in DOMAIN jobs,
           NEW status \in {"queued", "running", "shown", "over"}
    PROVE  LET new == [jobs EXCEPT ![k].status = status] IN
           /\ new \in Seq(GoodJobs) /\ Len(new) = Len(jobs) /\ DOMAIN new = DOMAIN jobs
           /\ \A l \in DOMAIN jobs : new[l].rec = jobs[l].rec /\ new[l].option = jobs[l].option
<1> DEFINE job == [jobs[k] EXCEPT !.status = status]
           new == [jobs EXCEPT ![k] = job]
<1>1. jobs \in Seq(GoodJobs) /\ jobs[k] \in GoodJobs
    BY JobsAre DEF DbOK
<1>2. job \in GoodJobs /\ job.rec = jobs[k].rec /\ job.option = jobs[k].option
    BY <1>1 DEF GoodJobs
<1> HIDE DEF job
<1>3. /\ new \in Seq(GoodJobs) /\ Len(new) = Len(jobs)
      /\ \A l \in 1 .. Len(jobs) : new[l] = IF l = k THEN job ELSE jobs[l]
    BY <1>1, <1>2, ExceptSeq
<1>4. DOMAIN new = DOMAIN jobs /\ DOMAIN jobs = 1 .. Len(jobs)
    BY <1>1, <1>3, LenProperties
<1> HIDE DEF new
<1>5. \A l \in DOMAIN jobs : new[l].rec = jobs[l].rec /\ new[l].option = jobs[l].option
    BY <1>2, <1>3, <1>4
<1> QED BY <1>3, <1>4, <1>5 DEF new, job

\* Where an approval goes on.
LEMMA PlaceOK ==
    ASSUME NEW e, NEW place \in {"labels", "comment", "act", "record", "persist"}
    PROVE  LabelsOr(e, place) \in Places \ {"idle"} /\ Effects(e) \in {"comment", "act", "record"}
BY PlacesAre DEF LabelsOr, Effects

\* What is done for an option is what the option asks for.
LEMMA EffectsFit ==
    ASSUME NEW e, Change(e) \in Changes
    PROVE  FitsAt("approve", e, Effects(e)) /\ FitsAt("approve", e, LabelsOr(e, Effects(e)))
<1>1. FitsAt("approve", e, Effects(e))
    BY DEF FitsAt, Effects, Changes
<1>2. FitsAt("approve", e, "labels")
    BY DEF FitsAt
<1> QED BY <1>1, <1>2 DEF LabelsOr

\* A job is queued, or is not.
LEMMA QueueFixOK ==
    ASSUME Typed, NEW r \in Recs, QueueFix(r)
    PROVE  DbOK' /\ TasksOK' /\ BoundsOK'
<1> DEFINE e == tasks[r].entry
           k == LatestJob(ItemOf(r))
           new == [rec |-> r, option |-> e.active, status |-> "queued"]
           Queued == IF Approving(r) THEN StepTo(r, LabelsOr(e, Effects(e)))
                     ELSE Finish(r, << >>)
           base == IF k # 0 /\ jobs[k].status = "queued"
                   THEN [jobs EXCEPT ![k].status = "over"] ELSE jobs
<1>1. /\ DbOK /\ TasksOK /\ BoundsOK /\ tasks[r].at # "idle"
      /\ e \in GoodEntries /\ e.rec = r
    <2>1. tasks[r].at = "queue"
        BY DEF QueueFix, At
    <2> QED BY <2>1, BegunTask DEF Typed
<1>2. Queued => TasksOK'
    <2>1. LabelsOr(e, Effects(e)) \in Places \ {"idle"}
        BY PlaceOK
    <2>3. Approving(r) => FitsAt(tasks[r].verb, e, LabelsOr(e, Effects(e)))
        BY <1>1, EntriesAre, EffectsFit DEF Approving
    <2>2. << >> \in Seq(GoodEntries) /\ DOMAIN << >> = {}
        BY EmptySeq
    <2> HIDE DEF e
    <2> QED BY <1>1, <2>1, <2>2, <2>3, StepToOK, FinishOK DEF e
<1>3. Fail(r) => TasksOK'
    BY <1>1, FailOK
<1>4. UNCHANGED <<recs, live, state, approvals>> /\ UNCHANGED keys
    BY DEF QueueFix
<1>5. UNCHANGED jobs => DbOK'
    BY <1>1, <1>4, Frames DEF db
<1>6. ASSUME Len(jobs) < MaxJobs, jobs' = Append(base, new) PROVE DbOK'
    <2>1. k = 0 \/ k \in DOMAIN jobs
        BY <1>1, JobsAre DEF JobsOf
    <2>2. base \in Seq(GoodJobs) /\ Len(base) = Len(jobs)
        <3>1. CASE k # 0 /\ jobs[k].status = "queued"
            BY <1>1, <2>1, <3>1, StatusOK
        <3>2. CASE ~(k # 0 /\ jobs[k].status = "queued")
            BY <1>1, <3>2 DEF DbOK
        <3> QED BY <3>1, <3>2
    <2>3. new \in GoodJobs
        <3>1. e.active \in DOMAIN Plan[ItemOf(r)] /\ e.active \in Nat
            BY <1>1, EntriesAre DEF GoodEntries
        <3> HIDE DEF e
        <3> QED BY <3>1 DEF GoodJobs
    <2> HIDE DEF base, new
    <2>4. jobs' \in Seq(GoodJobs) /\ Len(jobs') = Len(jobs) + 1
        BY <1>6, <2>2, <2>3, AppendProperties
    <2>5. Len(jobs') <= MaxJobs
        BY <1>1, <1>6, <2>4, JobsAre, BoundsAssumption
    <2> QED BY <1>1, <1>4, <2>4, <2>5, JobsOK
<1>7. UNCHANGED fault \/ Fault("db")
    BY DEF QueueFix
<1>8. BoundsOK'
    BY <1>1, <1>4, <1>7, FaultOK, Frames
<1>9. (Queued \/ Fail(r)) /\ (UNCHANGED jobs \/ (Len(jobs) < MaxJobs /\ jobs' = Append(base, new)))
    BY DEF QueueFix
<1> HIDE DEF Queued, base, new, e, k
<1> QED BY <1>2, <1>3, <1>5, <1>6, <1>8, <1>9

\* Steps of the tasks on GitHub.
LEMMA OnGithubOK ==
    ASSUME Typed, NEW r \in Recs, EditLabels(r) \/ Comment(r) \/ Act(r)
    PROVE  GithubOK' /\ TasksOK' /\ BoundsOK'
<1>1. GithubOK /\ TasksOK /\ BoundsOK /\ ItemOf(r) \in Items
    BY RecsAre DEF Typed
<1>2. tasks[r].at # "idle"
    BY DEF EditLabels, Comment, Act, At
<1> DEFINE e == tasks[r].entry
           verb == tasks[r].verb
<1>8. Change(e) \in Changes /\ FitsAt(verb, e, tasks[r].at)
    BY <1>1, <1>2, BegunTask, EntriesAre
<1> HIDE DEF e, verb
<1>3. \A place \in {"labels", "comment", "act", "record", "persist"} :
        StepTo(r, place) /\ FitsAt(verb, e, place) => TasksOK'
    BY <1>1, <1>2, StepToOK, PlacesAre DEF e, verb
<1>4. Fail(r) => TasksOK'
    BY <1>1, <1>2, FailOK
<1>5. CASE EditLabels(r)
    <2>1. Effects(e) \in {"comment", "act", "record"} /\ FitsAt("approve", e, Effects(e))
        BY <1>8, PlaceOK, EffectsFit
    <2>5. verb \in {"approve", "mark"}
        BY <1>5, <1>8 DEF FitsAt, EditLabels, At
    <2>6. FitsAt(verb, e, "persist") /\ FitsAt("approve", e, "record")
        BY <2>5 DEF FitsAt
    <2>2. TasksOK'
        BY <1>3, <1>4, <1>5, <2>1, <2>6 DEF EditLabels, Approving, e, verb
    <2>3. GithubOK'
        BY <1>1, <1>5 DEF EditLabels, GithubOK
    <2>4. BoundsOK'
        BY <1>1, <1>5, FaultOK, Frames DEF EditLabels
    <2> QED BY <2>2, <2>3, <2>4
<1>6. CASE Comment(r)
    <2>4. verb = "approve"
        BY <1>6, <1>8 DEF FitsAt, Comment, At
    <2>5. FitsAt(verb, e, "persist") /\ FitsAt(verb, e, "record")
          /\ (Change(e) = "merge" => FitsAt(verb, e, "act"))
        BY <2>4 DEF FitsAt
    <2>1. TasksOK'
        BY <1>3, <1>6, <2>5 DEF Comment, e
    <2>2. GithubOK'
        BY <1>1, <1>6 DEF Comment, GithubOK
    <2>3. BoundsOK'
        BY <1>1, <1>6, FaultOK, Frames DEF Comment
    <2> QED BY <2>1, <2>2, <2>3
<1>7. CASE Act(r)
    <2> DEFINE i == ItemOf(r)
               c == Change(tasks[r].entry)
               to == CASE c = "close" -> "closed" [] c = "merge" -> "merged"
                       [] c = "changes" -> github.state[i]
    <2>4. verb = "approve" /\ Change(e) \in {"changes", "close", "merge"}
        BY <1>7, <1>8 DEF FitsAt, Act, At
    <2>5. FitsAt(verb, e, "persist") /\ FitsAt(verb, e, "record")
        BY <2>4 DEF FitsAt
    <2>1. TasksOK'
        BY <1>3, <1>7, <2>5 DEF Act
    <2>2. GithubOK'
        <3>1. CASE UNCHANGED github
            BY <1>1, <3>1, Frames
        <3>2. CASE /\ github.state[i] \in {"open", to}
                   /\ github' = [github EXCEPT !.state[i] = to, !.commented = @ \cup {r}]
            <4>1. github.state \in [Items -> States] /\ github.commented \subseteq Recs
                BY <1>1 DEF GithubOK
            <4>2. to \in States
                <5>1. c \in {"close", "merge", "changes"} => to \in States
                    BY <1>1, <4>1 DEF States
                <5>2. c \in {"close", "merge", "changes"}
                    BY <2>4 DEF e
                <5> QED BY <5>1, <5>2
            <4> HIDE DEF to, c
            <4>3. [github EXCEPT !.state[i] = to] \in
                    [state : [Items -> States], labelled : SUBSET Items, commented : SUBSET Recs]
                BY <1>1, <4>1, <4>2 DEF GithubOK
            <4> QED BY <1>1, <3>2, <4>1, <4>3 DEF GithubOK
        <3> QED BY <1>7, <3>1, <3>2 DEF Act
    <2>3. BoundsOK'
        BY <1>1, <1>7, FaultOK, Frames DEF Act
    <2> QED BY <2>1, <2>2, <2>3
<1> QED BY <1>5, <1>6, <1>7

\* Steps of the tasks on the database.
LEMMA RowOK ==
    ASSUME TasksOK, NEW r \in Recs, tasks[r].at # "idle",
           NEW decision \in {"approve", "mark"}, NEW failed \in BOOLEAN
    PROVE  Row(r, decision, failed) \in GoodRows
<1>1. tasks[r].entry \in GoodEntries /\ tasks[r].entry.rec = r
    BY BegunTask
<1>2. /\ tasks[r].entry.active \in DOMAIN Plan[ItemOf(r)] /\ tasks[r].entry.active \in Nat
      /\ Change(tasks[r].entry) \in Changes
    BY <1>1, EntriesAre DEF GoodEntries
<1> QED BY <1>2 DEF Row, GoodRows

\* Rows, items and recommendations.
LEMMA OnDatabaseOK ==
    ASSUME Typed, NEW r \in Recs,
           RecordFailedAttempt(r) \/ UpdateItem(r) \/ SupersedeForRerun(r) \/ Persist(r)
    PROVE  DbOK' /\ TasksOK' /\ BoundsOK'
<1>1. DbOK /\ TasksOK /\ BoundsOK /\ ItemOf(r) \in Items
    BY RecsAre DEF Typed
<1>2. tasks[r].at # "idle"
    BY DEF RecordFailedAttempt, Persist, UpdateItem, SupersedeForRerun, At
<1>11. FitsAt(tasks[r].verb, tasks[r].entry, tasks[r].at)
    BY <1>1, <1>2, BegunTask
<1>3. \A place \in {"item", "refetch", "triage"} :
        StepTo(r, place) /\ FitsAt(tasks[r].verb, tasks[r].entry, place) => TasksOK'
    BY <1>1, <1>2, StepToOK, PlacesAre
<1>4. Fail(r) => TasksOK'
    BY <1>1, <1>2, FailOK
<1>5. Finish(r, << >>) => TasksOK'
    <2>1. << >> \in Seq(GoodEntries) /\ DOMAIN << >> = {}
        BY EmptySeq
    <2> QED BY <1>1, <1>2, <2>1, FinishOK
<1>6. approvals \subseteq GoodRows
    BY <1>1 DEF DbOK
<1>7. CASE RecordFailedAttempt(r)
    <2>1. Row(r, "approve", TRUE) \in GoodRows
        BY <1>1, <1>2, RowOK
    <2>2. approvals' \subseteq GoodRows
        BY <1>6, <1>7, <2>1 DEF RecordFailedAttempt
    <2>3. DbOK'
        BY <1>1, <1>7, <2>2 DEF RecordFailedAttempt, DbOK
    <2>4. BoundsOK'
        BY <1>1, <1>7, FaultOK, Frames DEF RecordFailedAttempt
    <2> QED BY <1>4, <1>7, <2>3, <2>4 DEF RecordFailedAttempt
<1>8. CASE Persist(r)
    <2>0. tasks[r].verb \in {"approve", "mark"}
        BY <1>8, <1>11 DEF FitsAt, Persist, At
    <2>1. Row(r, tasks[r].verb, FALSE) \in GoodRows
        BY <1>1, <1>2, <2>0, RowOK
    <2>2. UNCHANGED <<recs, state, jobs>>
        BY <1>8 DEF Persist
    <2>4. DbOK'
        <3>1. CASE UNCHANGED <<approvals, live>>
            BY <1>1, <2>2, <3>1, Frames DEF db
        <3>2. CASE approvals' = approvals \cup {Row(r, tasks[r].verb, FALSE)} /\ Supersede(r)
            <4>1. approvals' \subseteq GoodRows
                BY <1>6, <2>1, <3>2
            <4> QED BY <1>1, <2>2, <3>2, <4>1, SupersedeOK
        <3> QED BY <1>8, <3>1, <3>2 DEF Persist
    <2>5. BoundsOK'
        BY <1>1, <1>8, FaultOK, Frames DEF Persist
    <2>7. FitsAt(tasks[r].verb, tasks[r].entry, "item")
        BY <2>0 DEF FitsAt
    <2>6. TasksOK'
        BY <1>3, <1>4, <1>8, <2>7 DEF Persist
    <2> QED BY <2>4, <2>5, <2>6
<1>9. CASE UpdateItem(r)
    <2>1. state' \in [Items -> States]
        BY <1>1, <1>9 DEF UpdateItem, DbOK, States
    <2>2. DbOK'
        BY <1>1, <1>9, <2>1, WithoutOK DEF UpdateItem
    <2>3. BoundsOK'
        BY <1>1, <1>9, FaultOK, Frames DEF UpdateItem
    <2>5. Approving(r) => FitsAt(tasks[r].verb, tasks[r].entry, "refetch")
        BY DEF FitsAt, Approving
    <2>4. TasksOK'
        BY <1>3, <1>4, <1>5, <1>9, <2>5 DEF UpdateItem
    <2> QED BY <2>2, <2>3, <2>4
<1>10. CASE SupersedeForRerun(r)
    <2>1. DbOK'
        <3>1. UNCHANGED <<recs, state, jobs, approvals>>
            BY <1>10 DEF SupersedeForRerun
        <3>2. CASE Supersede(r)
            BY <1>1, <1>6, <3>1, <3>2, SupersedeOK
        <3>3. CASE UNCHANGED live
            BY <1>1, <3>1, <3>3, Frames DEF db
        <3> QED BY <1>10, <3>2, <3>3 DEF SupersedeForRerun
    <2>2. BoundsOK'
        BY <1>1, <1>10, FaultOK, Frames DEF SupersedeForRerun
    <2>4. FitsAt(tasks[r].verb, tasks[r].entry, "triage")
        BY DEF FitsAt
    <2>3. TasksOK'
        BY <1>3, <1>4, <1>10, <2>4 DEF SupersedeForRerun
    <2> QED BY <2>1, <2>2, <2>3
<1> QED BY <1>7, <1>8, <1>9, <1>10

\* The entry of a new recommendation is well formed.
LEMMA NewEntryIsGood ==
    ASSUME NEW q \in Recs
    PROVE  [rec |-> q, active |-> 1, plan |-> Plan[ItemOf(q)]] \in GoodEntries
BY RecsAre, PlansAre DEF GoodEntries

\* A task reads what it will show.
LEMMA ResultsOK ==
    ASSUME Typed, NEW r \in Recs, Refetch(r) \/ Retriage(r)
    PROVE  DbOK' /\ TasksOK' /\ BoundsOK'
<1>1. DbOK /\ TasksOK /\ BoundsOK /\ ItemOf(r) \in Items
    BY RecsAre DEF Typed
<1>2. tasks[r].at # "idle"
    BY DEF Refetch, Retriage, At
<1>3. CASE Refetch(r)
    <2> DEFINE new == Only(LoadInboxEntries, {e \in ToSet(LoadInboxEntries) : e.rec = r})
    <2>1. ListOK(new) /\ \A k \in DOMAIN new : new[k].rec = r
        BY <1>1, LoadListOK, OnlyListOK
    <2>2. new \in Seq(GoodEntries)
        BY <2>1 DEF ListOK
    <2>3. Finish(r, new) /\ UNCHANGED <<keys, db, fault>>
        BY <1>3 DEF Refetch
    <2> HIDE DEF new
    <2>4. TasksOK'
        BY <1>1, <1>2, <2>1, <2>2, <2>3, FinishOK
    <2> QED BY <1>1, <2>3, <2>4, Frames
<1>4. CASE Retriage(r)
    <2> DEFINE i == ItemOf(r)
               Show(q) == Finish(r, <<[rec |-> q, active |-> 1, plan |-> Plan[i]]>>)
    <2>1. ASSUME NEW q \in Recs, ItemOf(q) = i, Show(q) PROVE TasksOK'
        <3> DEFINE e == [rec |-> q, active |-> 1, plan |-> Plan[i]]
        <3>1. e \in GoodEntries /\ ItemOf(e.rec) = i
            BY <2>1, NewEntryIsGood
        <3> HIDE DEF e
        <3>2. <<e>> \in Seq(GoodEntries) /\ DOMAIN <<e>> = {1} /\ <<e>>[1] = e
            BY <3>1
        <3>3. \A k \in DOMAIN <<e>> : ItemOf(<<e>>[k].rec) = i
            BY <3>1, <3>2
        <3>4. Finish(r, <<e>>)
            BY <2>1 DEF e
        <3> QED BY <1>1, <1>2, <3>2, <3>3, <3>4, FinishOK
    <2>2. UNCHANGED <<keys, state, jobs, approvals>> /\ (UNCHANGED fault \/ Fault("github"))
        BY <1>4 DEF Retriage
    <2>3. BoundsOK'
        BY <1>1, <2>2, FaultOK, Frames
    <2>4. CASE CanRecommend(i) /\ Recommend(i) /\ Show(<<i, recs[i] + 1>>)
        <3>1. DbOK'
            BY <1>1, <2>2, <2>4, RecommendOK
        <3>2. recs[i] + 1 \in 1 .. MaxRecs[i]
            <4>1. recs[i] \in Nat /\ MaxRecs[i] \in Nat /\ recs[i] < MaxRecs[i]
                BY <1>1, <2>4, BoundsAssumption DEF DbOK, CanRecommend
            <4> QED BY <4>1
        <3>3. <<i, recs[i] + 1>> \in Recs /\ ItemOf(<<i, recs[i] + 1>>) = i
            BY <1>1, <3>2, RecsAre
        <3> HIDE DEF Show
        <3> QED BY <2>1, <2>3, <2>4, <3>1, <3>3
    <2>5. CASE Show(Latest(i)) /\ UNCHANGED <<recs, live>>
        <3>1. Latest(i) \in Recs /\ ItemOf(Latest(i)) = i
            BY <1>1, LatestIsRec
        <3>2. DbOK'
            BY <1>1, <2>2, <2>5, Frames DEF db
        <3> HIDE DEF Show
        <3> QED BY <2>1, <2>3, <2>5, <3>1, <3>2
    <2>6. CASE Fail(r) /\ UNCHANGED <<recs, live>>
        <3>1. DbOK'
            BY <1>1, <2>2, <2>6, Frames DEF db
        <3> QED BY <1>1, <1>2, <2>3, <2>6, <3>1, FailOK
    <2> QED BY <1>4, <2>4, <2>5, <2>6 DEF Retriage
<1> QED BY <1>3, <1>4

\* An action that a key starts: the cursor goes on to the next entry.
LEMMA StartsOK ==
    ASSUME Typed, ApproveCurrent \/ FixCurrent \/ DismissCurrent
    PROVE  ListsOK' /\ TasksOK' /\ BoundsOK' /\ UNCHANGED <<db, github, dialog, reload>>
<1>1. ListsOK /\ TasksOK /\ BoundsOK
    BY DEF Typed
<1>2. PressOnEntry /\ AdvanceCursor /\ UNCHANGED <<all, entries, filter, fault, db, github, dialog, reload>>
    BY DEF ApproveCurrent, FixCurrent, DismissCurrent
<1>3. ListsOK'
    BY <1>1, <1>2, AdvanceCursorOK
<1>4. BoundsOK'
    BY <1>1, <1>2, PressOK DEF PressOnEntry
<1>5. Current \in GoodEntries
    BY <1>1, <1>2, CursorNat DEF PressOnEntry
<1>6. Change(Current) \in Changes
    BY <1>5, EntriesAre
<1> DEFINE e == Current
<1>7. TasksOK'
    <2> HIDE DEF e
    <2>0. {"approve", "fix", "mark"} \subseteq Verbs
        BY DEF Verbs
    <2>1. CASE ApproveCurrent
        <3> DEFINE place == IF QueuesFix(e) THEN "queue" ELSE LabelsOr(e, Effects(e))
        <3>1. StartAction("approve", place, e)
            BY <2>1 DEF ApproveCurrent, e
        <3>2. place \in Places \ {"idle"}
            BY PlaceOK, PlacesAre
        <3>3. FitsAt("approve", e, "queue") /\ FitsAt("approve", e, LabelsOr(e, Effects(e)))
            BY <1>6, EffectsFit DEF FitsAt, e
        <3>4. FitsAt("approve", e, place)
            BY <3>3
        <3> HIDE DEF place
        <3> QED BY <1>1, <1>5, <2>0, <3>1, <3>2, <3>4, StartActionOK DEF e
    <2>2. CASE FixCurrent
        <3>1. StartAction("fix", "queue", e) /\ FitsAt("fix", e, "queue")
            BY <2>2 DEF FixCurrent, FitsAt, e
        <3> QED BY <1>1, <1>5, <2>0, <3>1, PlacesAre, StartActionOK DEF e
    <2>3. CASE DismissCurrent
        <3> DEFINE place == LabelsOr(e, "persist")
        <3>1. StartAction("mark", place, e)
            BY <2>3 DEF DismissCurrent, e
        <3>2. place \in Places \ {"idle"}
            BY PlaceOK
        <3>3. FitsAt("mark", e, place)
            BY DEF FitsAt, LabelsOr
        <3> HIDE DEF place
        <3> QED BY <1>1, <1>5, <2>0, <3>1, <3>2, <3>3, StartActionOK DEF e
    <2> QED BY <2>1, <2>2, <2>3
<1> QED BY <1>2, <1>3, <1>4, <1>7

\* Keys that work on the lists only.
LEMMA BrowsingOK ==
    ASSUME Typed, MoveCursor \/ CycleOption \/ CycleRoleFilter
    PROVE  ListsOK' /\ BoundsOK' /\ UNCHANGED <<db, github, dialog, reload, tasks>>
<1>1. ListsOK /\ BoundsOK
    BY DEF Typed
<1>2. Press /\ UNCHANGED <<db, github, dialog, reload, tasks, fault>>
    BY DEF MoveCursor, CycleOption, CycleRoleFilter, PressOnEntry
<1>3. BoundsOK'
    BY <1>1, <1>2, PressOK
<1>4. ListsOK'
    <2>1. CASE MoveCursor
        <3>1. DOMAIN entries = 1 .. Len(entries)
            BY <1>1, GoodList DEF ListsOK
        <3> QED BY <1>1, <2>1, <3>1 DEF MoveCursor, ListsOK, CursorOK
    <2>2. CASE CycleOption
        <3>1. PICK o \in DOMAIN Current.plan :
                ReplaceEntry(Current.rec, [Current EXCEPT !.active = o])
            BY <2>2 DEF CycleOption
        <3>2. Current \in GoodEntries /\ UNCHANGED filter
            BY <1>1, <2>2, CursorNat DEF CycleOption, PressOnEntry
        <3> DEFINE e == [Current EXCEPT !.active = o]
        <3>3. e \in GoodEntries /\ e.rec = Current.rec /\ Current.rec \in Recs
            BY <3>2, EntryChanges, EntriesAre
        <3>4. ReplaceEntry(Current.rec, e)
            BY <3>1
        <3> HIDE DEF e
        <3> QED BY <1>1, <3>2, <3>3, <3>4, ReplaceEntryOK
    <2>3. CASE CycleRoleFilter
        <3>1. ListOK(entries') /\ UNCHANGED all /\ cursor' = 1
            BY <1>1, <2>3, OnlyListOK DEF CycleRoleFilter, ApplyRoleFilter, ListsOK
        <3>2. entries' \in Seq(GoodEntries) /\ Len(entries') \in Nat
            BY <3>1, GoodList
        <3>3. entries' # << >> => Len(entries') # 0
            BY <3>2, EmptySeq
        <3>4. CursorOK'
            BY <3>1, <3>2, <3>3 DEF CursorOK
        <3>5. filter' \in {"all", "maintainer", "contributor"}
            BY <1>1, <2>3 DEF CycleRoleFilter, ListsOK
        <3> QED BY <1>1, <3>1, <3>4, <3>5 DEF ListsOK, ListOK
    <2> QED BY <2>1, <2>2, <2>3 DEF MoveCursor, CycleOption, CycleRoleFilter
<1> QED BY <1>2, <1>3, <1>4

\* The dialogs.
LEMMA DialogsOK ==
    ASSUME Typed, EditCurrent \/ OpenRerunInput \/ ApplyEditFinished \/ RerunEntry \/ DropRerunInput
    PROVE  ListsOK' /\ PendingOK' /\ TasksOK' /\ BoundsOK' /\ UNCHANGED <<db, github>>
<1>1. ListsOK /\ PendingOK /\ TasksOK /\ BoundsOK
    BY DEF Typed
<1>2. ASSUME NEW what \in {"edit", "rerun"}, OpenDialog(what)
      PROVE  ListsOK' /\ PendingOK' /\ TasksOK' /\ BoundsOK' /\ UNCHANGED <<db, github>>
    <2>1. Current \in GoodEntries
        BY <1>1, <1>2, CursorNat DEF OpenDialog, PressOnEntry
    <2>2. dialog' \in [what : {"edit", "rerun"}, entry : GoodEntries] /\ UNCHANGED reload
        BY <1>2, <2>1 DEF OpenDialog
    <2>3. PendingOK'
        BY <1>1, <2>2 DEF PendingOK, ListOK
    <2>4. BoundsOK'
        BY <1>1, <1>2, PressOK DEF OpenDialog, PressOnEntry
    <2> QED BY <1>1, <1>2, <2>3, <2>4, Frames DEF OpenDialog
<1>3. ASSUME dialog' = NoDialog, UNCHANGED reload PROVE PendingOK'
    BY <1>1, <1>3 DEF PendingOK, ListOK
<1>4. dialog.what \in {"edit", "rerun"} => dialog.entry \in GoodEntries
    BY <1>1 DEF PendingOK, NoDialog
<1>5. CASE ApplyEditFinished
    <2>1. dialog.what = "edit" /\ dialog' = NoDialog /\ UNCHANGED <<db, github, reload, tasks, keys, fault>>
        BY <1>5 DEF ApplyEditFinished
    <2>2. ListsOK'
        <3>1. CASE UNCHANGED lists
            BY <1>1, <3>1, Frames
        <3>2. CASE ~ UNCHANGED lists
            <4>1. PICK change \in Edits :
                    /\ ReplaceEntry(ParseEdited(dialog.entry, change).rec, ParseEdited(dialog.entry, change))
                    /\ UNCHANGED filter
                BY <1>5, <3>2 DEF ApplyEditFinished
            <4> DEFINE e == ParseEdited(dialog.entry, change)
            <4>2. e \in GoodEntries
                BY <1>4, <2>1, EntryChanges, PlanAssumption
            <4>3. ReplaceEntry(e.rec, e)
                BY <4>1
            <4> HIDE DEF e
            <4>4. e.rec \in Recs
                BY <4>2, EntriesAre
            <4> QED BY <1>1, <4>1, <4>2, <4>3, <4>4, ReplaceEntryOK
        <3> QED BY <3>1, <3>2
    <2> QED BY <1>1, <1>3, <2>1, <2>2, Frames
<1>6. CASE RerunEntry
    <2>1. /\ dialog.what = "rerun" /\ dialog' = NoDialog
          /\ StartAction("rerun", "supersede", dialog.entry)
          /\ UNCHANGED <<db, github, lists, reload, keys, fault>>
        BY <1>6 DEF RerunEntry
    <2>2. "rerun" \in Verbs /\ FitsAt("rerun", dialog.entry, "supersede")
        BY DEF Verbs, FitsAt
    <2>3. TasksOK'
        BY <1>1, <1>4, <2>1, <2>2, PlacesAre, StartActionOK
    <2> QED BY <1>1, <1>3, <2>1, <2>3, Frames
<1>7. CASE DropRerunInput
    BY <1>1, <1>3, <1>7, Frames DEF DropRerunInput
<1> QED BY <1>2, <1>5, <1>6, <1>7 DEF EditCurrent, OpenRerunInput

\* Reloads and results that reach the lists.
LEMMA MessagesOK ==
    ASSUME Typed, ReadRows \/ DeliverReload \/ RefreshTick \/ QuitAndReopen
                  \/ \E r \in Recs : ApplyActionFinished(r)
    PROVE  ListsOK' /\ PendingOK' /\ TasksOK' /\ BoundsOK' /\ UNCHANGED <<db, github>>
<1>1. DbOK /\ ListsOK /\ PendingOK /\ TasksOK /\ BoundsOK
    BY DEF Typed
<1>2. ListOK(LoadInboxEntries)
    BY <1>1, LoadListOK
<1>3. CASE ReadRows
    <2>1. PendingOK'
        BY <1>1, <1>2, <1>3 DEF ReadRows, PendingOK, ListOK
    <2> QED BY <1>1, <1>3, <2>1, Frames DEF ReadRows
<1>4. CASE DeliverReload
    <2>1. ListOK(reload) /\ ApplyReload(reload)
        BY <1>1, <1>4 DEF DeliverReload, PendingOK
    <2>2. ListsOK'
        BY <1>1, <2>1, ApplyReloadOK
    <2>3. PendingOK'
        BY <1>1, <1>4 DEF DeliverReload, PendingOK, ListOK
    <2> QED BY <1>1, <1>4, <2>2, <2>3, Frames DEF DeliverReload
<1>5. CASE RefreshTick
    <2>1. ListsOK'
        BY <1>1, <1>2, <1>5, ApplyReloadOK DEF RefreshTick
    <2> QED BY <1>1, <1>5, <2>1, Frames DEF RefreshTick
<1>6. CASE QuitAndReopen
    <2>1. all' = LoadInboxEntries /\ entries' = LoadInboxEntries /\ cursor' = 1 /\ filter' = "all"
        BY <1>6 DEF QuitAndReopen
    <2>2. entries' \in Seq(GoodEntries) /\ Len(entries') \in Nat
        BY <1>2, <2>1, GoodList
    <2>3. entries' # << >> => Len(entries') # 0
        BY <2>2, EmptySeq
    <2>4. ListsOK'
        BY <1>2, <2>1, <2>2, <2>3 DEF ListsOK, CursorOK, ListOK
    <2>5. PendingOK'
        BY <1>1, <1>6 DEF QuitAndReopen, PendingOK, ListOK
    <2>6. TasksOK'
        BY <1>6 DEF QuitAndReopen, TasksOK
    <2>7. BoundsOK'
        BY <1>1, <1>6, FaultOK DEF QuitAndReopen
    <2> QED BY <1>6, <2>4, <2>5, <2>6, <2>7 DEF QuitAndReopen
<1>7. ASSUME NEW r \in Recs, ApplyActionFinished(r)
      PROVE  ListsOK' /\ PendingOK' /\ TasksOK' /\ BoundsOK' /\ UNCHANGED <<db, github>>
    <2> DEFINE t == tasks[r]
    <2>1. tasks[r].at = "done" /\ tasks' = [tasks EXCEPT ![r] = Idle]
          /\ UNCHANGED <<keys, db, github, dialog, reload, fault>>
        BY <1>7 DEF ApplyActionFinished, At
    <2>2. t \in Working /\ TaskFor(r, t)
        BY <1>1, <2>1, BegunTask
    <2>3. TasksOK'
        BY <1>1, <2>1, BecomesOK
    <2>4. ListsOK'
        <3>1. CASE UNCHANGED lists
            BY <1>1, <3>1, Frames
        <3>2. CASE t.updated # << >> /\ ReplaceEntry(r, t.updated[1]) /\ UNCHANGED filter
            <4> DEFINE e == t.updated[1]
            <4>1. t.updated \in Seq(GoodEntries)
                BY <2>2 DEF Working
            <4>2. e \in GoodEntries /\ 1 \in DOMAIN t.updated
                BY <3>2, <4>1, EmptySeq, LenProperties
            <4>3. ItemOf(e.rec) = ItemOf(r)
                BY <2>2, <4>2 DEF TaskFor
            <4>4. ReplaceEntry(r, e)
                BY <3>2
            <4> HIDE DEF e
            <4> QED BY <1>1, <3>2, <4>2, <4>3, <4>4, ReplaceEntryOK
        <3>3. CASE RemoveEntry(r) /\ UNCHANGED filter
            BY <1>1, <3>3, RemoveEntryOK
        <3> QED BY <1>7, <3>1, <3>2, <3>3 DEF ApplyActionFinished
    <2> QED BY <1>1, <2>1, <2>3, <2>4, Frames
<1> QED BY <1>3, <1>4, <1>5, <1>6, <1>7

\* Daemon and other sessions.
LEMMA OthersOK ==
    ASSUME Typed,
           \/ \E i \in Items : DecideElsewhere(i) \/ DaemonRecommends(i) \/ SyncItem(i)
           \/ \E k \in DOMAIN jobs : JobMoves(k)
    PROVE  DbOK' /\ BoundsOK' /\ UNCHANGED <<github, lists, dialog, reload, tasks>>
<1>1. DbOK /\ GithubOK /\ BoundsOK
    BY DEF Typed
<1>2. CASE \E i \in Items : DecideElsewhere(i)
    <2>1. PICK i \in Items : DecideElsewhere(i)
        BY <1>2
    <2>2. state' \in [Items -> States]
        BY <1>1, <2>1 DEF DecideElsewhere, DbOK
    <2>3. DbOK'
        BY <1>1, <2>1, <2>2, WithoutOK DEF DecideElsewhere
    <2> QED BY <1>1, <2>1, <2>3, FaultOK DEF DecideElsewhere
<1>3. CASE \E i \in Items : DaemonRecommends(i)
    BY <1>1, <1>3, RecommendOK, Frames DEF DaemonRecommends
<1>4. CASE \E i \in Items : SyncItem(i)
    <2>1. PICK i \in Items : SyncItem(i)
        BY <1>4
    <2>2. state' \in [Items -> States]
        BY <1>1, <2>1 DEF SyncItem, DbOK, GithubOK
    <2>3. DbOK'
        BY <1>1, <2>1, <2>2, WithoutOK DEF SyncItem
    <2> QED BY <1>1, <2>1, <2>3, Frames DEF SyncItem
<1>5. CASE \E k \in DOMAIN jobs : JobMoves(k)
    <2>1. PICK k \in DOMAIN jobs : JobMoves(k)
        BY <1>5
    <2>2. PICK status \in {"running", "shown", "over"} : jobs' = [jobs EXCEPT ![k].status = status]
        BY <2>1 DEF JobMoves
    <2>3. jobs' \in Seq(GoodJobs) /\ Len(jobs') = Len(jobs)
        BY <1>1, <2>2, StatusOK
    <2>4. DbOK'
        BY <1>1, <2>1, <2>3, JobsOK DEF JobMoves, DbOK
    <2> QED BY <1>1, <2>1, <2>4, Frames DEF JobMoves
<1> QED BY <1>2, <1>3, <1>4, <1>5

\* The first state is typed.
LEMMA TypedInit == Init => Typed
<1> SUFFICES ASSUME Init PROVE Typed
    OBVIOUS
<1>1. DbOK
    <2>1. live \in Seq(Items) /\ \A k, l \in DOMAIN live : live[k] = live[l] => k = l
        BY ItemsAssumption, SetToSeqLists DEF Init
    <2>2. recs \in [Items -> Nat] /\ \A i \in Items : recs[i] \in 1 .. MaxRecs[i]
        BY BoundsAssumption DEF Init
    <2>3. jobs \in Seq(GoodJobs) /\ Len(jobs) <= MaxJobs
        BY BoundsAssumption, EmptySeq DEF Init
    <2> QED BY <2>1, <2>2, <2>3 DEF Init, DbOK, States
<1>2. GithubOK
    <2>1. [i \in Items |-> "open"] \in [Items -> States]
        BY DEF States
    <2> QED BY <2>1 DEF Init, GithubOK
<1>3. ListOK(LoadInboxEntries)
    BY <1>1, LoadListOK
<1>4. ListsOK
    <2>1. entries \in Seq(GoodEntries) /\ Len(entries) \in Nat
        BY <1>3, GoodList DEF Init, Open
    <2>2. entries # << >> => Len(entries) # 0
        BY <2>1, EmptySeq
    <2> QED BY <1>3, <2>1, <2>2 DEF Init, Open, ListsOK, CursorOK
<1>5. PendingOK
    BY DEF Init, Open, PendingOK
<1>6. TasksOK
    BY DEF Init, Open, TasksOK
<1>7. BoundsOK
    BY BoundsAssumption DEF Init, BoundsOK
<1> QED BY <1>1, <1>2, <1>4, <1>5, <1>6, <1>7 DEF Typed

\* Every step keeps the types.
LEMMA TypedStep == Typed /\ [Next]_vars => Typed'
<1> SUFFICES ASSUME Typed, [Next]_vars PROVE Typed'
    OBVIOUS
<1>1. CASE Key
    <2>1. CASE ApproveCurrent \/ FixCurrent \/ DismissCurrent
        BY <2>1, StartsOK, Frames DEF Typed
    <2>2. CASE MoveCursor \/ CycleOption \/ CycleRoleFilter
        BY <2>2, BrowsingOK, Frames DEF Typed
    <2>3. CASE EditCurrent \/ OpenRerunInput \/ ApplyEditFinished \/ RerunEntry \/ DropRerunInput
        BY <2>3, DialogsOK, Frames DEF Typed
    <2> QED BY <1>1, <2>1, <2>2, <2>3 DEF Key
<1>2. CASE ReadRows \/ DeliverReload \/ RefreshTick \/ QuitAndReopen
           \/ \E r \in Recs : ApplyActionFinished(r)
    BY <1>2, MessagesOK, Frames DEF Typed
<1>3. ASSUME NEW r \in Recs, TaskStep(r) PROVE Typed'
    <2>1. CASE QueueFix(r)
        BY <2>1, QueueFixOK, Frames DEF Typed, QueueFix
    <2>2. CASE EditLabels(r) \/ Comment(r) \/ Act(r)
        BY <2>2, OnGithubOK, Frames DEF Typed, EditLabels, Comment, Act
    <2>3. CASE RecordFailedAttempt(r) \/ UpdateItem(r) \/ SupersedeForRerun(r) \/ Persist(r)
        BY <2>3, OnDatabaseOK, Frames
        DEF Typed, RecordFailedAttempt, UpdateItem, SupersedeForRerun, Persist
    <2>4. CASE Refetch(r) \/ Retriage(r)
        BY <2>4, ResultsOK, Frames DEF Typed, Refetch, Retriage
    <2> QED BY <1>3, <2>1, <2>2, <2>3, <2>4 DEF TaskStep
<1>4. CASE \/ \E i \in Items : DecideElsewhere(i) \/ DaemonRecommends(i) \/ SyncItem(i)
           \/ \E k \in DOMAIN jobs : JobMoves(k)
    BY <1>4, OthersOK, Frames DEF Typed
<1>5. CASE UNCHANGED vars
    BY <1>5, Frames DEF Typed, vars, lists
<1> QED BY <1>1, <1>2, <1>3, <1>4, <1>5 DEF Next

\* Types hold in every state: what the code relies on without a check.  Lists have an
\* item once, the cursor is on an entry, a task is for the recommendation it began with.
THEOREM TypedInvariant == Spec => []Typed
<1> HIDE DEF Typed
<1> QED BY TypedInit, TypedStep, PTL DEF Spec

\* A typed state satisfies the type invariant of the runs.
LEMMA TypedIsTypeOK == Typed => TypeOK
<1> SUFFICES ASSUME Typed PROVE TypeOK
    OBVIOUS
<1>1. DbOK /\ GithubOK /\ ListsOK /\ PendingOK /\ TasksOK /\ BoundsOK
    BY DEF Typed
<1>2. /\ \A i \in Items : recs[i] \in 1 .. MaxRecs[i]
      /\ \A k, l \in DOMAIN live : live[k] = live[l] => k = l
      /\ state \in [Items -> {"open", "closed", "merged"}]
      /\ Len(jobs) <= MaxJobs
    BY <1>1 DEF DbOK, States
<1>3. \A k \in DOMAIN jobs :
        jobs[k] \in [rec : Recs, option : Options, status : {"queued", "running", "shown", "over"}]
    <2> TAKE k \in DOMAIN jobs
    <2>1. jobs[k] \in GoodJobs /\ jobs[k].rec \in Recs /\ ItemOf(jobs[k].rec) \in Items
        BY <1>1, JobsAre, RecsAre
    <2>2. jobs[k].option \in Options
        BY <2>1 DEF GoodJobs, Options
    <2> QED BY <2>1, <2>2 DEF GoodJobs
<1>4. \A a \in approvals : a.rec \in Recs /\ a.option \in DOMAIN Plan[ItemOf(a.rec)]
    BY <1>1 DEF DbOK, GoodRows
<1>5. /\ github.state \in [Items -> {"open", "closed", "merged"}]
      /\ github.labelled \subseteq Items /\ github.commented \subseteq Recs
    BY <1>1 DEF GithubOK, States
<1>6. \A e \in ToSet(all) \cup ToSet(entries) :
        e \in Entries /\ e.active \in DOMAIN e.plan /\ Len(e.plan) = Len(Plan[ItemOf(e.rec)])
    <2>1. ListOK(all) /\ ListOK(entries)
        BY <1>1 DEF ListsOK
    <2>2. \A e \in ToSet(all) \cup ToSet(entries) : e \in GoodEntries
        BY <2>1, GoodList DEF ToSet
    <2> QED BY <2>2, EntriesAre
<1>7. /\ cursor \in 1 .. Len(entries) \/ (cursor = 1 /\ entries = << >>)
      /\ filter \in {"all", "maintainer", "contributor"}
    BY <1>1 DEF ListsOK, CursorOK
<1>8. dialog = NoDialog \/ (dialog.what \in {"edit", "rerun"} /\ dialog.entry \in Entries)
    BY <1>1, EntriesAre DEF PendingOK
<1>9. \A r \in Recs :
        /\ tasks[r].at \in Places
        /\ tasks[r] = Idle \/ (tasks[r].verb \in Verbs /\ tasks[r].entry.rec = r)
    <2> TAKE r \in Recs
    <2>1. CASE tasks[r] = Idle
        BY <2>1 DEF Idle, Places
    <2>2. CASE tasks[r] # Idle
        BY <1>1, <2>2 DEF TasksOK, Working, TaskFor
    <2> QED BY <2>1, <2>2
<1> QED BY <1>1, <1>2, <1>3, <1>4, <1>5, <1>6, <1>7, <1>8, <1>9 DEF TypeOK, BoundsOK

\* The type invariant of the runs holds for every set of items, every plan, every bound.
THEOREM TypesHold == Spec => []TypeOK
<1> HIDE DEF Typed, TypeOK
<1> QED BY TypedInvariant, TypedIsTypeOK, PTL

=============================================================================
