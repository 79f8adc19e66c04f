--------------------------- MODULE InboxSafetyProofs ---------------------------
(***************************************************************************)
(* The promises of Inbox: the cursor survives what arrives, the view is    *)
(* the filtered list, and decisions, what is on GitHub, and fix jobs       *)
(* agree.  Each rests on Typed and on what a task has done already when it *)
(* is at a certain place.                                                  *)
(***************************************************************************)
EXTENDS InboxProofs

-----------------------------------------------------------------------------
(* The cursor.                                                             *)

\* Every message that reaches the lists is a reload of a good list or a result.
LEMMA MessagesAre ==
    ASSUME Typed, Message
    PROVE  \/ \E rows : ListOK(rows) /\ ApplyReload(rows)
           \/ UNCHANGED lists
           \/ \E r \in Recs : RemoveEntry(r) /\ UNCHANGED filter
           \/ \E r \in Recs : \E e \in GoodEntries :
                ItemOf(e.rec) = ItemOf(r) /\ ReplaceEntry(r, e) /\ UNCHANGED filter
<1>1. DbOK /\ PendingOK /\ TasksOK
    BY DEF Typed
<1>2. CASE DeliverReload
    BY <1>1, <1>2 DEF DeliverReload, PendingOK
<1>3. CASE RefreshTick
    BY <1>1, <1>3, LoadListOK DEF RefreshTick
<1>4. ASSUME NEW r \in Recs, ApplyActionFinished(r)
      PROVE  \/ UNCHANGED lists
             \/ RemoveEntry(r) /\ UNCHANGED filter
             \/ \E e \in GoodEntries :
                  ItemOf(e.rec) = ItemOf(r) /\ ReplaceEntry(r, e) /\ UNCHANGED filter
    <2> DEFINE t == tasks[r]
    <2>1. t \in Working /\ TaskFor(r, t)
        BY <1>1, <1>4, BegunTask DEF ApplyActionFinished, At
    <2>2. CASE t.updated # << >> /\ ReplaceEntry(r, t.updated[1]) /\ UNCHANGED filter
        <3>1. t.updated \in Seq(GoodEntries)
            BY <2>1 DEF Working
        <3>2. t.updated[1] \in GoodEntries /\ 1 \in DOMAIN t.updated
            BY <2>2, <3>1, EmptySeq, LenProperties
        <3> QED BY <2>1, <2>2, <3>2 DEF TaskFor
    <2> QED BY <1>4, <2>2 DEF ApplyActionFinished
<1> QED BY <1>2, <1>3, <1>4 DEF Message

\* What one step has to do to keep the cursor.
CursorStep ==
    Message /\ entries # << >> /\ Current.rec \in RecsOf(entries')
        => entries'[cursor'].rec = Current.rec

\* A reload or a removal looks the cursor up again; a replacement leaves it.
LEMMA CursorKept == Typed /\ [Next]_vars => CursorStep
<1> SUFFICES ASSUME Typed, Message, entries # << >>, Current.rec \in RecsOf(entries')
             PROVE  entries'[cursor'].rec = Current.rec
    BY DEF CursorStep
<1>1. ListsOK /\ cursor \in DOMAIN entries /\ Current = entries[cursor]
    BY CursorNat DEF Typed, Current
<1>2. CASE cursor' = IndexOf(entries', Current.rec)
    BY <1>2, IndexOfOK
<1>3. ASSUME NEW r \in Recs, NEW e, ReplaceEntry(r, e)
      PROVE  entries'[cursor'].rec = Current.rec
    <2>1. /\ DOMAIN entries' = DOMAIN entries /\ cursor' = cursor
          /\ \A k \in DOMAIN entries : entries'[k] = IF entries[k].rec = r THEN e ELSE entries[k]
        BY <1>3 DEF ReplaceEntry, Replace
    <2>2. PICK k \in DOMAIN entries : entries'[k].rec = Current.rec
        BY <2>1 DEF RecsOf
    <2>3. CASE Current.rec # r
        BY <1>1, <2>1, <2>3
    <2>4. CASE Current.rec = r
        BY <1>1, <2>1, <2>2, <2>4
    <2> QED BY <2>3, <2>4
<1>4. CASE UNCHANGED lists
    BY <1>1, <1>4 DEF lists
<1>5. CASE \E rows : ApplyReload(rows)
    BY <1>1, <1>2, <1>5 DEF ApplyReload
<1>6. CASE \E r \in Recs : RemoveEntry(r)
    BY <1>1, <1>2, <1>6 DEF RemoveEntry
<1> QED BY <1>3, <1>4, <1>5, <1>6, MessagesAre

\* Reloads and results leave the cursor on its recommendation as long as that is listed,
\* whatever the items, the plans and the bounds are (removeEntries and applyReload look
\* for it by currentRecommendationID; where an entry is replaced the cursor stays).
THEOREM CursorIsKept == Spec => CursorKeepsItsRecommendation
<1>1. Typed /\ [Next]_vars => [CursorStep]_vars
    BY CursorKept
<1> HIDE DEF Typed, CursorStep
<1>2. Spec => [][CursorStep]_vars
    BY <1>1, TypedInvariant, PTL DEF Spec
<1> QED BY <1>2 DEF CursorStep, CursorKeepsItsRecommendation

-----------------------------------------------------------------------------
(* The list on view.                                                       *)

PassSet(f) == {q \in Recs : Passes(q, f)}

\* The recommendations of a good list, in their order.
LEMMA RecSeqIs ==
    ASSUME NEW list, ListOK(list)
    PROVE  /\ RecSeq(list) \in Seq(Recs) /\ Len(RecSeq(list)) = Len(list)
           /\ \A k \in 1 .. Len(list) : RecSeq(list)[k] = list[k].rec
           /\ RecSeq(list) = [k \in 1 .. Len(list) |-> list[k].rec]
<1>1. /\ Len(list) \in Nat /\ DOMAIN list = 1 .. Len(list)
      /\ \A k \in DOMAIN list : list[k].rec \in Recs
    BY GoodList
<1>2. RecSeq(list) = [k \in 1 .. Len(list) |-> list[k].rec]
    BY <1>1 DEF RecSeq
<1>3. RecSeq(list) \in [1 .. Len(list) -> Recs]
    BY <1>1, <1>2
<1>4. RecSeq(list) \in Seq(Recs)
    BY <1>1, <1>3, IsASeq
<1>5. Len(RecSeq(list)) = Len(list)
    BY <1>1, <1>3, <1>4, LenProperties
<1> QED BY <1>1, <1>2, <1>4, <1>5

\* To filter the entries and to filter their recommendations is the same.
LEMMA RecsOfOnly ==
    ASSUME NEW list, ListOK(list), NEW kept, NEW recsKept,
           \A k \in 1 .. Len(list) : list[k] \in kept <=> list[k].rec \in recsKept
    PROVE  RecSeq(Only(list, kept)) = Only(RecSeq(list), recsKept)
<1> DEFINE new == Only(list, kept)
           rs == RecSeq(list)
<1>1. list \in Seq(GoodEntries) /\ rs \in Seq(Recs) /\ Len(list) = Len(rs)
      /\ \A k \in 1 .. Len(list) : rs[k] = list[k].rec
    BY GoodList, RecSeqIs
<1> HIDE DEF rs
<1>2. PICK m, p : KeptAt(list, kept, rs, recsKept, m, p)
    BY <1>1, OnlyByPlaces
<1>3. /\ m \in Nat /\ p \in [1 .. m -> 1 .. Len(list)]
      /\ new = [a \in 1 .. m |-> list[p[a]]]
      /\ Only(rs, recsKept) = [a \in 1 .. m |-> rs[p[a]]]
    BY <1>2 DEF KeptAt
<1> HIDE DEF new
<1>4. RecSeq(new) = [a \in 1 .. m |-> new[a].rec]
    BY <1>3 DEF RecSeq
<1>5. \A a \in 1 .. m : new[a].rec = rs[p[a]]
    BY <1>1, <1>3
<1>6. RecSeq(new) = Only(rs, recsKept)
    BY <1>3, <1>4, <1>5
<1> QED BY <1>6 DEF new, rs

\* The role filter is a filter of recommendations.
LEMMA FilterRecs ==
    ASSUME NEW list, ListOK(list), NEW f
    PROVE  RecSeq(ApplyRoleFilter(list, f)) = Only(RecSeq(list), PassSet(f))
<1> DEFINE kept == {e \in ToSet(list) : Passes(e.rec, f)}
<1>1. \A k \in 1 .. Len(list) : list[k] \in kept <=> list[k].rec \in PassSet(f)
    <2>1. DOMAIN list = 1 .. Len(list) /\ \A k \in DOMAIN list : list[k].rec \in Recs
        BY GoodList
    <2> QED BY <2>1 DEF ToSet, PassSet
<1> HIDE DEF kept
<1>2. RecSeq(Only(list, kept)) = Only(RecSeq(list), PassSet(f))
    BY <1>1, RecsOfOnly
<1> QED BY <1>2 DEF kept, ApplyRoleFilter

\* The removal of an entry removes its recommendation.
LEMMA RemoveRecs ==
    ASSUME NEW list, ListOK(list), NEW r
    PROVE  RecSeq(RemoveRec(list, r)) = Only(RecSeq(list), Recs \ {r})
<1> DEFINE kept == {e \in ToSet(list) : e.rec # r}
<1>1. \A k \in 1 .. Len(list) : list[k] \in kept <=> list[k].rec \in Recs \ {r}
    <2>1. DOMAIN list = 1 .. Len(list) /\ \A k \in DOMAIN list : list[k].rec \in Recs
        BY GoodList
    <2> QED BY <2>1 DEF ToSet
<1> HIDE DEF kept
<1>2. RecSeq(Only(list, kept)) = Only(RecSeq(list), Recs \ {r})
    BY <1>1, RecsOfOnly
<1> QED BY <1>2 DEF kept, RemoveRec

\* r is replaced by q.
Subst(rs, r, q) == [k \in DOMAIN rs |-> IF rs[k] = r THEN q ELSE rs[k]]

\* A replacement is one of recommendations.
LEMMA ReplaceRecs ==
    ASSUME NEW list, ListOK(list), NEW r \in Recs, NEW e \in GoodEntries,
           ItemOf(e.rec) = ItemOf(r)
    PROVE  RecSeq(Replace(list, r, e)) = Subst(RecSeq(list), r, e.rec)
<1> DEFINE new == Replace(list, r, e)
<1>1. ListOK(new) /\ Len(new) = Len(list) /\ DOMAIN list = 1 .. Len(list)
      /\ \A k \in DOMAIN list : new[k] = IF list[k].rec = r THEN e ELSE list[k]
    BY ReplaceListOK, GoodList
<1> HIDE DEF new
<1>2. /\ RecSeq(new) = [k \in 1 .. Len(list) |-> new[k].rec]
      /\ RecSeq(list) = [k \in 1 .. Len(list) |-> list[k].rec]
    BY <1>1, RecSeqIs
<1>3. RecSeq(new) = Subst(RecSeq(list), r, e.rec)
    BY <1>1, <1>2 DEF Subst
<1> QED BY <1>3 DEF new

\* The filter tells two recommendations of one item apart in nothing.
LEMMA OnlySubst ==
    ASSUME NEW rs \in Seq(Recs), NEW r \in Recs, NEW q \in Recs, NEW kept, r \in kept <=> q \in kept
    PROVE  Only(Subst(rs, r, q), kept) = Subst(Only(rs, kept), r, q)
<1> DEFINE new == Subst(rs, r, q)
<1>1. Len(rs) \in Nat /\ DOMAIN rs = 1 .. Len(rs) /\ \A k \in 1 .. Len(rs) : rs[k] \in Recs
    BY LenProperties
<1>2. new = [k \in 1 .. Len(rs) |-> IF rs[k] = r THEN q ELSE rs[k]]
    BY <1>1 DEF Subst
<1> HIDE DEF new
<1>3. new \in [1 .. Len(rs) -> Recs]
    BY <1>1, <1>2
<1>4. new \in Seq(Recs)
    BY <1>1, <1>3, IsASeq
<1>5. Len(new) = Len(rs)
    BY <1>1, <1>3, <1>4, LenProperties
<1>6. \A k \in 1 .. Len(rs) : rs[k] \in kept <=> new[k] \in kept
    BY <1>2
<1>7. PICK m, p : KeptAt(rs, kept, new, kept, m, p)
    BY <1>4, <1>5, <1>6, OnlyByPlaces
<1>8. /\ m \in Nat /\ p \in [1 .. m -> 1 .. Len(rs)]
      /\ Only(rs, kept) = [a \in 1 .. m |-> rs[p[a]]]
      /\ Only(new, kept) = [a \in 1 .. m |-> new[p[a]]]
    BY <1>7 DEF KeptAt
<1>9. Subst(Only(rs, kept), r, q) = [a \in 1 .. m |-> IF rs[p[a]] = r THEN q ELSE rs[p[a]]]
    BY <1>8 DEF Subst
<1>10. \A a \in 1 .. m : new[p[a]] = IF rs[p[a]] = r THEN q ELSE rs[p[a]]
    BY <1>2, <1>8
<1>11. Only(new, kept) = Subst(Only(rs, kept), r, q)
    BY <1>8, <1>9, <1>10
<1> QED BY <1>11 DEF new

\* What is not there is replaced without an effect.
LEMMA SubstAbsent ==
    ASSUME NEW rs \in Seq(Recs), NEW r, NEW q, \A k \in DOMAIN rs : rs[k] = r => q = r
    PROVE  Subst(rs, r, q) = rs
<1>1. rs = [k \in DOMAIN rs |-> rs[k]]
    BY LenProperties
<1> QED BY <1>1 DEF Subst

FilteredRecs == RecSeq(entries) = Only(RecSeq(all), PassSet(filter))

\* An entry is replaced in both lists, or is in the whole list already.
LEMMA FilteredByReplace ==
    ASSUME ListsOK, FilteredRecs, NEW r \in Recs, NEW e \in GoodEntries,
           ItemOf(e.rec) = ItemOf(r), ReplaceEntry(r, e), UNCHANGED filter
    PROVE  FilteredRecs'
<1> DEFINE q == e.rec
           rs == RecSeq(all)
           kept == PassSet(filter)
<1>1. ListOK(all) /\ ListOK(entries) /\ q \in Recs
    BY EntriesAre DEF ListsOK
<1>2. /\ rs \in Seq(Recs) /\ DOMAIN rs = 1 .. Len(all) /\ DOMAIN all = 1 .. Len(all)
      /\ \A k \in DOMAIN rs : rs[k] = all[k].rec
    BY <1>1, RecSeqIs, GoodList
<1>3. r \in kept <=> q \in kept
    BY <1>1 DEF PassSet, Passes
<1>4. RecSeq(entries') = Subst(Only(rs, kept), r, q)
    BY <1>1, ReplaceRecs DEF ReplaceEntry, FilteredRecs
<1>5. RecSeq(entries') = Only(Subst(rs, r, q), kept)
    <2> HIDE DEF rs, kept, q
    <2> QED BY <1>1, <1>2, <1>3, <1>4, OnlySubst
<1>6. CASE q \notin RecsOf(all)
    <2>1. RecSeq(all') = Subst(rs, r, q)
        BY <1>1, <1>6, ReplaceRecs DEF ReplaceEntry
    <2> QED BY <1>5, <2>1 DEF FilteredRecs
<1>7. CASE q \in RecsOf(all)
    <2>1. RecSeq(all') = Subst(rs, q, q)
        BY <1>1, <1>7, ReplaceRecs DEF ReplaceEntry
    <2>2. Subst(rs, q, q) = rs
        BY <1>2, SubstAbsent
    <2>3. \A k \in DOMAIN rs : rs[k] = r => q = r
        <3>1. PICK l \in DOMAIN all : all[l].rec = q
            BY <1>7 DEF RecsOf
        <3>2. \A k \in DOMAIN all : all[k].rec = r => k = l
            BY <1>1, <3>1, GoodList
        <3> QED BY <1>2, <3>1, <3>2
    <2>4. Subst(rs, r, q) = rs
        BY <1>2, <2>3, SubstAbsent
    <2> QED BY <1>5, <2>1, <2>2, <2>4 DEF FilteredRecs
<1> QED BY <1>6, <1>7

\* To remove and to filter is the same in either order.
LEMMA FilteredByRemove ==
    ASSUME ListsOK, FilteredRecs, NEW r \in Recs, RemoveEntry(r), UNCHANGED filter
    PROVE  FilteredRecs'
<1> DEFINE rs == RecSeq(all)
           kept == PassSet(filter)
           rest == Recs \ {r}
<1>1. ListOK(all) /\ ListOK(entries)
    BY DEF ListsOK
<1>2. rs \in Seq(Recs)
    BY <1>1, RecSeqIs
<1>3. RecSeq(entries') = Only(Only(rs, kept), rest) /\ RecSeq(all') = Only(rs, rest)
    BY <1>1, RemoveRecs DEF RemoveEntry, FilteredRecs
<1>4. kept \cap rest = rest \cap kept
    OBVIOUS
<1> HIDE DEF rs, kept, rest
<1>5. Only(Only(rs, kept), rest) = Only(rs, kept \cap rest) /\ Only(Only(rs, rest), kept) = Only(rs, rest \cap kept)
    BY <1>2, OnlyTwice
<1> QED BY <1>3, <1>4, <1>5 DEF FilteredRecs, kept

\* A reload filters what it reads.
LEMMA FilteredByReload ==
    ASSUME ListsOK, NEW rows, ListOK(rows), ApplyReload(rows)
    PROVE  FilteredRecs'
<1>1. ListOK(all) /\ ListOK(entries)
    BY DEF ListsOK
<1>2. ASSUME NEW list, ListOK(list) PROVE RecSeq(Preserve(list)) = RecSeq(list)
    <2>1. /\ ListOK(Preserve(list)) /\ Len(Preserve(list)) = Len(list) /\ DOMAIN list = 1 .. Len(list)
          /\ \A k \in DOMAIN list : Preserve(list)[k].rec = list[k].rec
        BY <1>1, <1>2, PreserveListOK, GoodList
    <2>2. /\ RecSeq(Preserve(list)) = [k \in 1 .. Len(list) |-> Preserve(list)[k].rec]
          /\ RecSeq(list) = [k \in 1 .. Len(list) |-> list[k].rec]
        BY <1>2, <2>1, RecSeqIs
    <2> QED BY <2>1, <2>2
<1>3. ListOK(ApplyRoleFilter(rows, filter))
    BY OnlyListOK DEF ApplyRoleFilter
<1>4. RecSeq(all') = RecSeq(rows) /\ RecSeq(entries') = Only(RecSeq(rows), PassSet(filter))
    BY <1>2, <1>3, FilterRecs DEF ApplyReload
<1> QED BY <1>4 DEF ApplyReload, FilteredRecs

\* A new session filters nothing.
LEMMA FilteredFresh ==
    ASSUME NEW rows, ListOK(rows)
    PROVE  RecSeq(rows) = Only(RecSeq(rows), PassSet("all"))
<1>1. RecSeq(rows) \in Seq(Recs)
    BY RecSeqIs
<1>2. PassSet("all") = Recs
    BY DEF PassSet, Passes
<1> QED BY <1>1, <1>2, OnlyAll

\* The first list is filtered.
LEMMA FilteredInit == Init => FilteredRecs
<1> SUFFICES ASSUME Init PROVE FilteredRecs
    OBVIOUS
<1>1. ListOK(LoadInboxEntries)
    BY TypedInit, LoadListOK DEF Typed
<1> QED BY <1>1, FilteredFresh DEF Init, Open, FilteredRecs

\* Every step keeps the list filtered.
LEMMA FilteredStep == Typed /\ FilteredRecs /\ [Next]_vars => FilteredRecs'
<1> SUFFICES ASSUME Typed, FilteredRecs, [Next]_vars PROVE FilteredRecs'
    OBVIOUS
<1>1. ListsOK /\ DbOK /\ PendingOK
    BY DEF Typed
<1>2. CASE UNCHANGED <<all, entries, filter>>
    BY <1>2 DEF FilteredRecs
<1>3. CASE Message
    BY <1>1, <1>2, <1>3, MessagesAre, FilteredByReload, FilteredByRemove, FilteredByReplace DEF lists
<1>4. CASE CycleOption
    <2>1. PICK o \in DOMAIN Current.plan :
            ReplaceEntry(Current.rec, [Current EXCEPT !.active = o])
        BY <1>4 DEF CycleOption
    <2>2. Current \in GoodEntries /\ UNCHANGED filter
        BY <1>1, <1>4, CursorNat DEF CycleOption, PressOnEntry
    <2> DEFINE e == [Current EXCEPT !.active = o]
    <2>3. e \in GoodEntries /\ e.rec = Current.rec /\ Current.rec \in Recs
        BY <2>2, EntryChanges, EntriesAre
    <2>4. ReplaceEntry(Current.rec, e)
        BY <2>1
    <2> HIDE DEF e
    <2> QED BY <1>1, <2>2, <2>3, <2>4, FilteredByReplace
<1>5. CASE CycleRoleFilter
    <2>1. entries' = ApplyRoleFilter(all, filter') /\ UNCHANGED all
        BY <1>5 DEF CycleRoleFilter
    <2> QED BY <1>1, <2>1, FilterRecs DEF FilteredRecs, ListsOK
<1>6. CASE ApplyEditFinished
    <2>1. CASE UNCHANGED lists
        BY <1>2, <2>1 DEF lists
    <2>2. CASE ~ UNCHANGED lists
        <3>1. PICK change \in Edits :
                /\ ReplaceEntry(ParseEdited(dialog.entry, change).rec, ParseEdited(dialog.entry, change))
                /\ UNCHANGED filter
            BY <1>6, <2>2 DEF ApplyEditFinished
        <3>2. dialog.entry \in GoodEntries
            BY <1>1, <1>6 DEF ApplyEditFinished, PendingOK, NoDialog
        <3> DEFINE e == ParseEdited(dialog.entry, change)
        <3>3. e \in GoodEntries
            BY <3>2, EntryChanges, PlanAssumption
        <3>4. ReplaceEntry(e.rec, e)
            BY <3>1
        <3> HIDE DEF e
        <3>5. e.rec \in Recs
            BY <3>3, EntriesAre
        <3> QED BY <1>1, <3>1, <3>3, <3>4, <3>5, FilteredByReplace
    <2> QED BY <2>1, <2>2
<1>7. CASE QuitAndReopen
    <2>1. ListOK(LoadInboxEntries)
        BY <1>1, LoadListOK
    <2> QED BY <1>7, <2>1, FilteredFresh DEF QuitAndReopen, FilteredRecs
<1>8. ASSUME NEW r \in Recs, TaskStep(r) PROVE UNCHANGED <<all, entries, filter>>
    <2>1. CASE QueueFix(r) BY <2>1 DEF QueueFix, lists
    <2>2. CASE EditLabels(r) BY <2>2 DEF EditLabels, lists
    <2>3. CASE Comment(r) BY <2>3 DEF Comment, lists
    <2>4. CASE Act(r) BY <2>4 DEF Act, lists
    <2>5. CASE RecordFailedAttempt(r) BY <2>5 DEF RecordFailedAttempt, lists
    <2>6. CASE Persist(r) BY <2>6 DEF Persist, lists
    <2>7. CASE UpdateItem(r) BY <2>7 DEF UpdateItem, lists
    <2>8. CASE Refetch(r) BY <2>8 DEF Refetch, lists
    <2>9. CASE SupersedeForRerun(r) BY <2>9 DEF SupersedeForRerun, lists
    <2>10. CASE Retriage(r) BY <2>10 DEF Retriage, lists
    <2> QED BY <1>8, <2>1, <2>2, <2>3, <2>4, <2>5, <2>6, <2>7, <2>8, <2>9, <2>10 DEF TaskStep
<1>9. CASE \/ \E i \in Items : DecideElsewhere(i) \/ DaemonRecommends(i) \/ SyncItem(i)
           \/ \E k \in DOMAIN jobs : JobMoves(k)
    BY <1>2, <1>9, OthersOK DEF lists
<1>10. CASE \/ MoveCursor \/ ApproveCurrent \/ FixCurrent \/ DismissCurrent
            \/ EditCurrent \/ OpenRerunInput \/ RerunEntry \/ DropRerunInput \/ ReadRows
    BY <1>2, <1>10
    DEF MoveCursor, ApproveCurrent, FixCurrent, DismissCurrent, EditCurrent, OpenRerunInput,
        OpenDialog, RerunEntry, DropRerunInput, ReadRows, lists
<1>11. CASE UNCHANGED vars
    BY <1>2, <1>11 DEF vars, lists
<1>12. CASE Next
    BY <1>2, <1>3, <1>4, <1>5, <1>6, <1>7, <1>8, <1>9, <1>10, <1>12 DEF Next, Key, Message
<1> QED BY <1>11, <1>12

\* The list on view always is what the filter lets through of the session's entries
\* (entries and allEntries of tui.go are kept apart, and changed side by side).
THEOREM ViewFiltered == Spec => []ViewIsFiltered
<1>1. Typed /\ FilteredRecs => ViewIsFiltered
    BY FilterRecs DEF ViewIsFiltered, FilteredRecs, Typed, ListsOK
<1> HIDE DEF Typed, FilteredRecs, ViewIsFiltered
<1>2. Spec => []FilteredRecs
    BY TypedInvariant, FilteredInit, FilteredStep, PTL DEF Spec
<1> QED BY <1>1, <1>2, TypedInvariant, PTL

-----------------------------------------------------------------------------
(* Decisions, and what was done on GitHub and about jobs before.           *)

\* Labels are set before anything else is done for an item of the maintainer's.
LabelledFirst(r) ==
    tasks[r].at \in {"comment", "act", "persist"} /\ ItemOf(r) \notin Contributors
        => ItemOf(r) \in github.labelled

\* When the row is written, everything else is done.
CarriedOut(r) ==
    tasks[r].at = "persist" /\ Approving(r) =>
        /\ r \in github.commented
        /\ Change(tasks[r].entry) = "close" => github.state[ItemOf(r)] = "closed"
        /\ Change(tasks[r].entry) = "merge" => github.state[ItemOf(r)] = "merged"

HasJob(r, option) == \E k \in DOMAIN jobs : jobs[k].rec = r /\ jobs[k].option = option

\* The job comes before the labels.
QueuedFirst(r) ==
    /\ tasks[r].at \in {"labels", "comment", "act", "record", "persist"}
    /\ Approving(r) /\ QueuesFix(tasks[r].entry)
    => HasJob(r, tasks[r].entry.active)

InOrder(r) == LabelledFirst(r) /\ CarriedOut(r) /\ QueuedFirst(r)

Decided == DecisionIsOnGitHub /\ ApprovedFixHasJob /\ \A r \in Recs : InOrder(r)

GithubGrows ==
    /\ github.labelled \subseteq github'.labelled /\ github.commented \subseteq github'.commented
    /\ \A i \in Items : github.state[i] \in {"closed", "merged"} => github'.state[i] = github.state[i]

JobsStay ==
    \A k \in DOMAIN jobs :
        k \in DOMAIN jobs' /\ jobs'[k].rec = jobs[k].rec /\ jobs'[k].option = jobs[k].option

\* Nothing is undone on GitHub, and no job is taken back: what was in order stays so
\* as long as the task stays where it is.
LEMMA InOrderStays ==
    ASSUME NEW r \in Recs, InOrder(r), GithubGrows, JobsStay, tasks'[r] = tasks[r]
    PROVE  InOrder(r)'
<1>1. ItemOf(r) \in Items
    BY RecsAre
<1>2. LabelledFirst(r)'
    BY DEF InOrder, LabelledFirst, GithubGrows
<1>3. CarriedOut(r)'
    BY <1>1 DEF InOrder, CarriedOut, GithubGrows, Approving, Change
<1>4. \A o : HasJob(r, o) => HasJob(r, o)'
    BY DEF HasJob, JobsStay
<1>5. QueuedFirst(r)'
    BY <1>4 DEF InOrder, QueuedFirst, Approving
<1> QED BY <1>2, <1>3, <1>5 DEF InOrder

\* Decisions that are there stay in order.
LEMMA DecisionsStay ==
    ASSUME DbOK, DecisionIsOnGitHub, ApprovedFixHasJob, GithubGrows, JobsStay, UNCHANGED approvals
    PROVE  DecisionIsOnGitHub' /\ ApprovedFixHasJob'
<1>1. \A a \in approvals : a.rec \in Recs /\ ItemOf(a.rec) \in Items
    BY RecsAre DEF DbOK, GoodRows
<1>2. DecisionIsOnGitHub'
    BY <1>1 DEF DecisionIsOnGitHub, GithubGrows
<1>3. ApprovedFixHasJob'
    BY DEF ApprovedFixHasJob, JobsStay
<1> QED BY <1>2, <1>3

\* A step that writes no row has to leave tasks in order.
LEMMA DecidedStays ==
    ASSUME DbOK, Decided, GithubGrows, JobsStay, UNCHANGED approvals,
           \A r \in Recs : tasks'[r] = tasks[r] \/ InOrder(r)'
    PROVE  Decided'
BY InOrderStays, DecisionsStay DEF Decided

\* Nothing is undone where nothing is done.
LEMMA GrowsIfUnchanged == UNCHANGED github => GithubGrows
BY DEF GithubGrows

\* Jobs that do not change stay.
LEMMA JobsStayIfUnchanged == UNCHANGED jobs => JobsStay
BY DEF JobsStay

\* A task that works on neither labels nor comment nor row is in order.
LEMMA Elsewhere ==
    ASSUME NEW r \in Recs,
           tasks'[r].at \notin {"labels", "comment", "act", "record", "persist"}
    PROVE  InOrder(r)'
BY DEF InOrder, LabelledFirst, CarriedOut, QueuedFirst

\* What the steps of a task make of the tasks.
LEMMA StepIs ==
    ASSUME TasksOK, NEW r \in Recs, tasks[r].at # "idle"
    PROVE  /\ \A place : StepTo(r, place) =>
                /\ tasks'[r].at = place /\ tasks'[r].verb = tasks[r].verb
                /\ tasks'[r].entry = tasks[r].entry
                /\ \A q \in Recs : q # r => tasks'[q] = tasks[q]
           /\ Fail(r) => /\ tasks'[r].at = "done"
                         /\ \A q \in Recs : q # r => tasks'[q] = tasks[q]
           /\ \A updated : Finish(r, updated) =>
                /\ tasks'[r].at = "done"
                /\ \A q \in Recs : q # r => tasks'[q] = tasks[q]
<1>1. tasks[r] \in Working /\ tasks \in [Recs -> {Idle} \cup Working]
    BY BegunTask DEF TasksOK
<1>2. ASSUME NEW place, StepTo(r, place)
      PROVE  /\ tasks'[r].at = place /\ tasks'[r].verb = tasks[r].verb
             /\ tasks'[r].entry = tasks[r].entry
             /\ \A q \in Recs : q # r => tasks'[q] = tasks[q]
    <2>1. /\ tasks'[r] = [tasks[r] EXCEPT !.at = place]
          /\ \A q \in Recs : q # r => tasks'[q] = tasks[q]
        BY <1>1, <1>2 DEF StepTo
    <2> QED BY <1>1, <2>1 DEF Working
<1>3. ASSUME Fail(r)
      PROVE  tasks'[r].at = "done" /\ \A q \in Recs : q # r => tasks'[q] = tasks[q]
    BY <1>1, <1>3 DEF Fail, Working
<1>4. ASSUME NEW updated, Finish(r, updated)
      PROVE  tasks'[r].at = "done" /\ \A q \in Recs : q # r => tasks'[q] = tasks[q]
    BY <1>1, <1>4 DEF Finish, Working
<1> QED BY <1>2, <1>3, <1>4

\* What a task begins with.
Begins(r) ==
    LET t == tasks'[r] IN
    /\ t.at \in {"queue", "labels", "supersede"} \/ ItemOf(r) \in Contributors
    /\ t.verb = "approve" /\ t.at # "queue" => ~QueuesFix(t.entry)
    /\ t.at = "persist" => t.verb # "approve"

\* A task begins in order.
LEMMA BegunInOrder ==
    ASSUME NEW r \in Recs, Begins(r)
    PROVE  InOrder(r)'
<1>1. LabelledFirst(r)'
    BY DEF Begins, LabelledFirst
<1>2. CarriedOut(r)'
    BY DEF Begins, CarriedOut, Approving
<1>3. QueuedFirst(r)'
    BY DEF Begins, QueuedFirst, Approving, QueuesFix, Change, HasPrompt
<1> QED BY <1>1, <1>2, <1>3 DEF InOrder

\* Keys begin tasks, and leave those under way alone.
LEMMA StartsInOrder ==
    ASSUME Typed, ApproveCurrent \/ FixCurrent \/ DismissCurrent \/ RerunEntry
    PROVE  \A r \in Recs : tasks'[r] = tasks[r] \/ (tasks[r] = Idle /\ Begins(r))
<1>1. ListsOK /\ PendingOK /\ TasksOK
    BY DEF Typed
<1> DEFINE e == IF RerunEntry THEN dialog.entry ELSE Current
<1>2. e \in GoodEntries
    <2>1. RerunEntry => dialog.entry \in GoodEntries
        BY <1>1 DEF RerunEntry, PendingOK, NoDialog
    <2>2. ~RerunEntry => Current \in GoodEntries
        BY <1>1, CursorNat DEF ApproveCurrent, FixCurrent, DismissCurrent, PressOnEntry
    <2> QED BY <2>1, <2>2
<1>3. e.rec \in Recs
    BY <1>2, EntriesAre
<1>4. ASSUME NEW verb, NEW place, StartAction(verb, place, e)
      PROVE  /\ tasks[e.rec] = Idle /\ tasks'[e.rec].verb = verb /\ tasks'[e.rec].entry = e
             /\ tasks'[e.rec].at = place /\ \A q \in Recs : q # e.rec => tasks'[q] = tasks[q]
    <2> HIDE DEF e
    <2>1. /\ tasks'[e.rec] = [Idle EXCEPT !.verb = verb, !.entry = e, !.at = place]
          /\ \A q \in Recs : q # e.rec => tasks'[q] = tasks[q]
        BY <1>1, <1>3, <1>4 DEF StartAction, TasksOK
    <2> DEFINE a == [Idle EXCEPT !.verb = verb]
               b == [a EXCEPT !.entry = e]
               c == [b EXCEPT !.at = place]
    <2>2. c.verb = verb /\ c.entry = e /\ c.at = place
        BY DEF Idle
    <2> QED BY <1>4, <2>1, <2>2 DEF StartAction, Free
<1>5. Effects(e) # "persist" /\ Effects(e) # "queue"
    BY DEF Effects
<1>6. CASE ApproveCurrent /\ ~RerunEntry
    <2> DEFINE place == IF QueuesFix(e) THEN "queue" ELSE LabelsOr(e, Effects(e))
    <2>1. StartAction("approve", place, e)
        BY <1>6 DEF ApproveCurrent
    <2>2. /\ place \in {"queue", "labels"} \/ ItemOf(e.rec) \in Contributors
          /\ place # "queue" => ~QueuesFix(e)
          /\ place # "persist"
        BY <1>5 DEF LabelsOr
    <2> HIDE DEF place, e
    <2>3. Begins(e.rec)
        BY <1>4, <2>1, <2>2 DEF Begins
    <2> QED BY <1>4, <2>1, <2>3
<1>7. CASE FixCurrent /\ ~RerunEntry
    <2>1. StartAction("fix", "queue", e)
        BY <1>7 DEF FixCurrent
    <2> HIDE DEF e
    <2>2. Begins(e.rec)
        BY <1>4, <2>1 DEF Begins
    <2> QED BY <1>4, <2>1, <2>2
<1>8. CASE DismissCurrent /\ ~RerunEntry
    <2> DEFINE place == LabelsOr(e, "persist")
    <2>1. StartAction("mark", place, e)
        BY <1>8 DEF DismissCurrent
    <2>2. place = "labels" \/ ItemOf(e.rec) \in Contributors
        BY DEF LabelsOr
    <2> HIDE DEF place, e
    <2>3. Begins(e.rec)
        BY <1>4, <2>1, <2>2 DEF Begins
    <2> QED BY <1>4, <2>1, <2>3
<1>9. CASE RerunEntry
    <2>1. StartAction("rerun", "supersede", e)
        BY <1>9 DEF RerunEntry
    <2> HIDE DEF e
    <2>2. Begins(e.rec)
        BY <1>4, <2>1 DEF Begins
    <2> QED BY <1>4, <2>1, <2>2
<1> QED BY <1>6, <1>7, <1>8, <1>9

\* The job for an approved fix is there before the approval goes on.
LEMMA QueueFixInOrder ==
    ASSUME Typed, Decided, NEW r \in Recs, QueueFix(r)
    PROVE  Decided' /\ JobsStay
<1> DEFINE e == tasks[r].entry
           k == LatestJob(ItemOf(r))
           new == [rec |-> r, option |-> e.active, status |-> "queued"]
           Queued == IF Approving(r) THEN StepTo(r, LabelsOr(e, Effects(e)))
                     ELSE Finish(r, << >>)
           base == IF k # 0 /\ jobs[k].status = "queued"
                   THEN [jobs EXCEPT ![k].status = "over"] ELSE jobs
<1>0. PICK o : o = e.active
    OBVIOUS
<1>1. DbOK /\ TasksOK /\ tasks[r].at # "idle" /\ UNCHANGED <<github, approvals>>
    BY DEF Typed, QueueFix, At
<1>2. k = 0 \/ k \in DOMAIN jobs
    BY <1>1, JobsAre DEF JobsOf
<1>3. \/ Fail(r) /\ UNCHANGED jobs
      \/ Queued /\ UNCHANGED jobs /\ k # 0 /\ jobs[k].rec = r /\ jobs[k].option = e.active
      \/ Queued /\ jobs' = Append(base, new)
    BY DEF QueueFix
<1>4. ASSUME jobs' = Append(base, new) PROVE JobsStay /\ HasJob(r, o)'
    <2>1. /\ base \in Seq(GoodJobs) /\ Len(base) = Len(jobs)
          /\ \A l \in DOMAIN jobs : base[l].rec = jobs[l].rec /\ base[l].option = jobs[l].option
        <3>1. CASE k # 0 /\ jobs[k].status = "queued"
            BY <1>1, <1>2, <3>1, StatusOK
        <3>2. CASE ~(k # 0 /\ jobs[k].status = "queued")
            BY <1>1, <3>2 DEF DbOK
        <3> QED BY <3>1, <3>2
    <2>2. new.rec = r /\ new.option = e.active
        OBVIOUS
    <2>3. new \in GoodJobs
        <3>1. e \in GoodEntries /\ e.rec = r
            BY <1>1, BegunTask
        <3>2. e.active \in DOMAIN Plan[ItemOf(r)] /\ e.active \in Nat
            BY <3>1, EntriesAre DEF GoodEntries
        <3> HIDE DEF e
        <3> QED BY <3>2 DEF GoodJobs
    <2>4. DOMAIN jobs = 1 .. Len(jobs) /\ Len(jobs) \in Nat
        BY <1>1, JobsAre
    <2> HIDE DEF base, new, e
    <2>5. /\ jobs' \in Seq(GoodJobs) /\ Len(jobs') = Len(jobs) + 1 /\ jobs'[Len(jobs) + 1] = new
          /\ \A l \in 1 .. Len(jobs) : jobs'[l] = base[l]
        BY <1>4, <2>1, <2>3, AppendProperties
    <2>6. DOMAIN jobs' = 1 .. Len(jobs) + 1
        BY <2>4, <2>5, LenProperties
    <2>7. JobsStay
        BY <2>1, <2>4, <2>5, <2>6 DEF JobsStay
    <2>8. HasJob(r, o)'
        <3>1. Len(jobs) + 1 \in DOMAIN jobs'
            BY <2>4, <2>6
        <3> QED BY <1>0, <2>2, <2>5, <3>1 DEF HasJob, e
    <2> QED BY <2>7, <2>8
<1>5. UNCHANGED jobs => JobsStay
    BY JobsStayIfUnchanged
<1>6. JobsStay
    BY <1>3, <1>4, <1>5
<1>7. \A q \in Recs : q # r => tasks'[q] = tasks[q]
    BY <1>1, <1>3, StepIs
<1>8. InOrder(r)'
    <2>1. CASE Fail(r)
        BY <1>1, <2>1, StepIs, Elsewhere
    <2>2. CASE Queued /\ ~Approving(r)
        BY <1>1, <2>2, StepIs, Elsewhere
    <2>3. CASE Queued /\ Approving(r) /\ HasJob(r, o)'
        <3> DEFINE place == LabelsOr(e, Effects(e))
        <3>1. place = "labels" \/ ItemOf(r) \in Contributors
            <4>1. e.rec = r
                BY <1>1, BegunTask
            <4> QED BY <4>1 DEF LabelsOr
        <3>2. place # "persist"
            BY DEF LabelsOr, Effects
        <3>3. tasks'[r].at = place /\ tasks'[r].entry = e /\ tasks'[r].verb = tasks[r].verb
            BY <1>1, <2>3, StepIs
        <3> HIDE DEF place, e
        <3>4. LabelledFirst(r)' /\ CarriedOut(r)'
            BY <3>1, <3>2, <3>3 DEF LabelledFirst, CarriedOut
        <3>5. QueuedFirst(r)'
            BY <1>0, <2>3, <3>3 DEF QueuedFirst, e
        <3> QED BY <3>4, <3>5 DEF InOrder
    <2>4. UNCHANGED jobs /\ k # 0 /\ jobs[k].rec = r /\ jobs[k].option = e.active
            => HasJob(r, o)'
        <3> HIDE DEF e, k
        <3> QED BY <1>0, <1>2 DEF HasJob, e
    <2> HIDE DEF Queued
    <2> QED BY <1>3, <1>4, <2>1, <2>2, <2>3, <2>4
<1>9. Decided'
    BY <1>1, <1>6, <1>7, <1>8, GrowsIfUnchanged, DecidedStays
<1> QED BY <1>6, <1>9

\* On GitHub one thing is done after the other, and none is undone.
LEMMA GithubInOrder ==
    ASSUME Typed, Decided, NEW r \in Recs, EditLabels(r) \/ Comment(r) \/ Act(r)
    PROVE  Decided' /\ JobsStay
<1> DEFINE e == tasks[r].entry
           i == ItemOf(r)
<1>1. /\ DbOK /\ GithubOK /\ TasksOK /\ tasks[r].at # "idle" /\ UNCHANGED <<jobs, approvals>>
      /\ i \in Items
    BY RecsAre DEF Typed, EditLabels, Comment, Act, At, db
<1>2. InOrder(r) /\ FitsAt(tasks[r].verb, e, tasks[r].at) /\ Change(e) \in Changes
    BY <1>1, BegunTask, EntriesAre DEF Decided
<1>3. JobsStay
    BY <1>1, JobsStayIfUnchanged
<1>4. \A o : HasJob(r, o) => HasJob(r, o)'
    BY <1>1 DEF HasJob
<1>5. ASSUME NEW place, StepTo(r, place),
             tasks[r].at \in {"labels", "comment", "act"},
             place \in {"comment", "act", "persist"} /\ i \notin Contributors => i \in github'.labelled,
             place = "persist" /\ Approving(r) =>
                /\ r \in github'.commented
                /\ Change(e) = "close" => github'.state[i] = "closed"
                /\ Change(e) = "merge" => github'.state[i] = "merged"
      PROVE  InOrder(r)' /\ \A q \in Recs : q # r => tasks'[q] = tasks[q]
    <2>1. /\ tasks'[r].at = place /\ tasks'[r].verb = tasks[r].verb /\ tasks'[r].entry = e
          /\ \A q \in Recs : q # r => tasks'[q] = tasks[q]
        BY <1>1, <1>5, StepIs
    <2> HIDE DEF e
    <2>2. LabelledFirst(r)'
        BY <1>5, <2>1 DEF LabelledFirst
    <2>3. CarriedOut(r)'
        BY <1>5, <2>1 DEF CarriedOut, Approving
    <2>4. QueuedFirst(r)'
        BY <1>2, <1>4, <1>5, <2>1 DEF InOrder, QueuedFirst, Approving, e
    <2> QED BY <2>1, <2>2, <2>3, <2>4 DEF InOrder
<1>6. CASE EditLabels(r)
    <2>1. GithubGrows
        BY <1>1, <1>6 DEF EditLabels, GithubOK, GithubGrows
    <2>2. Effects(e) \in {"comment", "act", "record"}
        BY DEF Effects
    <2>3. InOrder(r)' /\ \A q \in Recs : q # r => tasks'[q] = tasks[q]
        <3>1. CASE /\ github' = [github EXCEPT !.labelled = @ \cup {i}]
                   /\ StepTo(r, IF Approving(r) THEN Effects(e) ELSE "persist")
            <4>1. i \in github'.labelled
                BY <1>1, <3>1 DEF GithubOK
            <4> QED BY <1>5, <1>6, <2>2, <3>1, <4>1 DEF EditLabels, At
        <3>2. CASE Approving(r) /\ StepTo(r, "record")
            BY <1>5, <1>6, <3>2 DEF EditLabels, At
        <3>3. CASE Fail(r)
            BY <1>1, <3>3, StepIs, Elsewhere
        <3> QED BY <1>6, <3>1, <3>2, <3>3 DEF EditLabels
    <2> QED BY <1>1, <1>3, <2>1, <2>3, DecidedStays
<1>7. CASE Comment(r)
    <2>1. GithubGrows
        BY <1>1, <1>7 DEF Comment, GithubOK, GithubGrows
    <2>2. i \notin Contributors => i \in github.labelled
        BY <1>2, <1>7 DEF InOrder, LabelledFirst, Comment, At
    <2>3. Change(e) # "close"
        BY <1>2, <1>7 DEF FitsAt, Comment, At
    <2>4. InOrder(r)' /\ \A q \in Recs : q # r => tasks'[q] = tasks[q]
        <3>1. CASE /\ github' = [github EXCEPT !.commented = @ \cup {r}]
                   /\ StepTo(r, IF Change(e) = "merge" THEN "act" ELSE "persist")
            <4>1. r \in github'.commented /\ github'.labelled = github.labelled
                BY <1>1, <3>1 DEF GithubOK
            <4> QED BY <1>5, <1>7, <2>2, <2>3, <3>1, <4>1 DEF Comment, At
        <3>2. CASE StepTo(r, "record")
            BY <1>5, <1>7, <3>2 DEF Comment, At
        <3> QED BY <1>7, <3>1, <3>2 DEF Comment
    <2> QED BY <1>1, <1>3, <2>1, <2>4, DecidedStays
<1>8. CASE Act(r)
    <2> DEFINE c == Change(e)
               to == CASE c = "close" -> "closed" [] c = "merge" -> "merged"
                       [] c = "changes" -> github.state[i]
    <2>1. c \in {"changes", "close", "merge"}
        BY <1>2, <1>8 DEF FitsAt, Act, At
    <2>2. i \notin Contributors => i \in github.labelled
        BY <1>2, <1>8 DEF InOrder, LabelledFirst, Act, At
    <2>3. \/ /\ github.state[i] \in {"open", to}
             /\ github' = [github EXCEPT !.state[i] = to, !.commented = @ \cup {r}]
             /\ StepTo(r, "persist")
          \/ StepTo(r, "record") /\ UNCHANGED github
        BY <1>8 DEF Act
    <2>4. (c = "close" => to = "closed") /\ (c = "merge" => to = "merged")
        BY <2>1
    <2> HIDE DEF to, c
    <2>5. CASE /\ github.state[i] \in {"open", to}
               /\ github' = [github EXCEPT !.state[i] = to, !.commented = @ \cup {r}]
               /\ StepTo(r, "persist")
        <3> DEFINE g == [github EXCEPT !.state[i] = to]
        <3>1. /\ g.labelled = github.labelled /\ g.commented = github.commented
              /\ g.state = [github.state EXCEPT ![i] = to]
              /\ g \in [state : [Items -> States \cup {to}], labelled : SUBSET Items,
                        commented : SUBSET Recs]
            BY <1>1 DEF GithubOK
        <3>2. github' = [g EXCEPT !.commented = @ \cup {r}]
            BY <2>5
        <3> HIDE DEF g
        <3>3. /\ github'.labelled = github.labelled /\ github'.commented = github.commented \cup {r}
              /\ github'.state = [github.state EXCEPT ![i] = to]
            BY <3>1, <3>2
        <3>4. github.state \in [Items -> States]
            BY <1>1 DEF GithubOK
        <3>5. github'.state[i] = to /\ \A j \in Items : j # i => github'.state[j] = github.state[j]
            BY <1>1, <3>3, <3>4
        <3>6. GithubGrows
            BY <2>5, <3>3, <3>5 DEF GithubGrows
        <3>7. InOrder(r)' /\ \A q \in Recs : q # r => tasks'[q] = tasks[q]
            BY <1>5, <1>8, <2>2, <2>4, <2>5, <3>3, <3>5 DEF Act, At, c
        <3> QED BY <1>1, <1>3, <3>6, <3>7, DecidedStays
    <2>6. CASE StepTo(r, "record") /\ UNCHANGED github
        <3>1. InOrder(r)' /\ \A q \in Recs : q # r => tasks'[q] = tasks[q]
            BY <1>5, <1>8, <2>6 DEF Act, At
        <3> QED BY <1>1, <1>3, <2>6, <3>1, GrowsIfUnchanged, DecidedStays
    <2> QED BY <2>3, <2>5, <2>6
<1> QED BY <1>6, <1>7, <1>8

\* The row is the last thing: it says what was done.
LEMMA RowsInOrder ==
    ASSUME Typed, Decided, NEW r \in Recs, RecordFailedAttempt(r) \/ Persist(r)
    PROVE  Decided' /\ JobsStay
<1>1. DbOK /\ TasksOK /\ tasks[r].at # "idle" /\ UNCHANGED <<jobs, github>>
    BY DEF Typed, RecordFailedAttempt, Persist, At, db
<1>2. JobsStay /\ GithubGrows
    BY <1>1, JobsStayIfUnchanged, GrowsIfUnchanged
<1>3. \/ Persist(r) /\ StepTo(r, "item") /\ approvals' = approvals \cup {Row(r, tasks[r].verb, FALSE)}
      \/ Fail(r) /\ approvals' = approvals \cup {Row(r, "approve", TRUE)}
      \/ Fail(r) /\ UNCHANGED approvals
    BY DEF RecordFailedAttempt, Persist
<1>4. InOrder(r)' /\ \A q \in Recs : q # r => tasks'[q] = tasks[q]
    <2>1. StepTo(r, "item") \/ Fail(r)
        BY <1>3
    <2>2. tasks'[r].at \in {"item", "done"} /\ \A q \in Recs : q # r => tasks'[q] = tasks[q]
        BY <1>1, <2>1, StepIs
    <2> QED BY <2>2, Elsewhere
<1>5. \A q \in Recs : InOrder(q)'
    BY <1>2, <1>4, InOrderStays DEF Decided
<1>6. CASE UNCHANGED approvals
    BY <1>1, <1>2, <1>5, <1>6, DecisionsStay DEF Decided
<1>7. CASE approvals' = approvals \cup {Row(r, "approve", TRUE)}
    <2>1. Row(r, "approve", TRUE).failed
        BY DEF Row
    <2>2. DecisionIsOnGitHub'
        BY <1>1, <1>7, <2>1 DEF Decided, DecisionIsOnGitHub
    <2>3. ApprovedFixHasJob'
        BY <1>1, <1>7, <2>1 DEF Decided, ApprovedFixHasJob
    <2> QED BY <1>2, <1>5, <2>2, <2>3 DEF Decided
<1>8. CASE Persist(r) /\ approvals' = approvals \cup {Row(r, tasks[r].verb, FALSE)}
    <2> DEFINE row == Row(r, tasks[r].verb, FALSE)
               e == tasks[r].entry
    <2>1. /\ row.rec = r /\ row.decision = tasks[r].verb /\ ~row.failed
          /\ row.change = Change(e) /\ row.option = e.active
        BY DEF Row
    <2>2. /\ InOrder(r) /\ tasks[r].at = "persist" /\ e.rec = r
        BY <1>1, <1>8, BegunTask DEF Decided, Persist, At
    <2> HIDE DEF row
    <2>3. DecisionIsOnGitHub'
        <3>1. /\ ItemOf(r) \notin Contributors => ItemOf(r) \in github.labelled
              /\ tasks[r].verb = "approve" =>
                    /\ r \in github.commented
                    /\ Change(e) = "close" => github.state[ItemOf(r)] = "closed"
                    /\ Change(e) = "merge" => github.state[ItemOf(r)] = "merged"
            BY <2>2 DEF InOrder, LabelledFirst, CarriedOut, Approving
        <3>2. approvals' = approvals \cup {row}
            BY <1>8 DEF row
        <3> HIDE DEF e
        <3> QED BY <1>1, <2>1, <3>1, <3>2 DEF Decided, DecisionIsOnGitHub
    <2>4. ApprovedFixHasJob'
        <3>1. tasks[r].verb = "approve" /\ Change(e) = "fix" /\ Plan[ItemOf(r)][e.active] = "fix"
                => HasJob(r, e.active)
            BY <2>2 DEF InOrder, QueuedFirst, Approving, QueuesFix, HasPrompt
        <3>2. approvals' = approvals \cup {row}
            BY <1>8 DEF row
        <3> HIDE DEF e
        <3> QED BY <1>1, <2>1, <3>1, <3>2 DEF Decided, ApprovedFixHasJob, HasJob
    <2> QED BY <1>2, <1>5, <2>3, <2>4 DEF Decided
<1> QED BY <1>2, <1>3, <1>6, <1>7, <1>8

\* The other steps of a task are for the item and for the lists.
LEMMA OtherStepsInOrder ==
    ASSUME Typed, Decided, NEW r \in Recs,
           UpdateItem(r) \/ Refetch(r) \/ SupersedeForRerun(r) \/ Retriage(r)
    PROVE  Decided' /\ JobsStay
<1>1. /\ DbOK /\ TasksOK /\ tasks[r].at # "idle"
      /\ UNCHANGED <<jobs, approvals, github>>
    BY DEF Typed, UpdateItem, Refetch, SupersedeForRerun, Retriage, At, db
<1>2. JobsStay /\ GithubGrows
    BY <1>1, JobsStayIfUnchanged, GrowsIfUnchanged
<1>3. \/ \E place \in {"refetch", "triage"} : StepTo(r, place)
      \/ \E updated : Finish(r, updated)
      \/ Fail(r)
    BY DEF UpdateItem, Refetch, SupersedeForRerun, Retriage
<1>4. InOrder(r)' /\ \A q \in Recs : q # r => tasks'[q] = tasks[q]
    BY <1>1, <1>3, StepIs, Elsewhere
<1> QED BY <1>1, <1>2, <1>4, DecidedStays

\* At first nothing is decided.
LEMMA DecidedInit == Init => Decided
<1> SUFFICES ASSUME Init PROVE Decided
    OBVIOUS
<1>1. \A r \in Recs : tasks[r].at = "idle"
    BY DEF Init, Open, Idle
<1>2. \A r \in Recs : InOrder(r)
    BY <1>1 DEF InOrder, LabelledFirst, CarriedOut, QueuedFirst
<1>3. approvals = {}
    BY DEF Init
<1> QED BY <1>2, <1>3 DEF Decided, DecisionIsOnGitHub, ApprovedFixHasJob

\* Steps that neither decide nor queue.
LEMMA IdleInOrder ==
    ASSUME Typed, Decided, UNCHANGED <<jobs, approvals, github>>,
           \A r \in Recs : tasks'[r] = tasks[r] \/ tasks'[r] = Idle \/ Begins(r)
    PROVE  Decided'
<1>1. ASSUME NEW r \in Recs, tasks'[r] = Idle PROVE InOrder(r)'
    BY <1>1, Elsewhere DEF Idle
<1>2. \A r \in Recs : tasks'[r] = tasks[r] \/ InOrder(r)'
    BY <1>1, BegunInOrder
<1> QED BY <1>2, JobsStayIfUnchanged, GrowsIfUnchanged, DecidedStays DEF Typed

\* Every step keeps the order.
LEMMA DecidedStep == Typed /\ Decided /\ [Next]_vars => Decided'
<1> SUFFICES ASSUME Typed, Decided, [Next]_vars PROVE Decided'
    OBVIOUS
<1>1. CASE ApproveCurrent \/ FixCurrent \/ DismissCurrent \/ RerunEntry
    <2>1. UNCHANGED <<jobs, approvals, github>>
        BY <1>1 DEF ApproveCurrent, FixCurrent, DismissCurrent, RerunEntry, db
    <2> QED BY <1>1, <2>1, StartsInOrder, IdleInOrder
<1>2. CASE \/ MoveCursor \/ CycleOption \/ CycleRoleFilter
           \/ EditCurrent \/ OpenRerunInput \/ ApplyEditFinished \/ DropRerunInput
           \/ ReadRows \/ DeliverReload \/ RefreshTick
    <2>1. UNCHANGED <<jobs, approvals, github, tasks>>
        BY <1>2
        DEF MoveCursor, CycleOption, CycleRoleFilter, EditCurrent, OpenRerunInput, OpenDialog,
            ApplyEditFinished, DropRerunInput, ReadRows, DeliverReload, RefreshTick, db
    <2> QED BY <2>1, IdleInOrder
<1>3. CASE QuitAndReopen
    BY <1>3, IdleInOrder DEF QuitAndReopen, db
<1>4. ASSUME NEW r \in Recs, ApplyActionFinished(r) PROVE Decided'
    <2>1. UNCHANGED <<jobs, approvals, github>> /\ tasks' = [tasks EXCEPT ![r] = Idle]
        BY <1>4 DEF ApplyActionFinished, db
    <2> QED BY <2>1, IdleInOrder DEF Typed, TasksOK
<1>5. ASSUME NEW r \in Recs, TaskStep(r) PROVE Decided'
    BY <1>5, QueueFixInOrder, GithubInOrder, RowsInOrder, OtherStepsInOrder DEF TaskStep
<1>6. CASE \E i \in Items : DecideElsewhere(i) \/ DaemonRecommends(i) \/ SyncItem(i)
    BY <1>6, IdleInOrder DEF DecideElsewhere, DaemonRecommends, SyncItem
<1>7. CASE \E k \in DOMAIN jobs : JobMoves(k)
    <2>1. PICK k \in DOMAIN jobs : JobMoves(k)
        BY <1>7
    <2>2. PICK status \in {"running", "shown", "over"} : jobs' = [jobs EXCEPT ![k].status = status]
        BY <2>1 DEF JobMoves
    <2>3. JobsStay
        BY <2>2, StatusOK DEF JobsStay, Typed
    <2> QED BY <2>1, <2>3, GrowsIfUnchanged, DecidedStays DEF JobMoves, Typed
<1>8. CASE UNCHANGED vars
    BY <1>8, IdleInOrder DEF vars, db
<1>9. CASE Next
    BY <1>1, <1>2, <1>3, <1>4, <1>5, <1>6, <1>7, <1>9 DEF Next, Key
<1> QED BY <1>8, <1>9

\* The order holds in every state.
LEMMA DecidedInvariant == Spec => []Decided
<1> HIDE DEF Typed, Decided
<1> QED BY TypedInvariant, DecidedInit, DecidedStep, PTL DEF Spec

\* A row that ends a recommendation is written only when labels, comment and state are
\* on GitHub, after any failure and with other work on the same item under way
\* (approveInboxEntries: labels, then comment or review, then close or merge, then row).
THEOREM DecisionsAreOnGitHub == Spec => []DecisionIsOnGitHub
<1>1. Decided => DecisionIsOnGitHub
    BY DEF Decided
<1> HIDE DEF Decided, DecisionIsOnGitHub
<1> QED BY <1>1, DecidedInvariant, PTL

\* An approved fix has its job, also when one was running for the item already.
THEOREM ApprovedFixesHaveJobs == Spec => []ApprovedFixHasJob
<1>1. Decided => ApprovedFixHasJob
    BY DEF Decided
<1> HIDE DEF Decided, ApprovedFixHasJob
<1> QED BY <1>1, DecidedInvariant, PTL

-----------------------------------------------------------------------------
(* What was posted is on record.                                           *)

\* Of the disturbances that keep a row from being written, as far as they can happen.
Excuses == {"db", "quit"} \cap FaultKinds

OnRecord(r) ==
    \/ \E a \in approvals : a.rec = r
    \/ tasks[r].at \in {"comment", "act", "record", "persist"}

Recorded == fault \notin Excuses => \A r \in github.commented : OnRecord(r)

\* Once something has failed that is the excuse for good.
LEMMA FaultIs ==
    ASSUME BoundsOK, UNCHANGED fault \/ \E kind \in {"github", "db", "quit", "elsewhere"} : Fault(kind)
    PROVE  fault' \notin Excuses => fault \notin Excuses
BY NoneAssumption DEF Excuses, Fault

\* A recommendation with a row stays on record, and so does one whose task goes on.
LEMMA RecordedStays ==
    ASSUME Recorded, approvals \subseteq approvals', fault' \notin Excuses => fault \notin Excuses,
           \A r \in github'.commented :
                \/ fault' \notin Excuses => OnRecord(r)'
                \/ /\ r \in github.commented
                   /\ \/ tasks'[r] = tasks[r]
                      \/ tasks[r].at \notin {"comment", "act", "record", "persist"}
    PROVE  Recorded'
<1> SUFFICES ASSUME fault' \notin Excuses, NEW r \in github'.commented PROVE OnRecord(r)'
    BY DEF Recorded, Excuses
<1>1. CASE OnRecord(r)'
    BY <1>1
<1>2. CASE r \in github.commented /\ tasks'[r] = tasks[r]
    BY <1>2 DEF Recorded, OnRecord
<1>3. CASE r \in github.commented /\ tasks[r].at \notin {"comment", "act", "record", "persist"}
    BY <1>3 DEF Recorded, OnRecord
<1> QED BY <1>1, <1>2, <1>3

\* A task leaves the places where a row is still to come with a row, or with an excuse.
LEMMA TaskStepRecorded ==
    ASSUME Typed, Recorded, NEW r \in Recs, TaskStep(r)
    PROVE  Recorded'
<1>1. TasksOK /\ BoundsOK /\ GithubOK /\ tasks[r].at # "idle"
    BY DEF Typed, TaskStep, QueueFix, EditLabels, Comment, Act, RecordFailedAttempt, Persist,
           UpdateItem, Refetch, SupersedeForRerun, Retriage, At
<1>2. ASSUME UNCHANGED fault \/ \E kind \in {"github", "db", "quit", "elsewhere"} : Fault(kind)
      PROVE  fault' \notin Excuses => fault \notin Excuses
    BY <1>1, <1>2, FaultIs
<1>3. CASE QueueFix(r) \/ EditLabels(r) \/ UpdateItem(r) \/ Refetch(r) \/ SupersedeForRerun(r) \/ Retriage(r)
    <2>1. /\ tasks[r].at \notin {"comment", "act", "record", "persist"}
          /\ UNCHANGED approvals
          /\ \/ UNCHANGED github
             \/ github' = [github EXCEPT !.labelled = @ \cup {ItemOf(r)}]
        BY <1>3 DEF QueueFix, EditLabels, UpdateItem, Refetch, SupersedeForRerun, Retriage, At, db
    <2>2. github'.commented = github.commented
        BY <1>1, <2>1 DEF GithubOK
    <2>3. UNCHANGED fault \/ \E kind \in {"github", "db", "quit", "elsewhere"} : Fault(kind)
        BY <1>3 DEF QueueFix, EditLabels, UpdateItem, Refetch, SupersedeForRerun, Retriage
    <2>4. \A q \in Recs : q # r => tasks'[q] = tasks[q]
        <3>1. \/ \E place : StepTo(r, place)
              \/ \E updated : Finish(r, updated)
              \/ Fail(r)
            BY <1>3 DEF QueueFix, EditLabels, UpdateItem, Refetch, SupersedeForRerun, Retriage
        <3> QED BY <1>1, <3>1, StepIs
    <2> QED BY <1>1, <1>2, <2>1, <2>2, <2>3, <2>4, RecordedStays DEF GithubOK
<1>4. CASE Comment(r) \/ Act(r)
    <2>1. /\ UNCHANGED approvals
          /\ github'.commented \subseteq github.commented \cup {r}
        BY <1>1, <1>4 DEF Comment, Act, GithubOK, db
    <2>2. UNCHANGED fault \/ Fault("github")
        BY <1>4 DEF Comment, Act
    <2>3. \E place \in {"act", "record", "persist"} : StepTo(r, place)
        BY <1>4 DEF Comment, Act
    <2>4. OnRecord(r)' /\ \A q \in Recs : q # r => tasks'[q] = tasks[q]
        BY <1>1, <2>3, StepIs DEF OnRecord
    <2>5. github'.commented \subseteq Recs
        BY <1>1, <2>1 DEF GithubOK
    <2> QED BY <1>2, <2>1, <2>2, <2>4, <2>5, RecordedStays
<1>5. CASE RecordFailedAttempt(r) \/ Persist(r)
    <2>1. approvals \subseteq approvals' /\ UNCHANGED github
        BY <1>5 DEF RecordFailedAttempt, Persist
    <2>2. UNCHANGED fault \/ Fault("db")
        BY <1>5 DEF RecordFailedAttempt, Persist
    <2>3. \/ \E decision, failed : approvals' = approvals \cup {Row(r, decision, failed)}
          \/ Fault("db")
        BY <1>5 DEF RecordFailedAttempt, Persist
    <2>4. fault' \notin Excuses => OnRecord(r)'
        <3>1. CASE Fault("db")
            BY <3>1 DEF Fault, Excuses
        <3>2. ASSUME NEW decision, NEW failed, approvals' = approvals \cup {Row(r, decision, failed)}
              PROVE  OnRecord(r)'
            <4>1. Row(r, decision, failed).rec = r
                BY DEF Row
            <4> QED BY <3>2, <4>1 DEF OnRecord
        <3> QED BY <2>3, <3>1, <3>2
    <2>5. \A q \in Recs : q # r => tasks'[q] = tasks[q]
        <3>1. (\E place : StepTo(r, place)) \/ Fail(r)
            BY <1>5 DEF RecordFailedAttempt, Persist
        <3> QED BY <1>1, <3>1, StepIs
    <2> QED BY <1>1, <1>2, <2>1, <2>2, <2>4, <2>5, RecordedStays DEF GithubOK
<1> QED BY <1>3, <1>4, <1>5 DEF TaskStep

\* Steps that touch neither GitHub nor rows; tasks that they change are idle or ended.
LEMMA IdleRecorded ==
    ASSUME Typed, Recorded, UNCHANGED <<approvals, github>>,
           UNCHANGED fault \/ \E kind \in {"github", "db", "quit", "elsewhere"} : Fault(kind),
           \A r \in Recs : \/ tasks'[r] = tasks[r]
                           \/ tasks[r].at \notin {"comment", "act", "record", "persist"}
                           \/ fault' \in Excuses
    PROVE  Recorded'
<1>1. fault' \notin Excuses => fault \notin Excuses
    BY FaultIs DEF Typed
<1>2. github'.commented = github.commented /\ github.commented \subseteq Recs
    BY DEF Typed, GithubOK
<1> QED BY <1>1, <1>2, RecordedStays

\* At first nothing is posted.
LEMMA RecordedInit == Init => Recorded
BY DEF Init, Recorded

\* Every step leaves what is posted on record.
LEMMA RecordedStep == Typed /\ Recorded /\ [Next]_vars => Recorded'
<1> SUFFICES ASSUME Typed, Recorded, [Next]_vars PROVE Recorded'
    OBVIOUS
<1>1. CASE ApproveCurrent \/ FixCurrent \/ DismissCurrent \/ RerunEntry
    <2>1. UNCHANGED <<approvals, github, fault>>
        BY <1>1 DEF ApproveCurrent, FixCurrent, DismissCurrent, RerunEntry, db
    <2>2. \A r \in Recs : tasks'[r] = tasks[r] \/ tasks[r].at = "idle"
        BY <1>1, StartsInOrder DEF Idle
    <2> QED BY <2>1, <2>2, IdleRecorded
<1>2. CASE \/ MoveCursor \/ CycleOption \/ CycleRoleFilter
           \/ EditCurrent \/ OpenRerunInput \/ ApplyEditFinished \/ DropRerunInput
           \/ ReadRows \/ DeliverReload \/ RefreshTick
    <2>1. UNCHANGED <<approvals, github, tasks, fault>>
        BY <1>2
        DEF MoveCursor, CycleOption, CycleRoleFilter, EditCurrent, OpenRerunInput, OpenDialog,
            ApplyEditFinished, DropRerunInput, ReadRows, DeliverReload, RefreshTick, db
    <2> QED BY <2>1, IdleRecorded
<1>3. CASE QuitAndReopen
    <2>1. UNCHANGED <<approvals, github>> /\ Fault("quit") /\ fault' \in Excuses
        BY <1>3 DEF QuitAndReopen, Fault, Excuses, db
    <2> QED BY <2>1, IdleRecorded
<1>4. ASSUME NEW r \in Recs, ApplyActionFinished(r) PROVE Recorded'
    <2>1. /\ UNCHANGED <<approvals, github, fault>>
          /\ tasks' = [tasks EXCEPT ![r] = Idle] /\ tasks[r].at = "done"
        BY <1>4 DEF ApplyActionFinished, db, At
    <2>2. \A q \in Recs : tasks'[q] = tasks[q] \/ tasks[q].at = "done"
        BY <2>1 DEF Typed, TasksOK
    <2> QED BY <2>1, <2>2, IdleRecorded
<1>5. ASSUME NEW r \in Recs, TaskStep(r) PROVE Recorded'
    BY <1>5, TaskStepRecorded
<1>6. CASE \E i \in Items : DecideElsewhere(i) \/ DaemonRecommends(i) \/ SyncItem(i)
    BY <1>6, IdleRecorded DEF DecideElsewhere, DaemonRecommends, SyncItem
<1>7. CASE \E k \in DOMAIN jobs : JobMoves(k)
    BY <1>7, IdleRecorded DEF JobMoves
<1>8. CASE UNCHANGED vars
    BY <1>8, IdleRecorded DEF vars, db
<1>9. CASE Next
    BY <1>1, <1>2, <1>3, <1>4, <1>5, <1>6, <1>7, <1>9 DEF Next, Key
<1> QED BY <1>8, <1>9

\* What was posted on GitHub has a row, or the task that posted it has it still to
\* write, unless the database failed or the session was ended (approveInboxEntries calls
\* persistFailedApprovalAttempt on every way out that has posted something).
THEOREM EffectsAreRecorded == Spec => []EffectsAreOnRecord
<1>1. Recorded => EffectsAreOnRecord
    BY DEF Recorded, EffectsAreOnRecord, OnRecord, Excuses
<1> HIDE DEF Typed, Recorded, EffectsAreOnRecord
<1>2. Spec => []Recorded
    BY TypedInvariant, RecordedInit, RecordedStep, PTL DEF Spec
<1> QED BY <1>1, <1>2, PTL

=============================================================================
