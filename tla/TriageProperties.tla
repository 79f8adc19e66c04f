--------------------------- MODULE TriageProperties ---------------------------
(***************************************************************************)
(* What Triage promises.                                                   *)
(***************************************************************************)
EXTENDS Triage

\* An issue is in the inbox once at most, although the daemon and a manual run
\* triage it at the same time.
OneLiveRecommendation ==
    \A r, s \in DOMAIN recs :
        recs[r].item = recs[s].item /\ recs[r].live /\ recs[s].live => r = s

\* A result never takes the place of that of a cycle that began later, nor comes
\* beside it: "older in-flight triage runs cannot overwrite newer reruns"
\* (InsertRecommendationReplacingActiveBefore).
NewerResultsStay ==
    [][\A p \in Procs, i \in Items :
            Recommend(p, i) => \A r \in LiveRecs(i) : r \notin proc[p].newer]_vars

\* README.md, Rerun: "Re-triage the item and replace the active recommendation".
\* A rerun's result is thrown away only for that of a cycle that began later.
RerunReplaces ==
    [][\A i \in Items :
            Discard("manual", i)
                => \E r \in NewerActive("manual", i) : r \in proc["manual"].newer]_vars

\* Activity on a handled issue that nobody has seen: it came after the label and
\* no recommendation has been made since.
Unseen(i) ==
    /\ row[i].triaged /\ row[i].open
    /\ HasActivityAfterLabelSince(i, LatestRecommendationCreatedAt(i))

\* Activity on a handled issue puts it back before the agents, whatever cycles,
\* reruns and inbox actions overwrite its row meanwhile.
ActivityIsSeen == \A i \in Items : Unseen(i) ~> ~Unseen(i)

=============================================================================
