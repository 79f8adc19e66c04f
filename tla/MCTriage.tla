------------------------------- MODULE MCTriage -------------------------------
(***************************************************************************)
(* TriageProperties for TLC.                                               *)
(***************************************************************************)
EXTENDS TriageProperties
LOCAL INSTANCE SequencesExt

Issue == SetToSeq(Items)

\* Liveness has two starts.  In one, the user has dismissed the first recommendation of
\* each issue in turn.
HandledInit ==
    LET order(i) == CHOOSE n \in DOMAIN Issue : Issue[n] = i IN
    /\ now = Len(Issue)
    /\ gh = [i \in Items |-> [open |-> TRUE, label |-> TRUE, updated |-> order(i),
                              labeledAt |-> order(i), activeAt |-> 0]]
    /\ row = [i \in Items |-> [known |-> TRUE, open |-> TRUE, triaged |-> TRUE,
                               lastEvent |-> 0, selfAt |-> order(i)]]
    /\ recs = [n \in DOMAIN Issue |-> [item |-> Issue[n], at |-> 0, live |-> FALSE]]

\* In the other the last issue is new, and the others have been closed.
NewInit ==
    LET new == Last(Issue) IN
    /\ now = 1
    /\ gh = [i \in Items |-> [open |-> i = new, label |-> FALSE, updated |-> 1,
                              labeledAt |-> 0, activeAt |-> IF i = new THEN 0 ELSE 1]]
    /\ row = [i \in Items |->
                IF i = new THEN NoRow
                ELSE [known |-> TRUE, open |-> FALSE, triaged |-> FALSE, lastEvent |-> 1, selfAt |-> 0]]
    /\ recs = [n \in 1 .. Len(Issue) - 1 |-> [item |-> Issue[n], at |-> 0, live |-> FALSE]]

LiveInit ==
    /\ HandledInit \/ NewInit
    /\ lastRefresh = 0
    /\ proc = [p \in Procs |-> Idle]
    /\ user = AtRest

LiveSpec == LiveInit /\ [][Next]_vars /\ Fairness

\* From the first, activity moves updated_at, so that the refresh lists it unless a manual
\* run, which is for the last issue, has stamped its time meanwhile.  From the second
\* anything may happen to the new issue, but no manual run.  This prunes steps of others
\* on GitHub and of the user, to which no fairness is given.
ActivityOnly ==
    /\ user' = AtRest
    /\ proc'["manual"].stage = "load" => proc'["manual"].todo = {Last(Issue)}
    /\ \A i \in Items : gh'[i] # gh[i]
            => gh'[i] = [gh[i] EXCEPT !.activeAt = now', !.updated = now']

NewIssueOnly ==
    /\ user' = AtRest \/ recs[user'.rec].item = Last(Issue)
    /\ proc'["manual"] = Idle
    /\ \A i \in Items : gh'[i] # gh[i] => i = Last(Issue)

OneScenario == IF gh[Head(Issue)].open THEN ActivityOnly ELSE NewIssueOnly

=============================================================================
