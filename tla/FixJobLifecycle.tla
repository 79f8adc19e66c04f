---------------------------- MODULE FixJobLifecycle ----------------------------
(***************************************************************************)
(* What fix jobs promise to the people who request them, without the       *)
(* table, the daemon or time: an item has one open job at most; a newer    *)
(* request takes the place of a job no agent is working on, and is refused *)
(* while one is; a job is worked on once; what has ended has ended.        *)
(***************************************************************************)
CONSTANTS Items, NoItem, Job

VARIABLES
    item,       \* the item of each job
    state       \* how far each job has come

vars == <<item, state>>

Ends == {"succeeded", "failed", "cancelled"}

States == {"none", "queued", "working", "waiting"} \cup Ends

TypeOK ==
    /\ item \in [Job -> Items \cup {NoItem}]
    /\ state \in [Job -> States]

Init ==
    /\ item = [j \in Job |-> NoItem]
    /\ state = [j \in Job |-> "none"]

Open(i) == {j \in Job : item[j] = i /\ state[j] \in {"queued", "working", "waiting"}}

\* A request for item i becomes job j.
Submit(i, j) ==
    /\ state[j] = "none"
    /\ \A k \in Open(i) : state[k] # "working"
    /\ item' = [item EXCEPT ![j] = i]
    /\ state' = [k \in Job |-> CASE k = j -> "queued"
                                 [] k \in Open(i) -> "cancelled"
                                 [] OTHER -> state[k]]

\* A job moves on by itself.
Move(j, from, to) ==
    /\ state[j] = from
    /\ state' = [state EXCEPT ![j] = to]
    /\ UNCHANGED item

Begin(j) == Move(j, "queued", "working")

Await(j) == Move(j, "working", "waiting")

Succeed(j) == Move(j, "working", "succeeded") \/ Move(j, "waiting", "succeeded")

Fail(j) == Move(j, "working", "failed")

\* Abandoned runs are given up together.
GiveUp(S) ==
    /\ \A j \in S : state[j] = "working"
    /\ state' = [j \in Job |-> IF j \in S THEN "failed" ELSE state[j]]
    /\ UNCHANGED item

Next ==
    \/ \E i \in Items, j \in Job : Submit(i, j)
    \/ \E j \in Job : Begin(j) \/ Await(j) \/ Succeed(j) \/ Fail(j)
    \/ \E S \in SUBSET Job : GiveUp(S)

Spec == Init /\ [][Next]_vars

=============================================================================
