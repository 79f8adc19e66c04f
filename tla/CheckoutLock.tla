----------------------------- MODULE CheckoutLock -----------------------------
(***************************************************************************)
(* The lock on the investigation checkout of a repository                  *)
(* (internal/cli/root.go).  The daemon and every process of "ezoss triage" *)
(* or of an inbox that reruns an item lets an agent work in one shared     *)
(* checkout, which is reset and cleaned before each run.  The lock is a    *)
(* file: it is created exclusively, then the owner's pid is written to it; *)
(* a lock whose owner cannot be read, or is dead, is removed as stale.     *)
(***************************************************************************)
EXTENDS Naturals

CONSTANTS
    Pids,   \* the processes that run at the same time
    Dead,   \* any process that runs no more: no two of them need telling apart
    None    \* no file

ASSUME PidsAssumption == Pids \subseteq Nat \ {0}
ASSUME DeadAssumption == Dead \notin Pids \cup {None}
ASSUME NoneAssumption == None \notin Pids /\ None \notin [by : Pids \cup {Dead}, written : BOOLEAN]

VARIABLES
    alive,      \* the processes that run
    lockFile,   \* the file at the lock's path: who created it, and is its pid in it
    at          \* where each process is in acquireInvestigationCheckoutLock

lockVars == <<lockFile, at>>

Places == {"out", "open", "write", "judge", "remove", "agent"}

LockFiles == [by : Pids \cup {Dead}, written : BOOLEAN] \cup {None}

LockTypeOK ==
    /\ alive \subseteq Pids
    /\ lockFile \in LockFiles
    /\ at \in [Pids -> Places]

LockInit == lockFile = None /\ at = [p \in Pids |-> "out"]

GoesTo(p, place) == at' = [at EXCEPT ![p] = place]

\* A triage of an item of the repository begins.
WantCheckout(p) == at[p] = "out" /\ GoesTo(p, "open") /\ UNCHANGED lockFile

\* O_CREATE|O_EXCL: the file is created empty, or there is one.
OpenLock(p) ==
    /\ at[p] = "open"
    /\ \/ /\ lockFile = None
          /\ lockFile' = [by |-> p, written |-> FALSE]
          /\ GoesTo(p, "write")
       \/ /\ lockFile # None
          /\ GoesTo(p, "judge")
          /\ UNCHANGED lockFile

\* The pid goes to the file that was opened, which may be at its path no more.
\* From here on the process prepares the checkout and runs its agent there.
WriteOwner(p) ==
    /\ at[p] = "write"
    /\ lockFile' = IF lockFile = [by |-> p, written |-> FALSE]
                   THEN [by |-> p, written |-> TRUE] ELSE lockFile
    /\ GoesTo(p, "agent")

\* The pid cannot be written: the path is removed and the triage fails.
WriteOwnerFails(p) == at[p] = "write" /\ lockFile' = None /\ GoesTo(p, "out")

MutStale == lockFile # None /\ ~lockFile.written

Stale == lockFile # None /\ (lockFile.written => lockFile.by \notin alive)

\* The file that was in the way is read: it is gone, or stale, or its owner
\* lives, in which case the process tries again after 50 ms.
JudgeLock(p) ==
    /\ at[p] = "judge"
    /\ GoesTo(p, IF Stale THEN "remove" ELSE "open")
    /\ UNCHANGED lockFile

\* Whatever is at the path by now.
RemoveStale(p) == at[p] = "remove" /\ lockFile' = None /\ GoesTo(p, "open")

\* The agent is done, or the checkout could not be prepared; the deferred release
\* removes whatever is at the path.
Release(p) == at[p] = "agent" /\ lockFile' = None /\ GoesTo(p, "out")

LockStep(p) ==
    \/ OpenLock(p) \/ WriteOwner(p) \/ WriteOwnerFails(p)
    \/ JudgeLock(p) \/ RemoveStale(p) \/ Release(p)

\* The lock by itself: every process may want the checkout at any time; nobody dies.
AllRun == alive = Pids /\ LockInit

Contend == \E p \in alive : (WantCheckout(p) \/ LockStep(p)) /\ UNCHANGED alive

LockSpec == AllRun /\ [][Contend]_<<alive, lockVars>>

\* A checkout is prepared and used by one process at a time: "second triage
\* prepared checkout while first agent still held it" is what
\* TestLiveTriageRunnerSerializesInvestigationCheckoutUse must not see.
OneAgentPerCheckout == \A p, q \in alive : at[p] = "agent" /\ at[q] = "agent" => p = q

=============================================================================
