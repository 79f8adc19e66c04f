------------------------------- MODULE HostProofs -------------------------------
(***************************************************************************)
(* Proofs about Host: for any number of pids, releases, faults and reused  *)
(* pids, every variable stays in its type; and unless two processes decide *)
(* about the pid file at the same time, a daemon that polls is the one its *)
(* pid file and its socket lead to, and a reported stop or update has      *)
(* reached the daemon it is about.                                         *)
(*                                                                         *)
(* The argument has three layers, each of which uses the one before: the   *)
(* types (Types), who may hold the pid file while somebody decides about   *)
(* it (Held), and what a command knows of the daemons where it is (Knows). *)
(***************************************************************************)
EXTENDS Host, TLAPS

-----------------------------------------------------------------------------
(* Types.                                                                  *)

\* The processes at a stage are those that live, and only an executable that is not the
\* newest is replaced.
Types ==
    /\ TypeOK
    /\ \A p \in Pids : p \in alive <=> st[p] # "none"
    /\ cmd.pc \in {"path", "download", "replace"} => disk < MaxVersion

\* The invariant holds of a machine on which nothing runs yet.
LEMMA TypesInit == Init => Types
<1> SUFFICES ASSUME Init PROVE Types
    OBVIOUS
<1>1. cmd \in Cmds /\ cmd.pc = "idle"
    BY DEF Init, NoCmd, Cmds, CmdPlaces, AllOps
<1>2. /\ st \in [Pids -> Stages] /\ at \in [Pids -> Places]
      /\ \A p \in Pids : at[p] = "out" /\ st[p] = "none" /\ p \notin alive
    BY DEF Init, LockInit, Stages, Places
<1>3. LockTypeOK
    BY <1>2 DEF Init, LockInit, LockFiles, LockTypeOK
<1>4. 0 \in 0 .. MaxVersion /\ 0 \in 0 .. MaxFaults /\ 0 \in 0 .. MaxReuses
    BY BoundsAssumption
<1>5. version \in [Pids -> 0 .. MaxVersion] /\ disk \in 0 .. MaxVersion
      /\ faults \in 0 .. MaxFaults /\ reuses \in 0 .. MaxReuses
    BY <1>4 DEF Init
<1>6. /\ sig \in SUBSET alive /\ unseen \in SUBSET alive /\ raced \in BOOLEAN
      /\ pidFile \in Pids \cup {Dead, Empty, None} /\ socket \in Pids \cup {Dead, None}
      /\ main \in Pids \cup {Dead, None} /\ unit \in BOOLEAN /\ wanted \in BOOLEAN
    BY DEF Init
<1> QED BY <1>1, <1>2, <1>3, <1>5, <1>6 DEF Types, TypeOK

\* What Types says of each variable.
LEMMA TypesAre ==
    ASSUME Types
    PROVE  /\ alive \subseteq Pids /\ lockFile \in LockFiles /\ at \in [Pids -> Places]
           /\ st \in [Pids -> Stages] /\ sig \in SUBSET alive
           /\ version \in [Pids -> 0 .. MaxVersion]
           /\ pidFile \in Pids \cup {Dead, Empty, None} /\ socket \in Pids \cup {Dead, None}
           /\ disk \in 0 .. MaxVersion /\ unit \in BOOLEAN /\ wanted \in BOOLEAN
           /\ main \in Pids \cup {Dead, None} /\ cmd \in Cmds
           /\ faults \in 0 .. MaxFaults /\ reuses \in 0 .. MaxReuses /\ raced \in BOOLEAN
           /\ unseen \in SUBSET alive
           /\ \A p \in Pids : at[p] # "out" => st[p] \in {"triage", "cycle"}
           /\ \A p \in Pids : p \in alive <=> st[p] # "none"
           /\ cmd.pc \in {"path", "download", "replace"} => disk < MaxVersion
           /\ None \notin alive /\ Dead \notin alive /\ Empty \notin alive
BY NoneAssumption, DeadAssumption, EmptyAssumption DEF Types, TypeOK, LockTypeOK

\* A process begins: the others go on, and a file that named a dead one may name it.
LEMMA SpawnIs ==
    ASSUME Types, NEW p \in Pids, NEW stage \in {"check", "triage", "other"}, Spawn(p, stage)
    PROVE  /\ p \notin alive /\ alive' = alive \cup {p}
           /\ st' = [st EXCEPT ![p] = stage] /\ version' = [version EXCEPT ![p] = disk]
           /\ st'[p] = stage /\ version'[p] = disk
           /\ \A q \in alive : q # p /\ st'[q] = st[q] /\ version'[q] = version[q]
           /\ pidFile' \in {pidFile, p} /\ (pidFile' # pidFile => pidFile = Dead)
           /\ \A q \in alive : pidFile = q <=> pidFile' = q
           /\ lockFile' \in LockFiles /\ reuses' \in 0 .. MaxReuses
           /\ UNCHANGED <<sig, socket, disk, unit, faults, raced, unseen>>
<1>1. /\ p \in Free /\ PidOf(p) /\ alive' = alive \cup {p}
      /\ st' = [st EXCEPT ![p] = stage] /\ version' = [version EXCEPT ![p] = disk]
      /\ UNCHANGED <<sig, socket, disk, unit, faults, raced, unseen>>
    BY DEF Spawn
<1>2. p \notin alive
    BY <1>1 DEF Free
<1>3. st'[p] = stage /\ version'[p] = disk
      /\ \A q \in alive : q # p /\ st'[q] = st[q] /\ version'[q] = version[q]
    BY <1>1, <1>2, TypesAre
<1>4. pidFile' \in {pidFile, p} /\ (pidFile' # pidFile => pidFile = Dead)
    BY <1>1 DEF PidOf, Reborn
<1>5. \A q \in alive : pidFile = q <=> pidFile' = q
    BY <1>2, <1>4, TypesAre
<1>6. reuses' \in 0 .. MaxReuses
    BY <1>1, TypesAre, BoundsAssumption DEF PidOf
<1>7. lockFile' \in LockFiles
    <2>1. CASE UNCHANGED lockFile
        BY <2>1, TypesAre
    <2>2. CASE lockFile # None /\ \E q \in Reborn(p, lockFile.by) : lockFile' = [lockFile EXCEPT !.by = q]
        <3>1. PICK q \in Reborn(p, lockFile.by) : lockFile' = [lockFile EXCEPT !.by = q]
            BY <2>2
        <3>2. lockFile \in [by : Pids \cup {Dead}, written : BOOLEAN]
            BY <2>2, TypesAre DEF LockFiles
        <3>3. q \in Pids \cup {Dead}
            BY <3>1, <3>2 DEF Reborn
        <3> QED BY <3>1, <3>2, <3>3 DEF LockFiles
    <2> QED BY <1>1, <2>1, <2>2 DEF PidOf
<1> QED BY <1>1, <1>2, <1>3, <1>4, <1>5, <1>6, <1>7

\* A process ends: the others go on, and files that named it name Dead.
LEMMA DiesIs ==
    ASSUME Types, NEW p \in alive, NEW left, left \in {pidFile, None}, Dies(p, left)
    PROVE  /\ alive' = alive \ {p}
           /\ st' = [st EXCEPT ![p] = "none"] /\ at' = [at EXCEPT ![p] = "out"]
           /\ version' = [version EXCEPT ![p] = 0]
           /\ \A q \in alive' : q # p /\ st'[q] = st[q] /\ version'[q] = version[q]
           /\ sig' = sig \ {p} /\ unseen' = unseen \ {p}
           /\ pidFile' \in {left, Dead} /\ socket' \in {socket, Dead} /\ main' \in {main, Dead}
           /\ main = None => main' = None
           /\ \A q \in alive' : /\ left = q <=> pidFile' = q
                                /\ socket = q <=> socket' = q
                                /\ main = q <=> main' = q
                                /\ cmd.pid = q <=> cmd'.pid = q
           /\ lockFile' \in LockFiles
           /\ cmd' \in Cmds /\ cmd'.op = cmd.op /\ cmd'.pc = cmd.pc
           /\ UNCHANGED <<disk, unit, wanted, reuses, raced>>
<1>1. /\ alive' = alive \ {p}
      /\ st' = [st EXCEPT ![p] = "none"] /\ at' = [at EXCEPT ![p] = "out"]
      /\ version' = [version EXCEPT ![p] = 0]
      /\ sig' = sig \ {p} /\ unseen' = unseen \ {p}
      /\ pidFile' = Bury(p, left) /\ socket' = Bury(p, socket) /\ main' = Bury(p, main)
      /\ cmd' = [cmd EXCEPT !.pid = Bury(p, cmd.pid)]
      /\ UNCHANGED <<disk, unit, wanted, reuses, raced>>
    BY DEF Dies
<1>2. \A q \in alive' : q # p /\ st'[q] = st[q] /\ version'[q] = version[q]
    BY <1>1, TypesAre
<1>3. cmd' \in Cmds /\ cmd'.op = cmd.op /\ cmd'.pc = cmd.pc /\ cmd'.pid = Bury(p, cmd.pid)
    BY <1>1, TypesAre DEF Cmds, Bury
<1>4. /\ pidFile' \in {left, Dead} /\ socket' \in {socket, Dead} /\ main' \in {main, Dead}
      /\ main = None => main' = None
    BY <1>1, TypesAre DEF Bury
<1>5. \A q \in alive' : /\ left = q <=> pidFile' = q
                        /\ socket = q <=> socket' = q
                        /\ main = q <=> main' = q
                        /\ cmd.pid = q <=> cmd'.pid = q
    BY <1>1, <1>2, <1>3, TypesAre DEF Bury
<1>6. lockFile' \in LockFiles
    <2>1. CASE lockFile = None
        BY <2>1 DEF Dies, LockFiles
    <2>2. CASE lockFile # None
        <3>1. lockFile \in [by : Pids \cup {Dead}, written : BOOLEAN]
            BY <2>2, TypesAre DEF LockFiles
        <3>2. lockFile' = [lockFile EXCEPT !.by = Bury(p, lockFile.by)]
            BY <2>2 DEF Dies
        <3> QED BY <3>1, <3>2, TypesAre DEF LockFiles, Bury
    <2> QED BY <2>1, <2>2
<1> QED BY <1>1, <1>2, <1>3, <1>4, <1>5, <1>6

\* A daemon goes to another stage.
LEMMA StageIs ==
    ASSUME Types, NEW p \in Pids, NEW stage, st' = [st EXCEPT ![p] = stage],
           UNCHANGED <<alive, version>>
    PROVE  /\ st'[p] = stage
           /\ \A q \in Pids : q # p => st'[q] = st[q]
BY TypesAre

\* The user's command goes to a place.
LEMMA CmdIs ==
    ASSUME Types, NEW place \in CmdPlaces \cup {"failed"}, CmdTo(place)
    PROVE  /\ cmd' \in Cmds
           /\ place # "failed" => cmd'.op = cmd.op /\ cmd'.pc = place /\ cmd'.pid = cmd.pid
           /\ place = "failed" => cmd'.pc = "idle"
BY TypesAre DEF CmdTo, Cmds, NoCmd, CmdPlaces, AllOps

\* A death preserves the types.
LEMMA DiesTypes ==
    ASSUME Types, NEW p \in alive, NEW left, left \in {pidFile, None}, Dies(p, left),
           faults' \in 0 .. MaxFaults
    PROVE  Types'
<1>1. alive' \subseteq Pids /\ sig' \in SUBSET alive' /\ unseen' \in SUBSET alive'
    BY DiesIs, TypesAre
<1>2. st' \in [Pids -> Stages] /\ version' \in [Pids -> 0 .. MaxVersion] /\ at' \in [Pids -> Places]
    <2>1. "none" \in Stages /\ "out" \in Places /\ 0 \in 0 .. MaxVersion
        BY BoundsAssumption DEF Stages, Places
    <2> QED BY <2>1, DiesIs, TypesAre
<1>3. \A q \in Pids : at'[q] # "out" => st'[q] \in {"triage", "cycle"}
    BY DiesIs, TypesAre
<1>4. \A q \in Pids : q \in alive' <=> st'[q] # "none"
    BY DiesIs, TypesAre
<1>5. pidFile' \in Pids \cup {Dead, Empty, None} /\ socket' \in Pids \cup {Dead, None}
      /\ main' \in Pids \cup {Dead, None}
    BY DiesIs, TypesAre
<1>6. /\ disk' \in 0 .. MaxVersion /\ unit' \in BOOLEAN /\ wanted' \in BOOLEAN /\ cmd' \in Cmds
      /\ reuses' \in 0 .. MaxReuses /\ raced' \in BOOLEAN /\ lockFile' \in LockFiles
      /\ cmd'.pc \in {"path", "download", "replace"} => disk' < MaxVersion
    BY DiesIs, TypesAre
<1> QED BY <1>1, <1>2, <1>3, <1>4, <1>5, <1>6 DEF Types, TypeOK, LockTypeOK

\* So does a birth.
LEMMA SpawnTypes ==
    ASSUME Types, NEW p \in Pids, NEW stage \in {"check", "triage", "other"}, Spawn(p, stage),
           \/ UNCHANGED at
           \/ stage = "triage" /\ at' = [at EXCEPT ![p] = "open"],
           main' \in {main, p}, wanted' \in BOOLEAN, cmd' \in Cmds,
           cmd'.pc \in {"path", "download", "replace"} => cmd'.pc = cmd.pc
    PROVE  Types'
<1>1. alive' \subseteq Pids /\ sig' \in SUBSET alive' /\ unseen' \in SUBSET alive'
    BY SpawnIs, TypesAre
<1>2. st' \in [Pids -> Stages] /\ version' \in [Pids -> 0 .. MaxVersion] /\ at' \in [Pids -> Places]
    <2>1. {"check", "triage", "other"} \subseteq Stages /\ "open" \in Places
        BY DEF Stages, Places, Booting
    <2> QED BY <2>1, SpawnIs, TypesAre
<1>3. \A q \in Pids : at'[q] # "out" => st'[q] \in {"triage", "cycle"}
    <2>1. p \in Pids \ alive /\ st[p] = "none" /\ at[p] = "out"
        BY SpawnIs, TypesAre
    <2> QED BY <2>1, SpawnIs, TypesAre
<1>4. \A q \in Pids : q \in alive' <=> st'[q] # "none"
    BY SpawnIs, TypesAre
<1>5. pidFile' \in Pids \cup {Dead, Empty, None} /\ socket' \in Pids \cup {Dead, None}
      /\ main' \in Pids \cup {Dead, None}
    BY SpawnIs, TypesAre
<1>6. /\ disk' \in 0 .. MaxVersion /\ unit' \in BOOLEAN /\ faults' \in 0 .. MaxFaults
      /\ reuses' \in 0 .. MaxReuses /\ raced' \in BOOLEAN /\ lockFile' \in LockFiles
      /\ cmd'.pc \in {"path", "download", "replace"} => disk' < MaxVersion
    BY SpawnIs, TypesAre
<1> QED BY <1>1, <1>2, <1>3, <1>4, <1>5, <1>6 DEF Types, TypeOK, LockTypeOK

\* And a daemon's way from one stage to another.
LEMMA StageTypes ==
    ASSUME Types, NEW p \in Pids, st[p] \notin {"none", "triage"},
           NEW stage \in Booting \cup Polling \cup Closing,
           st' = [st EXCEPT ![p] = stage], at[p] = "out" \/ stage = "cycle",
           UNCHANGED <<alive, version, lockVars, disk, unit, manager, cmd, reuses, unseen>>,
           sig' \in SUBSET alive, raced' \in BOOLEAN, faults' \in 0 .. MaxFaults,
           pidFile' \in {pidFile, p, Empty, None}, socket' \in {socket, p, None}
    PROVE  Types'
<1>1. st' \in [Pids -> Stages] /\ \A q \in Pids : at'[q] # "out" => st'[q] \in {"triage", "cycle"}
    <2>1. stage \in Stages
        BY DEF Stages
    <2> QED BY <2>1, TypesAre DEF lockVars
<1>2. \A q \in Pids : q \in alive' <=> st'[q] # "none"
    BY TypesAre DEF Booting, Polling, Closing
<1> QED BY <1>1, <1>2, TypesAre DEF Types, TypeOK, LockTypeOK, lockVars, manager

\* And a step of the command that leaves the processes alone.
LEMMA CmdTypes ==
    ASSUME Types, cmd' \in Cmds, UNCHANGED <<alive, st, version, lockVars, socket, counters>>,
           sig' \in SUBSET alive, unseen' \in SUBSET alive, raced' \in BOOLEAN,
           pidFile' \in {pidFile, None}, main' \in {main, None},
           unit' \in BOOLEAN, wanted' \in BOOLEAN, disk' \in 0 .. MaxVersion,
           cmd'.pc \in {"path", "download", "replace"} => disk' < MaxVersion
    PROVE  Types'
BY TypesAre DEF Types, TypeOK, LockTypeOK, lockVars, counters

\* A daemon comes up.
LEMMA BootTypes ==
    ASSUME Types, NEW p \in Pids, BootStep(p)
    PROVE  Types'
<1>1. st[p] \in Booting /\ p \in alive /\ at[p] = "out" /\ st[p] \notin {"none", "triage"}
    BY TypesAre DEF BootStep, CheckPid, RemoveStalePid, CreatePid, WritePid, Listen, Booting
<1> USE DEF Booting, Polling, Closing, StageTo, files, counters, history
<1>2. CASE CheckPid(p) /\ Dies(p, pidFile) /\ UNCHANGED faults
    BY <1>1, <1>2, DiesTypes, TypesAre
<1>3. CASE CheckPid(p) /\ ~(Dies(p, pidFile) /\ UNCHANGED faults)
    <2>1. PICK stage \in {"unstale", "create"} : StageTo(p, stage)
        BY <1>3 DEF CheckPid
    <2>2. raced' \in BOOLEAN /\ UNCHANGED <<lockVars, files, manager, cmd, counters, unseen>>
        BY <1>3, TypesAre DEF CheckPid, Decides
    <2> QED BY <1>1, <2>1, <2>2, StageTypes, TypesAre
<1>4. CASE RemoveStalePid(p) \/ CreatePid(p) \/ WritePid(p)
    <2>1. PICK stage \in {"create", "fill", "listen"} : StageTo(p, stage)
        BY <1>4 DEF RemoveStalePid, CreatePid, WritePid
    <2>2. pidFile' \in {p, Empty, None}
          /\ UNCHANGED <<lockVars, socket, disk, unit, manager, cmd, counters, history>>
        BY <1>4 DEF RemoveStalePid, CreatePid, WritePid
    <2> QED BY <1>1, <2>1, <2>2, StageTypes, TypesAre
<1>5. CASE Listen(p)
    <2>1. PICK stage \in {"cycle", "unpid"} : StageTo(p, stage)
        BY <1>5 DEF Listen
    <2>2. socket' \in {socket, p} /\ UNCHANGED <<lockVars, pidFile, disk, unit, manager, cmd, history>>
        BY <1>5 DEF Listen
    <2>3. faults' \in 0 .. MaxFaults /\ UNCHANGED reuses
        BY <1>5, TypesAre, BoundsAssumption DEF Listen
    <2> QED BY <1>1, <2>1, <2>2, <2>3, StageTypes, TypesAre
<1> QED BY <1>2, <1>3, <1>4, <1>5 DEF BootStep

\* A daemon polls.
LEMMA LoopTypes ==
    ASSUME Types, NEW p \in Pids, LoopStep(p)
    PROVE  Types'
<1>1. st[p] \in Polling /\ p \in alive /\ st[p] \notin {"none", "triage"}
    BY TypesAre DEF LoopStep, TriageItem, EndCycle, StopOnSignal, NextCycle, EndBackOff, Polling
<1> USE DEF Polling, Closing, StageTo, files, counters, history
<1>2. CASE TriageItem(p)
    <2>1. /\ UNCHANGED <<procs, files, manager, cmd, counters, history, lockFile>>
          /\ at' = [at EXCEPT ![p] = "open"] /\ st[p] = "cycle"
        BY <1>2 DEF TriageItem, WantCheckout, GoesTo
    <2>2. at' \in [Pids -> Places] /\ \A q \in Pids : at'[q] # "out" => st'[q] \in {"triage", "cycle"}
        BY <2>1, TypesAre DEF Places, procs
    <2> QED BY <2>1, <2>2, TypesAre DEF Types, TypeOK, LockTypeOK, procs, manager
<1>3. CASE ~TriageItem(p)
    <2>1. PICK stage \in {"cycle", "select", "backoff", "close"} : st' = [st EXCEPT ![p] = stage]
        BY <1>3 DEF LoopStep, EndCycle, StopOnSignal, NextCycle, EndBackOff
    <2>2. at[p] = "out"
        BY <1>3, TypesAre DEF LoopStep, EndCycle, StopOnSignal, NextCycle, EndBackOff
    <2>3. sig' \in SUBSET alive /\ UNCHANGED <<alive, version>>
          /\ UNCHANGED <<lockVars, files, manager, cmd, counters, history>>
        BY <1>3, TypesAre DEF LoopStep, EndCycle, StopOnSignal, NextCycle, EndBackOff
    <2> QED BY <1>1, <2>1, <2>2, <2>3, StageTypes, TypesAre
<1> QED BY <1>2, <1>3

\* A daemon goes.
LEMMA ExitTypes ==
    ASSUME Types, NEW p \in Pids, ExitStep(p)
    PROVE  Types'
<1>1. p \in alive /\ at[p] = "out" /\ st[p] \notin {"none", "triage"}
    BY TypesAre DEF ExitStep, CloseIPC, ReadOwnPid, RemoveOwnPid
<1> USE DEF Closing, StageTo, files, counters, history
<1>2. CASE RemoveOwnPid(p)
    BY <1>1, <1>2, DiesTypes, TypesAre DEF RemoveOwnPid
<1>3. CASE ReadOwnPid(p) /\ Dies(p, pidFile) /\ UNCHANGED faults
    BY <1>1, <1>3, DiesTypes, TypesAre
<1>4. CASE CloseIPC(p) \/ (ReadOwnPid(p) /\ ~(Dies(p, pidFile) /\ UNCHANGED faults))
    <2>1. PICK stage \in {"unpid", "unlink"} : StageTo(p, stage)
        BY <1>4 DEF CloseIPC, ReadOwnPid
    <2>2. socket' \in {socket, None}
          /\ UNCHANGED <<lockVars, pidFile, disk, unit, manager, cmd, counters, history>>
        BY <1>4 DEF CloseIPC, ReadOwnPid
    <2> QED BY <1>1, <2>1, <2>2, StageTypes, TypesAre
<1> QED BY <1>2, <1>3, <1>4 DEF ExitStep

\* A process goes for the checkout.
LEMMA LockTypes ==
    ASSUME Types, NEW p \in Pids, UseLock(p)
    PROVE  Types'
<1>1. UNCHANGED <<procs, files, manager, cmd, counters, history>> /\ LockStep(p)
    BY DEF UseLock
<1>2. PICK place \in Places : at' = [at EXCEPT ![p] = place] /\ at[p] # "out"
    <2> USE DEF Places, GoesTo
    <2>1. CASE JudgeLock(p)
        BY <2>1 DEF JudgeLock
    <2>2. CASE ~JudgeLock(p)
        BY <1>1, <2>2 DEF LockStep, OpenLock, WriteOwner, WriteOwnerFails, RemoveStale, Release
    <2> QED BY <2>1, <2>2
<1>3. at' \in [Pids -> Places] /\ \A q \in Pids : at'[q] # "out" => st'[q] \in {"triage", "cycle"}
    BY <1>1, <1>2, TypesAre DEF procs
<1>4. lockFile' \in LockFiles
    <2>1. None \in LockFiles /\ \A written \in BOOLEAN : [by |-> p, written |-> written] \in LockFiles
        BY DEF LockFiles
    <2> QED BY <1>1, <2>1, TypesAre
            DEF LockStep, OpenLock, WriteOwner, WriteOwnerFails, JudgeLock, RemoveStale, Release
<1> QED BY <1>1, <1>3, <1>4, TypesAre
        DEF Types, TypeOK, LockTypeOK, procs, files, manager, counters, history

\* Processes come and go by themselves.
LEMMA ProcessTypes ==
    ASSUME Types, NEW p \in Pids,
           BeginTriage(p) \/ EndTriage(p) \/ BeginOther(p) \/ EndOther(p) \/ Crash(p) \/ Respawn(p)
    PROVE  Types'
<1>1. CASE EndTriage(p) \/ EndOther(p)
    <2>1. p \in alive /\ Dies(p, pidFile) /\ UNCHANGED faults
        BY <1>1, TypesAre DEF EndTriage, EndOther
    <2> QED BY <2>1, DiesTypes, TypesAre
<1>2. CASE Crash(p)
    <2>1. faults' \in 0 .. MaxFaults
        BY <1>2, TypesAre, BoundsAssumption DEF Crash
    <2> QED BY <1>2, <2>1, DiesTypes DEF Crash
<1>3. CASE BeginTriage(p)
    BY <1>3, SpawnTypes, TypesAre DEF BeginTriage, GoesTo, manager
<1>4. CASE BeginOther(p)
    BY <1>4, SpawnTypes, TypesAre DEF BeginOther, manager
<1>5. CASE Respawn(p)
    BY <1>5, SpawnTypes, TypesAre DEF Respawn
<1> QED BY <1>1, <1>2, <1>3, <1>4, <1>5

\* A command is given.
LEMMA BeginTypes ==
    ASSUME Types, Install \/ \E op \in Ops : Begin(op)
    PROVE  Types'
<1> USE DEF procs, files, manager, history
<1>1. CASE Install
    <2>1. cmd' = [op |-> "install", pid |-> None, pc |-> "ok"] /\ unit' = TRUE
          /\ UNCHANGED <<procs, lockVars, pidFile, socket, disk, manager, counters, history>>
        BY <1>1 DEF Install
    <2>2. cmd' \in Cmds /\ cmd'.pc = "ok"
        BY <2>1 DEF Cmds, CmdPlaces, AllOps
    <2> QED BY <2>1, <2>2, CmdTypes, TypesAre
<1>2. ASSUME NEW op \in Ops, Begin(op)
      PROVE  Types'
    <2>1. op \in AllOps \ {"install"} /\ unit \in BOOLEAN
        BY <1>2, OpsAssumption, TypesAre DEF Begin
    <2>2. PICK place \in {"svcStart", "status", "svcStop", "halt", "latest", "ok"} :
            cmd' = [op |-> op, pid |-> None, pc |-> place]
        BY <1>2, <2>1 DEF Begin, AllOps
    <2>3. cmd' \in Cmds /\ cmd'.pc = place
        BY <2>1, <2>2 DEF Cmds, CmdPlaces
    <2>4. unseen' = {} /\ UNCHANGED <<procs, lockVars, files, manager, counters, raced>>
        BY <1>2 DEF Begin
    <2> QED BY <2>3, <2>4, CmdTypes, TypesAre
<1> QED BY <1>1, <1>2

\* A command goes on.
LEMMA CmdStepTypes ==
    ASSUME Types, CmdStep
    PROVE  Types'
<1> USE DEF procs, files, manager, history
<1>0. /\ \A place \in CmdPlaces : place # "failed"
      /\ {"idle", "status", "unstale", "launch", "svcStart", "ready", "halt", "term", "wait", "kill",
          "killed", "rmpid", "svcStop", "svcWait", "latest", "path", "download", "replace", "reset",
          "ok"} \subseteq CmdPlaces
    BY DEF CmdPlaces, CmdDeciding
<1>1. ASSUME NEW place \in CmdPlaces \cup {"failed"}, CmdTo(place),
             place \in {"path", "download", "replace"} => disk < MaxVersion
      PROVE  cmd' \in Cmds /\ (cmd'.pc \in {"path", "download", "replace"} => disk < MaxVersion)
    BY <1>1, CmdIs
<1>2. CASE Finish
    <2>1. cmd' \in Cmds /\ cmd'.pc = "idle"
        BY <1>2 DEF Finish, NoCmd, Cmds, CmdPlaces, AllOps
    <2>2. UNCHANGED <<procs, lockVars, files, manager, counters, history>>
        BY <1>2 DEF Finish
    <2> QED BY <2>1, <2>2, CmdTypes, TypesAre
<1>3. CASE ReadForStart
    <2>1. PICK place \in {"failed", "unstale", "launch"} : CmdTo(place)
        BY <1>3 DEF ReadForStart
    <2>2. UNCHANGED <<procs, lockVars, files, manager, counters, unseen>> /\ raced' \in BOOLEAN
        BY <1>3, TypesAre DEF ReadForStart, Decides
    <2> QED BY <1>0, <1>1, <2>1, <2>2, CmdTypes, TypesAre
<1>4. CASE ReadForHalt
    <2>1. UNCHANGED <<procs, lockVars, files, manager, counters>> /\ raced' \in BOOLEAN
          /\ unseen' \in SUBSET alive
        BY <1>4, TypesAre DEF ReadForHalt, Decides, Unseen
    <2>2. cmd' \in Cmds /\ (cmd'.pc \in {"path", "download", "replace"} => disk < MaxVersion)
        <3>1. CASE Status = "running" /\ cmd' = [cmd EXCEPT !.pc = "term", !.pid = pidFile]
            <4>1. pidFile \in Pids
                BY <3>1, TypesAre DEF Status
            <4> QED BY <1>0, <3>1, <4>1, TypesAre DEF Cmds
        <3>2. CASE \E place \in {"rmpid", "ok", "status", "failed"} : CmdTo(place)
            BY <1>0, <1>1, <3>2
        <3> QED BY <1>4, <3>1, <3>2 DEF ReadForHalt, AfterHalt
    <2> QED BY <2>1, <2>2, CmdTypes, TypesAre
<1>5. CASE SendTerm
    <2>1. PICK place \in {"wait", "failed"} : CmdTo(place)
        BY <1>5 DEF SendTerm
    <2>2. UNCHANGED <<alive, st, version, lockVars, files, manager, counters, history>>
          /\ sig' \in SUBSET alive
        BY <1>5, TypesAre DEF SendTerm, Signalled
    <2> QED BY <1>0, <1>1, <2>1, <2>2, CmdTypes, TypesAre
<1>6. CASE GraceOver \/ Kill \/ Exited \/ Ready \/ Download
    <2>1. PICK place \in {"kill", "killed", "rmpid", "ok", "replace", "failed"} :
            CmdTo(place) /\ (place = "replace" => cmd.pc = "download")
        BY <1>6 DEF GraceOver, Kill, Exited, Ready, Download
    <2>2. UNCHANGED <<procs, lockVars, files, manager, counters, history>>
        BY <1>6 DEF GraceOver, Kill, Exited, Ready, Download
    <2> QED BY <1>0, <1>1, <2>1, <2>2, CmdTypes, TypesAre
<1>7. CASE CheckLatest \/ CheckPath
    <2>1. \/ cmd' = NoCmd
          \/ \E place \in {"path", "download", "failed"} : CmdTo(place) /\ disk < MaxVersion
          \/ CmdTo("failed")
        BY <1>7, TypesAre DEF CheckLatest, CheckPath
    <2>2. NoCmd \in Cmds /\ NoCmd.pc = "idle"
        BY DEF NoCmd, Cmds, CmdPlaces, AllOps
    <2>3. UNCHANGED <<procs, lockVars, files, manager, counters, history>>
        BY <1>7 DEF CheckLatest, CheckPath
    <2> QED BY <1>0, <1>1, <2>1, <2>2, <2>3, CmdTypes, TypesAre
<1>8. CASE ResetDaemon
    <2>1. PICK place \in {"svcStop", "ok", "halt"} : CmdTo(place)
        BY <1>8, TypesAre DEF ResetDaemon
    <2>2. UNCHANGED <<procs, lockVars, files, manager, counters, raced>> /\ unseen' \in SUBSET alive
        BY <1>8 DEF ResetDaemon, Unseen
    <2> QED BY <1>0, <1>1, <2>1, <2>2, CmdTypes, TypesAre
<1>9. CASE RemoveStaleForStart \/ RemovePid
    <2>1. /\ UNCHANGED <<procs, lockVars, socket, disk, unit, manager, counters, history>>
          /\ pidFile' = None
        BY <1>9 DEF RemoveStaleForStart, RemovePid
    <2>2. cmd' \in Cmds /\ (cmd'.pc \in {"path", "download", "replace"} => disk < MaxVersion)
        <3>1. CASE RemoveStaleForStart
            BY <1>0, <1>1, <3>1 DEF RemoveStaleForStart
        <3>2. CASE RemovePid
            <4>1. cmd' = [cmd EXCEPT !.pc = AfterHalt, !.pid = None] /\ AfterHalt \in {"ok", "status"}
                BY <3>2 DEF RemovePid, AfterHalt
            <4> QED BY <1>0, <4>1, TypesAre DEF Cmds
        <3> QED BY <1>9, <3>1, <3>2
    <2> QED BY <2>1, <2>2, CmdTypes, TypesAre
<1>10. CASE KilledDies \/ ServiceKill
    <2>1. PICK p \in alive : Dies(p, pidFile) /\ UNCHANGED faults
        BY <1>10 DEF KilledDies, ServiceKill
    <2> QED BY <2>1, DiesTypes, TypesAre
<1>11. CASE ServiceStop
    <2>1. /\ CmdTo("svcWait") /\ wanted' = FALSE
          /\ UNCHANGED <<alive, st, version, lockVars, files, main, counters, history>>
          /\ sig' \in SUBSET alive
        BY <1>11, TypesAre DEF ServiceStop, Signalled
    <2> QED BY <1>0, <1>1, <2>1, CmdTypes, TypesAre
<1>12. CASE ServiceStopped
    <2>1. PICK place \in {"svcStart", "ok"} : CmdTo(place)
        BY <1>12 DEF ServiceStopped
    <2>2. /\ unit' \in BOOLEAN /\ main' = None
          /\ UNCHANGED <<procs, lockVars, pidFile, socket, disk, wanted, counters, history>>
        BY <1>12 DEF ServiceStopped
    <2> QED BY <1>0, <1>1, <2>1, <2>2, CmdTypes, TypesAre
<1>13. CASE ReplaceExecutable
    <2>1. /\ CmdTo("reset") /\ disk' = disk + 1 /\ disk < MaxVersion
          /\ UNCHANGED <<procs, lockVars, pidFile, socket, unit, manager, counters, history>>
        BY <1>13, TypesAre DEF ReplaceExecutable
    <2>2. disk' \in 0 .. MaxVersion
        BY <2>1, TypesAre, BoundsAssumption
    <2>3. cmd' \in Cmds /\ cmd'.pc = "reset"
        BY <1>0, <2>1, CmdIs
    <2> QED BY <2>1, <2>2, <2>3, CmdTypes, TypesAre
<1>14. ASSUME NEW p \in Pids, Launch(p)
       PROVE  Types'
    <2>1. cmd' \in Cmds /\ cmd'.pc = "ok"
        BY <1>0, <1>14, CmdIs DEF Launch
    <2> QED BY <1>14, <2>1, SpawnTypes, TypesAre DEF Launch
<1>15. ASSUME NEW p \in Pids, ServiceStart(p)
       PROVE  Types'
    <2>1. PICK place \in {"ok", "ready"} : CmdTo(place)
        BY <1>15 DEF ServiceStart
    <2>2. cmd' \in Cmds /\ cmd'.pc = place
        BY <1>0, <2>1, CmdIs
    <2>3. wanted' = TRUE /\ UNCHANGED at
        BY <1>15 DEF ServiceStart
    <2>4. CASE UNCHANGED <<procs, lockFile, files, main, counters, history>>
        BY <2>2, <2>3, <2>4, CmdTypes, TypesAre DEF lockVars
    <2>5. CASE Spawn(p, "check") /\ main' = p
        BY <2>2, <2>3, <2>5, SpawnTypes, TypesAre
    <2> QED BY <1>15, <2>4, <2>5 DEF ServiceStart
<1> QED BY <1>2, <1>3, <1>4, <1>5, <1>6, <1>7, <1>8, <1>9, <1>10, <1>11, <1>12, <1>13, <1>14, <1>15
        DEF CmdStep

\* Every step preserves the types.
LEMMA TypesStep == Types /\ [Next]_vars => Types'
<1> SUFFICES ASSUME Types, [Next]_vars PROVE Types'
    OBVIOUS
<1>1. CASE UNCHANGED vars
    BY <1>1 DEF vars, procs, lockVars, files, manager, counters, history, Types, TypeOK, LockTypeOK
<1>2. CASE Next
    BY <1>2, BootTypes, LoopTypes, ExitTypes, LockTypes, ProcessTypes, BeginTypes, CmdStepTypes
    DEF Next
<1> QED BY <1>1, <1>2

\* Every variable stays in its type, whatever the pids, releases, faults and reuses.
THEOREM HostTypes == Spec => []TypeOK
<1>1. Spec => []Types
    <2> USE TypesInit, TypesStep
    <2> HIDE DEF Types, Init, Next, vars
    <2> QED BY PTL DEF Spec
<1>2. Types => TypeOK
    BY DEF Types
<1> HIDE DEF Types, TypeOK
<1> QED BY <1>1, <1>2, PTL

-----------------------------------------------------------------------------
(* Who holds the pid file.                                                 *)

\* From the write of its pid to the removal of the file, the file names a daemon.
Holding == {"listen"} \cup Polling \cup Closing

Holds(p) == p \in alive /\ st[p] \in Holding
Decider(p) == p \in alive /\ st[p] \in Deciding

\* One process at a time decides about the pid file, a daemon only when nobody holds it.
OneDecides ==
    \A p \in alive :
        Decider(p) => /\ cmd.pc \notin CmdDeciding
                      /\ \A q \in alive : (Decider(q) => p = q) /\ ~Holds(q)

\* The daemon that holds the pid file is the one behind the socket.
Reachable ==
    \A p \in alive : Holds(p) => pidFile = p /\ (st[p] \in Polling => socket = p)

\* A command that decides about the file knows who holds it.
CmdKnowsHolder ==
    \A p \in alive : Holds(p) =>
        /\ cmd.pc \notin {"unstale", "rmpid"}
        /\ cmd.pc \in {"term", "wait", "kill", "killed"} => p = cmd.pid

Held == ~raced => OneDecides /\ Reachable /\ CmdKnowsHolder

\* No stage is two things.
LEMMA StagesApart ==
    /\ \A s \in Deciding : s \notin Holding /\ s \notin {"none", "triage", "other", "check"}
    /\ \A s \in Holding : s \notin {"none", "triage", "other", "check"}
    /\ \A s \in Stages : s \in Deciding \cup Holding \cup {"none", "triage", "other", "check"}
    /\ \A s \in Polling : s \in Holding
BY DEF Deciding, Holding, Polling, Closing, Stages, Booting

\* A step by which processes at most begin and end, the holder of the pid file stays its
\* holder, and the command gets no further in a decision.
LEMMA QuietHeld ==
    ASSUME Types, Held, UNCHANGED raced,
           \A p \in alive' : (p \in alive /\ st'[p] = st[p]) \/ st'[p] \in {"check", "triage", "other"},
           \A p \in alive' : p \in alive =>
                (pidFile = p => pidFile' = p) /\ (socket = p => socket' = p),
           \/ cmd'.pc \notin CmdDeciding
           \/ cmd'.pc = cmd.pc /\ \A p \in alive' : cmd.pid = p => cmd'.pid = p
           \/ /\ {cmd.pc, cmd'.pc} \subseteq {"term", "wait", "kill", "killed"}
              /\ cmd'.pid = cmd.pid
    PROVE  Held'
<1> SUFFICES ASSUME ~raced, ~raced'
             PROVE  (OneDecides /\ Reachable /\ CmdKnowsHolder)'
    BY DEF Held
<1>1. OneDecides /\ Reachable /\ CmdKnowsHolder
    BY DEF Held
<1>2. \A p \in alive' : /\ Holds(p)' => Holds(p) /\ st'[p] = st[p]
                        /\ Decider(p)' => Decider(p)
    BY StagesApart DEF Holds, Decider
<1>3. Holding' = Holding /\ Polling' = Polling /\ Deciding' = Deciding /\ CmdDeciding' = CmdDeciding
      /\ {"unstale", "rmpid", "term", "wait", "kill", "killed"} \subseteq CmdDeciding
    BY DEF Holding, Polling, Closing, Deciding, CmdDeciding
<1>4. cmd'.pc \in CmdDeciding => cmd.pc \in CmdDeciding
    BY <1>3
<1>5. OneDecides'
    BY <1>1, <1>2, <1>4 DEF OneDecides, Holds, Decider
<1>6. Reachable'
    BY <1>1, <1>2 DEF Reachable, Holds
<1>7. CmdKnowsHolder'
    BY <1>1, <1>2, <1>3 DEF CmdKnowsHolder, Holds
<1> QED BY <1>5, <1>6, <1>7

\* A death is such a step.
LEMMA DiesHeld ==
    ASSUME Types, Held, NEW p \in alive, Dies(p, pidFile)
    PROVE  Held'
BY QuietHeld, DiesIs

\* A birth too.
LEMMA SpawnHeld ==
    ASSUME Types, Held, NEW p \in Pids, NEW stage \in {"check", "triage", "other"}, Spawn(p, stage),
           UNCHANGED cmd \/ cmd'.pc \notin CmdDeciding
    PROVE  Held'
BY QuietHeld, SpawnIs

\* When nobody that lives has the pid in the file, nobody holds it.
LEMMA NobodyHolds ==
    ASSUME Reachable, pidFile \notin alive
    PROVE  \A p \in alive : ~Holds(p)
BY DEF Reachable

\* A daemon goes on: to decide, when it is the only one, or as the holder.
LEMMA StageHeld ==
    ASSUME Types, Held, NEW p \in alive, NEW stage, st' = [st EXCEPT ![p] = stage],
           UNCHANGED <<alive, version, cmd>>, raced => raced',
           stage \in Deciding \cup Holding,
           \/ Decider(p)
           \/ Holds(p) /\ stage \in Holding /\ UNCHANGED pidFile
           \/ /\ Decides /\ stage \in Deciding /\ UNCHANGED <<pidFile, socket>>
              /\ pidFile \notin alive,
           stage \in Holding => pidFile' = p,
           stage \in Polling => socket' = p,
           Decider(p) \/ Holds(p) \/ UNCHANGED socket
    PROVE  Held'
<1> SUFFICES ASSUME ~raced, ~raced'
             PROVE  (OneDecides /\ Reachable /\ CmdKnowsHolder)'
    BY DEF Held
<1>1. OneDecides /\ Reachable /\ CmdKnowsHolder
    BY DEF Held
<1>2. st'[p] = stage /\ alive \subseteq Pids /\ \A q \in alive : q # p => st'[q] = st[q]
    BY StageIs, TypesAre
<1>3. Holds(p) => ~Decider(p)
    BY StagesApart DEF Holds, Decider
<1>4. CASE Decider(p)
    <2>1. \A q \in alive : ~Holds(q) /\ (Decider(q) => p = q) /\ cmd.pc \notin CmdDeciding
        BY <1>1, <1>4 DEF OneDecides
    <2>2. \A q \in alive : (Holds(q)' => q = p) /\ (Decider(q)' => q = p)
        BY <1>2, <2>1 DEF Holds, Decider
    <2>3. {"unstale", "rmpid", "term", "wait", "kill", "killed"} \subseteq CmdDeciding
        BY DEF CmdDeciding
    <2>4. OneDecides'
        BY <1>2, <2>1, <2>2, StagesApart DEF OneDecides, Holds, Decider
    <2>5. Reachable' /\ CmdKnowsHolder'
        BY <1>2, <2>1, <2>2, <2>3 DEF Reachable, CmdKnowsHolder, Holds
    <2> QED BY <2>4, <2>5
<1>5. CASE Holds(p) /\ stage \in Holding /\ UNCHANGED pidFile
    <2>1. \A q \in alive : Holds(q) => q = p
        BY <1>1, <1>5 DEF Reachable
    <2>2. \A q \in alive : ~Decider(q)
        BY <1>1, <1>5 DEF OneDecides
    <2>3. \A q \in alive : (Holds(q)' => q = p) /\ ~Decider(q)'
        BY <1>2, <1>5, <2>1, <2>2, StagesApart DEF Holds, Decider
    <2>4. OneDecides'
        BY <2>3 DEF OneDecides
    <2>5. Reachable' /\ CmdKnowsHolder'
        BY <1>1, <1>2, <1>5, <2>3 DEF Reachable, CmdKnowsHolder, Holds
    <2> QED BY <2>4, <2>5
<1>6. CASE /\ Decides /\ stage \in Deciding /\ UNCHANGED <<pidFile, socket>>
           /\ pidFile \notin alive
    <2>1. cmd.pc \notin CmdDeciding /\ \A q \in alive : ~Decider(q)
        BY <1>6 DEF Decides, Decider
    <2>2. \A q \in alive : ~Holds(q)
        BY <1>1, <1>6, NobodyHolds
    <2>3. \A q \in alive : ~Holds(q)' /\ (Decider(q)' => q = p)
        BY <1>2, <1>6, <2>1, <2>2, StagesApart DEF Holds, Decider
    <2>4. OneDecides' /\ Reachable' /\ CmdKnowsHolder'
        BY <2>1, <2>3 DEF OneDecides, Reachable, CmdKnowsHolder
    <2> QED BY <2>4
<1> QED BY <1>4, <1>5, <1>6

\* A daemon comes up.
LEMMA BootHeld ==
    ASSUME Types, Held, NEW p \in Pids, BootStep(p)
    PROVE  Held'
<1>1. p \in alive /\ st[p] \in Booting
    BY TypesAre DEF BootStep, CheckPid, RemoveStalePid, CreatePid, WritePid, Listen, Booting
<1> USE DEF StageTo, files, counters, history, Deciding, Holding, Polling, Closing
<1>2. CASE CheckPid(p) /\ Dies(p, pidFile) /\ UNCHANGED faults
    BY <1>1, <1>2, DiesHeld
<1>3. CASE CheckPid(p) /\ ~(Dies(p, pidFile) /\ UNCHANGED faults)
    <2>1. PICK stage \in {"unstale", "create"} : StageTo(p, stage) /\ Status \in {"stale", "stopped"}
        BY <1>3 DEF CheckPid
    <2>2. Decides /\ UNCHANGED <<lockVars, files, manager, cmd, counters, unseen>>
        BY <1>3 DEF CheckPid
    <2>3. pidFile \notin alive
        BY <2>1, TypesAre DEF Status
    <2>4. raced => raced'
        BY <2>2, TypesAre DEF Decides
    <2> QED BY <1>1, <2>1, <2>2, <2>3, <2>4, StageHeld
<1>4. CASE RemoveStalePid(p) \/ CreatePid(p)
    <2>1. PICK stage \in {"create", "fill"} : StageTo(p, stage)
        BY <1>4 DEF RemoveStalePid, CreatePid
    <2>2. Decider(p) /\ UNCHANGED <<cmd, socket, raced>>
        BY <1>1, <1>4 DEF RemoveStalePid, CreatePid, Decider
    <2> QED BY <1>1, <2>1, <2>2, StageHeld
<1>5. CASE WritePid(p)
    <2>1. StageTo(p, "listen") /\ pidFile' = p /\ Decider(p) /\ UNCHANGED <<cmd, socket, raced>>
        BY <1>1, <1>5 DEF WritePid, Decider
    <2> QED BY <1>1, <2>1, StageHeld
<1>6. CASE Listen(p)
    <2>1. Holds(p) /\ UNCHANGED <<pidFile, cmd, raced>>
        BY <1>1, <1>6 DEF Listen, Holds
    <2>2. PICK stage \in {"cycle", "unpid"} : StageTo(p, stage) /\ (stage = "cycle" => socket' = p)
        BY <1>6 DEF Listen
    <2>3. CASE raced
        BY <2>1, <2>3 DEF Held
    <2>4. CASE ~raced
        <3>1. pidFile = p
            BY <1>1, <2>1, <2>4 DEF Held, Reachable
        <3> QED BY <1>1, <2>1, <2>2, <3>1, StageHeld
    <2> QED BY <2>3, <2>4
<1> QED BY <1>2, <1>3, <1>4, <1>5, <1>6 DEF BootStep

\* A daemon polls, or goes.
LEMMA LoopHeld ==
    ASSUME Types, Held, NEW p \in Pids, LoopStep(p) \/ ExitStep(p)
    PROVE  Held'
<1> USE DEF StageTo, files, counters, history, procs
<1>1. p \in alive /\ Holds(p)
    BY TypesAre DEF LoopStep, TriageItem, EndCycle, StopOnSignal, NextCycle, EndBackOff,
       ExitStep, CloseIPC, ReadOwnPid, RemoveOwnPid, Holds, Holding, Polling, Closing
<1>2. CASE TriageItem(p)
    BY <1>2, QuietHeld DEF TriageItem
<1>3. CASE raced
    <2>1. raced'
        BY <1>3, DiesIs, TypesAre DEF LoopStep, TriageItem, EndCycle, StopOnSignal, NextCycle, EndBackOff,
           ExitStep, CloseIPC, ReadOwnPid, RemoveOwnPid
    <2> QED BY <2>1 DEF Held
<1>4. CASE ~raced /\ ~TriageItem(p)
    <2>1. pidFile = p /\ (st[p] \in Polling => socket = p)
        BY <1>1, <1>4 DEF Held, Reachable
    <2>2. CASE LoopStep(p)
        <3>1. PICK stage \in {"cycle", "select", "backoff", "close"} :
                st' = [st EXCEPT ![p] = stage] /\ (stage # "close" => st[p] \in Polling)
            BY <1>4, <2>2 DEF LoopStep, EndCycle, StopOnSignal, NextCycle, EndBackOff, Polling
        <3>2. UNCHANGED <<alive, version, files, cmd, raced>>
            BY <1>4, <2>2 DEF LoopStep, EndCycle, StopOnSignal, NextCycle, EndBackOff
        <3>3. stage \in Holding /\ (stage \in Polling => socket' = p)
            BY <2>1, <3>1, <3>2 DEF Holding, Polling, Closing
        <3> QED BY <1>1, <2>1, <3>1, <3>2, <3>3, StageHeld
    <2>3. CASE CloseIPC(p) \/ (ReadOwnPid(p) /\ ~Dies(p, pidFile))
        <3>1. PICK stage \in {"unpid", "unlink"} : StageTo(p, stage)
            BY <2>3 DEF CloseIPC, ReadOwnPid
        <3>2. UNCHANGED <<pidFile, cmd, raced>>
            BY <2>3 DEF CloseIPC, ReadOwnPid
        <3>3. stage \in Holding /\ stage \notin Polling
            BY <3>1 DEF Holding, Polling, Closing
        <3> QED BY <1>1, <2>1, <3>1, <3>2, <3>3, StageHeld
    <2>4. CASE ReadOwnPid(p) /\ Dies(p, pidFile)
        BY <1>1, <2>4, DiesHeld
    <2>5. CASE RemoveOwnPid(p)
        <3>1. Dies(p, None)
            BY <2>5 DEF RemoveOwnPid
        <3>2. ~raced' /\ cmd'.pc = cmd.pc /\ \A q \in alive' : q \in alive /\ q # p /\ st'[q] = st[q]
            BY <1>1, <1>4, <3>1, DiesIs, TypesAre
        <3>3. \A q \in alive' : ~Holds(q) /\ ~Decider(q)
            BY <1>1, <1>4, <2>1, <3>2 DEF Held, OneDecides, Reachable
        <3>4. \A q \in alive' : ~Holds(q)' /\ ~Decider(q)'
            BY <3>2, <3>3 DEF Holds, Decider
        <3> QED BY <3>4 DEF Held, OneDecides, Reachable, CmdKnowsHolder
    <2> QED BY <2>2, <2>3, <2>4, <2>5 DEF ExitStep
<1> QED BY <1>2, <1>3, <1>4

\* Processes come and go by themselves, and use the checkout.
LEMMA ProcessHeld ==
    ASSUME Types, Held, NEW p \in Pids,
           \/ UseLock(p) \/ BeginTriage(p) \/ EndTriage(p) \/ BeginOther(p) \/ EndOther(p)
           \/ Crash(p) \/ Respawn(p)
    PROVE  Held'
<1>1. CASE UseLock(p)
    BY <1>1, QuietHeld DEF UseLock, procs, files, history
<1>2. CASE EndTriage(p) \/ EndOther(p) \/ Crash(p)
    <2>1. p \in alive /\ Dies(p, pidFile)
        BY <1>2, TypesAre DEF EndTriage, EndOther, Crash
    <2> QED BY <2>1, DiesHeld
<1>3. CASE BeginTriage(p) \/ BeginOther(p) \/ Respawn(p)
    <2>1. PICK stage \in {"check", "triage", "other"} : Spawn(p, stage) /\ UNCHANGED cmd
        BY <1>3 DEF BeginTriage, BeginOther, Respawn
    <2> QED BY <2>1, SpawnHeld
<1> QED BY <1>1, <1>2, <1>3

\* A command is given, or goes on without a decision.
LEMMA CmdQuietHeld ==
    ASSUME Types, Held,
           \/ Install \/ \E op \in Ops : Begin(op)
           \/ Finish \/ SendTerm \/ GraceOver \/ Kill \/ Ready \/ Download \/ CheckLatest \/ CheckPath
           \/ ResetDaemon \/ ServiceStop \/ ServiceStopped \/ ReplaceExecutable
    PROVE  Held'
<1> USE DEF procs, files, history
<1>1. UNCHANGED <<alive, st, pidFile, socket, raced>>
    BY DEF Install, Begin, Finish, SendTerm, Signalled, GraceOver, Kill, Ready, Download, CheckLatest,
       CheckPath, ResetDaemon, ServiceStop, ServiceStopped, ReplaceExecutable
<1>2. CASE SendTerm \/ GraceOver \/ Kill
    <2>1. PICK place \in {"wait", "kill", "killed", "failed"} :
            CmdTo(place) /\ cmd.pc \in {"term", "wait", "kill"}
        BY <1>2 DEF SendTerm, GraceOver, Kill
    <2>2. place \in CmdPlaces \cup {"failed"} /\ "idle" \notin CmdDeciding
        BY <2>1 DEF CmdPlaces, CmdDeciding
    <2>3. \/ cmd'.pc \notin CmdDeciding
          \/ /\ {cmd.pc, cmd'.pc} \subseteq {"term", "wait", "kill", "killed"}
             /\ cmd'.pid = cmd.pid
        BY <2>1, <2>2, CmdIs
    <2> QED BY <1>1, <2>3, QuietHeld
<1>3. CASE ~(SendTerm \/ GraceOver \/ Kill)
    <2>1. cmd'.pc \notin CmdDeciding
        <3>1. ASSUME NEW place \in {"failed", "ok", "replace", "path", "download", "svcStop", "halt",
                                    "svcWait", "svcStart", "reset"}, CmdTo(place)
              PROVE  cmd'.pc \notin CmdDeciding
            <4>1. place \in CmdPlaces \cup {"failed"} /\ place \notin CmdDeciding
                  /\ "idle" \notin CmdDeciding
                BY DEF CmdPlaces, CmdDeciding
            <4> QED BY <3>1, <4>1, CmdIs
        <3>2. CASE Finish \/ CheckLatest
            <4>1. NoCmd.pc \notin CmdDeciding
                BY DEF NoCmd, CmdDeciding
            <4> QED BY <3>1, <3>2, <4>1 DEF Finish, CheckLatest
        <3>3. CASE Install
            BY <3>3 DEF Install, CmdDeciding
        <3>4. ASSUME NEW op \in Ops, Begin(op)
              PROVE  cmd'.pc \notin CmdDeciding
            <4>1. op \in AllOps \ {"install"} /\ unit \in BOOLEAN
                BY <3>4, OpsAssumption, TypesAre DEF Begin
            <4>2. PICK place \in {"svcStart", "status", "svcStop", "halt", "latest", "ok"} :
                    cmd' = [op |-> op, pid |-> None, pc |-> place]
                BY <3>4, <4>1 DEF Begin, AllOps
            <4> QED BY <4>2 DEF CmdDeciding
        <3>5. CASE Ready \/ Download \/ CheckPath \/ ServiceStop \/ ReplaceExecutable
            BY <3>1, <3>5 DEF Ready, Download, CheckPath, ServiceStop, ReplaceExecutable
        <3>6. CASE ServiceStopped
            BY <3>1, <3>6 DEF ServiceStopped
        <3>7. CASE ResetDaemon
            <4>1. \E place \in {"svcStop", "ok", "halt"} : CmdTo(place)
                BY <3>7, TypesAre DEF ResetDaemon
            <4> QED BY <3>1, <4>1
        <3> QED BY <1>3, <3>2, <3>3, <3>4, <3>5, <3>6, <3>7
    <2> QED BY <1>1, <2>1, QuietHeld
<1> QED BY <1>2, <1>3

\* A command decides: nobody else does, and it knows who holds the file.
LEMMA CmdDecidesHeld ==
    ASSUME Types, Held,
           UNCHANGED <<alive, st, pidFile, socket>>, Decides, cmd'.pc \in CmdDeciding,
           \/ Status = "stale" /\ cmd'.pc \in {"unstale", "rmpid"}
           \/ Status = "running" /\ cmd'.pc = "term" /\ cmd'.pid = pidFile
    PROVE  Held'
<1> SUFFICES ASSUME ~raced' PROVE (OneDecides /\ Reachable /\ CmdKnowsHolder)'
    BY DEF Held
<1>1. ~raced /\ \A p \in alive : ~Decider(p)
    BY TypesAre DEF Decides, Decider
<1>2. Reachable
    BY <1>1 DEF Held
<1>3. \A p \in alive : (Holds(p)' <=> Holds(p)) /\ ~Decider(p)'
    BY <1>1 DEF Holds, Decider
<1>4. OneDecides' /\ Reachable'
    BY <1>2, <1>3 DEF OneDecides, Reachable
<1>5. CmdKnowsHolder'
    <2>1. CASE Status = "stale" /\ cmd'.pc \in {"unstale", "rmpid"}
        <3>1. pidFile \notin alive
            BY <2>1, TypesAre DEF Status
        <3> QED BY <1>2, <1>3, <3>1, NobodyHolds DEF CmdKnowsHolder
    <2>2. CASE Status = "running" /\ cmd'.pc = "term" /\ cmd'.pid = pidFile
        BY <1>2, <1>3, <2>2 DEF CmdKnowsHolder, Reachable
    <2> QED BY <2>1, <2>2
<1> QED BY <1>4, <1>5

\* A command reads the file.
LEMMA CmdReadsHeld ==
    ASSUME Types, Held, ReadForStart \/ ReadForHalt
    PROVE  Held'
<1> USE DEF procs, files, history
<1>1. UNCHANGED <<alive, st, pidFile, socket>>
    BY DEF ReadForStart, ReadForHalt
<1>2. ASSUME NEW place \in {"failed", "launch", "ok", "status"}, CmdTo(place), UNCHANGED raced
      PROVE  Held'
    <2>1. place \in CmdPlaces \cup {"failed"} /\ place \notin CmdDeciding /\ "idle" \notin CmdDeciding
        BY DEF CmdPlaces, CmdDeciding
    <2>2. cmd'.pc \notin CmdDeciding
        BY <1>2, <2>1, CmdIs
    <2> QED BY <1>1, <1>2, <2>2, QuietHeld
<1>3. ASSUME NEW place \in {"unstale", "rmpid"}, CmdTo(place), Decides, Status = "stale"
      PROVE  Held'
    <2>1. place \in CmdPlaces /\ place # "failed" /\ place \in CmdDeciding
        BY DEF CmdPlaces, CmdDeciding
    <2>2. cmd'.pc = place
        BY <1>3, <2>1, CmdIs
    <2> QED BY <1>1, <1>3, <2>1, <2>2, CmdDecidesHeld
<1>4. ASSUME Status = "running", cmd' = [cmd EXCEPT !.pc = "term", !.pid = pidFile], Decides
      PROVE  Held'
    <2>1. cmd'.pc = "term" /\ cmd'.pid = pidFile /\ "term" \in CmdDeciding
        BY <1>4, TypesAre DEF Cmds, CmdDeciding
    <2> QED BY <1>1, <1>4, <2>1, CmdDecidesHeld
<1> QED BY <1>2, <1>3, <1>4 DEF ReadForStart, ReadForHalt, AfterHalt

\* The process it waited for is gone; the file, which names nobody, is removed.
LEMMA CmdRemovesHeld ==
    ASSUME Types, Held, Exited \/ RemovePid \/ RemoveStaleForStart
    PROVE  Held'
<1> USE DEF procs, files, history
<1> SUFFICES ASSUME ~raced' PROVE (OneDecides /\ Reachable /\ CmdKnowsHolder)'
    BY DEF Held
<1>1. ~raced /\ UNCHANGED <<alive, st, socket>>
    BY DEF Exited, RemovePid, RemoveStaleForStart
<1>2. OneDecides /\ Reachable /\ CmdKnowsHolder
    BY <1>1 DEF Held
<1>3. cmd.pc \in {"wait", "killed", "rmpid", "unstale"} /\ cmd.pc \in CmdDeciding
      /\ (cmd.pc \in {"wait", "killed"} => cmd.pid \notin alive)
    BY DEF Exited, RemovePid, RemoveStaleForStart, CmdDeciding
<1>4. \A p \in alive : ~Decider(p) /\ ~Holds(p)
    BY <1>2, <1>3 DEF OneDecides, CmdKnowsHolder
<1>5. \A p \in alive' : ~Decider(p)' /\ ~Holds(p)'
    BY <1>1, <1>4 DEF Decider, Holds
<1> QED BY <1>5 DEF OneDecides, Reachable, CmdKnowsHolder

\* A command launches a daemon.
LEMMA CmdProcessHeld ==
    ASSUME Types, Held, NEW p \in Pids, Launch(p) \/ ServiceStart(p)
    PROVE  Held'
<1>1. PICK place \in {"ok", "ready"} : CmdTo(place)
    BY DEF Launch, ServiceStart
<1>2. place \in CmdPlaces /\ place # "failed" /\ place \notin CmdDeciding
    BY <1>1 DEF CmdPlaces, CmdDeciding
<1>3. cmd'.pc \notin CmdDeciding
    BY <1>1, <1>2, CmdIs
<1>4. CASE Spawn(p, "check")
    BY <1>3, <1>4, SpawnHeld
<1>5. CASE UNCHANGED <<procs, files, history>>
    BY <1>3, <1>5, QuietHeld DEF procs, files, history
<1> QED BY <1>4, <1>5 DEF Launch, ServiceStart

\* Every step preserves it.
LEMMA HeldStep == Types /\ Held /\ [Next]_vars => Held'
<1> SUFFICES ASSUME Types, Held, [Next]_vars PROVE Held'
    OBVIOUS
<1>1. CASE UNCHANGED vars
    BY <1>1, QuietHeld DEF vars, procs, files, history
<1>2. ASSUME NEW p \in Pids,
             BootStep(p) \/ LoopStep(p) \/ ExitStep(p) \/ UseLock(p) \/ BeginTriage(p)
             \/ EndTriage(p) \/ BeginOther(p) \/ EndOther(p) \/ Crash(p) \/ Respawn(p)
             \/ Launch(p) \/ ServiceStart(p)
      PROVE  Held'
    BY <1>2, BootHeld, LoopHeld, ProcessHeld, CmdProcessHeld
<1>3. CASE Install \/ (\E op \in Ops : Begin(op)) \/ CmdStep
    <2>1. CASE KilledDies \/ ServiceKill
        <3>1. PICK p \in alive : Dies(p, pidFile)
            BY <2>1 DEF KilledDies, ServiceKill
        <3> QED BY <3>1, DiesHeld
    <2>2. CASE Install \/ \E op \in Ops : Begin(op)
        BY <2>2, CmdQuietHeld
    <2>3. CASE CmdStep
        BY <1>2, <2>1, <2>3, CmdQuietHeld, CmdReadsHeld, CmdRemovesHeld DEF CmdStep
    <2> QED BY <1>3, <2>2, <2>3
<1> QED BY <1>1, <1>2, <1>3 DEF Next

\* It holds at first.
LEMMA HeldInit == Init => Held
BY DEF Init, Held, OneDecides, Reachable, CmdKnowsHolder

\* A daemon that polls is the one the pid file and the socket lead to, unless two
\* processes decided about the file at once: of a daemon's check and write in
\* RunWithOptions, Start's removal of a stale file and StopWithOptions, no two overlapped.
\* Crashes, kills, the service manager, updates and reused pids do not break it.
THEOREM DaemonIsReachable == Spec => []PollingIsReachable
<1>1. Spec => [](Types /\ Held)
    <2> USE TypesInit, TypesStep, HeldInit, HeldStep
    <2> HIDE DEF Types, Held, Init, Next, vars
    <2> QED BY PTL DEF Spec
<1>2. Types /\ Held => PollingIsReachable
    BY StagesApart DEF Held, Reachable, Holds, PollingIsReachable
<1> HIDE DEF Types, Held, PollingIsReachable
<1> QED BY <1>1, <1>2, PTL

-----------------------------------------------------------------------------
(* What a command knows of the daemons.                                    *)

\* With a unit: of the manager and the daemon it started last.
KnowsManaged ==
    /\ wanted => unit
    /\ cmd.pc \in CmdDeciding \cup {"status", "launch", "halt"} => ~unit
    /\ cmd.pc \in {"svcStop", "svcWait", "svcStart", "ready"} => unit
    /\ cmd.pc \in {"status", "unstale", "launch"} => cmd.op # "stop"
    /\ cmd.pc = "svcWait" => ~wanted
    /\ cmd.pc \in {"svcStart", "ready"} => cmd.op # "stop"
    /\ cmd.pc = "ready" => cmd.op # "update"
    /\ cmd.pc = "svcStart" /\ cmd.op = "update" => main = None /\ ~wanted
    /\ unit /\ cmd.pc = "ok" /\ cmd.op = "stop" => main = None /\ ~wanted
    /\ unit /\ cmd.pc = "ok" /\ cmd.op = "update" =>
            \A p \in alive : Daemon(p) /\ p = main => version[p] = disk

\* A daemon whose pid could be in the file when the command read it.
Seen(p) == Daemon(p) /\ p \notin unseen

\* Without a unit: first it may only be the one that is waited for, then there is none,
\* and after an update the one that was launched.
KnowsSeen ==
    \A p \in alive : Seen(p) /\ ~unit =>
        /\ cmd.pc \in {"term", "wait", "kill", "killed"} => p = cmd.pid
        /\ cmd.pc # "rmpid"
        /\ cmd.op # "start" => cmd.pc \notin {"status", "unstale", "launch"}
        /\ cmd.op = "stop" => cmd.pc # "ok"
        /\ cmd.op = "update" /\ cmd.pc = "ok" => version[p] = disk

Knows == KnowsManaged /\ (~raced => KnowsSeen)

\* A step by which no daemon appears, and the command stays where it is.
LEMMA QuietKnows ==
    ASSUME Types, Knows, UNCHANGED <<disk, unit, wanted>>, raced => raced',
           \A p \in alive' : Daemon(p)' =>
                Daemon(p) /\ version'[p] = version[p] /\ (p \in unseen => p \in unseen'),
           \A p \in alive' : main' = p => main = p,
           main = None => main' = None,
           cmd'.op = cmd.op, cmd'.pc = cmd.pc, \A p \in alive' : cmd.pid = p => cmd'.pid = p
    PROVE  Knows'
<1>1. KnowsManaged'
    BY DEF Knows, KnowsManaged, Daemon, CmdDeciding
<1>2. ~raced' => KnowsSeen'
    <2> SUFFICES ASSUME ~raced' PROVE KnowsSeen'
        OBVIOUS
    <2>1. KnowsSeen
        BY DEF Knows
    <2>2. \A p \in alive' : Seen(p)' => p \in alive /\ Seen(p) /\ version'[p] = version[p]
        BY DEF Seen, Daemon
    <2> QED BY <2>1, <2>2 DEF KnowsSeen
<1> QED BY <1>1, <1>2 DEF Knows

\* A death is such a step.
LEMMA DiesKnows ==
    ASSUME Types, Knows, NEW p \in alive, NEW left, left \in {pidFile, None}, Dies(p, left)
    PROVE  Knows'
BY QuietKnows, DiesIs, TypesAre DEF Daemon

\* So is the birth of a process which is no daemon.
LEMMA OtherKnows ==
    ASSUME Types, Knows, NEW p \in Pids, NEW stage \in {"triage", "other"}, Spawn(p, stage),
           UNCHANGED <<manager, cmd>>
    PROVE  Knows'
<1>1. \A q \in alive' : Daemon(q)' => Daemon(q) /\ version'[q] = version[q] /\ (q \in unseen => q \in unseen')
    BY SpawnIs DEF Daemon
<1>2. UNCHANGED <<disk, unit, wanted, main, raced>>
    BY SpawnIs DEF manager
<1> QED BY <1>1, <1>2, QuietKnows

\* So is a daemon's way from one stage to another.
LEMMA StageKnows ==
    ASSUME Types, Knows, NEW p \in alive, st[p] \notin {"triage", "other"},
           NEW stage, st' = [st EXCEPT ![p] = stage],
           UNCHANGED <<alive, version, disk, unit, manager, cmd, unseen>>, raced => raced'
    PROVE  Knows'
<1>1. \A q \in alive' : Daemon(q)' => Daemon(q)
    BY StageIs, TypesAre DEF Daemon
<1> QED BY <1>1, QuietKnows DEF manager

\* The steps of the processes.
LEMMA ProcessKnows ==
    ASSUME Types, Knows, NEW p \in Pids,
           \/ BootStep(p) \/ LoopStep(p) \/ ExitStep(p) \/ UseLock(p) \/ BeginTriage(p) \/ EndTriage(p)
           \/ BeginOther(p) \/ EndOther(p) \/ Crash(p)
    PROVE  Knows'
<1> USE DEF StageTo, files, counters, history, procs
<1>1. CASE UseLock(p) \/ TriageItem(p)
    BY <1>1, QuietKnows DEF UseLock, TriageItem, manager, Daemon
<1>2. CASE BeginTriage(p) \/ BeginOther(p)
    BY <1>2, OtherKnows DEF BeginTriage, BeginOther
<1>3. CASE EndTriage(p) \/ EndOther(p) \/ Crash(p) \/ RemoveOwnPid(p)
    <2>1. PICK left \in {pidFile, None} : p \in alive /\ Dies(p, left)
        BY <1>3, TypesAre DEF EndTriage, EndOther, Crash, RemoveOwnPid
    <2> QED BY <2>1, DiesKnows
<1>4. CASE (BootStep(p) \/ LoopStep(p) \/ ExitStep(p)) /\ ~TriageItem(p) /\ ~RemoveOwnPid(p)
    <2>1. p \in alive /\ st[p] \notin {"triage", "other"}
        BY <1>4, TypesAre DEF BootStep, CheckPid, RemoveStalePid, CreatePid, WritePid, Listen,
           LoopStep, EndCycle, StopOnSignal, NextCycle, EndBackOff, ExitStep, CloseIPC, ReadOwnPid
    <2>2. CASE Dies(p, pidFile)
        BY <2>1, <2>2, DiesKnows
    <2>3. CASE ~Dies(p, pidFile)
        <3>1. /\ UNCHANGED <<alive, version, disk, unit, manager, cmd, unseen>>
              /\ raced => raced'
              /\ \E stage \in {"unstale", "create", "fill", "listen", "cycle", "select", "backoff",
                               "close", "unpid", "unlink"} : st' = [st EXCEPT ![p] = stage]
            <4>1. CASE BootStep(p)
                BY <2>3, <4>1, TypesAre
                DEF BootStep, CheckPid, RemoveStalePid, CreatePid, WritePid, Listen, Decides
            <4>2. CASE LoopStep(p)
                BY <1>4, <4>2 DEF LoopStep, EndCycle, StopOnSignal, NextCycle, EndBackOff
            <4>3. CASE ExitStep(p)
                BY <1>4, <2>3, <4>3 DEF ExitStep, CloseIPC, ReadOwnPid
            <4> QED BY <1>4, <4>1, <4>2, <4>3
        <3> QED BY <2>1, <3>1, StageKnows
    <2> QED BY <2>2, <2>3
<1> QED BY <1>1, <1>2, <1>3, <1>4 DEF LoopStep, ExitStep

\* The manager, which is at work only with a unit, starts the daemon again.
LEMMA RespawnKnows ==
    ASSUME Types, Knows, NEW p \in Pids, Respawn(p)
    PROVE  Knows'
<1>1. /\ wanted /\ Spawn(p, "check") /\ main' = p /\ UNCHANGED <<wanted, cmd>>
    BY DEF Respawn
<1>2. KnowsManaged /\ unit /\ unit' /\ disk' = disk
    BY <1>1, SpawnIs DEF Knows, KnowsManaged
<1>3. version'[p] = disk
    BY <1>1, SpawnIs
<1>4. KnowsManaged'
    BY <1>1, <1>2, <1>3 DEF KnowsManaged
<1> QED BY <1>2, <1>4 DEF Knows, KnowsSeen

\* A command is given.
LEMMA BeginKnows ==
    ASSUME Types, Knows, Install \/ \E op \in Ops : Begin(op)
    PROVE  Knows'
<1>1. CASE Install
    <2>1. cmd'.op = "install" /\ cmd'.pc = "ok" /\ unit'
        BY <1>1 DEF Install
    <2> QED BY <2>1 DEF Knows, KnowsManaged, KnowsSeen, CmdDeciding
<1>2. ASSUME NEW op \in Ops, Begin(op)
      PROVE  Knows'
    <2>1. op \in AllOps \ {"install"} /\ unit \in BOOLEAN
        BY <1>2, OpsAssumption, TypesAre DEF Begin
    <2>2. PICK place \in {"svcStart", "status", "svcStop", "halt", "latest", "ok"} :
            /\ cmd' = [op |-> op, pid |-> None, pc |-> place]
            /\ place = "ok" => op \notin {"update", "stop"}
            /\ place = "svcStart" => op = "start"
            /\ place = "status" => op = "start"
            /\ place \in {"status", "halt"} => ~unit
            /\ place \in {"svcStart", "svcStop"} => unit
        BY <1>2, <2>1 DEF Begin, AllOps
    <2>3. cmd'.op = op /\ cmd'.pc = place
        BY <2>2
    <2>4. UNCHANGED <<unit, wanted, main, disk>>
        BY <1>2 DEF Begin, files, manager
    <2>5. KnowsManaged'
        BY <2>2, <2>3, <2>4 DEF Knows, KnowsManaged, CmdDeciding
    <2>6. KnowsSeen'
        BY <2>2, <2>3, <2>4 DEF KnowsSeen
    <2> QED BY <2>5, <2>6 DEF Knows
<1> QED BY <1>1, <1>2

\* Nobody is seen: no artifact of a daemon exists, or the pid in the file is dead.
LEMMA NobodySeen ==
    ASSUME Types, Held, ~raced, pidFile \notin alive, unseen' = Unseen, UNCHANGED <<alive, st>>
    PROVE  \A p \in alive' : ~Seen(p)'
<1>1. \A p \in alive : ~Holds(p)
    BY NobodyHolds DEF Held
<1>2. \A p \in alive : st[p] \in Deciding \cup {"check", "triage", "other"}
    BY <1>1, StagesApart, TypesAre DEF Holds
<1>3. \A p \in alive : Daemon(p) => p \in Unseen
    BY <1>2 DEF Daemon, Unseen
<1> QED BY <1>3 DEF Seen, Daemon

\* The daemon whose pid is in the file is the only one that is seen.
LEMMA OneSeen ==
    ASSUME Types, Held, ~raced, unseen' = Unseen, UNCHANGED <<alive, st>>
    PROVE  \A p \in alive' : Seen(p)' => p = pidFile
<1>1. \A p \in alive : Holds(p) => p = pidFile
    BY DEF Held, Reachable
<1>2. \A p \in alive : Holds(p) \/ st[p] \in Deciding \cup {"check", "triage", "other"}
    BY StagesApart, TypesAre DEF Holds
<1>3. \A p \in alive : Daemon(p) => p \in Unseen \/ p = pidFile
    BY <1>1, <1>2 DEF Daemon, Unseen
<1> QED BY <1>3 DEF Seen, Daemon

\* A step of the command that leaves the processes and the manager alone: what it must
\* know where it goes.
LEMMA CmdGoesKnows ==
    ASSUME Types, Knows, UNCHANGED <<alive, st, version, main, unit>>, raced => raced',
           wanted' => wanted,
           cmd'.pc # "idle" => cmd'.op = cmd.op,
           cmd'.pc \in CmdDeciding \cup {"status", "launch", "halt"} => ~unit,
           cmd'.pc \in {"svcStop", "svcWait", "svcStart", "ready"} => unit,
           cmd'.pc \in {"status", "unstale", "launch"} => cmd.op # "stop",
           cmd'.pc = "svcWait" => ~wanted',
           cmd'.pc \notin {"svcStart", "ready"},
           cmd'.pc = "ok" /\ unit => cmd.op \notin {"stop", "update"},
           ~raced' => KnowsSeen'
    PROVE  Knows'
BY DEF Knows, KnowsManaged, Daemon, CmdDeciding

\* Where it knows nothing of the daemons.
LEMMA CmdLearnsNothing ==
    ASSUME cmd'.pc \in {"idle", "path", "download", "replace", "reset", "svcStop", "svcWait", "halt"}
    PROVE  KnowsSeen'
BY DEF KnowsSeen

\* A command that is over.
LEMMA CmdOverKnows ==
    ASSUME Types, Knows, UNCHANGED <<alive, st, version, main, unit, wanted>>, raced => raced',
           cmd'.pc = "idle"
    PROVE  Knows'
BY CmdGoesKnows, CmdLearnsNothing DEF CmdDeciding

\* A stop signals the daemon, waits, kills it, and finds it gone.
LEMMA CmdWaitsKnows ==
    ASSUME Types, Knows, SendTerm \/ GraceOver \/ Kill \/ Exited
    PROVE  Knows'
<1> USE DEF procs, files, manager, history
<1>1. UNCHANGED <<alive, st, version, main, unit, wanted, raced, unseen, disk>>
    BY DEF SendTerm, Signalled, GraceOver, Kill, Exited
<1>2. PICK place \in {"wait", "kill", "killed", "rmpid", "failed"} :
        /\ CmdTo(place) /\ cmd.pc \in {"term", "wait", "kill", "killed"}
        /\ place = "rmpid" => cmd.pid \notin alive
    BY DEF SendTerm, GraceOver, Kill, Exited
<1>3. CASE place = "failed"
    BY <1>1, <1>2, <1>3, CmdIs, CmdOverKnows
<1>4. CASE place # "failed"
    <2>1. place \in CmdPlaces /\ cmd.pc \in CmdDeciding
        BY <1>2, <1>4 DEF CmdPlaces, CmdDeciding
    <2>2. cmd'.op = cmd.op /\ cmd'.pc = place /\ cmd'.pid = cmd.pid
        BY <1>2, <1>4, <2>1, CmdIs
    <2>3. ~unit
        BY <2>1 DEF Knows, KnowsManaged
    <2>4. \A p \in alive : Seen(p)' <=> Seen(p)
        BY <1>1 DEF Seen, Daemon
    <2>5. ~raced' => KnowsSeen'
        BY <1>1, <1>2, <1>4, <2>2, <2>4 DEF Knows, KnowsSeen
    <2>6. place \in {"wait", "kill", "killed", "rmpid"}
        BY <1>2, <1>4
    <2> QED BY <1>1, <2>2, <2>3, <2>5, <2>6, CmdGoesKnows
<1> QED BY <1>3, <1>4

\* The file is removed, and a start, which may be that of a restart, goes on.
LEMMA CmdRemovesKnows ==
    ASSUME Types, Knows, RemovePid \/ RemoveStaleForStart \/ ReadForStart
    PROVE  Knows'
<1> USE DEF procs, files, manager, history
<1>1. UNCHANGED <<alive, st, version, main, unit, wanted, unseen, disk>> /\ (raced => raced')
    BY TypesAre DEF RemovePid, RemoveStaleForStart, ReadForStart, Decides
<1>2. \A p \in alive : Seen(p)' <=> Seen(p)
    BY <1>1 DEF Seen, Daemon
<1>3. CASE RemovePid
    <2>1. cmd' = [cmd EXCEPT !.pc = AfterHalt, !.pid = None] /\ cmd.pc = "rmpid"
        BY <1>3 DEF RemovePid
    <2>2. cmd'.op = cmd.op /\ cmd'.pc = AfterHalt
        BY <2>1, TypesAre DEF Cmds
    <2>3. AfterHalt \in {"ok", "status"} /\ (AfterHalt = "ok" <=> cmd.op = "stop")
        BY DEF AfterHalt
    <2>4. ~unit
        BY <2>1 DEF Knows, KnowsManaged, CmdDeciding
    <2>5. ~raced' => KnowsSeen'
        BY <1>1, <1>2, <2>1, <2>2, <2>3, <2>4 DEF Knows, KnowsSeen
    <2> QED BY <1>1, <2>2, <2>3, <2>4, <2>5, CmdGoesKnows
<1>4. CASE RemoveStaleForStart \/ ReadForStart
    <2>1. PICK place \in {"unstale", "launch", "failed"} : CmdTo(place) /\ cmd.pc \in {"unstale", "status"}
        BY <1>4 DEF RemoveStaleForStart, ReadForStart
    <2>2. CASE place = "failed"
        BY <1>1, <2>1, <2>2, CmdIs, CmdOverKnows
    <2>3. CASE place # "failed"
        <3>1. place \in CmdPlaces
            BY <2>1, <2>3 DEF CmdPlaces, CmdDeciding
        <3>2. cmd'.op = cmd.op /\ cmd'.pc = place
            BY <2>1, <2>3, <3>1, CmdIs
        <3>3. ~unit /\ cmd.op # "stop"
            BY <2>1 DEF Knows, KnowsManaged, CmdDeciding
        <3>4. ~raced' => KnowsSeen'
            BY <1>1, <1>2, <2>1, <2>3, <3>2 DEF Knows, KnowsSeen
        <3>5. place \in {"unstale", "launch"}
            BY <2>1, <2>3
        <3> QED BY <1>1, <3>2, <3>3, <3>4, <3>5, CmdGoesKnows
    <2> QED BY <2>2, <2>3
<1> QED BY <1>3, <1>4

\* A stop reads the file: it sees the daemon that is named there, or none.
LEMMA CmdReadsKnows ==
    ASSUME Types, Held, Knows, ReadForHalt
    PROVE  Knows'
<1> USE DEF procs, files, manager, history
<1>1. UNCHANGED <<alive, st, version, main, unit, wanted, disk, pidFile>> /\ (raced => raced')
      /\ unseen' = Unseen
    BY TypesAre DEF ReadForHalt, Decides
<1>2. ~unit
    BY DEF ReadForHalt, Knows, KnowsManaged
<1>3. CASE Status = "running" /\ cmd' = [cmd EXCEPT !.pc = "term", !.pid = pidFile]
    <2>1. cmd'.op = cmd.op /\ cmd'.pc = "term" /\ cmd'.pid = pidFile
        BY <1>3, TypesAre DEF Cmds
    <2>2. ~raced' => KnowsSeen'
        BY <1>1, <2>1, OneSeen DEF KnowsSeen
    <2> QED BY <1>1, <1>2, <2>1, <2>2, CmdGoesKnows
<1>4. ASSUME NEW place \in {"rmpid", "ok", "status"}, CmdTo(place), Status \in {"stale", "stopped"},
             place = "status" => cmd.op # "stop"
      PROVE  Knows'
    <2>1. place \in CmdPlaces /\ place # "failed"
        BY DEF CmdPlaces, CmdDeciding
    <2>2. cmd'.op = cmd.op /\ cmd'.pc = place
        BY <1>4, <2>1, CmdIs
    <2>3. pidFile \notin alive
        BY <1>4, TypesAre DEF Status
    <2>4. ~raced' => KnowsSeen'
        BY <1>1, <2>3, NobodySeen DEF KnowsSeen
    <2> QED BY <1>1, <1>2, <1>4, <2>2, <2>4, CmdGoesKnows
<1>5. CASE CmdTo("failed")
    BY <1>1, <1>5, CmdIs, CmdOverKnows
<1> QED BY <1>3, <1>4, <1>5 DEF ReadForHalt, AfterHalt

\* A command ends, or an update comes to its executable.
LEMMA CmdUpdatesKnows ==
    ASSUME Types, Knows, Finish \/ Ready \/ CheckLatest \/ CheckPath \/ Download \/ ReplaceExecutable
    PROVE  Knows'
<1> USE DEF procs, files, manager, history
<1>1. UNCHANGED <<alive, st, version, main, unit, wanted, raced>>
    BY DEF Finish, Ready, CheckLatest, CheckPath, Download, ReplaceExecutable
<1>2. CASE Ready
    <2>1. unit /\ cmd.op \notin {"stop", "update"}
        BY <1>2 DEF Ready, Knows, KnowsManaged
    <2>2. CASE CmdTo("failed")
        BY <1>1, <2>2, CmdIs, CmdOverKnows
    <2>3. CASE CmdTo("ok")
        <3>1. "ok" \in CmdPlaces
            BY DEF CmdPlaces
        <3>2. cmd'.op = cmd.op /\ cmd'.pc = "ok"
            BY <2>3, <3>1, CmdIs
        <3>3. KnowsSeen'
            BY <1>1, <2>1 DEF KnowsSeen
        <3> QED BY <1>1, <2>1, <3>2, <3>3, CmdGoesKnows DEF CmdDeciding
    <2> QED BY <1>2, <2>2, <2>3 DEF Ready
<1>3. CASE ~Ready
    <2>1. \/ cmd' = NoCmd
          \/ \E place \in {"path", "download", "replace", "reset", "failed"} : CmdTo(place)
        BY <1>3 DEF Finish, CheckLatest, CheckPath, Download, ReplaceExecutable
    <2>2. CASE cmd' = NoCmd \/ CmdTo("failed")
        BY <1>1, <2>2, CmdIs, CmdOverKnows DEF NoCmd
    <2>3. ASSUME NEW place \in {"path", "download", "replace", "reset"}, CmdTo(place)
          PROVE  Knows'
        <3>1. place \in CmdPlaces /\ place # "failed" /\ place \notin CmdDeciding
            BY DEF CmdPlaces, CmdDeciding
        <3>2. cmd'.op = cmd.op /\ cmd'.pc = place
            BY <2>3, <3>1, CmdIs
        <3> QED BY <1>1, <3>1, <3>2, CmdLearnsNothing, CmdGoesKnows
    <2> QED BY <2>1, <2>2, <2>3
<1> QED BY <1>2, <1>3

\* An update turns to the daemon: the manager's, the one it finds, or none.
LEMMA ResetKnows ==
    ASSUME Types, Held, Knows, ResetDaemon
    PROVE  Knows'
<1> USE DEF procs, files, manager, history
<1>1. UNCHANGED <<alive, st, version, main, unit, wanted, disk, raced, pidFile>> /\ unseen' = Unseen
    BY DEF ResetDaemon
<1>2. PICK place \in {"svcStop", "ok", "halt"} :
        /\ CmdTo(place)
        /\ place = "svcStop" <=> unit
        /\ place = "ok" => pidFile = None
    BY TypesAre DEF ResetDaemon
<1>3. place \in CmdPlaces /\ place # "failed" /\ place \notin CmdDeciding
    BY DEF CmdPlaces, CmdDeciding
<1>4. cmd'.op = cmd.op /\ cmd'.pc = place
    BY <1>2, <1>3, CmdIs
<1>5. ~raced' => KnowsSeen'
    <2>1. CASE place = "ok"
        <3>1. pidFile \notin alive
            BY <1>2, <2>1, TypesAre
        <3> QED BY <1>1, <3>1, NobodySeen DEF KnowsSeen
    <2>2. CASE place # "ok"
        BY <1>2, <1>4, <2>2, CmdLearnsNothing
    <2> QED BY <2>1, <2>2
<1> QED BY <1>1, <1>2, <1>3, <1>4, <1>5, CmdGoesKnows

\* The manager stops its daemon and forgets it.
LEMMA ServiceStopKnows ==
    ASSUME Types, Knows, ServiceStop \/ ServiceStopped
    PROVE  Knows'
<1> USE DEF procs, files, manager, history
<1>0. {"svcWait", "svcStart", "ok"} \subseteq CmdPlaces
    BY DEF CmdPlaces
<1>1. CASE ServiceStop
    <2>1. UNCHANGED <<alive, st, version, main, unit, raced>> /\ ~wanted' /\ CmdTo("svcWait") /\ unit
        BY <1>1 DEF ServiceStop, Signalled, Knows, KnowsManaged
    <2>2. cmd'.op = cmd.op /\ cmd'.pc = "svcWait"
        BY <1>0, <2>1, CmdIs
    <2> QED BY <2>1, <2>2, CmdLearnsNothing, CmdGoesKnows DEF CmdDeciding
<1>2. CASE ServiceStopped
    <2>1. PICK place \in {"svcStart", "ok"} :
            CmdTo(place) /\ (place = "svcStart" <=> cmd.op \in {"restart", "update"})
        BY <1>2 DEF ServiceStopped
    <2>2. cmd'.op = cmd.op /\ cmd'.pc = place
        BY <1>0, <2>1, CmdIs
    <2>3. unit' = (cmd.op # "uninstall") /\ main' = None /\ ~wanted'
        BY <1>2 DEF ServiceStopped, Knows, KnowsManaged
    <2>4. KnowsManaged'
        BY <2>1, <2>2, <2>3, TypesAre DEF KnowsManaged, CmdDeciding
    <2>5. KnowsSeen'
        BY <2>1, <2>2, <2>3 DEF KnowsSeen
    <2> QED BY <2>4, <2>5 DEF Knows
<1> QED BY <1>1, <1>2

\* A command starts a daemon: from the executable there is, and, when it stopped one
\* before, with no other in sight.
LEMMA CmdStartsKnows ==
    ASSUME Types, Knows, NEW p \in Pids, Launch(p) \/ ServiceStart(p)
    PROVE  Knows'
<1>0. {"ok", "ready"} \subseteq CmdPlaces
    BY DEF CmdPlaces
<1>1. CASE Launch(p)
    <2>1. cmd.pc = "launch" /\ Spawn(p, "check") /\ UNCHANGED <<wanted, main>> /\ CmdTo("ok")
        BY <1>1 DEF Launch, manager
    <2>2. cmd'.op = cmd.op /\ cmd'.pc = "ok"
        BY <1>0, <2>1, CmdIs
    <2>3. UNCHANGED <<disk, unit, raced, unseen>> /\ alive' = alive \cup {p} /\ version'[p] = disk
          /\ \A q \in alive : st'[q] = st[q] /\ version'[q] = version[q]
        BY <2>1, SpawnIs
    <2>4. ~unit /\ cmd.op # "stop"
        BY <2>1 DEF Knows, KnowsManaged
    <2>5. KnowsManaged'
        BY <2>1, <2>2, <2>3, <2>4 DEF Knows, KnowsManaged, CmdDeciding
    <2>6. ~raced' => KnowsSeen'
        <3>1. \A q \in alive : Seen(q)' => Seen(q)
            BY <2>3 DEF Seen, Daemon
        <3>2. ~raced' /\ cmd.op = "update" => \A q \in alive : ~Seen(q)
            BY <2>1, <2>3, <2>4 DEF Knows, KnowsSeen
        <3> QED BY <2>2, <2>3, <2>4, <3>1, <3>2 DEF KnowsSeen
    <2> QED BY <2>5, <2>6 DEF Knows
<1>2. CASE ServiceStart(p)
    <2>1. cmd.pc = "svcStart" /\ wanted' = TRUE
          /\ CmdTo(IF cmd.op = "update" THEN "ok" ELSE "ready")
        BY <1>2 DEF ServiceStart
    <2>2. cmd'.op = cmd.op /\ cmd'.pc = IF cmd.op = "update" THEN "ok" ELSE "ready"
        BY <1>0, <2>1, CmdIs
    <2>3. unit /\ cmd.op # "stop" /\ (cmd.op = "update" => main = None)
        BY <2>1 DEF Knows, KnowsManaged
    <2>4. unit' = unit
        BY <1>2, SpawnIs DEF ServiceStart, files
    <2>5. cmd.op = "update" => main' = p /\ version'[p] = disk /\ disk' = disk
        BY <1>2, <2>3, SpawnIs, TypesAre DEF ServiceStart
    <2>6. KnowsManaged'
        BY <2>1, <2>2, <2>3, <2>4, <2>5 DEF KnowsManaged, CmdDeciding
    <2>7. KnowsSeen'
        BY <2>3, <2>4 DEF KnowsSeen
    <2> QED BY <2>6, <2>7 DEF Knows
<1> QED BY <1>1, <1>2

\* Every step preserves what is known.
LEMMA KnowsStep == Types /\ Held /\ Knows /\ [Next]_vars => Knows'
<1> SUFFICES ASSUME Types, Held, Knows, [Next]_vars PROVE Knows'
    OBVIOUS
<1>1. CASE UNCHANGED vars
    BY <1>1, QuietKnows DEF vars, procs, files, manager, history, Daemon
<1>2. ASSUME NEW p \in Pids,
             BootStep(p) \/ LoopStep(p) \/ ExitStep(p) \/ UseLock(p) \/ BeginTriage(p)
             \/ EndTriage(p) \/ BeginOther(p) \/ EndOther(p) \/ Crash(p) \/ Respawn(p)
             \/ Launch(p) \/ ServiceStart(p)
      PROVE  Knows'
    BY <1>2, ProcessKnows, RespawnKnows, CmdStartsKnows
<1>3. CASE Install \/ \E op \in Ops : Begin(op)
    BY <1>3, BeginKnows
<1>4. CASE KilledDies \/ ServiceKill
    <2>1. PICK p \in alive : Dies(p, pidFile)
        BY <1>4 DEF KilledDies, ServiceKill
    <2> QED BY <2>1, DiesKnows
<1>5. CASE CmdStep
    BY <1>2, <1>4, <1>5, CmdWaitsKnows, CmdRemovesKnows, CmdReadsKnows, CmdUpdatesKnows, ResetKnows,
       ServiceStopKnows DEF CmdStep
<1> QED BY <1>1, <1>2, <1>3, <1>5 DEF Next

\* It holds at first.
LEMMA KnowsInit == Init => Knows
BY DEF Init, Knows, KnowsManaged, KnowsSeen, NoCmd, CmdDeciding

\* The whole invariant, for ever.
LEMMA HostKnows == Spec => [](Types /\ Held /\ Knows)
<1> USE TypesInit, TypesStep, HeldInit, HeldStep, KnowsInit, KnowsStep
<1> HIDE DEF Types, Held, Knows, Init, Next, vars
<1> QED BY PTL DEF Spec

\* A reported update has reached the daemon it is about: the one the manager started, or
\* without a unit any whose pid could be in the file when defaultResetDaemon, or the stop
\* it makes, looked.  It says nothing of a daemon that is still on its way up then.
THEOREM UpdateReachesDaemon == Spec => []UpdateTakesEffect
<1>1. Types /\ Held /\ Knows => UpdateTakesEffect
    BY TypesAre DEF Knows, KnowsManaged, KnowsSeen, Seen, Found, UpdateTakesEffect
<1> HIDE DEF Types, Held, Knows, UpdateTakesEffect
<1> QED BY <1>1, HostKnows, PTL

\* A reported stop has left nobody of those it is about, whether StopWithOptions met a
\* daemon that obeyed, one it had to kill or a stale file, or the manager stopped it.
THEOREM StopIsDone == Spec => []StopLeavesNobody
<1>1. Types /\ Held /\ Knows => StopLeavesNobody
    BY TypesAre DEF Knows, KnowsManaged, KnowsSeen, Seen, Found, StopLeavesNobody
<1> HIDE DEF Types, Held, Knows, StopLeavesNobody
<1> QED BY <1>1, HostKnows, PTL
=============================================================================
