--------------------------- MODULE LauncherProofs ---------------------------
(***************************************************************************)
(* What ans-run keeps for any number of launches of one tree, any configs  *)
(* and command lines: the lock goes from hand to hand without a gap, so    *)
(* one run works at a time, in a tree nobody takes away, by a config that  *)
(* was vouched for and with a permission level that needs nobody there.    *)
(***************************************************************************)
EXTENDS Launcher, TLAPS

(* The steps of one launch, by what they disturb: its own progress, ... *)
Reads(l) == Call(l) \/ Welcome(l) \/ Load(l) \/ CheckTrust(l) \/ Vouch(l) \/ RefuseUntrusted(l)
Checks(l) == Busy(l) \/ Repair(l) \/ Retrust(l) \/ Preflight(l) \/ Confirm(l) \/ ChooseTree(l)
(* ... the lock, ... *)
Locks(l) == Lock(l) \/ Unprobe(l) \/ Leave(l) \/ IsolateFails(l) \/ Release(l)
Waits(l) == SessionOver(l) \/ Interrupt(l)
(* ... the worktree, ... *)
Moves(l) == Reclaim(l) \/ Isolate(l) \/ Cleanup(l) \/ AgentWorks(l)
(* ... and the processes. *)
Ends(l) == WatchdogStarts(l) \/ WatchdogReplaces(l) \/ WatchdogStops(l) \/ WatchdogExits(l)
             \/ AgentEnds(l) \/ KillChild(l) \/ KillLauncher(l)
World == Edit \/ TrustCommand \/ TreeChanges \/ UNCHANGED vars

LEMMA ByGroup ==
  ASSUME [Next]_vars
  PROVE  \/ \E l \in Launch : Reads(l) \/ Checks(l) \/ Locks(l) \/ Waits(l) \/ Moves(l)
                                \/ Start(l) \/ Ends(l)
         \/ World
  BY DEF Next, Reads, Checks, Locks, Waits, Moves, Ends, World

-----------------------------------------------------------------------------
(* Types *)

LEMMA TInit == Init => TypeOK
<1> SUFFICES ASSUME Init PROVE TypeOK
  OBVIOUS
<1>1. /\ count \in [Launch -> Nat] /\ pc \in [Launch -> Steps]
      /\ arg \in [Launch -> Args \cup {NoArg}] /\ read \in [Launch -> Config \cup {None}]
  BY DEF Init, Steps
<1>2. home \in [Launch -> Tree] /\ \A l \in Launch : home[l] \in {Primary, l}
  BY DEF Init, Tree
<1> QED BY <1>1, <1>2 DEF Init, TypeOK

LEMMA TReads == ASSUME TypeOK, NEW l \in Launch, Reads(l) PROVE TypeOK'
<1> USE LauncherAssumption DEF TypeOK, Steps, Tree, Primary, files, trees, mine, procs,
            At, Goto
<1>1. CASE Call(l) BY <1>1 DEF Call
<1>2. CASE Welcome(l) BY <1>2 DEF Welcome
<1>3. CASE Load(l) BY <1>3 DEF Load
<1>4. CASE CheckTrust(l) BY <1>4 DEF CheckTrust
<1>5. CASE Vouch(l) BY <1>5 DEF Vouch, IsTrusted
<1>6. CASE RefuseUntrusted(l) BY <1>6 DEF RefuseUntrusted
<1> QED BY <1>1, <1>2, <1>3, <1>4, <1>5, <1>6 DEF Reads

(* A config that can be repaired is one of the configs, repaired. *)
LEMMA RepairedTyped ==
  ASSUME NEW c \in Config \cup {None}, NEW n, CanRepair(c, n)
  PROVE  Repaired(c, n) \in Config
<1>1. c \in Config
  BY DEF CanRepair
<1>2. n \in DOMAIN c.agents \cup {None}
  BY DEF CanRepair
<1> QED BY <1>1, <1>2, LauncherAssumption

LEMMA TChecks == ASSUME TypeOK, NEW l \in Launch, Checks(l) PROVE TypeOK'
<1> USE LauncherAssumption DEF TypeOK, Steps, Tree, Primary, files, trees, mine, procs,
            At, Goto, Closed
<1>1. CASE Busy(l) BY <1>1 DEF Busy
<1>2. CASE Repair(l)
  <2>1. config' \in Config
    BY <1>2, RepairedTyped DEF Repair
  <2>2. pc' \in [Launch -> Steps]
    BY <1>2 DEF Repair
  <2> QED BY <1>2, <2>1, <2>2 DEF Repair
<1>3. CASE Retrust(l) BY <1>3 DEF Retrust
<1>4. CASE Preflight(l)
  <2>1. pc' \in [Launch -> Steps] /\ fds' \subseteq fds
    BY <1>4 DEF Preflight
  <2> QED BY <1>4, <2>1 DEF Preflight
<1>5. CASE Confirm(l) BY <1>5 DEF Confirm
<1>6. CASE ChooseTree(l)
  <2>1. pc' \in [Launch -> Steps] /\ fds' \subseteq fds
    BY <1>6 DEF ChooseTree
  <2> QED BY <1>6, <2>1 DEF ChooseTree
<1> QED BY <1>1, <1>2, <1>3, <1>4, <1>5, <1>6 DEF Checks

LEMMA TLocks == ASSUME TypeOK, NEW l \in Launch, Locks(l) \/ Waits(l) PROVE TypeOK'
<1> USE LauncherAssumption DEF TypeOK, Steps, Tree, Primary, files, trees, mine, procs,
            At, Goto, Closed, P, Role
<1>1. CASE Lock(l) BY <1>1 DEF Lock
<1>2. CASE Unprobe(l) BY <1>2 DEF Unprobe
<1>3. CASE Leave(l) BY <1>3 DEF Leave
<1>4. CASE IsolateFails(l) BY <1>4 DEF IsolateFails
<1>5. CASE Release(l) BY <1>5 DEF Release
<1>6. CASE SessionOver(l) BY <1>6 DEF SessionOver
<1>7. CASE Interrupt(l) BY <1>7 DEF Interrupt
<1> QED BY <1>1, <1>2, <1>3, <1>4, <1>5, <1>6, <1>7 DEF Locks, Waits

LEMMA TMoves == ASSUME TypeOK, NEW l \in Launch, Moves(l) \/ Start(l) PROVE TypeOK'
<1> USE LauncherAssumption DEF TypeOK, Steps, Tree, Primary, files, trees, mine, procs,
            At, Goto, Closed, P, Role
<1>1. CASE Reclaim(l) BY <1>1 DEF Reclaim
<1>2. CASE Isolate(l) BY <1>2 DEF Isolate
<1>3. CASE Cleanup(l) BY <1>3 DEF Cleanup
<1>4. CASE AgentWorks(l)
  <2>1. unfinished' = unfinished \cup {home[l]}
    BY <1>4 DEF AgentWorks
  <2>2. unfinished \subseteq Tree /\ home[l] \in Tree
    OBVIOUS
  <2>3. unfinished' \subseteq Tree
    BY <2>1, <2>2
  <2> QED BY <1>4, <2>3 DEF AgentWorks
<1>5. CASE SpawnForeground(l) BY <1>5 DEF SpawnForeground
<1>6. CASE SpawnChild(l) BY <1>6 DEF SpawnChild
<1>7. CASE SpawnSession(l) BY <1>7 DEF SpawnSession
<1> QED BY <1>1, <1>2, <1>3, <1>4, <1>5, <1>6, <1>7 DEF Moves, Start

LEMMA TEnds == ASSUME TypeOK, NEW l \in Launch, Ends(l) PROVE TypeOK'
<1> USE LauncherAssumption DEF TypeOK, Steps, Tree, Primary, files, trees, mine, procs,
            At, Goto, Closed, P, Role, Dies
<1>1. CASE WatchdogStarts(l) BY <1>1 DEF WatchdogStarts
<1>2. CASE WatchdogReplaces(l) BY <1>2 DEF WatchdogReplaces
<1>3. CASE WatchdogStops(l) BY <1>3 DEF WatchdogStops
<1>4. CASE WatchdogExits(l) BY <1>4 DEF WatchdogExits
<1>5. CASE AgentEnds(l) BY <1>5 DEF AgentEnds
<1>6. CASE KillChild(l) BY <1>6 DEF KillChild
<1>7. CASE KillLauncher(l) BY <1>7 DEF KillLauncher
<1> QED BY <1>1, <1>2, <1>3, <1>4, <1>5, <1>6, <1>7 DEF Ends

LEMMA TWorld == ASSUME TypeOK, World PROVE TypeOK'
<1> USE LauncherAssumption DEF TypeOK, Steps, Tree, Primary, files, trees, mine, procs,
            At, Goto
<1>1. CASE Edit BY <1>1 DEF Edit
<1>2. CASE TrustCommand BY <1>2 DEF TrustCommand
<1>3. CASE TreeChanges BY <1>3 DEF TreeChanges
<1>4. CASE UNCHANGED vars BY <1>4 DEF vars
<1> QED BY <1>1, <1>2, <1>3, <1>4 DEF World

(* Every state of the launches is well typed, for any configs and command lines. *)
THEOREM LauncherTyping == Spec => []TypeOK
<1>1. TypeOK /\ [Next]_vars => TypeOK'
  BY ByGroup, TReads, TChecks, TLocks, TMoves, TEnds, TWorld
<1> QED BY TInit, <1>1, PTL DEF Spec

-----------------------------------------------------------------------------
(* The lock *)

Locked == {"probing", "retrust", "confirm", "policy", "reclaim", "isolate", "spawn",
           "leaving", "waiting", "release"}

(* Whoever is past the lock has it; one launch at a time; and it is with the launch as
   long as its watchdog or its agent. *)
LauncherHolds ==
  \A l \in Launch :
    pc[l] \in Locked \/ (pc[l] = "resolve" /\ ~arg[l].check) => P(l, "launcher") \in fds
OnlyCheckProbes == \A l \in Launch : pc[l] = "probing" => arg[l].check
OneHolder == \A p, q \in fds : p[1] = q[1]
WatchdogHolds == \A l \in Launch : P(l, "watchdog") \in alive => P(l, "watchdog") \in fds
AgentHolds ==
  \A l \in Launch : Running(l) => P(l, "agent") \in fds \/ P(l, "watchdog") \in fds

LInv == TypeOK /\ LauncherHolds /\ OnlyCheckProbes /\ OneHolder /\ WatchdogHolds /\ AgentHolds
LParts == LauncherHolds /\ OnlyCheckProbes /\ OneHolder /\ WatchdogHolds /\ AgentHolds

LEMMA LReads == ASSUME LInv, NEW l \in Launch, Reads(l) PROVE LParts'
<1> USE DEF LInv, LParts, LauncherHolds, OnlyCheckProbes, OneHolder, WatchdogHolds,
            AgentHolds, Running,
            Locked, TypeOK, mine, procs, At, Goto, P
<1>1. CASE Call(l) BY <1>1 DEF Call
<1>2. CASE Welcome(l) BY <1>2 DEF Welcome
<1>3. CASE Load(l) BY <1>3 DEF Load
<1>4. CASE CheckTrust(l) BY <1>4 DEF CheckTrust
<1>5. CASE Vouch(l) BY <1>5 DEF Vouch
<1>6. CASE RefuseUntrusted(l) BY <1>6 DEF RefuseUntrusted
<1> QED BY <1>1, <1>2, <1>3, <1>4, <1>5, <1>6 DEF Reads

LEMMA LChecks == ASSUME LInv, NEW l \in Launch, Checks(l) PROVE LParts'
<1> USE DEF LInv, LParts, LauncherHolds, OnlyCheckProbes, OneHolder, WatchdogHolds,
            AgentHolds, Running,
            Locked, TypeOK, mine, procs, At, Goto, P, Closed
<1>1. CASE Busy(l) BY <1>1 DEF Busy
<1>2. CASE Repair(l) BY <1>2 DEF Repair, Offers, Human
<1>3. CASE Retrust(l) BY <1>3 DEF Retrust
<1>4. CASE Preflight(l) BY <1>4 DEF Preflight
<1>5. CASE Confirm(l) BY <1>5 DEF Confirm
<1>6. CASE ChooseTree(l) BY <1>6 DEF ChooseTree
<1> QED BY <1>1, <1>2, <1>3, <1>4, <1>5, <1>6 DEF Checks

LEMMA LLocks == ASSUME LInv, NEW l \in Launch, Locks(l) \/ Waits(l) PROVE LParts'
<1> USE DEF LInv, LParts, LauncherHolds, OnlyCheckProbes, OneHolder, WatchdogHolds,
            AgentHolds, Running,
            Locked, TypeOK, mine, procs, At, Goto, P, Closed
<1>1. CASE Lock(l)
  <2>1. fds = {} /\ fds' = {P(l, "launcher")} /\ alive' = alive /\ arg' = arg
    BY <1>1 DEF Lock
  <2>2. WatchdogHolds' /\ AgentHolds' /\ OneHolder'
    BY <2>1
  <2>3. \A k \in Launch : pc[k] \notin Locked /\ ~(pc[k] = "resolve" /\ ~arg[k].check)
    BY <2>1
  <2>4. \A k \in Launch : k # l => pc'[k] = pc[k]
    BY <1>1 DEF Lock
  <2>5. LauncherHolds'
    BY <2>1, <2>3, <2>4
  <2>6. OnlyCheckProbes'
    BY <1>1 DEF Lock
  <2> QED BY <2>2, <2>5, <2>6
<1>2. CASE Unprobe(l) BY <1>2 DEF Unprobe
<1>3. CASE Leave(l) BY <1>3 DEF Leave
<1>4. CASE IsolateFails(l) BY <1>4 DEF IsolateFails
<1>5. CASE Release(l) BY <1>5 DEF Release
<1>6. CASE SessionOver(l) BY <1>6 DEF SessionOver
<1>7. CASE Interrupt(l) BY <1>7 DEF Interrupt
<1> QED BY <1>1, <1>2, <1>3, <1>4, <1>5, <1>6, <1>7 DEF Locks, Waits

LEMMA LMoves == ASSUME LInv, NEW l \in Launch, Moves(l) \/ Start(l) PROVE LParts'
<1> USE DEF LInv, LParts, LauncherHolds, OnlyCheckProbes, OneHolder, WatchdogHolds,
            AgentHolds, Running,
            Locked, TypeOK, mine, procs, At, Goto, P, Closed
<1>1. CASE Reclaim(l) BY <1>1 DEF Reclaim
<1>2. CASE Isolate(l) BY <1>2 DEF Isolate
<1>3. CASE Cleanup(l) BY <1>3 DEF Cleanup
<1>4. CASE AgentWorks(l) BY <1>4 DEF AgentWorks
<1>5. CASE SpawnForeground(l)
  <2>1. P(l, "launcher") \in fds /\ \A p \in fds : p[1] = l
    BY <1>5 DEF SpawnForeground
  <2>2. LauncherHolds' /\ OnlyCheckProbes'
    BY <1>5 DEF SpawnForeground
  <2>3. OneHolder'
    BY <1>5, <2>1 DEF SpawnForeground
  <2>4. WatchdogHolds' /\ AgentHolds'
    BY <1>5 DEF SpawnForeground
  <2> QED BY <2>2, <2>3, <2>4
<1>6. CASE SpawnChild(l)
  <2>1. P(l, "launcher") \in fds /\ \A p \in fds : p[1] = l
    BY <1>6 DEF SpawnChild
  <2>2. LauncherHolds' /\ OnlyCheckProbes'
    BY <1>6 DEF SpawnChild
  <2>3. OneHolder'
    BY <1>6, <2>1 DEF SpawnChild
  <2>4. WatchdogHolds' /\ AgentHolds'
    BY <1>6 DEF SpawnChild
  <2> QED BY <2>2, <2>3, <2>4
<1>7. CASE SpawnSession(l)
  <2>1. P(l, "launcher") \in fds /\ \A p \in fds : p[1] = l
    BY <1>7 DEF SpawnSession
  <2>2. LauncherHolds' /\ OnlyCheckProbes'
    BY <1>7 DEF SpawnSession
  <2>3. OneHolder'
    BY <1>7, <2>1 DEF SpawnSession
  <2>4. WatchdogHolds' /\ AgentHolds'
    BY <1>7 DEF SpawnSession
  <2> QED BY <2>2, <2>3, <2>4
<1> QED BY <1>1, <1>2, <1>3, <1>4, <1>5, <1>6, <1>7 DEF Moves, Start

LEMMA LEnds == ASSUME "watchdog" \notin KillAt, LInv, NEW l \in Launch, Ends(l) PROVE LParts'
<1> USE DEF LInv, LParts, LauncherHolds, OnlyCheckProbes, OneHolder, WatchdogHolds,
            AgentHolds, Running,
            Locked, TypeOK, mine, procs, At, Goto, P, Closed, Dies
<1>1. CASE WatchdogStarts(l) BY <1>1 DEF WatchdogStarts
<1>2. CASE WatchdogReplaces(l) BY <1>2 DEF WatchdogReplaces
<1>3. CASE WatchdogStops(l) BY <1>3 DEF WatchdogStops
<1>4. CASE WatchdogExits(l) BY <1>4 DEF WatchdogExits
<1>5. CASE AgentEnds(l) BY <1>5 DEF AgentEnds
<1>6. CASE KillChild(l) BY <1>6 DEF KillChild
<1>7. CASE KillLauncher(l) BY <1>7 DEF KillLauncher
<1> QED BY <1>1, <1>2, <1>3, <1>4, <1>5, <1>6, <1>7 DEF Ends

LEMMA LWorld == ASSUME LInv, World PROVE LParts'
<1> USE DEF LInv, LParts, LauncherHolds, OnlyCheckProbes, OneHolder, WatchdogHolds,
            AgentHolds, Running, mine, procs, P
<1>1. CASE Edit BY <1>1 DEF Edit
<1>2. CASE TrustCommand BY <1>2 DEF TrustCommand
<1>3. CASE TreeChanges BY <1>3 DEF TreeChanges
<1>4. CASE UNCHANGED vars BY <1>4 DEF vars
<1> QED BY <1>1, <1>2, <1>3, <1>4 DEF World

LEMMA LInit == Init => LInv
  BY TInit DEF Init, LInv, LauncherHolds, OnlyCheckProbes, OneHolder, WatchdogHolds, AgentHolds,
               Running, Locked

LEMMA LStep == ASSUME "watchdog" \notin KillAt PROVE LInv /\ [Next]_vars => LInv'
<1> SUFFICES ASSUME LInv, [Next]_vars PROVE LInv'
  OBVIOUS
<1>1. TypeOK'
  BY ByGroup, TReads, TChecks, TLocks, TMoves, TEnds, TWorld DEF LInv
<1>2. LParts'
  BY ByGroup, LReads, LChecks, LLocks, LMoves, LEnds, LWorld
<1> QED BY <1>1, <1>2 DEF LInv, LParts

(* As long as no watchdog is killed outright, one launch of the tree has an agent. *)
THEOREM OneRun == ASSUME "watchdog" \notin KillAt PROVE Spec => []OneRunPerTree
<1>1. LInv => OneRunPerTree
  BY DEF LInv, OneHolder, AgentHolds, OneRunPerTree, P
<1> QED BY LInit, LStep, <1>1, PTL DEF Spec

-----------------------------------------------------------------------------
(* What was read, and found good enough *)

Up(l) == P(l, "agent") \in alive \/ P(l, "watchdog") \in alive
Going == {"confirm", "policy", "reclaim", "isolate", "spawn", "leaving", "waiting",
          "release", "cleanup"}

(* The checks a launch has behind it, as long as it reads nothing else. *)
Fit(c, a) == Resolved(c, a.agent) /\ PermissionOk(c, a.agent, a.fg)
Seen(c)   == EditsDuringRepair \/ c \in vouched
Welcomed  == WelcomeFails \/ Primary \in folders
Judged(l) == Seen(read[l]) /\ Fit(read[l], arg[l]) /\ Welcomed

StoreVouched == store # None => Seen(store)
WelcomeDone ==
  \A l \in Launch : pc[l] \notin {"idle", "begin", "over"} => arg[l].check \/ Welcomed
TrustDone ==
  \A l \in Launch :
    pc[l] \in {"lock", "probing", "resolve"} => read[l] = None \/ Seen(read[l])
(* What is in the file when a repair is made was vouched for, or is about to be by the
   launch that will offer it. *)
RepairSeen ==
  \A l \in Launch :
    /\ At(l, "retrust") => Seen(config)
    /\ Offers(l) =>
         /\ pc[l] \in {"lock", "probing", "resolve"} => Seen(config)
         /\ At(l, "trust") => Seen(config) \/ config = read[l]
GoDone == \A l \in Launch : pc[l] \in Going \/ Up(l) => Judged(l)
UpLate ==
  \A l \in Launch : Up(l) => pc[l] \in {"leaving", "waiting", "release", "cleanup", "over"}
WatchdogLate == \A l \in Launch : P(l, "watchdog") \in alive => pc[l] \in {"leaving", "over"}

JParts == StoreVouched /\ WelcomeDone /\ TrustDone /\ RepairSeen /\ GoDone /\ UpLate
            /\ WatchdogLate
JInv   == TypeOK /\ JParts

LEMMA NoneUnfit == \A a : ~Fit(None, a)
  BY DEF Fit, Resolved, PresetOf

(* Without a config there is no preset to repair. *)
LEMMA NothingOffered == ASSUME NEW l, Offers(l) PROVE read[l] # None
  BY DEF Offers, Repairable, Resolved, PresetOf

LEMMA JReads == ASSUME JInv, NEW l \in Launch, Reads(l) PROVE JParts'
<1> USE DEF JInv, JParts, StoreVouched, WelcomeDone, TrustDone, RepairSeen, GoDone, UpLate,
            WatchdogLate, Up, Seen, Welcomed, Offers, Human,
            Judged, Going, TypeOK, files, trees, mine, procs, At, Goto, P, Closed, Dies
<1>1. CASE Call(l) BY <1>1 DEF Call
<1>2. CASE Welcome(l) BY <1>2 DEF Welcome
<1>3. CASE Load(l) BY <1>3 DEF Load
<1>4. CASE CheckTrust(l)
  <2>1. read[l] = None \/ Seen(read[l])
    BY <1>4 DEF CheckTrust, IsTrusted
  <2>2. Offers(l) => Seen(config)
    BY <1>4, <2>1, NothingOffered DEF CheckTrust
  <2>3. RepairSeen'
    BY <1>4, <2>2 DEF CheckTrust
  <2>4. TrustDone'
    BY <1>4, <2>1 DEF CheckTrust
  <2> QED BY <1>4, <2>3, <2>4 DEF CheckTrust
<1>5. CASE Vouch(l) BY <1>5 DEF Vouch
<1>6. CASE RefuseUntrusted(l) BY <1>6 DEF RefuseUntrusted
<1> QED BY <1>1, <1>2, <1>3, <1>4, <1>5, <1>6 DEF Reads

LEMMA JChecks == ASSUME JInv, NEW l \in Launch, Checks(l) PROVE JParts'
<1> USE DEF JInv, JParts, StoreVouched, WelcomeDone, TrustDone, RepairSeen, GoDone, UpLate,
            WatchdogLate, Up, Seen, Welcomed, Offers, Human,
            Judged, Going, TypeOK, files, trees, mine, procs, At, Goto, P, Closed, Dies
<1>1. CASE Busy(l) BY <1>1 DEF Busy
<1>2. CASE Repair(l) BY <1>2 DEF Repair
<1>3. CASE Retrust(l) BY <1>3 DEF Retrust
<1>4. CASE Preflight(l)
  <2>1. CASE pc'[l] = "over"
    BY <1>4, <2>1 DEF Preflight
  <2>2. CASE pc'[l] # "over"
    <3>1. Fit(read[l], arg[l]) /\ ~arg[l].check
      BY <1>4, <2>2 DEF Preflight, Go, Fit
    <3>2. Judged(l)
      BY <1>4, <3>1, NoneUnfit DEF Preflight
    <3> QED BY <1>4, <3>2 DEF Preflight
  <2> QED BY <2>1, <2>2
<1>5. CASE Confirm(l) BY <1>5 DEF Confirm
<1>6. CASE ChooseTree(l) BY <1>6 DEF ChooseTree
<1> QED BY <1>1, <1>2, <1>3, <1>4, <1>5, <1>6 DEF Checks

LEMMA JLocks == ASSUME JInv, NEW l \in Launch, Locks(l) \/ Waits(l) PROVE JParts'
<1> USE DEF JInv, JParts, StoreVouched, WelcomeDone, TrustDone, RepairSeen, GoDone, UpLate,
            WatchdogLate, Up, Seen, Welcomed, Offers, Human,
            Judged, Going, TypeOK, files, trees, mine, procs, At, Goto, P, Closed, Dies
<1>1. CASE Lock(l)
  <2>1. RepairSeen'
    BY <1>1 DEF Lock
  <2>2. StoreVouched' /\ WelcomeDone' /\ TrustDone'
    BY <1>1 DEF Lock
  <2>3. GoDone' /\ UpLate' /\ WatchdogLate'
    BY <1>1 DEF Lock
  <2> QED BY <2>1, <2>2, <2>3
<1>2. CASE Unprobe(l) BY <1>2 DEF Unprobe
<1>3. CASE Leave(l) BY <1>3 DEF Leave
<1>4. CASE IsolateFails(l) BY <1>4 DEF IsolateFails
<1>5. CASE Release(l) BY <1>5 DEF Release
<1>6. CASE SessionOver(l) BY <1>6 DEF SessionOver
<1>7. CASE Interrupt(l) BY <1>7 DEF Interrupt
<1> QED BY <1>1, <1>2, <1>3, <1>4, <1>5, <1>6, <1>7 DEF Locks, Waits

LEMMA JMoves == ASSUME JInv, NEW l \in Launch, Moves(l) \/ Start(l) PROVE JParts'
<1> USE DEF JInv, JParts, StoreVouched, WelcomeDone, TrustDone, RepairSeen, GoDone, UpLate,
            WatchdogLate, Up, Seen, Welcomed, Offers, Human,
            Judged, Going, TypeOK, files, trees, mine, procs, At, Goto, P, Closed, Dies
<1>1. CASE Reclaim(l) BY <1>1 DEF Reclaim
<1>2. CASE Isolate(l) BY <1>2 DEF Isolate
<1>3. CASE Cleanup(l) BY <1>3 DEF Cleanup
<1>4. CASE AgentWorks(l) BY <1>4 DEF AgentWorks
<1>5. CASE SpawnForeground(l) BY <1>5 DEF SpawnForeground
<1>6. CASE SpawnChild(l) BY <1>6 DEF SpawnChild
<1>7. CASE SpawnSession(l) BY <1>7 DEF SpawnSession
<1> QED BY <1>1, <1>2, <1>3, <1>4, <1>5, <1>6, <1>7 DEF Moves, Start

LEMMA JEnds == ASSUME JInv, NEW l \in Launch, Ends(l) PROVE JParts'
<1> USE DEF JInv, JParts, StoreVouched, WelcomeDone, TrustDone, RepairSeen, GoDone, UpLate,
            WatchdogLate, Up, Seen, Welcomed, Offers, Human,
            Judged, Going, TypeOK, files, trees, mine, procs, At, Goto, P, Closed, Dies
<1>1. CASE WatchdogStarts(l) BY <1>1 DEF WatchdogStarts
<1>2. CASE WatchdogReplaces(l) BY <1>2 DEF WatchdogReplaces
<1>3. CASE WatchdogStops(l) BY <1>3 DEF WatchdogStops
<1>4. CASE WatchdogExits(l) BY <1>4 DEF WatchdogExits
<1>5. CASE AgentEnds(l) BY <1>5 DEF AgentEnds
<1>6. CASE KillChild(l) BY <1>6 DEF KillChild
<1>7. CASE KillLauncher(l) BY <1>7 DEF KillLauncher
<1> QED BY <1>1, <1>2, <1>3, <1>4, <1>5, <1>6, <1>7 DEF Ends

LEMMA JWorld == ASSUME JInv, World PROVE JParts'
<1> USE DEF JInv, JParts, StoreVouched, WelcomeDone, TrustDone, RepairSeen, GoDone, UpLate,
            WatchdogLate, Up, Seen, Welcomed, Offers, Human,
            Judged, Going, TypeOK, files, trees, mine, procs, At, Goto, P, Closed, Dies
<1>1. CASE Edit
  <2>1. RepairSeen'
    <3>1. CASE EditsDuringRepair
      BY <3>1
    <3>2. CASE ~EditsDuringRepair
      <4>1. \A l \in Launch : ~Repairing(l)
        BY <1>1, <3>2 DEF Edit
      <4> QED BY <1>1, <4>1 DEF Edit, Repairing
    <3> QED BY <3>1, <3>2
  <2>2. StoreVouched' /\ WelcomeDone' /\ TrustDone'
    BY <1>1 DEF Edit
  <2>3. GoDone' /\ UpLate' /\ WatchdogLate'
    BY <1>1 DEF Edit
  <2> QED BY <2>1, <2>2, <2>3
<1>2. CASE TrustCommand BY <1>2 DEF TrustCommand
<1>3. CASE TreeChanges BY <1>3 DEF TreeChanges
<1>4. CASE UNCHANGED vars BY <1>4 DEF vars
<1> QED BY <1>1, <1>2, <1>3, <1>4 DEF World

LEMMA JInit == Init => JInv
  BY TInit DEF Init, JInv, JParts, StoreVouched, WelcomeDone, TrustDone, RepairSeen, GoDone,
               UpLate, WatchdogLate, Up, Going, At, P

LEMMA JStep == JInv /\ [Next]_vars => JInv'
<1> SUFFICES ASSUME JInv, [Next]_vars PROVE JInv'
  OBVIOUS
<1>1. TypeOK'
  BY ByGroup, TReads, TChecks, TLocks, TMoves, TEnds, TWorld DEF JInv
<1>2. JParts'
  BY ByGroup, JReads, JChecks, JLocks, JMoves, JEnds, JWorld
<1> QED BY <1>1, <1>2 DEF JInv

(* As long as nobody edits the file between its read by a launch that offers a repair and
   the trust after it, every agent runs by a config that was vouched for, the change of a
   repair having been shown, whoever edits the file otherwise, whoever is killed. *)
THEOREM OnlyTrusted == ASSUME ~EditsDuringRepair PROVE Spec => []RunsWhatWasTrusted
<1>1. JInv => RunsWhatWasTrusted
  BY DEF JInv, JParts, GoDone, Up, Judged, Seen, RunsWhatWasTrusted, Running
<1> QED BY JInit, JStep, <1>1, PTL DEF Spec

Presets(c) == {c.agents[n] : n \in DOMAIN c.agents} \cup ({c.legacy} \ {None})

(* No settings file is good enough to be taken for a mode that the command line overrides. *)
NothingOverridden ==
  \A c \in Config : \A p \in Presets(c) :
    p.program = "claude" /\ p.level = "gated" => Mode \notin {"full", "auto"}

(* The preset selected is one of the config's. *)
LEMMA PresetKnown ==
  ASSUME NEW c \in Config, NEW flag, Resolved(c, flag)
  PROVE  PresetOf(c, flag) \in Presets(c)
<1>1. PresetOf(c, flag) # None
  BY DEF Resolved
<1> QED BY <1>1 DEF PresetOf, Presets

(* As long as the folder's registration goes through and no settings file is judged in
   place of an explicit mode, every detached agent in the primary tree has a trusted folder
   and the permissions to go on alone, for any config, any repair and any kill. *)
THEOREM NobodyNeeded ==
  ASSUME ~WelcomeFails, NothingOverridden PROVE Spec => []NeverStuck
<1>1. JInv => NeverStuck
  <2> SUFFICES ASSUME JInv, NEW l \in Launch, Running(l), home[l] = Primary, ~arg[l].fg
               PROVE  /\ Primary \in folders
                      /\ \/ PresetOf(read[l], arg[l].agent).program = "custom"
                         \/ Effective(PresetOf(read[l], arg[l].agent)) \in {"full", "auto"}
    BY DEF NeverStuck
  <2> DEFINE p == PresetOf(read[l], arg[l].agent)
  <2>1. Primary \in folders /\ Fit(read[l], arg[l])
    BY DEF JInv, JParts, GoDone, Up, Judged, Welcomed, Running
  <2>2. p.program = "custom" \/ Level(p) \in {"full", "auto"}
    BY <2>1 DEF Fit, PermissionOk
  <2>3. read[l] \in Config
    BY <2>1, NoneUnfit DEF JInv, TypeOK
  <2>4. p \in Presets(read[l])
    BY <2>1, <2>3, PresetKnown DEF Fit
  <2>5. p.program = "claude" /\ p.level = "gated" => Mode \notin {"full", "auto"}
    BY <2>3, <2>4 DEF NothingOverridden
  <2> QED BY <2>1, <2>2, <2>5 DEF Level, Effective, ByDefault
<1> QED BY JInit, JStep, <1>1, PTL DEF Spec

-----------------------------------------------------------------------------
(* The worktree *)

Early == {"idle", "begin", "load", "trust", "lock", "probing", "resolve", "retrust",
          "confirm", "policy", "reclaim", "isolate"}

StillHome == \A l \in Launch : pc[l] \in Early => home[l] = Primary
HomeKept ==
  \A l \in Launch : Up(l) \/ pc[l] \in {"spawn", "waiting"} => home[l] \in {Primary, worktree}
LeftAlone ==
  \A l \in Launch : pc[l] \in {"release", "cleanup"} /\ home[l] # Primary => ~Up(l)

(* Who is about to move the worktree is alone: the others are not started. *)
Alone ==
  \A k, l \in Launch : pc[l] \in {"reclaim", "isolate"} /\ k # l =>
    ~Up(k) /\ pc[k] \notin {"spawn", "waiting"}

LEMMA LockAlone == LInv => Alone
<1> SUFFICES ASSUME LInv, NEW k \in Launch, NEW l \in Launch, pc[l] \in {"reclaim", "isolate"},
                    k # l
             PROVE  ~Up(k) /\ pc[k] \notin {"spawn", "waiting"}
  BY DEF Alone
<1>1. P(l, "launcher") \in fds
  BY DEF LInv, LauncherHolds, Locked
<1>2. \A r : P(k, r) \notin fds
  BY <1>1 DEF LInv, OneHolder, P
<1> QED BY <1>2 DEF LInv, LauncherHolds, Locked, WatchdogHolds, AgentHolds, Running, Up

WParts == StillHome /\ HomeKept /\ LeftAlone
WInv   == TypeOK /\ Alone /\ UpLate /\ WatchdogLate /\ WParts

LEMMA WReads == ASSUME WInv, NEW l \in Launch, Reads(l) PROVE WParts'
<1> USE DEF WInv, WParts, StillHome, HomeKept, LeftAlone, Alone, UpLate, WatchdogLate,
            Up, Early,
            TypeOK, files, trees, mine, procs, At, Goto, P, Closed, Dies
<1>1. CASE Call(l) BY <1>1 DEF Call
<1>2. CASE Welcome(l) BY <1>2 DEF Welcome
<1>3. CASE Load(l) BY <1>3 DEF Load
<1>4. CASE CheckTrust(l) BY <1>4 DEF CheckTrust
<1>5. CASE Vouch(l) BY <1>5 DEF Vouch
<1>6. CASE RefuseUntrusted(l) BY <1>6 DEF RefuseUntrusted
<1> QED BY <1>1, <1>2, <1>3, <1>4, <1>5, <1>6 DEF Reads

LEMMA WChecks == ASSUME WInv, NEW l \in Launch, Checks(l) PROVE WParts'
<1> USE DEF WInv, WParts, StillHome, HomeKept, LeftAlone, Alone, UpLate, WatchdogLate,
            Up, Early,
            TypeOK, files, trees, mine, procs, At, Goto, P, Closed, Dies
<1>1. CASE Busy(l) BY <1>1 DEF Busy
<1>2. CASE Repair(l) BY <1>2 DEF Repair
<1>3. CASE Retrust(l) BY <1>3 DEF Retrust
<1>4. CASE Preflight(l) BY <1>4 DEF Preflight
<1>5. CASE Confirm(l) BY <1>5 DEF Confirm
<1>6. CASE ChooseTree(l) BY <1>6 DEF ChooseTree
<1> QED BY <1>1, <1>2, <1>3, <1>4, <1>5, <1>6 DEF Checks

LEMMA WLocks == ASSUME ~Interrupts, WInv, NEW l \in Launch, Locks(l) \/ Waits(l) PROVE WParts'
<1> USE DEF WInv, WParts, StillHome, HomeKept, LeftAlone, Alone, UpLate, WatchdogLate,
            Up, Early,
            TypeOK, files, trees, mine, procs, At, Goto, P, Closed, Dies
<1>1. CASE Lock(l) BY <1>1 DEF Lock
<1>2. CASE Unprobe(l) BY <1>2 DEF Unprobe
<1>3. CASE Leave(l) BY <1>3 DEF Leave
<1>4. CASE IsolateFails(l) BY <1>4 DEF IsolateFails
<1>5. CASE Release(l) BY <1>5 DEF Release
<1>6. CASE SessionOver(l) BY <1>6 DEF SessionOver
<1>7. CASE Interrupt(l) BY <1>7 DEF Interrupt
<1> QED BY <1>1, <1>2, <1>3, <1>4, <1>5, <1>6, <1>7 DEF Locks, Waits

LEMMA WMoves == ASSUME WInv, NEW l \in Launch, Moves(l) \/ Start(l) PROVE WParts'
<1> USE DEF WInv, WParts, StillHome, HomeKept, LeftAlone, Alone, UpLate, WatchdogLate,
            Up, Early,
            TypeOK, files, trees, mine, procs, At, Goto, P, Closed, Dies
<1>1. CASE Reclaim(l) BY <1>1 DEF Reclaim
<1>2. CASE Isolate(l) BY <1>2 DEF Isolate
<1>3. CASE Cleanup(l) BY <1>3 DEF Cleanup
<1>4. CASE AgentWorks(l) BY <1>4 DEF AgentWorks
<1>5. CASE SpawnForeground(l) BY <1>5 DEF SpawnForeground
<1>6. CASE SpawnChild(l) BY <1>6 DEF SpawnChild
<1>7. CASE SpawnSession(l) BY <1>7 DEF SpawnSession
<1> QED BY <1>1, <1>2, <1>3, <1>4, <1>5, <1>6, <1>7 DEF Moves, Start

LEMMA WEnds == ASSUME WInv, NEW l \in Launch, Ends(l) PROVE WParts'
<1> USE DEF WInv, WParts, StillHome, HomeKept, LeftAlone, Alone, UpLate, WatchdogLate,
            Up, Early,
            TypeOK, files, trees, mine, procs, At, Goto, P, Closed, Dies
<1>1. CASE WatchdogStarts(l) BY <1>1 DEF WatchdogStarts
<1>2. CASE WatchdogReplaces(l) BY <1>2 DEF WatchdogReplaces
<1>3. CASE WatchdogStops(l) BY <1>3 DEF WatchdogStops
<1>4. CASE WatchdogExits(l) BY <1>4 DEF WatchdogExits
<1>5. CASE AgentEnds(l) BY <1>5 DEF AgentEnds
<1>6. CASE KillChild(l) BY <1>6 DEF KillChild
<1>7. CASE KillLauncher(l) BY <1>7 DEF KillLauncher
<1> QED BY <1>1, <1>2, <1>3, <1>4, <1>5, <1>6, <1>7 DEF Ends

LEMMA WWorld == ASSUME WInv, World PROVE WParts'
<1> USE DEF WInv, WParts, StillHome, HomeKept, LeftAlone, Alone, UpLate, WatchdogLate,
            Up, Early,
            TypeOK, files, trees, mine, procs, At, Goto, P, Closed, Dies
<1>1. CASE Edit BY <1>1 DEF Edit
<1>2. CASE TrustCommand BY <1>2 DEF TrustCommand
<1>3. CASE TreeChanges BY <1>3 DEF TreeChanges
<1>4. CASE UNCHANGED vars BY <1>4 DEF vars
<1> QED BY <1>1, <1>2, <1>3, <1>4 DEF World

(* With neither an interrupted supervisor nor a watchdog that is killed outright, the tree
   of a run stays where it is. *)
THEOREM TreeStays ==
  ASSUME ~Interrupts, "watchdog" \notin KillAt PROVE Spec => []LiveTreeKept
<1> DEFINE IInv == LInv /\ JInv /\ WParts
<1>1. Init => IInv
  BY LInit, JInit DEF Init, WParts, StillHome, HomeKept, LeftAlone, Up, P
<1>2. IInv /\ [Next]_vars => IInv'
  <2> SUFFICES ASSUME IInv, [Next]_vars PROVE IInv'
    OBVIOUS
  <2>1. LInv' /\ JInv'
    BY LStep, JStep
  <2>2. WInv
    BY LockAlone DEF WInv, JInv, JParts
  <2>3. WParts'
    BY <2>2, ByGroup, WReads, WChecks, WLocks, WMoves, WEnds, WWorld
  <2> QED BY <2>1, <2>3
<1>3. IInv => LiveTreeKept
  BY DEF WParts, HomeKept, Up, LiveTreeKept, Running
<1> QED BY <1>1, <1>2, <1>3, PTL DEF Spec
=============================================================================
