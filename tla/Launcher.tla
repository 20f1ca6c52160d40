------------------------------ MODULE Launcher ------------------------------
(***************************************************************************)
(* ans-run (launcher.py, trust.py): several launches of one working tree   *)
(* race for its lock, read and repair a configuration that others edit,    *)
(* move the run to a worktree, and start an agent in one of four ways      *)
(* (foreground, fresh sessions, under the watchdog, bare), while any       *)
(* process may be killed.                                                  *)
(*                                                                         *)
(* The tree lock is a flock: it is held as long as some process has the    *)
(* open file description, and the kernel closes it for a process that dies.*)
(***************************************************************************)
EXTENDS Naturals, Preflight

CONSTANTS
  Launch,        \* the ans-run processes
  Args,          \* the command lines they are called with
  Config,        \* what the config file may hold
  KillAt,        \* the roles that may be killed
  Interrupts,    \* may a Ctrl-C reach the supervisor of an isolated run?
  EditsDuringRepair,  \* may the file change between its read by a launch that offers a
                      \* repair and its trust after the repair?
  WelcomeFails,  \* may the registration of the folder fail, which no launch minds?
  MaxSessions,   \* bound: SESSION_RESPAWN_CAP
  MaxRestarts    \* bound: launcher.watchdog.max_restarts

(* agent: the preset named with --agent, or None. *)
IsArg(a) ==
  /\ DOMAIN a = {"check", "fg", "tty", "yes", "watchdog", "agent"}
  /\ {a.check, a.fg, a.tty, a.yes, a.watchdog} \subseteq BOOLEAN
Primary == "primary"    \* the working tree ans-run was pointed at
Role    == {"launcher", "watchdog", "agent"}

ASSUME LauncherAssumption ==
  /\ (\A a \in Args : IsArg(a)) /\ KillAt \subseteq Role /\ None \notin Config \cup Launch
  /\ Primary \notin Launch
  /\ {Interrupts, EditsDuringRepair, WelcomeFails} \subseteq BOOLEAN
  /\ {MaxSessions, MaxRestarts} \subseteq Nat
  /\ \A c \in Config :
       /\ IsConfig(c)
       /\ \A n \in DOMAIN c.agents \cup {None} : CanRepair(c, n) => Repaired(c, n) \in Config

NoArg == [check |-> TRUE, fg |-> FALSE, tty |-> FALSE, yes |-> FALSE, watchdog |-> FALSE,
          agent |-> None]

VARIABLES
  config,    \* the config file, or None
  store,     \* trusted.json: the config trusted for this repository, or None
  folders,   \* ~/.claude.json: the folders whose trust dialog is answered
  dirty,     \* has the primary tree tracked changes?
  worktree,  \* the launch whose isolated worktree exists, or None
  unfinished, \* the trees that hold the state of an unfinished run
  pc, arg,   \* the step each launch has reached, and its command line
  read,      \* the config it read
  home,      \* the tree it runs in
  count,     \* sessions begun, or restarts made
  alive,     \* the watchdogs and agents alive, as <<launch, role>>
  fds,       \* the processes that have the lock's file description
  vouched    \* history: the configs a human has vouched for, the whole file or what was
             \* vouched for before with the one change shown

files  == <<config, store, folders>>
trees  == <<dirty, worktree, unfinished>>
mine   == <<arg, read, home, count>>
procs  == <<alive, fds>>
vars   == <<files, trees, mine, procs, pc, vouched>>

Steps == {"idle", "begin", "load", "trust", "lock", "probing", "resolve", "retrust",
          "confirm", "policy", "reclaim", "isolate", "spawn", "leaving", "waiting",
          "release", "cleanup", "over"}
Tree  == {Primary} \cup Launch

TypeOK ==
  /\ config \in Config \cup {None} /\ store \in Config \cup {None}
  /\ folders \subseteq Tree /\ dirty \in BOOLEAN
  /\ worktree \in Launch \cup {None}
  /\ unfinished \subseteq Tree
  /\ pc \in [Launch -> Steps] /\ arg \in [Launch -> Args \cup {NoArg}]
  /\ read \in [Launch -> Config \cup {None}]
  /\ home \in [Launch -> Tree] /\ \A l \in Launch : home[l] \in {Primary, l}
  /\ count \in [Launch -> Nat]
  /\ alive \subseteq Launch \X {"watchdog", "agent"} /\ fds \subseteq Launch \X Role
  /\ vouched \subseteq Config

Init ==
  /\ config \in Config \cup {None} /\ store = None /\ folders = {}
  /\ dirty = FALSE /\ worktree = None /\ unfinished = {}
  /\ pc = [l \in Launch |-> "idle"] /\ arg = [l \in Launch |-> NoArg]
  /\ read = [l \in Launch |-> None] /\ home = [l \in Launch |-> Primary]
  /\ count = [l \in Launch |-> 0] /\ alive = {} /\ fds = {}
  /\ vouched = {}

P(l, role)  == <<l, role>>
At(l, step) == pc[l] = step
Goto(l, step) == pc' = [pc EXCEPT ![l] = step]
(* _release, or the end of the process: the launcher's copy is closed. *)
Closed(l)   == fds \ {P(l, "launcher")}
Human(l)    == arg[l].tty /\ ~arg[l].yes

-----------------------------------------------------------------------------
(* before the lock *)

Call(l) ==
  /\ At(l, "idle") /\ \E a \in Args : arg' = [arg EXCEPT ![l] = a]
  /\ Goto(l, "begin")
  /\ UNCHANGED <<files, trees, read, home, count, procs, vouched>>

(* ensure_workspace_trusted: the folder trusted is the one ans-run was pointed at. What
   goes wrong in there is reported and forgotten. *)
Welcome(l) ==
  /\ At(l, "begin") /\ Goto(l, "load")
  /\ \/ ~arg[l].check /\ folders' = folders \cup {Primary}
     \/ (arg[l].check \/ WelcomeFails) /\ UNCHANGED folders
  /\ UNCHANGED <<config, store, trees, mine, procs, vouched>>

(* load_launcher_config: the file is read once; its hash is that of what is parsed. *)
Load(l) ==
  /\ At(l, "load") /\ Goto(l, "trust")
  /\ read' = [read EXCEPT ![l] = config]
  /\ UNCHANGED <<files, trees, arg, home, count, procs, vouched>>

(* Mutant: any entry of the trust store will do. *)
IsTrustedAny(c) == c = None \/ store # None
IsTrusted(c) == c = None \/ store = c

CheckTrust(l) ==
  /\ At(l, "trust") /\ IsTrusted(read[l]) /\ Goto(l, "lock")
  /\ UNCHANGED <<files, trees, mine, procs, vouched>>

Vouch(l) ==
  /\ At(l, "trust") /\ ~IsTrusted(read[l]) /\ arg[l].tty /\ Goto(l, "lock")
  /\ store' = read[l] /\ vouched' = vouched \cup {read[l]}
  /\ UNCHANGED <<config, folders, trees, mine, procs>>

RefuseUntrusted(l) ==
  /\ At(l, "trust") /\ ~IsTrusted(read[l]) /\ Goto(l, "over")
  /\ UNCHANGED <<files, trees, mine, procs, vouched>>

-----------------------------------------------------------------------------
(* the lock and the pre-flight *)

Lock(l) ==
  /\ At(l, "lock") /\ fds = {}
  /\ fds' = {P(l, "launcher")}
  /\ Goto(l, IF arg[l].check THEN "probing" ELSE "resolve")
  /\ UNCHANGED <<files, trees, mine, alive, vouched>>

Busy(l) ==
  /\ At(l, "lock") /\ fds # {}
  /\ Goto(l, IF arg[l].check THEN "resolve" ELSE "over")
  /\ UNCHANGED <<files, trees, mine, procs, vouched>>

(* --check gives the lock back at once. *)
Unprobe(l) ==
  /\ At(l, "probing") /\ fds' = Closed(l) /\ Goto(l, "resolve")
  /\ UNCHANGED <<files, trees, mine, alive, vouched>>

Offers(l) ==
  Human(l) /\ ~arg[l].fg /\ ~arg[l].check /\ Repairable(read[l], arg[l].agent)

(* The human takes the offer: the file as it is now is rewritten. They are shown the old
   and the new command of the one preset, so they vouch for the file only if they, or
   another, had vouched for the rest ... *)
Repair(l) ==
  /\ At(l, "resolve") /\ Offers(l)
  /\ LET name == PresetName(read[l], arg[l].agent) IN
     /\ CanRepair(config, name) /\ config' = Repaired(config, name)
     /\ vouched' = vouched \cup {Repaired(c, name) : c \in vouched \cap {config}}
  /\ Goto(l, "retrust")
  /\ UNCHANGED <<store, folders, trees, mine, procs>>

(* ... and it is trusted as it is then, and ans-run is run again from its first line. *)
Retrust(l) ==
  /\ At(l, "retrust") /\ config # None
  /\ store' = config
  /\ fds' = Closed(l) /\ Goto(l, "begin")
  /\ UNCHANGED <<config, folders, trees, mine, alive, vouched>>

Preflight(l) ==
  /\ At(l, "resolve")
  /\ \E host \in BOOLEAN :
       IF Go(read[l], arg[l].agent, arg[l].fg, host) /\ ~arg[l].check
       THEN Goto(l, "confirm") /\ UNCHANGED fds
       ELSE Goto(l, "over") /\ fds' = Closed(l)
  /\ UNCHANGED <<files, trees, mine, alive, vouched>>

Confirm(l) ==
  /\ At(l, "confirm")
  /\ \/ Goto(l, "policy") /\ UNCHANGED fds
     \/ Human(l) /\ Goto(l, "over") /\ fds' = Closed(l)
  /\ UNCHANGED <<files, trees, mine, alive, vouched>>

-----------------------------------------------------------------------------
(* isolation *)

ChooseTree(l) ==
  /\ At(l, "policy")
  /\ IF ~Isolates(read[l], dirty, arg[l].fg)
     THEN Goto(l, "spawn") /\ UNCHANGED fds
     ELSE IF arg[l].fg THEN Goto(l, "over") /\ fds' = Closed(l)
     ELSE Goto(l, "reclaim") /\ UNCHANGED fds
  /\ UNCHANGED <<files, trees, mine, alive, vouched>>

(* Every worktree under the root goes, with the run state in it. *)
Reclaim(l) ==
  /\ At(l, "reclaim") /\ Goto(l, "isolate")
  /\ worktree' = None
  /\ unfinished' = unfinished \cap {Primary}
  /\ UNCHANGED <<files, dirty, mine, procs, vouched>>

Isolate(l) ==
  /\ At(l, "isolate") /\ Goto(l, "spawn")
  /\ worktree' = l /\ home' = [home EXCEPT ![l] = l]
  /\ UNCHANGED <<files, dirty, unfinished, arg, read, count, procs, vouched>>

IsolateFails(l) ==
  /\ At(l, "isolate") /\ Goto(l, "over") /\ fds' = Closed(l)
  /\ UNCHANGED <<files, trees, mine, alive, vouched>>

-----------------------------------------------------------------------------
(* the four ways to start *)

Fresh(l) == read[l].fresh

(* --fg: this process becomes the agent and keeps the lock. *)
SpawnForeground(l) ==
  /\ At(l, "spawn") /\ arg[l].fg /\ Goto(l, "over")
  /\ alive' = alive \cup {P(l, "agent")} /\ fds' = Closed(l) \cup {P(l, "agent")}
  /\ UNCHANGED <<files, trees, mine, vouched>>

(* Mutant: the description is not passed on. *)
SpawnChildUnlocked(l) ==
  /\ At(l, "spawn") /\ ~arg[l].fg /\ ~Fresh(l) /\ Goto(l, "leaving")
  /\ LET child == P(l, IF arg[l].watchdog THEN "watchdog" ELSE "agent") IN
     alive' = alive \cup {child} /\ UNCHANGED fds
  /\ UNCHANGED <<files, trees, mine, vouched>>
SpawnChild(l) ==
  /\ At(l, "spawn") /\ ~arg[l].fg /\ ~Fresh(l) /\ Goto(l, "leaving")
  /\ LET child == P(l, IF arg[l].watchdog THEN "watchdog" ELSE "agent") IN
     alive' = alive \cup {child} /\ fds' = fds \cup {child}
  /\ UNCHANGED <<files, trees, mine, vouched>>

Leave(l) ==
  /\ At(l, "leaving") /\ fds' = Closed(l) /\ Goto(l, "over")
  /\ UNCHANGED <<files, trees, mine, alive, vouched>>

SpawnSession(l) ==
  /\ At(l, "spawn") /\ ~arg[l].fg /\ Fresh(l) /\ Goto(l, "waiting")
  /\ count' = [count EXCEPT ![l] = @ + 1]
  /\ alive' = alive \cup {P(l, "agent")} /\ fds' = fds \cup {P(l, "agent")}
  /\ UNCHANGED <<files, trees, arg, read, home, vouched>>

(* run_fresh_session_loop: the sentinel is there as long as the run is unfinished. *)
SessionOver(l) ==
  /\ At(l, "waiting") /\ P(l, "agent") \notin alive
  /\ Goto(l, IF home[l] \in unfinished /\ count[l] < MaxSessions
            THEN "spawn" ELSE "release")
  /\ UNCHANGED <<files, trees, mine, procs, vouched>>

Interrupt(l) ==
  /\ At(l, "waiting") /\ (Interrupts \/ home[l] = Primary) /\ Goto(l, "release")
  /\ UNCHANGED <<files, trees, mine, procs, vouched>>

(* The two finally blocks: the lock first, then the worktree. *)
Release(l) ==
  /\ At(l, "release") /\ fds' = Closed(l)
  /\ Goto(l, IF home[l] = Primary THEN "over" ELSE "cleanup")
  /\ UNCHANGED <<files, trees, mine, alive, vouched>>

(* Mutant: whatever worktree there is under the root goes. *)
CleanupAll(l) ==
  /\ At(l, "cleanup") /\ Goto(l, "over")
  /\ worktree' = None
  /\ unfinished' = unfinished \ {l}
  /\ UNCHANGED <<files, dirty, mine, procs, vouched>>
(* A removal that git refuses leaves it there. *)
Cleanup(l) ==
  /\ At(l, "cleanup") /\ Goto(l, "over")
  /\ \/ /\ worktree' = IF worktree = l THEN None ELSE worktree
        /\ unfinished' = unfinished \ {l}
     \/ UNCHANGED <<worktree, unfinished>>
  /\ UNCHANGED <<files, dirty, mine, procs, vouched>>

-----------------------------------------------------------------------------
(* the run *)

AgentWorks(l) ==
  /\ P(l, "agent") \in alive
  /\ home[l] \in {Primary, worktree}
  /\ unfinished' = unfinished \cup {home[l]}
  /\ UNCHANGED <<files, dirty, worktree, mine, procs, pc, vouched>>

Dies(p) == alive' = alive \ {p} /\ fds' = fds \ {p}

(* An agent that has drained the backlog, or given up. *)
AgentEnds(l) ==
  /\ P(l, "agent") \in alive /\ Dies(P(l, "agent"))
  /\ unfinished' \in {unfinished, unfinished \ {home[l]}}
  /\ UNCHANGED <<files, dirty, worktree, mine, pc, vouched>>

(* watchdog.py: its agent is a child without the description. *)
WatchdogStarts(l) ==
  /\ P(l, "watchdog") \in alive /\ count[l] = 0
  /\ alive' = alive \cup {P(l, "agent")}
  /\ count' = [count EXCEPT ![l] = 1]
  /\ UNCHANGED <<files, trees, arg, read, home, fds, pc, vouched>>

(* A hung agent is killed, and another started in its place. *)
WatchdogReplaces(l) ==
  /\ {P(l, "watchdog"), P(l, "agent")} \subseteq alive /\ count[l] <= MaxRestarts
  /\ count' = [count EXCEPT ![l] = @ + 1]
  /\ UNCHANGED <<files, trees, arg, read, home, procs, pc, vouched>>

(* A signal to the watchdog, or the last restart used up: the agent goes with it. *)
WatchdogStops(l) ==
  /\ P(l, "watchdog") \in alive
  /\ alive' = alive \ {P(l, "agent"), P(l, "watchdog")}
  /\ fds' = fds \ {P(l, "watchdog")}
  /\ UNCHANGED <<files, trees, mine, pc, vouched>>

WatchdogExits(l) ==
  /\ P(l, "watchdog") \in alive /\ P(l, "agent") \notin alive /\ count[l] > 0
  /\ Dies(P(l, "watchdog"))
  /\ UNCHANGED <<files, trees, mine, pc, vouched>>

KillChild(l) ==
  /\ \E role \in KillAt \cap {"watchdog", "agent"} :
       P(l, role) \in alive /\ Dies(P(l, role))
  /\ UNCHANGED <<files, trees, mine, pc, vouched>>

KillLauncher(l) ==
  /\ "launcher" \in KillAt /\ pc[l] \notin {"idle", "over"}
  /\ fds' = Closed(l) /\ Goto(l, "over")
  /\ UNCHANGED <<files, trees, mine, alive, vouched>>

(* From the read of a launch with a repair to offer to the trust after it. *)
Repairing(l) ==
  At(l, "retrust") \/ (pc[l] \in {"trust", "lock", "probing", "resolve"} /\ Offers(l))

(* The operator, and whatever else writes the repository. *)
Edit ==
  /\ EditsDuringRepair \/ \A l \in Launch : ~Repairing(l)
  /\ config' \in Config
  /\ UNCHANGED <<store, folders, trees, mine, procs, pc, vouched>>

(* --trust: the operator has looked the file through. *)
TrustCommand ==
  /\ config # None /\ store' = config /\ vouched' = vouched \cup {config}
  /\ UNCHANGED <<config, folders, trees, mine, procs, pc>>

TreeChanges ==
  /\ dirty' = ~dirty
  /\ UNCHANGED <<files, worktree, unfinished, mine, procs, pc, vouched>>

Start(l) == SpawnForeground(l) \/ SpawnChild(l) \/ SpawnSession(l)
Next ==
  \/ \E l \in Launch :
       \/ Call(l) \/ Welcome(l) \/ Load(l) \/ CheckTrust(l) \/ Vouch(l) \/ RefuseUntrusted(l)
       \/ Lock(l) \/ Busy(l) \/ Unprobe(l) \/ Repair(l) \/ Retrust(l) \/ Preflight(l)
       \/ Confirm(l) \/ ChooseTree(l) \/ Reclaim(l) \/ Isolate(l) \/ IsolateFails(l)
       \/ Start(l) \/ Leave(l) \/ SessionOver(l) \/ Interrupt(l) \/ Release(l) \/ Cleanup(l)
       \/ AgentWorks(l) \/ AgentEnds(l) \/ WatchdogStarts(l) \/ WatchdogReplaces(l)
       \/ WatchdogStops(l) \/ WatchdogExits(l)
       \/ KillChild(l) \/ KillLauncher(l)
  \/ Edit \/ TrustCommand \/ TreeChanges

Spec == Init /\ [][Next]_vars

-----------------------------------------------------------------------------
(* PROPERTIES *)

Running(l) == P(l, "agent") \in alive

(* At most one launch of a working tree has an agent at work, whatever is killed
   (acquire_lock; the description handed to whoever outlives the launcher). *)
OneRunPerTree == \A k, l \in Launch : Running(k) /\ Running(l) => k = l

(* The worktree a run was isolated in is there as long as its agent: neither the next
   launch, which sweeps the root, nor a supervisor on its way out takes it away. *)
LiveTreeKept == \A l \in Launch : Running(l) => home[l] \in {Primary, worktree}

(* What an agent runs by is a config a human has vouched for: the file they trusted, or
   that file with the change of a repair they were shown (trust.py, check_trust,
   offer_permission_repair), whoever edits the file before, and between the trust decision
   and the start. *)
RunsWhatWasTrusted == \A l \in Launch : Running(l) => read[l] \in vouched

(* A detached agent in the primary tree can get on with nobody there: its folder is
   trusted, and its flags, or for want of them the settings files, let it work without a
   prompt or a denial (ensure_workspace_trusted, check_detached_permission_mode). *)
NeverStuck ==
  \A l \in Launch :
    Running(l) /\ home[l] = Primary /\ ~arg[l].fg =>
      /\ Primary \in folders
      /\ LET p == PresetOf(read[l], arg[l].agent) IN
         p.program = "custom" \/ Effective(p) \in {"full", "auto"}
=============================================================================
