------------------------------ MODULE Watchdog ------------------------------
(***************************************************************************)
(* The heartbeat watchdog (watchdog.py, heartbeat.py, reap.py): it starts  *)
(* the agent, looks at the age of the heartbeat file and at the agent's    *)
(* descendants, and replaces an agent whose heartbeat has gone stale.      *)
(*                                                                         *)
(* Time passes in the sleep of the loop, one unit a round, and in a kill.  *)
(***************************************************************************)
EXTENDS Naturals

CONSTANTS
  Grace, EarlyStale, Stale, Poll, MaxRestarts,   \* the options of the command line
  Boot,      \* a working agent beats before it is this old ...
  Gap,       \* ... and then at least this often
  Kids,      \* processes an agent may start, directly or through one another
  Deaf,      \* those that ignore a SIGTERM
  Windows    \* "exit": an agent may exit while it is judged; "signal": the operator may
             \* stop the watchdog while no agent is registered, or after the agent's exit

ASSUME WatchdogAssumption ==
  /\ {EarlyStale, MaxRestarts} \subseteq Nat
  /\ {Grace, Stale, Poll, Boot, Gap} \subseteq Nat \ {0}
  /\ Deaf \subseteq Kids /\ Windows \subseteq {"exit", "signal"}

VARIABLES
  pc,          \* where the loop is
  child,       \* the agent last started
  registered,  \* is it the one the signal handler knows?
  up,          \* its age
  beaten,      \* history: has it written a heartbeat?
  age,         \* of the heartbeat file
  checked,     \* time since last_stale_check
  early,       \* early_stale_checked
  restarts, result,
  kids,        \* the agent's descendants: what a walk of the process tree finds
  snap, snapped,   \* last_tree, and the time since last_snap
  strays,      \* processes that outlived their agent, or a parent between it and them
  known        \* history: of the last snapshot, those that were the agent's to its end

clock == <<up, age, checked, snapped>>
tree  == <<kids, snap, strays, known>>
rest  == <<registered, early, restarts, result>>
vars  == <<pc, child, clock, beaten, tree, rest>>

Latest(a, b) == IF a > b THEN a ELSE b
\* Bounds: older is not told apart.  The oldest heartbeat also stands for a missing file.
UpCap  == Grace + EarlyStale
AgeCap == Latest(Stale, UpCap) + Poll + 1
Later(t, cap) == IF t < cap THEN t + 1 ELSE t

Running == child \in {"working", "hung"}

TypeOK ==
  /\ pc \in {"spawn", "register", "poll", "judge", "sleep", "kill", "count", "stopped"}
  /\ child \in {"none", "working", "hung", "exited", "killed"}
  /\ up \in 0 .. UpCap /\ age \in 0 .. AgeCap
  /\ checked \in 0 .. Poll /\ snapped \in 0 .. Poll
  /\ registered \in BOOLEAN /\ beaten \in BOOLEAN /\ early \in BOOLEAN
  /\ restarts \in 0 .. MaxRestarts + 1 /\ result \in {"none", "rc", "75", "signal"}
  /\ kids \subseteq Kids /\ snap \subseteq Kids /\ strays \subseteq Kids /\ known \subseteq Kids

\* The heartbeat of an earlier run may still be there.
Init ==
  /\ pc = "spawn" /\ child = "none" /\ registered = FALSE /\ beaten = FALSE
  /\ up = 0 /\ age \in 1 .. AgeCap /\ checked = 0 /\ snapped = 0
  /\ early = FALSE /\ restarts = 0 /\ result = "none"
  /\ kids = {} /\ snap = {} /\ strays = {} /\ known = {}

-----------------------------------------------------------------------------
(* the loop *)

Spawn ==
  /\ pc = "spawn" /\ pc' = "register"
  /\ child' = "working" /\ registered' = FALSE
  /\ up' = 0 /\ beaten' = FALSE /\ checked' = 0 /\ early' = FALSE
  /\ snap' = {} /\ snapped' = Poll /\ known' = {}
  /\ UNCHANGED <<age, kids, strays, restarts, result>>

Register ==
  /\ pc = "register" /\ pc' = "poll" /\ registered' = TRUE
  /\ UNCHANGED <<child, clock, beaten, tree, early, restarts, result>>

(* Each process is sent one SIGTERM. *)
Reaped(pids) == pids \ Deaf

(* The agent has exited: its exit code is passed on and the last snapshot reaped.
   Mutants: a crash is restarted; nothing is reaped. *)
PassThroughRestarts ==
  /\ pc = "poll" /\ child = "exited" /\ pc' = "count"
  /\ strays' = strays \ Reaped(snap)
  /\ UNCHANGED <<child, clock, beaten, kids, snap, known, rest>>
PassThroughUnreaped ==
  /\ pc = "poll" /\ child = "exited" /\ pc' = "stopped" /\ result' = "rc"
  /\ UNCHANGED <<child, clock, beaten, tree, registered, early, restarts>>
PassThrough ==
  /\ pc = "poll" /\ child = "exited" /\ pc' = "stopped" /\ result' = "rc"
  /\ strays' = strays \ Reaped(snap)
  /\ UNCHANGED <<child, clock, beaten, kids, snap, known, registered, early, restarts>>

StillRunning ==
  /\ pc = "poll" /\ Running /\ pc' = "judge"
  /\ IF snapped >= Poll
       THEN snapped' = 0 /\ snap' = kids /\ known' = kids
       ELSE UNCHANGED <<snapped, snap, known>>
  /\ UNCHANGED <<child, up, age, checked, beaten, kids, strays, rest>>

EarlyDue == EarlyStale > 0 /\ ~early /\ up >= Grace + EarlyStale
(* Mutant: only a stale heartbeat tells that this agent has not beaten. *)
NotStaleYet == age > Stale
NoBeatYet == age > up
Stalled == EarlyDue /\ NoBeatYet

(* Mutant: no grace. *)
CheckDueAtOnce == checked >= Poll
CheckDue == up >= Grace /\ checked >= Poll
Silent == age > Stale

Condemn ==
  /\ pc = "judge" /\ (Stalled \/ (CheckDue /\ Silent)) /\ pc' = "kill"
  /\ early' = (early \/ EarlyDue)
  /\ checked' = IF CheckDue /\ ~Stalled THEN 0 ELSE checked
  /\ UNCHANGED <<child, up, age, snapped, beaten, tree, registered, restarts, result>>

(* Mutant: the clock of the stale check restarts in every round. *)
SpareAndForget ==
  /\ pc = "judge" /\ ~Stalled /\ ~(CheckDue /\ Silent) /\ pc' = "sleep"
  /\ early' = (early \/ EarlyDue) /\ checked' = 0
  /\ UNCHANGED <<child, up, age, snapped, beaten, tree, registered, restarts, result>>
Spare ==
  /\ pc = "judge" /\ ~Stalled /\ ~(CheckDue /\ Silent) /\ pc' = "sleep"
  /\ early' = (early \/ EarlyDue)
  /\ checked' = IF CheckDue THEN 0 ELSE checked
  /\ UNCHANGED <<child, up, age, snapped, beaten, tree, registered, restarts, result>>

(* A working agent beats in time. *)
InTime == child = "working" => IF beaten THEN age < Gap ELSE up + 1 < Boot
Sleep ==
  /\ pc = "sleep" /\ pc' = "poll" /\ InTime
  /\ up' = Later(up, UpCap) /\ age' = Later(age, AgeCap)
  /\ checked' = Later(checked, Poll) /\ snapped' = Later(snapped, Poll)
  /\ UNCHANGED <<child, beaten, tree, rest>>

(* _terminate does nothing for an agent that has exited meanwhile, and reaps what a walk of
   the tree finds now. *)
Terminate ==
  IF Running THEN child' = "killed" /\ kids' = {} /\ strays' = strays \cup (kids \ Reaped(kids))
             ELSE UNCHANGED <<child, kids, strays>>

Kill ==
  /\ pc = "kill" /\ pc' = "count" /\ Terminate
  /\ age' = Later(age, AgeCap)
  /\ UNCHANGED <<up, checked, snapped, beaten, snap, known, rest>>

Count ==
  /\ pc = "count" /\ restarts' = restarts + 1
  /\ IF restarts' > MaxRestarts THEN pc' = "stopped" /\ result' = "75"
                                ELSE pc' = "spawn" /\ UNCHANGED result
  /\ UNCHANGED <<child, clock, beaten, tree, registered, early>>

(* The handler terminates the agent it knows.  Mutant: it does not. *)
JustExit ==
  /\ pc # "stopped" /\ pc' = "stopped" /\ result' = "signal"
  /\ "signal" \in Windows \/ (Running /\ registered)
  /\ UNCHANGED <<child, clock, beaten, tree, registered, early, restarts>>
OperatorStops ==
  /\ pc # "stopped" /\ pc' = "stopped" /\ result' = "signal"
  /\ "signal" \in Windows \/ (Running /\ registered)
  /\ IF registered THEN Terminate ELSE UNCHANGED <<child, kids, strays>>
  /\ UNCHANGED <<clock, beaten, snap, known, registered, early, restarts>>

-----------------------------------------------------------------------------
(* the agent *)

Beat ==
  /\ child = "working" /\ pc # "stopped"
  /\ age' = 0 /\ beaten' = TRUE
  /\ UNCHANGED <<pc, child, up, checked, snapped, tree, rest>>

(* The agent or one of its descendants starts a process; its pid is not one that the last
   snapshot holds. *)
Fork ==
  /\ Running /\ pc # "stopped"
  /\ \E k \in Kids \ (kids \cup strays \cup snap) : kids' = kids \cup {k}
  /\ UNCHANGED <<pc, child, clock, beaten, snap, strays, known, rest>>

(* A descendant ends, and those that it had started are no longer the agent's. *)
Orphan ==
  /\ pc # "stopped"
  /\ \E k \in kids : \E left \in SUBSET (kids \ {k}) :
       /\ kids' = kids \ (left \cup {k}) /\ known' = known \ (left \cup {k})
       /\ strays' = strays \cup left
  /\ UNCHANGED <<pc, child, clock, beaten, snap, rest>>

Freeze ==
  /\ child = "working" /\ pc # "stopped" /\ child' = "hung"
  /\ UNCHANGED <<pc, clock, beaten, tree, rest>>

Exit ==
  /\ Running /\ pc # "stopped"
  /\ "exit" \in Windows \/ pc \notin {"judge", "kill"}
  /\ child' = "exited" /\ strays' = strays \cup kids /\ kids' = {}
  /\ UNCHANGED <<pc, clock, beaten, snap, known, rest>>

Loop  == \/ Spawn \/ Register \/ PassThrough \/ StillRunning \/ Condemn \/ Spare
         \/ Sleep \/ Kill \/ Count
Agent == Beat \/ Fork \/ Orphan \/ Freeze \/ Exit
Next  == Loop \/ Agent \/ OperatorStops

Spec == Init /\ [][Next]_vars
FairSpec == Spec /\ WF_vars(Loop)

-----------------------------------------------------------------------------
(* An agent that boots within the grace period and beats often enough is not killed by
   the loop. *)
WorkingNotKilled == [][Kill => child # "working"]_vars

(* An agent that has not beaten is not left alone beyond the two startup periods,
   whatever heartbeat it found. *)
StallNoticed == Running /\ ~beaten /\ pc = "sleep" => up < Grace + EarlyStale

(* A hung agent does not stay. *)
HungReplaced == (child = "hung") ~> (child # "hung" \/ pc = "stopped")

(* An agent that exits by itself is never started again. *)
ExitPassedThrough == [][restarts' > restarts => child # "exited"]_vars

(* No process that the last snapshot held, and that was the agent's to its end, outlives it
   beyond the watchdog's next turn, unless it ignores the signal. *)
KnownAreReaped == pc \in {"spawn", "stopped"} => strays \cap known \subseteq Deaf

(* An operator's stop leaves no agent behind. *)
NothingLeftRunning == pc = "stopped" => ~Running
=============================================================================
