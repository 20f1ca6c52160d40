----------------------------- MODULE RunBranch -----------------------------
(***************************************************************************)
(* The dedicated run branch (driver.py, vcs.py): how the commands of a run *)
(* enter it, resume it, recover on it and leave it, beside an operator who *)
(* commits, merges, rewrites and deletes in the same repository.           *)
(*                                                                         *)
(* Only the commit graph is modelled; StepDriver models the trees.         *)
(***************************************************************************)
EXTENDS Naturals, FiniteSets, Sequences

CONSTANTS
  KillAt,      \* the steps at which a command may be killed
  MaxCommits,  \* bound: commits
  MaxRuns,     \* bound: run branches
  None         \* no file, no token


Operator == 0                      \* the operator's branch; the others are run branches
Branch   == 0 .. MaxRuns
Commit   == 1 .. MaxCommits
RunState == [run : Branch, orig : Branch, base : Commit]

ASSUME RunBranchAssumption ==
  /\ {MaxCommits, MaxRuns} \subseteq Nat \ {0}
  /\ None \notin Commit \cup RunState

VARIABLES
  past,      \* past[c]: the ancestors of commit c, itself included
  alive,     \* the branches there are
  tip,       \* the commit each branch points to
  HEAD,      \* the branch checked out
  file,      \* run-branch.json, or None
  pending,   \* the snapshot in pending.json, or None
  settled,   \* has the ticket of pending.json a terminal outcome?
  halted,    \* resume-halt
  held,      \* is an agent at work on a ticket?
  pc, cmd,   \* the step the running command has reached, and which one it is
  entry, new,   \* the entry it will save, and the commit it has made
  over,      \* has the last command given a terminal signal?
  own,       \* history: commits of the harness
  recorded,  \* history: those of tickets recorded as done
  chosen     \* history: the branch the operator was on when the run began

graph  == <<past, tip, own, recorded>>
refs   == <<alive, HEAD>>
token  == <<pending, settled>>
memory == <<pc, cmd, entry, new>>
vars   == <<graph, refs, file, token, halted, held, memory, over, chosen>>

Steps == {"idle", "enter", "save", "recover", "dropped", "schedule", "snapped",
          "forget", "finalize", "kept", "reverted", "recorded"}

TypeOK ==
  /\ past \in Seq(SUBSET Commit) /\ Len(past) \in Commit
  /\ alive \subseteq Branch /\ Operator \in alive
  /\ tip \in [Branch -> Commit] /\ HEAD \in alive
  /\ file \in RunState \cup {None}
  /\ pending \in Commit \cup {None} /\ settled \in BOOLEAN
  /\ halted \in BOOLEAN /\ held \in BOOLEAN /\ over \in BOOLEAN
  /\ pc \in Steps /\ cmd \in {"next", "complete"}
  /\ entry \in RunState \cup {None} /\ new \in Commit \cup {None}
  /\ own \subseteq Commit /\ recorded \subseteq own /\ chosen \in alive

Init ==
  /\ past = <<{1}>> /\ tip = [b \in Branch |-> 1] /\ own = {} /\ recorded = {}
  /\ alive = {Operator} /\ HEAD = Operator
  /\ file = None /\ pending = None /\ settled = FALSE
  /\ halted = FALSE /\ held = FALSE /\ over = FALSE
  /\ pc = "idle" /\ cmd = "next" /\ entry = None /\ new = None
  /\ chosen = Operator

Goto(step) == pc' = step /\ UNCHANGED <<cmd, entry, new>>
Return     == pc' = "idle" /\ cmd' = "next" /\ entry' = None /\ new' = None

(* A new commit on top of others, at the tip of a branch. *)
CommitOn(b, parents) ==
  LET c == Len(past) + 1 IN
  /\ c \in Commit
  /\ past' = Append(past, {c} \cup UNION {past[p] : p \in parents})
  /\ tip'  = [tip EXCEPT ![b] = c]

Reachable == UNION {past[tip[b]] : b \in alive}

-----------------------------------------------------------------------------
(* entering the run branch *)

CallNext ==
  /\ pc = "idle"
  /\ pc' = "enter" /\ cmd' = "next" /\ held' = FALSE /\ over' = FALSE
  /\ UNCHANGED <<graph, refs, file, token, halted, entry, new, chosen>>

CallComplete ==
  /\ pc = "idle" /\ held
  /\ pc' = "enter" /\ cmd' = "complete"
  /\ UNCHANGED <<graph, refs, file, token, halted, held, entry, new, over, chosen>>

Entered == IF cmd = "next" THEN "recover" ELSE "finalize"

Safe ==
  /\ {file.run, file.orig} \subseteq alive
  /\ file.base \in past[tip[file.orig]] \cap past[tip[file.run]]

Create ==
  /\ pc = "enter" /\ file = None
  /\ \E b \in Branch \ alive :
       /\ alive' = alive \cup {b} /\ tip' = [tip EXCEPT ![b] = tip[HEAD]] /\ HEAD' = b
       /\ entry' = [run |-> b, orig |-> HEAD, base |-> tip[HEAD]]
  /\ pc' = "save"
  /\ UNCHANGED <<past, own, recorded, file, token, halted, held, cmd, new, over, chosen>>

(* Mutant: the branch left behind is not remembered. *)
SaveRunAsOwn ==
  /\ pc = "save"
  /\ file' = [entry EXCEPT !.orig = entry.run] /\ halted' = FALSE
  /\ pc' = Entered /\ entry' = None
  /\ UNCHANGED <<graph, refs, token, held, cmd, new, over, chosen>>
Save ==
  /\ pc = "save"
  /\ file' = entry /\ halted' = FALSE
  /\ pc' = Entered /\ entry' = None
  /\ UNCHANGED <<graph, refs, token, held, cmd, new, over, chosen>>

(* Mutant: HEAD stays where it is. *)
ResumeInPlace ==
  /\ pc = "enter" /\ file # None /\ Safe
  /\ halted' = FALSE
  /\ Goto(Entered)
  /\ UNCHANGED <<graph, refs, file, token, held, over, chosen>>
Resume ==
  /\ pc = "enter" /\ file # None /\ Safe
  /\ HEAD' = file.run /\ halted' = FALSE
  /\ Goto(Entered)
  /\ UNCHANGED <<graph, alive, file, token, held, over, chosen>>

(* HALT_RESUME_UNSAFE: nothing is touched. *)
HaltUnsafe ==
  /\ pc = "enter" /\ file # None /\ ~Safe
  /\ halted' = TRUE /\ held' = FALSE
  /\ Return
  /\ UNCHANGED <<graph, refs, file, token, over, chosen>>

-----------------------------------------------------------------------------
(* next *)

(* The token of a ticket that has its outcome is stale.  Mutant: the outcome is not
   looked at. *)
SettledUnseen == FALSE
Settled == settled

DropStale ==
  /\ pc = "recover" /\ pending # None /\ Settled
  /\ pending' = None
  /\ Goto("schedule")
  /\ UNCHANGED <<graph, refs, file, settled, halted, held, over, chosen>>

(* Mutant: no lineage guard. *)
AnyLineage == TRUE
OwnLineage == pending \in past[tip[HEAD]]

RevertToSnapshot ==
  /\ pc = "recover" /\ pending # None /\ ~Settled
  /\ tip' = IF OwnLineage THEN [tip EXCEPT ![HEAD] = pending] ELSE tip
  /\ Goto("dropped")
  /\ UNCHANGED <<past, own, recorded, refs, file, token, halted, held, over, chosen>>

DropToken ==
  /\ pc = "dropped"
  /\ pending' = None
  /\ Goto("schedule")
  /\ UNCHANGED <<graph, refs, file, settled, halted, held, over, chosen>>

NothingToRecover ==
  /\ pc = "recover" /\ pending = None
  /\ Goto("schedule")
  /\ UNCHANGED <<graph, refs, file, token, halted, held, over, chosen>>

Snapshot ==
  /\ pc = "schedule"
  /\ CommitOn(HEAD, {tip[HEAD]}) /\ own' = own \cup {Len(past')}
  /\ new' = Len(past') /\ pc' = "snapped"
  /\ UNCHANGED <<recorded, refs, file, token, halted, held, cmd, entry, over, chosen>>

HandOut ==
  /\ pc = "snapped"
  /\ pending' = new /\ settled' = FALSE /\ held' = TRUE
  /\ Return
  /\ UNCHANGED <<graph, refs, file, halted, over, chosen>>

(* A terminal signal: back to the branch the run began on. *)
Exit ==
  /\ pc = "schedule"
  /\ HEAD' = file.orig
  /\ Goto("forget")
  /\ UNCHANGED <<graph, alive, file, token, halted, held, over, chosen>>

ForgetRun ==
  /\ pc = "forget"
  /\ file' = None /\ over' = TRUE
  /\ Return
  /\ UNCHANGED <<graph, refs, token, halted, held, chosen>>

-----------------------------------------------------------------------------
(* complete *)

Keep ==
  /\ pc = "finalize"
  /\ CommitOn(HEAD, {tip[HEAD]}) /\ own' = own \cup {Len(past')}
  /\ new' = Len(past') /\ pc' = "kept"
  /\ UNCHANGED <<recorded, refs, file, token, halted, held, cmd, entry, over, chosen>>

(* A red gate: this revert looks at no lineage. *)
Revert ==
  /\ pc = "finalize"
  /\ tip' = [tip EXCEPT ![HEAD] = pending]
  /\ Goto("reverted")
  /\ UNCHANGED <<past, own, recorded, refs, file, token, halted, held, over, chosen>>

RecordDone ==
  /\ pc = "kept"
  /\ recorded' = recorded \cup {new} /\ settled' = TRUE
  /\ Goto("recorded")
  /\ UNCHANGED <<past, tip, own, refs, file, pending, halted, held, over, chosen>>

(* Parked for daylight, or to be tried again. *)
RecordOther ==
  /\ pc = "reverted"
  /\ settled' \in BOOLEAN
  /\ Goto("recorded")
  /\ UNCHANGED <<graph, refs, file, pending, halted, held, over, chosen>>

ClearToken ==
  /\ pc = "recorded"
  /\ pending' = None /\ held' = FALSE
  /\ Return
  /\ UNCHANGED <<graph, refs, file, settled, halted, over, chosen>>

-----------------------------------------------------------------------------
(* whatever else happens to the process, the agent and the repository *)

Kill ==
  /\ pc \in KillAt
  /\ held' = FALSE
  /\ Return
  /\ UNCHANGED <<graph, refs, file, token, halted, over, chosen>>

AgentGone ==
  /\ pc = "idle" /\ held
  /\ held' = FALSE
  /\ UNCHANGED <<graph, refs, file, token, halted, memory, over, chosen>>

OperatorCommits ==
  /\ pc = "idle"
  /\ CommitOn(Operator, {tip[Operator]})
  /\ UNCHANGED <<own, recorded, refs, file, token, halted, held, memory, over, chosen>>

OperatorMerges ==
  /\ pc = "idle"
  /\ \E b \in alive :
       tip[b] \notin past[tip[Operator]] /\ CommitOn(Operator, {tip[Operator], tip[b]})
  /\ UNCHANGED <<own, recorded, refs, file, token, halted, held, memory, over, chosen>>

(* An amend, a rebase, a forced update: the branch no longer descends from what it was. *)
OperatorRewrites ==
  /\ pc = "idle"
  /\ \E c \in past[tip[Operator]] : CommitOn(Operator, past[c] \ {tip[Operator]})
  /\ UNCHANGED <<own, recorded, refs, file, token, halted, held, memory, over, chosen>>

(* Out of a run's way, that is, while no agent is at work. *)
OperatorSwitches ==
  /\ pc = "idle" /\ ~held /\ HEAD # Operator
  /\ HEAD' = Operator /\ chosen' = IF file = None THEN Operator ELSE chosen
  /\ UNCHANGED <<graph, alive, file, token, halted, held, memory, over>>

(* `git branch -d` deletes what has been merged. *)
OperatorDeletes ==
  /\ pc = "idle"
  /\ \E b \in alive \ {Operator, HEAD, chosen} :
       tip[b] \in past[tip[Operator]] /\ alive' = alive \ {b}
  /\ UNCHANGED <<graph, HEAD, file, token, halted, held, memory, over, chosen>>

(* What the halt tells the operator to do. *)
OperatorForgetsRun ==
  /\ pc = "idle" /\ ~held /\ halted /\ file # None
  /\ file' = None /\ chosen' = HEAD
  /\ UNCHANGED <<graph, refs, token, halted, held, memory, over>>

Enter    == Create \/ Save \/ Resume \/ HaltUnsafe
NextCmd  == CallNext \/ DropStale \/ RevertToSnapshot \/ DropToken \/ NothingToRecover
              \/ Snapshot \/ HandOut \/ Exit \/ ForgetRun
Complete == CallComplete \/ Keep \/ Revert \/ RecordDone \/ RecordOther \/ ClearToken
Command  == Enter \/ NextCmd \/ Complete
Others   == Kill \/ AgentGone \/ OperatorCommits \/ OperatorMerges \/ OperatorRewrites
              \/ OperatorSwitches \/ OperatorDeletes \/ OperatorForgetsRun

Next == Command \/ Others
Spec == Init /\ [][Next]_vars

-----------------------------------------------------------------------------
(* The harness moves no branch but the one run-branch.json names. *)
OnlyRunBranchMoves ==
  [][Command => \A b \in alive : tip'[b] # tip[b] => file # None /\ b = file.run]_vars

(* Nothing the harness does takes a commit of the operator, or of a recorded ticket, out
   of reach. *)
HistoryKept ==
  [][Command => Reachable \ UNION {past'[tip'[b]] : b \in alive'} \subseteq own \ recorded]_vars

(* When the run is over the operator is on the branch the run began on. *)
BackWhereItWas == pc = "idle" /\ over => HEAD = chosen

(* No step of the harness makes a run unsafe to resume ... *)
NeverHaltsItself == [][Command /\ file' # None /\ file # None /\ Safe => Safe']_vars

(* ... unless the snapshot of an earlier run has been merged into what the run began on. *)
StaysResumable ==
  [][Command /\ file' # None /\ file # None /\ Safe =>
       Safe' \/ (pending \in past[file.base] \ {file.base} /\ file' = file)]_vars
=============================================================================
