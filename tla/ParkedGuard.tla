---------------------------- MODULE ParkedGuard ----------------------------
(***************************************************************************)
(* The parked-WIP guard (parked.py) around the commands of a run (run.py). *)
(*                                                                         *)
(* The operator's uncommitted work is stashed and fenced before the first  *)
(* snapshot of a run and brought back when the run is over.  Runs in       *)
(* linked worktrees of one repository share its stash and its              *)
(* info/exclude; so does anybody else who stashes there.                   *)
(***************************************************************************)
EXTENDS Naturals, FiniteSets, Sequences, SequencesExt

CONSTANTS
  Run,          \* the runs, each in a worktree of its own
  Stranger,     \* whose stashes these are is not our business
  Throwaways,   \* the runs with throwaway globs configured
  PushMayFail,  \* does a configured path match nothing, so that git refuses to stash?
  PopMayFail,   \* may `git stash pop` fail, refused or in a conflict?
  Racing,       \* may commands of several runs, and the stranger, overlap?
  AnswerEnds,   \* may the run end in the answer to an F5 offer?
  KillAt,       \* the steps at which a command may be killed
  MaxStashes,   \* bound: entries of the stash beyond which no stranger adds one
  None          \* no marker

ASSUME RunAssumption ==
  /\ IsFiniteSet(Run) /\ Throwaways \subseteq Run
  /\ Stranger \notin Run /\ None \notin Nat
  /\ {PushMayFail, PopMayFail, Racing, AnswerEnds} \subseteq BOOLEAN

(* What git must not commit: the tracked WIP and the throwaways of each run. *)
Wip(r)  == [of |-> r, tracked |-> TRUE]
Junk(r) == [of |-> r, tracked |-> FALSE]
Piece   == [of : Run \cup {Stranger}, tracked : BOOLEAN]

VARIABLES
  tree,     \* uncommitted pieces in each worktree
  unmerged, \* the worktrees in which a pop has stopped in a conflict
  stash,    \* git stash list, stash@{0} first
  fence,    \* is the fence in info/exclude?
  taken,    \* pieces a snapshot has committed
  marker,   \* parked-guard.json: the SHA it pins, 0 for none, or None
  pc, sha, ref,   \* each run's command: its step, the SHA it pinned, the entry it found
  signal,   \* what the last command of the run told the agent, if it has
  busy      \* the runs whose worktree has uncommitted work to protect

work   == <<tree, unmerged>>
shared == <<stash, fence, taken>>
vars   == <<work, shared, marker, pc, sha, ref, signal, busy>>

Steps == {"idle", "push", "pin", "fence", "mark", "ready", "restore", "pop", "unfence", "unmark"}

TypeOK ==
  /\ tree \in [Run -> SUBSET Piece] /\ unmerged \in SUBSET Run
  /\ stash \in Seq([sha : Nat, piece : Piece])
  /\ fence \in BOOLEAN
  /\ taken \in SUBSET Piece
  /\ marker \in [Run -> Nat \cup {None}]
  /\ pc \in [Run -> Steps]
  /\ sha \in [Run -> Nat] /\ ref \in [Run -> Nat]
  /\ signal \in [Run -> {"none", "running", "terminal", "answered", "conflict"}]
  /\ busy \in SUBSET Run

Init ==
  /\ busy \in SUBSET Run
  /\ tree = [r \in Run |-> (IF r \in busy THEN {Wip(r)} ELSE {}) \cup IF r \in Throwaways THEN {Junk(r)} ELSE {}]
  /\ unmerged = {} /\ stash = <<>> /\ fence = FALSE /\ taken = {}
  /\ marker = [r \in Run |-> None]
  /\ pc = [r \in Run |-> "idle"]
  /\ sha = [r \in Run |-> 0] /\ ref = [r \in Run |-> 0]
  /\ signal = [r \in Run |-> "none"]

Goto(r, step) == pc' = [pc EXCEPT ![r] = step]

(* The command returns or dies: its memory is gone. *)
Leave(r) ==
  /\ Goto(r, "idle")
  /\ sha' = [sha EXCEPT ![r] = 0] /\ ref' = [ref EXCEPT ![r] = 0]

Quiet == Racing \/ \A r \in Run : pc[r] = "idle"

Tell(r, what) == signal' = [signal EXCEPT ![r] = what]

(* `git add -A` takes everything the fence does not hide, and settles a conflict by what
   the files hold, conflict markers included.  Mutant: the fence is not looked at. *)
SweepableAll(r) == tree[r]
Sweepable(r) == {p \in tree[r] : p.tracked \/ ~fence}
Snapshot(r) ==
  /\ taken' = taken \cup Sweepable(r)
  /\ tree' = [tree EXCEPT ![r] = @ \ Sweepable(r)] /\ unmerged' = unmerged \ {r}

(* A SHA that names no entry, pinned or not. *)
FreshSha ==
  LET used == {stash[i].sha : i \in DOMAIN stash} \cup {marker[r] : r \in Run}
                \cup {sha[r] : r \in Run}
  IN CHOOSE n \in (1 .. Len(stash) + 2 * Cardinality(Run) + 1) \ used : TRUE

Prepend(p) == stash' = <<[sha |-> FreshSha, piece |-> p]>> \o stash

-----------------------------------------------------------------------------
(* protect, on every next *)

(* Mutant: a second protect does it all again. *)
ProtectAgain(r) == "push"
FirstStep(r) == IF marker[r] = None THEN "push" ELSE "ready"

CallNext(r) ==
  /\ pc[r] = "idle" /\ Quiet
  /\ Goto(r, FirstStep(r)) /\ Tell(r, "none")
  /\ UNCHANGED <<work, shared, marker, sha, ref>>

Push(r) ==
  /\ pc[r] = "push" /\ Wip(r) \in tree[r]
  /\ Prepend(Wip(r))
  /\ tree' = [tree EXCEPT ![r] = @ \ {Wip(r)}]
  /\ Goto(r, "pin")
  /\ UNCHANGED <<unmerged, fence, taken, marker, sha, ref, signal>>

(* Nothing to stash, or a path git does not know: there is no stash, and no error. *)
PushNothing(r) ==
  /\ pc[r] = "push" /\ (Wip(r) \notin tree[r] \/ PushMayFail)
  /\ Goto(r, "fence")
  /\ UNCHANGED <<work, shared, marker, sha, ref, signal>>

(* Mutant: the answer of rev-parse is lost. *)
PinNone(r) ==
  /\ pc[r] = "pin"
  /\ sha' = [sha EXCEPT ![r] = None]
  /\ Goto(r, "fence")
  /\ UNCHANGED <<work, shared, marker, ref, signal>>

Pin(r) ==
  /\ pc[r] = "pin"
  /\ sha' = [sha EXCEPT ![r] = IF stash = <<>> THEN 0 ELSE Head(stash).sha]
  /\ Goto(r, "fence")
  /\ UNCHANGED <<work, shared, marker, ref, signal>>

Fence(r) ==
  /\ pc[r] = "fence"
  /\ fence' = (fence \/ r \in Throwaways)
  /\ Goto(r, "mark")
  /\ UNCHANGED <<work, stash, taken, marker, sha, ref, signal>>

Mark(r) ==
  /\ pc[r] = "mark"
  /\ marker' = [marker EXCEPT ![r] = sha[r]]
  /\ Goto(r, "ready")
  /\ UNCHANGED <<work, shared, sha, ref, signal>>

-----------------------------------------------------------------------------
(* the run *)

(* next hands out a ticket after a snapshot of whatever the tree holds. *)
HandOut(r) ==
  /\ pc[r] = "ready"
  /\ Snapshot(r) /\ Leave(r) /\ Tell(r, "running")
  /\ UNCHANGED <<stash, fence, marker>>

(* next opens an F5 offer: no snapshot. *)
Ask(r) ==
  /\ pc[r] = "ready"
  /\ Leave(r) /\ Tell(r, "running")
  /\ UNCHANGED <<work, shared, marker>>

Complete(r) ==
  /\ pc[r] = "idle" /\ signal[r] = "running"
  /\ Snapshot(r)
  /\ UNCHANGED <<stash, fence, marker, pc, sha, ref, signal>>

(* A terminal signal of next ends in a restore ... *)
Terminal(r) ==
  /\ pc[r] = "ready"
  /\ Goto(r, "restore")
  /\ UNCHANGED <<work, shared, marker, sha, ref, signal>>

(* ... one of resolve-park does not. *)
TerminalAnswer(r) ==
  /\ AnswerEnds /\ pc[r] = "idle" /\ signal[r] = "running"
  /\ Tell(r, "answered")
  /\ UNCHANGED <<work, shared, marker, pc, sha, ref>>

(* The operator's own `parked restore`. *)
RestoreByHand(r) ==
  /\ pc[r] = "idle" /\ Quiet /\ marker[r] # None
  /\ Goto(r, "restore") /\ Tell(r, "none")
  /\ UNCHANGED <<work, shared, marker, sha, ref>>

-----------------------------------------------------------------------------
(* restore *)

(* Mutant: the topmost stash is taken for ours. *)
TopmostStash(r) == IF stash = <<>> THEN {} ELSE {1}
OwnStash(r) == {i \in DOMAIN stash : stash[i].sha = marker[r]}

Find(r) ==
  /\ pc[r] = "restore" /\ marker[r] \notin {None, 0} /\ OwnStash(r) # {}
  /\ ref' = [ref EXCEPT ![r] = CHOOSE i \in OwnStash(r) : TRUE]
  /\ Goto(r, "pop")
  /\ UNCHANGED <<work, shared, marker, sha, signal>>

(* There was nothing to stash, or the pinned stash is gone. *)
FindNothing(r) ==
  /\ pc[r] = "restore" /\ marker[r] # None
  /\ marker[r] = 0 \/ OwnStash(r) = {}
  /\ Goto(r, "unfence")
  /\ UNCHANGED <<work, shared, marker, sha, ref, signal>>

Pop(r) ==
  /\ pc[r] = "pop" /\ ref[r] \in DOMAIN stash /\ r \notin unmerged
  /\ tree' = [tree EXCEPT ![r] = @ \cup {stash[ref[r]].piece}]
  /\ stash' = RemoveAt(stash, ref[r])
  /\ Goto(r, "unfence")
  /\ UNCHANGED <<unmerged, fence, taken, marker, sha, ref, signal>>

(* git refuses to pop, or a conflict leaves the work in the tree as well: either way the
   stash and the marker stay for daylight. *)
Refused(r) ==
  /\ PopMayFail \/ ref[r] \notin DOMAIN stash \/ r \in unmerged
  /\ UNCHANGED work

Conflict(r) ==
  /\ PopMayFail /\ ref[r] \in DOMAIN stash /\ r \notin unmerged
  /\ tree' = [tree EXCEPT ![r] = @ \cup {stash[ref[r]].piece}]
  /\ unmerged' = unmerged \cup {r}

PopFails(r) ==
  /\ pc[r] = "pop"
  /\ Refused(r) \/ Conflict(r)
  /\ Leave(r) /\ Tell(r, "conflict")
  /\ UNCHANGED <<shared, marker>>

Unfence(r) ==
  /\ pc[r] = "unfence"
  /\ fence' = (fence /\ r \notin Throwaways)
  /\ Goto(r, "unmark")
  /\ UNCHANGED <<work, stash, taken, marker, sha, ref, signal>>

(* Mutant: the marker stays behind. *)
LeaveMarker(r) ==
  /\ pc[r] = "unmark" /\ Leave(r) /\ Tell(r, "terminal")
  /\ UNCHANGED <<work, shared, marker>>
Unmark(r) ==
  /\ pc[r] = "unmark"
  /\ marker' = [marker EXCEPT ![r] = None]
  /\ Leave(r) /\ Tell(r, "terminal")
  /\ UNCHANGED <<work, shared>>

-----------------------------------------------------------------------------
Kill(r) ==
  /\ pc[r] \in KillAt
  /\ Leave(r)
  /\ UNCHANGED <<work, shared, marker, signal>>

StrangerPushes ==
  /\ Quiet /\ Len(stash) < MaxStashes
  /\ Prepend([of |-> Stranger, tracked |-> TRUE])
  /\ UNCHANGED <<work, fence, taken, marker, pc, sha, ref, signal>>

(* A stranger takes one of its own entries back. *)
StrangerPops ==
  /\ Quiet
  /\ \E i \in DOMAIN stash :
       stash[i].piece.of = Stranger /\ stash' = RemoveAt(stash, i)
  /\ UNCHANGED <<work, fence, taken, marker, pc, sha, ref, signal>>

Protect(r) == CallNext(r) \/ Push(r) \/ PushNothing(r) \/ Pin(r) \/ Fence(r) \/ Mark(r)
Work(r)    == HandOut(r) \/ Ask(r) \/ Complete(r) \/ Terminal(r) \/ TerminalAnswer(r)
Restore(r) == RestoreByHand(r) \/ Find(r) \/ FindNothing(r) \/ Pop(r) \/ PopFails(r)
                \/ Unfence(r) \/ Unmark(r)

Next ==
  /\ \/ \E r \in Run : Protect(r) \/ Work(r) \/ Restore(r) \/ Kill(r)
     \/ StrangerPushes \/ StrangerPops
  /\ UNCHANGED busy

Spec == Init /\ [][Next]_vars

-----------------------------------------------------------------------------
(* No snapshot commits what the operator asked to be kept out, except the work that a
   conflicting pop has left in the tree, and then the marker still pins it in the stash. *)
NothingSwept ==
  [][\A p \in taken' \ taken :
       p.of \in unmerged /\ \E i \in OwnStash(p.of) : stash[i].piece = p]_vars

(* A command that is not running has left the WIP of a run that has any where a later one finds it: in
   the tree, or in the stash that the marker pins. *)
Recoverable ==
  \A r \in busy :
    pc[r] = "idle" =>
      \/ Wip(r) \in tree[r] \cup taken
      \/ \E i \in OwnStash(r) : stash[i].piece = Wip(r)

(* A worktree is never given somebody else's work. *)
NoStrangersWork == \A r \in Run : \A p \in tree[r] : p.of = r

(* When next reports the end of the run and no conflict, the operator has the work back. *)
RestoredWhenOver ==
  \A r \in Run :
    pc[r] = "idle" /\ signal[r] = "terminal" =>
      marker[r] = None /\ (r \in busy => Wip(r) \in tree[r])
=============================================================================
