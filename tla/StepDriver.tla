---------------------------- MODULE StepDriver ----------------------------
(***************************************************************************)
(* The agent-as-worker ticket loop: driver.py (next, complete,             *)
(* resolve-park) over orchestrator.py, ledger.py and state.py.             *)
(*                                                                         *)
(* Every command is a short-lived process that reads the durable files,    *)
(* writes some of them one after the other, and exits.  A command is       *)
(* therefore a chain of steps, one per durable write another process could *)
(* observe; pc names the step the running command has reached, and a Crash *)
(* may end it between any two of them.  Only the files and the repository  *)
(* survive.                                                                *)
(***************************************************************************)
EXTENDS Integers, FiniteSets

CONSTANTS
  NumTickets,      \* length of the backlog; ticket ids follow its order
  Kind,            \* Kind[t]: what classify() says of ticket t, see Kinds
  Sig,             \* the failure signatures a red gate can leave
  FixCap,          \* Orchestrator.fix_cap
  LoopThreshold,   \* Orchestrator.loop_threshold
  MinTickets,      \* LowYieldBreaker.min_tickets
  MaxTickets,      \* budget.max_tickets_per_run
  F5Max,           \* _F5_MAX_CALLS_PER_RUN
  CreditPolicy,    \* "off": no council; "degrade" or "stop": on_credits_exhausted
  NonDestructive,  \* autonomy.non_destructive_only
  BaseGreen,       \* is the gate green on the operator's branch?
  SafetyNet,       \* the values ensure_safety_net() may return
  GitFaults,       \* where git may fail, see GitPlaces
  SlowBaseline,    \* may the baseline gate time out?
  LateAnswers,     \* may the agent answer an F5 offer after its turn has passed?
  RetryComplete,   \* may the agent repeat a `complete` that was killed?
  MaxCrashes,      \* bound: commands killed half-way
  None             \* no ticket, no token

Ticket == 1 .. NumTickets

(* classify() on an unattended run that has a safety net: "routine" proceeds, "halt" (an
   operator's override) stops the run, the others park, after an F5 offer when the meaning
   is ambiguous or the hard category is opted in: "money", or "hard", a foundational one. *)
OptedIn == {"hard", "money"}
Offered == OptedIn \cup {"meaning"}
Kinds == {"routine", "decision", "foundation", "halt"} \cup Offered

(* A GitError in the snapshot, in a finalization, in the revert of a recovery, in cutting the
   run branch, in switching branches; or a commit that a hook refuses, which raises nothing. *)
GitPlaces == {"snapshot", "finalize", "recover", "cut", "switch", "refuse"}

ASSUME BacklogAssumption ==
  /\ NumTickets \in Nat \ {0}
  /\ Kind \in [Ticket -> Kinds]

ASSUME LimitsAssumption ==
  /\ {FixCap, LoopThreshold, MinTickets, MaxTickets, F5Max, MaxCrashes} \subseteq Nat
  /\ CreditPolicy \in {"off", "degrade", "stop"}
  /\ {NonDestructive, BaseGreen, SlowBaseline, LateAnswers, RetryComplete} \subseteq BOOLEAN
  /\ SafetyNet \subseteq BOOLEAN
  /\ GitFaults \subseteq GitPlaces

Done     == {"DONE", "DONE_LOW_CONFIDENCE"}
Parked   == {"PARKED_DECISION", "PARKED_FOUNDATIONAL"}
Retry    == {"BLOCKED_ENV", "FAILED_RETRYABLE"}
Terminal == Done \cup Parked                  \* TERMINAL_SKIP_ON_RESUME
Outcome  == Terminal \cup Retry

(* What a ticket's implementation leaves in the repository, and whether it keeps
   the gate green; a tree is the set of the edits it contains. *)
Edit  == [ticket : Ticket, ok : BOOLEAN]
Tree  == SUBSET Edit
Green(tr) == BaseGreen /\ \A e \in tr : e.ok

Token == [ticket : Ticket, snap : Tree, green : BOOLEAN, review : BOOLEAN]

ASSUME NoneAssumption == None \notin Token /\ None \notin Ticket /\ None \notin Outcome

Progress == [processed : Nat, bad : Nat, degrade : BOOLEAN, stop : BOOLEAN, f5calls : Nat]
NoProgress == [processed |-> 0, bad |-> 0, degrade |-> FALSE, stop |-> FALSE, f5calls |-> 0]

VARIABLES
  outcome,    \* OutcomeStore: the recorded outcome of each ticket, or None
  attempts,   \* ledger.json: attempts
  failures,   \* ledger.json: signatures
  offer,      \* ledger.json: f5_attempted
  pending,    \* pending.json: the token of the ticket in flight, or None
  skip,       \* skip-this-run.json
  sentinel,   \* does run-incomplete exist?
  progress,   \* run-progress.json
  branch,     \* "none": no run-branch.json; "on"/"off": HEAD is on / off the run branch
  tip,        \* content of HEAD
  aside,      \* content of the other one of the run branch and the operator's
  kept,       \* content of the branches earlier runs left behind
  tree,       \* the working tree
  lineage,    \* the branches, of "run" and "home", the pending snapshot is an ancestor of
  refused,    \* history: the tickets whose latest result a hook kept from being committed
  pc,         \* the step the running command has reached; "idle" between commands
  via,        \* which command asked for the attempt: "next" or "resolve"
  cur,        \* the ticket the running command works on
  tok,        \* its token, in memory
  res,        \* the outcome it is about to write
  held,       \* the ticket the agent believes it has to implement
  asked,      \* the F5 offer the agent has in hand
  crashes     \* commands killed so far

store  == <<outcome, attempts, failures, offer>>
files  == <<pending, skip, sentinel, progress>>
git    == <<branch, tip, aside, kept, tree, lineage, refused>>
memory == <<via, cur, tok, res>>
agent  == <<held, asked>>
vars   == <<store, files, git, pc, memory, agent, crashes>>

Steps == {"idle", "recover", "schedule", "loop", "offered", "parked", "counted", "capped",
          "charged", "snapped", "saved", "armed", "undone", "terminate", "restore", "forget",
          "reset", "gate", "reverted", "record", "recorded", "cleared", "bumped"}

TypeOK ==
  /\ outcome \in [Ticket -> Outcome \cup {None}]
  /\ attempts \in [Ticket -> Nat]
  /\ failures \in [Ticket -> [Sig -> Nat]]
  /\ offer \in [Ticket -> {"none", "offered", "consumed"}]
  /\ pending \in Token \cup {None}
  /\ skip \in SUBSET Ticket
  /\ sentinel \in BOOLEAN
  /\ progress \in Progress
  /\ branch \in {"none", "on", "off"}
  /\ {tip, aside, kept, tree} \subseteq Tree
  /\ lineage \subseteq {"run", "home"} /\ refused \subseteq Ticket
  /\ pc \in Steps
  /\ via \in {"next", "resolve"}
  /\ cur \in Ticket \cup {None}
  /\ tok \in Token \cup {None}
  /\ res \in Outcome \cup {None}
  /\ held \in Ticket \cup {None}
  /\ asked \in Ticket \cup {None}
  /\ crashes \in Nat

Init ==
  /\ outcome = [t \in Ticket |-> None]
  /\ attempts = [t \in Ticket |-> 0]
  /\ failures = [t \in Ticket |-> [s \in Sig |-> 0]]
  /\ offer = [t \in Ticket |-> "none"]
  /\ pending = None /\ skip = {} /\ sentinel = FALSE /\ progress = NoProgress
  /\ branch = "none" /\ tip = {} /\ aside = {} /\ kept = {} /\ tree = {}
  /\ lineage = {} /\ refused = {}
  /\ pc = "idle" /\ via = "next" /\ cur = None /\ tok = None /\ res = None
  /\ held = None /\ asked = None /\ crashes = 0

-----------------------------------------------------------------------------
(* Shared pieces *)

(* A command that has answered leaves nothing in memory. *)
Return == pc' = "idle" /\ via' = "next" /\ cur' = None /\ tok' = None /\ res' = None

(* Mutant: the read-modify-write drops the keys it does not know. *)
BumpLossy(p, isBad) ==
  [NoProgress EXCEPT !.processed = p.processed + 1, !.bad = p.bad + IF isBad THEN 1 ELSE 0]

IsBad(o) == o \in Parked \cup Retry           \* BAD_STATES
Bump(p, isBad) ==
  [p EXCEPT !.processed = @ + 1, !.bad = @ + IF isBad THEN 1 ELSE 0]

(* Mutant: no minimum before the ratio counts. *)
TrippedAtOnce(p) == 4 * p.bad >= 3 * p.processed
Tripped(p) == p.processed >= MinTickets /\ p.processed > 0 /\ 4 * p.bad >= 3 * p.processed

(* The branch HEAD is on. *)
Here == IF branch = "on" THEN "run" ELSE "home"

(* A checkout of the other branch carries the uncommitted edits along. *)
Checkout == tip' = aside /\ aside' = tip /\ tree' = aside \cup (tree \ tip)
Stay == UNCHANGED <<tip, aside, tree>>

(* The first command of a run cuts the run branch from HEAD, the others rejoin it; when git
   fails the command goes on where HEAD is. *)
CutRunBranch ==
  /\ branch = "none" /\ branch' = "on"
  /\ aside' = tip /\ UNCHANGED <<tip, tree>>
  /\ lineage' = IF "home" \in lineage THEN {"home", "run"} ELSE lineage

RejoinRunBranch ==
  /\ branch # "none" /\ branch' = "on"
  /\ IF branch = "off" THEN Checkout ELSE Stay
  /\ UNCHANGED lineage

NoRunBranch ==
  /\ (branch = "none" /\ "cut" \in GitFaults) \/ (branch = "off" /\ "switch" \in GitFaults)
  /\ Stay /\ UNCHANGED <<branch, lineage>>

EnterRunBranch ==
  /\ CutRunBranch \/ RejoinRunBranch \/ NoRunBranch
  /\ UNCHANGED <<kept, refused>>

(* git commit of the whole tree: HEAD does not move when a hook refuses, and nobody looks. *)
Landing == tip' = tree /\ UNCHANGED tree
Refusal == "refuse" \in GitFaults /\ UNCHANGED <<tip, tree>>
CommitAll == Landing \/ Refusal

(* A git that is killed after `reset` and before `clean` leaves the new files behind. *)
HalfRevert(snap) == tip' = snap /\ UNCHANGED tree

(* Mutant: the reset fails and nobody looks. *)
RevertFails(snap) == snap \in Tree /\ UNCHANGED <<tip, tree>>
RevertTo(snap) == tip' = snap /\ tree' = snap

(* The state an ordinary park of ticket t records.  Mutant: its category instead. *)
ParkCategory(t) == Kind[t]
Foundational == {"foundation", "hard"}
ParkState(t) ==
  IF Kind[t] \in Foundational THEN "PARKED_FOUNDATIONAL" ELSE "PARKED_DECISION"

(* Mutant: only the set-aside tickets are skipped. *)
ReadyUnlessSkipped(t) == t \notin skip
Ready(t) == outcome[t] \notin Terminal /\ t \notin skip
Scheduled(t) == Ready(t) /\ \A u \in Ticket : u < t => ~Ready(u)

CanOffer(t) ==
  Kind[t] \in Offered /\ offer[t] = "none" /\ progress.f5calls < F5Max

-----------------------------------------------------------------------------
(* next *)

(* A fresh run (no sentinel, nothing in flight) forgets the set-aside tickets and
   restarts the breaker, but keeps the F5 count. *)
CallNext ==
  /\ pc = "idle"
  /\ pc' = "recover"
  /\ EnterRunBranch
  /\ IF ~sentinel /\ pending = None
       THEN skip' = {} /\ progress' = [NoProgress EXCEPT !.f5calls = progress.f5calls]
       ELSE UNCHANGED <<skip, progress>>
  /\ held' = None /\ asked' = None
  /\ UNCHANGED <<store, pending, sentinel, memory, crashes>>

(* The token in flight belongs to a ticket whose outcome is already final.
   Mutant: the check is missing. *)
RecordedUnseen(t) == FALSE
Recorded(t) == outcome[t] \in Terminal

(* A token left in flight: stale if its ticket already has a terminal outcome,
   otherwise its partial edits are discarded, back to the snapshot when that is an
   ancestor of HEAD and to HEAD when it is not. *)
Recover ==
  /\ pc = "recover"
  /\ pc' = "schedule"
  /\ pending' = None
  /\ IF pending = None THEN UNCHANGED <<tip, tree>>
     ELSE IF Recorded(pending.ticket) THEN UNCHANGED <<tip, tree>>
     ELSE RevertTo(IF Here \in lineage THEN pending.snap ELSE tip)
  /\ UNCHANGED <<store, skip, sentinel, progress, branch, aside, kept, lineage, refused, memory,
                 agent, crashes>>

(* The revert itself fails, before its reset or after it: the token and the partial edits
   stay, scheduling goes on. *)
RecoverFails ==
  /\ pc = "recover" /\ "recover" \in GitFaults
  /\ pending # None /\ ~Recorded(pending.ticket)
  /\ pc' = "schedule"
  /\ UNCHANGED <<tip, tree>> \/ HalfRevert(IF Here \in lineage THEN pending.snap ELSE tip)
  /\ UNCHANGED <<store, files, branch, aside, kept, lineage, refused, memory, agent, crashes>>

Schedule ==
  /\ pc = "schedule"
  /\ TRUE \in SafetyNet \/ ~\E t \in Ticket : Ready(t)
  /\ sentinel' = TRUE
  /\ pc' = IF Tripped(progress) \/ progress.stop \/ progress.processed >= MaxTickets
             THEN "terminate" ELSE "loop"
  /\ UNCHANGED <<store, pending, skip, progress, git, memory, agent, crashes>>

(* No way to undo an edit: the run stops at the first ticket it reaches. *)
Halt ==
  /\ pc = "schedule" /\ FALSE \in SafetyNet /\ \E t \in Ticket : Ready(t)
  /\ sentinel' = TRUE
  /\ pc' = "terminate"
  /\ UNCHANGED <<store, pending, skip, progress, git, memory, agent, crashes>>

Drained ==
  /\ pc = "loop" /\ \A t \in Ticket : ~Ready(t)
  /\ pc' = "terminate"
  /\ UNCHANGED <<store, files, git, memory, agent, crashes>>

(* The operator's override halts the run at its ticket, in every run. *)
HaltTicket(t) ==
  /\ pc = "loop" /\ Scheduled(t) /\ Kind[t] = "halt"
  /\ pc' = "terminate"
  /\ UNCHANGED <<store, files, git, memory, agent, crashes>>

(* The offer is durable before the agent hears of it. *)
OpenOffer(t) ==
  /\ pc = "loop" /\ Scheduled(t) /\ CanOffer(t)
  /\ offer' = [offer EXCEPT ![t] = "offered"]
  /\ pc' = "offered" /\ cur' = t
  /\ UNCHANGED <<outcome, attempts, failures, files, git, via, tok, res, agent, crashes>>

AnswerOffer ==
  /\ pc = "offered"
  /\ progress' = [progress EXCEPT !.f5calls = @ + 1]
  /\ asked' = cur
  /\ Return
  /\ UNCHANGED <<store, pending, skip, sentinel, git, held, crashes>>

(* An ordinary park; without file-writing autonomy a routine ticket parks too. *)
ParkTicket(t) ==
  /\ pc = "loop" /\ Scheduled(t) /\ ~CanOffer(t)
  /\ Kind[t] # "halt" /\ (Kind[t] # "routine" \/ NonDestructive)
  /\ outcome' = [outcome EXCEPT ![t] = ParkState(t)]
  /\ pc' = "parked"
  /\ UNCHANGED <<attempts, failures, offer, files, git, memory, agent, crashes>>

BumpParked ==
  /\ pc = "parked"
  /\ progress' = Bump(progress, TRUE)
  /\ pc' = IF Tripped(progress') THEN "terminate" ELSE "loop"
  /\ UNCHANGED <<store, pending, skip, sentinel, git, memory, agent, crashes>>

CountAttempt(t) ==
  /\ pc = "loop" /\ Scheduled(t)
  /\ Kind[t] = "routine" /\ ~NonDestructive
  /\ attempts' = [attempts EXCEPT ![t] = @ + 1]
  /\ pc' = "counted" /\ via' = "next" /\ cur' = t
  /\ UNCHANGED <<outcome, failures, offer, files, git, tok, res, agent, crashes>>

-----------------------------------------------------------------------------
(* begin_proceed, for next and for resolve-park *)

OverCap(t) == attempts[t] >= FixCap

CapTicket ==
  /\ pc = "counted" /\ OverCap(cur)
  /\ outcome' = [outcome EXCEPT ![cur] = "PARKED_DECISION"]
  /\ pc' = "capped"
  /\ UNCHANGED <<attempts, failures, offer, files, git, memory, agent, crashes>>

(* git fails, before the commit or after it: block the ticket. *)
SnapshotFails ==
  /\ pc = "counted" /\ ~OverCap(cur) /\ "snapshot" \in GitFaults
  /\ outcome' = [outcome EXCEPT ![cur] = "BLOCKED_ENV"]
  /\ pc' = "capped"
  /\ UNCHANGED <<tip, tree>> \/ Landing
  /\ UNCHANGED <<attempts, failures, offer, files, branch, aside, kept, lineage, refused, memory,
                 agent, crashes>>

(* An F5-resolved hard category is marked for review.  Mutant: the mark is lost. *)
ReviewForgotten == FALSE
ForcesReview == via = "resolve" /\ Kind[cur] # "meaning"

(* Commit whatever the tree holds and remember where HEAD then is, which is where it was if
   a hook refused; run the gate on the tree: a baseline that times out counts as red. *)
Snapshot ==
  /\ pc = "counted" /\ ~OverCap(cur)
  /\ CommitAll
  /\ \E timedOut \in {FALSE, SlowBaseline} :
       tok' = [ticket |-> cur, snap |-> tip', green |-> Green(tree) /\ ~timedOut,
               review |-> ForcesReview]
  /\ pc' = "snapped"
  /\ UNCHANGED <<store, files, branch, aside, kept, lineage, refused, via, cur, res, agent, crashes>>

(* resolve-park flips the offer once begin_proceed (or the park) has returned. *)
ConsumeOffer ==
  /\ pc \in {"snapped", "capped"} /\ via = "resolve" /\ offer[cur] = "offered"
  /\ offer' = [offer EXCEPT ![cur] = "consumed"]
  /\ UNCHANGED <<outcome, attempts, failures, files, git, pc, memory, agent, crashes>>

OfferSettled == via = "next" \/ offer[cur] = "consumed"

BumpCapped ==
  /\ pc = "capped" /\ OfferSettled
  /\ progress' = Bump(progress, TRUE)
  /\ pc' = "charged"
  /\ UNCHANGED <<store, pending, skip, sentinel, git, memory, agent, crashes>>

(* next sets a non-terminal block aside and goes on; resolve-park just answers. *)
AfterCapped ==
  /\ pc = "charged"
  /\ skip' = IF via = "next" /\ outcome[cur] \notin Terminal THEN skip \cup {cur} ELSE skip
  /\ IF Tripped(progress) THEN pc' = "terminate" /\ UNCHANGED memory
     ELSE IF via = "next" THEN pc' = "loop" /\ UNCHANGED memory
     ELSE Return
  /\ UNCHANGED <<store, pending, sentinel, progress, git, agent, crashes>>

(* Mutant: only next saves its token. *)
SaveForNext ==
  /\ pc = "snapped" /\ OfferSettled
  /\ pending' = (IF via = "next" THEN tok ELSE pending) /\ lineage' = {Here}
  /\ pc' = "saved"
  /\ UNCHANGED <<store, skip, sentinel, progress, branch, tip, aside, kept, tree, refused, memory,
                 agent, crashes>>

SavePending ==
  /\ pc = "snapped" /\ OfferSettled
  /\ pending' = tok /\ lineage' = {Here}
  /\ pc' = "saved"
  /\ UNCHANGED <<store, skip, sentinel, progress, branch, tip, aside, kept, tree, refused, memory,
                 agent, crashes>>

SetSentinel ==
  /\ pc = "saved"
  /\ sentinel' = TRUE
  /\ pc' = "armed"
  /\ UNCHANGED <<store, pending, skip, progress, git, memory, agent, crashes>>

(* The council budget gate lets the ticket out, with or without councils. *)
HandOut ==
  /\ pc = "armed"
  /\ \E exhausted \in {FALSE, CreditPolicy = "degrade"} :
       progress' = [progress EXCEPT !.degrade = @ \/ exhausted]
  /\ held' = cur
  /\ Return
  /\ UNCHANGED <<store, pending, skip, sentinel, git, asked, crashes>>

(* ... or stops the run: the snapshot is undone and nothing is handed out. *)
StopForCredits ==
  /\ pc = "armed" /\ CreditPolicy = "stop" /\ ~progress.degrade
  /\ RevertTo(tok.snap)
  /\ pc' = "undone"
  /\ UNCHANGED <<store, files, branch, aside, kept, lineage, refused, memory, agent, crashes>>

DropPending ==
  /\ pc = "undone"
  /\ pending' = None
  /\ pc' = "terminate"
  /\ UNCHANGED <<store, skip, sentinel, progress, git, memory, agent, crashes>>

-----------------------------------------------------------------------------
(* _terminate *)

(* Mutant: the sentinel outlives the run. *)
LeaveSentinel ==
  /\ pc = "terminate" /\ pc' = "restore"
  /\ UNCHANGED <<store, files, git, memory, agent, crashes>>

ClearSentinel ==
  /\ pc = "terminate"
  /\ sentinel' = FALSE
  /\ pc' = "restore"
  /\ UNCHANGED <<store, pending, skip, progress, git, memory, agent, crashes>>

RestoreBranch ==
  /\ pc = "restore"
  /\ \/ branch = "on" /\ branch' = "off" /\ Checkout
     \/ (branch # "on" \/ "switch" \in GitFaults) /\ UNCHANGED branch /\ Stay
  /\ pc' = "forget"
  /\ UNCHANGED <<store, files, kept, lineage, refused, memory, agent, crashes>>

(* The file goes, whether or not HEAD left the run branch; HEAD's branch is home from now on. *)
ForgetBranch ==
  /\ pc = "forget"
  /\ branch' = "none" /\ kept' = kept \cup aside /\ aside' = {}
  /\ lineage' = IF Here \in lineage THEN {"home"} ELSE {}
  /\ pc' = "reset"
  /\ UNCHANGED <<store, files, tip, tree, refused, memory, agent, crashes>>

ResetRun ==
  /\ pc = "reset"
  /\ skip' = {} /\ progress' = NoProgress
  /\ Return
  /\ UNCHANGED <<store, pending, sentinel, git, agent, crashes>>

-----------------------------------------------------------------------------
(* complete *)

(* A reported HTTP 402 leaves its mark before anything else is looked at. *)
CallComplete ==
  /\ pc = "idle" /\ held # None
  /\ EnterRunBranch
  /\ \E broke \in {FALSE, CreditPolicy # "off"} :
       progress' = [progress EXCEPT !.degrade = @ \/ (broke /\ CreditPolicy = "degrade"),
                                    !.stop = @ \/ (broke /\ CreditPolicy = "stop")]
  /\ IF pending = None THEN pc' = "idle" /\ held' = None /\ UNCHANGED tok
     ELSE pc' = "gate" /\ tok' = pending /\ UNCHANGED held
  /\ UNCHANGED <<store, pending, skip, sentinel, via, cur, res, asked, crashes>>

Gated(o) ==
  /\ res' = o /\ pc' = "record"
  /\ UNCHANGED <<store, files, branch, aside, kept, lineage, via, cur, tok, agent, crashes>>

(* The result is recorded as done whether or not the commit was refused. *)
CommitResult ==
  \/ Landing /\ refused' = refused \ {tok.ticket}
  \/ Refusal /\ refused' = refused \cup {tok.ticket}

(* Green: councils, specialists, a missing gate, exhausted credits and the F5 mark
   can only lower the trust. *)
GatePass ==
  /\ pc = "gate" /\ Green(tree)
  /\ CommitResult
  /\ \E lowered \in BOOLEAN :
       Gated(IF lowered \/ progress.degrade \/ tok.review
               THEN "DONE_LOW_CONFIDENCE" ELSE "DONE")

(* Red, and green before: undo ... *)
GateIntroduced ==
  /\ pc = "gate" /\ ~Green(tree) /\ tok.green
  /\ RevertTo(tok.snap)
  /\ pc' = "reverted"
  /\ UNCHANGED <<store, files, branch, aside, kept, lineage, refused, memory, agent, crashes>>

(* ... and count the signature: park once the same one has recurred. *)
NoteFailure ==
  /\ pc = "reverted"
  /\ \E s \in Sig :
       /\ failures' = [failures EXCEPT ![tok.ticket][s] = @ + 1]
       /\ res' = IF failures'[tok.ticket][s] >= LoopThreshold
                   THEN "PARKED_DECISION" ELSE "FAILED_RETRYABLE"
  /\ pc' = "record"
  /\ UNCHANGED <<outcome, attempts, offer, files, git, via, cur, tok, agent, crashes>>

(* Red, and red before: keep the change. *)
GatePreexisting ==
  /\ pc = "gate" /\ ~Green(tree) /\ ~tok.green
  /\ CommitResult
  /\ Gated("DONE_LOW_CONFIDENCE")

(* The agent gives up, or the gate could not run: undo and block. *)
GateBlocked ==
  /\ pc = "gate"
  /\ RevertTo(tok.snap) /\ UNCHANGED refused
  /\ Gated("BLOCKED_ENV")

(* git fails in the revert or the commit, before its effect, half-way or after it: block,
   and leave the tree as it is. *)
GateGitError ==
  /\ pc = "gate" /\ "finalize" \in GitFaults
  /\ Gated("BLOCKED_ENV") /\ UNCHANGED refused
  /\ \/ UNCHANGED <<tip, tree>>
     \/ Landing /\ (Green(tree) \/ ~tok.green)
     \/ HalfRevert(tok.snap)

Record ==
  /\ pc = "record"
  /\ outcome' = [outcome EXCEPT ![tok.ticket] = res]
  /\ pc' = "recorded"
  /\ UNCHANGED <<attempts, failures, offer, files, git, memory, agent, crashes>>

ClearPending ==
  /\ pc = "recorded"
  /\ pending' = None
  /\ pc' = "cleared"
  /\ UNCHANGED <<store, skip, sentinel, progress, git, memory, agent, crashes>>

BumpProgress ==
  /\ pc = "cleared"
  /\ progress' = Bump(progress, IsBad(res))
  /\ pc' = "bumped"
  /\ UNCHANGED <<store, pending, skip, sentinel, git, memory, agent, crashes>>

SetAside ==
  /\ pc = "bumped"
  /\ skip' = IF res \in Terminal THEN skip ELSE skip \cup {tok.ticket}
  /\ held' = None
  /\ Return
  /\ UNCHANGED <<store, pending, sentinel, progress, git, asked, crashes>>

-----------------------------------------------------------------------------
(* resolve-park *)

(* Mutant: an offer can be answered twice. *)
MayAnswerAgain(t) ==
  /\ pc = "idle" /\ offer[t] # "none" /\ outcome[t] \notin Terminal
  /\ asked = t \/ LateAnswers

MayAnswer(t) ==
  /\ pc = "idle" /\ offer[t] = "offered" /\ outcome[t] \notin Terminal
  /\ asked = t \/ LateAnswers

Resolve(t) ==
  /\ MayAnswer(t) /\ TRUE \in SafetyNet
  /\ EnterRunBranch
  /\ attempts' = [attempts EXCEPT ![t] = @ + 1]
  /\ pc' = "counted" /\ via' = "resolve" /\ cur' = t /\ asked' = None
  /\ UNCHANGED <<outcome, failures, offer, files, tok, res, held, crashes>>

Decline(t) ==
  /\ MayAnswer(t) /\ TRUE \in SafetyNet
  /\ EnterRunBranch
  /\ outcome' = [outcome EXCEPT ![t] = ParkState(t)]
  /\ pc' = "capped" /\ via' = "resolve" /\ cur' = t /\ asked' = None
  /\ UNCHANGED <<attempts, failures, offer, files, tok, res, held, crashes>>

HaltAnswer(t) ==
  /\ MayAnswer(t) /\ FALSE \in SafetyNet
  /\ EnterRunBranch
  /\ pc' = "terminate" /\ asked' = None
  /\ UNCHANGED <<store, files, memory, held, crashes>>

-----------------------------------------------------------------------------
(* The agent and its process *)

(* The agent implements the ticket it holds, well or badly, and may rework it. *)
AgentEdit(ok) ==
  /\ pc = "idle" /\ held # None
  /\ tree' = {e \in tree : e.ticket # held} \cup {[ticket |-> held, ok |-> ok]}
  /\ UNCHANGED <<store, files, branch, tip, aside, kept, lineage, refused, pc, memory, agent, crashes>>

(* The running command is killed. *)
Crash ==
  /\ pc # "idle" /\ crashes < MaxCrashes
  /\ crashes' = crashes + 1
  /\ Return
  /\ held' = IF RetryComplete THEN held ELSE None
  /\ asked' = None
  /\ UNCHANGED <<store, files, git>>

NextStep ==
  \/ CallNext \/ Recover \/ RecoverFails \/ Schedule \/ Drained \/ Halt
  \/ \E t \in Ticket : HaltTicket(t) \/ OpenOffer(t) \/ ParkTicket(t) \/ CountAttempt(t)
  \/ AnswerOffer \/ BumpParked

ProceedStep ==
  \/ CapTicket \/ SnapshotFails \/ Snapshot \/ ConsumeOffer \/ BumpCapped \/ AfterCapped
  \/ SavePending \/ SetSentinel \/ HandOut \/ StopForCredits \/ DropPending

TerminateStep == ClearSentinel \/ RestoreBranch \/ ForgetBranch \/ ResetRun

CompleteStep ==
  \/ CallComplete \/ GatePass \/ GateIntroduced \/ NoteFailure \/ GatePreexisting
  \/ GateBlocked \/ GateGitError \/ Record \/ ClearPending \/ BumpProgress \/ SetAside

ResolveStep == \E t \in Ticket : Resolve(t) \/ Decline(t) \/ HaltAnswer(t)

Command == NextStep \/ ProceedStep \/ TerminateStep \/ CompleteStep \/ ResolveStep

Next == Command \/ (\E ok \in BOOLEAN : AgentEdit(ok)) \/ Crash

Spec == Init /\ [][Next]_vars

(* A command runs to its end, and while a run is in progress the Stop hook and the launcher
   keep the agent issuing commands; nothing obliges it to edit, to complete rather than to
   ask again, or anyone to start a run once the last one has ended. *)
FairSpec == Spec /\ WF_vars((pc # "idle" \/ sentinel) /\ Command)

-----------------------------------------------------------------------------
(* What the loop promises *)

(* Between tickets the working tree is exactly what HEAD holds, and HEAD holds only
   the work of tickets recorded as done: nothing an aborted, blocked, failed or killed
   attempt touched is left for the next snapshot to sweep up. *)
CleanBetweenTickets ==
  pc = "idle" /\ pending = None =>
    /\ tree = tip
    /\ \A e \in tree : outcome[e.ticket] \in Done

(* A gate that was green when the night began is green on HEAD's branch after every step
   of it. *)
LandedIsGreen == BaseGreen => Green(tip)

(* A ticket that had to park is done only through an F5 answer, and one of a hard
   category is never trusted without review, whatever was killed in between. *)
TrustIsEarned ==
  \A t \in Ticket :
    /\ outcome[t] \in Done =>
         Kind[t] = "routine" \/ (Kind[t] \in Offered /\ offer[t] = "consumed")
    /\ outcome[t] = "DONE" => Kind[t] \notin OptedIn

(* An agent at work is guarded: the Stop hook sees a run in progress, and the ticket
   that `complete` will gate is the one the agent was told to implement. *)
GuardedWhileHeld ==
  pc = "idle" /\ held # None => sentinel /\ pending # None /\ pending.ticket = held

(* The work of a ticket recorded as done, once its result was committed, never leaves the
   branches: no revert, recovery or branch switch of a later command undoes it, whichever
   of the later commits a hook refuses. *)
RecordedWorkSurvives ==
  [][\A e \in tip \cup aside \cup kept :
       outcome[e.ticket] \in Done /\ e.ticket \notin refused => e \in tip' \cup aside' \cup kept']_vars

(* A terminal outcome is the last word on its ticket. *)
TerminalIsFinal ==
  [][\A t \in Ticket : outcome[t] \in Terminal => outcome'[t] = outcome[t]]_vars

(* A token in flight is settled or discarded before another takes its place. *)
OneInFlight ==
  [][pending # None /\ pending' # None => pending' = pending]_vars

(* After a 402 under the stop policy no ticket goes out until that run is over, and
   only the end of the run forgets the request. *)
StopIsHonoured ==
  [][progress.stop =>
       /\ pending' # pending => pending' = None
       /\ progress'.stop \/ ~sentinel]_vars

(* A run that has begun ends. *)
RunEnds == sentinel ~> ~sentinel

(* No ticket, failing or crashing, is retried for ever: as long as runs are started again,
   every ticket comes to a terminal outcome that has no halt before it in the backlog. *)
Reachable(t) == \A u \in Ticket : u <= t => Kind[u] # "halt"
EveryTicketSettles ==
  []<>sentinel => <>[](\A t \in Ticket : Reachable(t) => outcome[t] \in Terminal)

-----------------------------------------------------------------------------
(* The loop implements the backlog contract. *)

Status ==
  [t \in Ticket |->
     CASE outcome[t] \in Terminal -> outcome[t]
       [] outcome[t] \notin Terminal /\ pending # None /\ pending.ticket = t -> "in flight"
       [] OTHER -> "waiting"]

Contract == INSTANCE Backlog WITH status <- Status

Implements == Contract!Spec
=============================================================================
