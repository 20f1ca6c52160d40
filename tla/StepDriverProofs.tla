-------------------------- MODULE StepDriverProofs --------------------------
(***************************************************************************)
(* Safety of the ticket loop, for every backlog and every bound.           *)
(*                                                                         *)
(* Typed and Warrant are inductive whatever fails, Stopped as long as      *)
(* offers are answered in turn. Standing needs an agent that does not      *)
(* repeat a killed `complete`, the survival of committed work also a git   *)
(* that can cut and switch branches (any other command of it may fail, and *)
(* a hook refuse any commit); Hold needs that no F5 answer is late, Slot   *)
(* that none is and the revert of a recovery succeeds; the clean tree all  *)
(* of these, a `complete` whose git works and a hook that refuses nothing; *)
(* the green branch a baseline gate that moreover does not time out.  The  *)
(* last part shows that the loop implements the backlog contract: only     *)
(* eight actions change what the contract sees, each of at most one ticket.*)
(***************************************************************************)
EXTENDS StepDriver, TLAPS

(* The step a command has reached decides what it has in memory. *)
MemoryOK ==
  /\ pc \in {"offered", "counted", "capped", "charged", "snapped", "saved", "armed"}
       => cur \in Ticket
  /\ pc \in {"snapped", "saved", "armed", "undone", "gate", "reverted", "record", "recorded",
             "cleared", "bumped"} => tok \in Token
  /\ pc \in {"record", "recorded", "cleared", "bumped"} => res \in Outcome

Typed == TypeOK /\ MemoryOK

Assisted(t) == Kind[t] \in Offered
Earned(t) == Kind[t] = "routine" \/ (Assisted(t) /\ offer[t] = "consumed")
Warranted(x) == Earned(x.ticket) /\ (Kind[x.ticket] \in OptedIn => x.review)

(* Only a routine ticket is attempted without an answered offer. *)
OffersOK ==
  /\ \A t \in Ticket : offer[t] # "none" => Assisted(t)
  /\ pc \in {"counted", "snapped"} /\ via = "next" => Kind[cur] = "routine"
  /\ pc \in {"counted", "snapped"} /\ via = "resolve" => offer[cur] # "none"
  /\ pc = "counted" /\ via = "resolve" => offer[cur] = "offered"

(* ... and every token that can be completed carries the mark its kind calls for. *)
TokensOK ==
  /\ pending # None => Warranted(pending)
  /\ pc \in {"saved", "armed", "undone", "gate", "reverted", "record"} => Warranted(tok)
  /\ pc = "snapped" => tok.ticket = cur /\ (Kind[cur] \in OptedIn => tok.review)
  /\ pc = "record" /\ res = "DONE" => ~tok.review

Warrant == OffersOK /\ TokensOK /\ TrustIsEarned

(* What TerminalIsFinal rests on: an attempt is always on a ticket that has no final
   outcome yet, and stays so until its own outcome is recorded. *)
Standing ==
  /\ pc \in {"recover", "schedule", "loop", "offered", "parked"} => held = None
  /\ pc \in {"counted", "capped", "charged"} /\ via = "next" => held = None
  /\ pc \in {"counted", "snapped", "saved", "armed"} => outcome[cur] \notin Terminal
  /\ pc \in {"snapped", "saved", "armed"} => tok.ticket = cur
  /\ pc \in {"saved", "armed"} => pending = tok
  /\ pc \in {"gate", "reverted", "record"} => pending = tok /\ held # None
  /\ held # None /\ pending # None /\ pc # "recorded" => outcome[pending.ticket] \notin Terminal

(* No token is on disk while the next one is chosen or an offer is open with the agent. *)
Slot ==
  /\ pc \in {"recover", "schedule", "loop", "offered", "parked", "counted", "capped", "charged"}
       => held = None
  /\ pc \in {"schedule", "loop", "offered", "parked", "counted", "capped", "charged", "snapped",
             "terminate", "restore", "forget", "reset"} => pending = None
  /\ asked # None => pc = "idle" /\ pending = None /\ held = None

(* An agent with an offer holds no ticket, and one that holds a ticket is at work or in
   `complete`. *)
Hold ==
  /\ asked # None => pc = "idle" /\ held = None
  /\ held # None => pc \in {"idle", "gate", "reverted", "record", "recorded", "cleared", "bumped"}
  /\ pc = "armed" => sentinel
  /\ GuardedWhileHeld

Guard == Slot /\ Hold

(* The assumptions of Guard: of Hold, that the agent neither repeats a killed `complete` nor
   answers an offer late; of Slot, that it does not answer late and a recovery can revert. *)
Healthy == ~RetryComplete /\ ~LateAnswers /\ "recover" \notin GitFaults

AgentStep == (\E ok \in BOOLEAN : AgentEdit(ok)) \/ Crash

USE BacklogAssumption, LimitsAssumption, NoneAssumption

LEMMA BumpType ==
  ASSUME NEW p \in Progress
  PROVE  Bump(p, TRUE) \in Progress /\ \A o \in Outcome : Bump(p, IsBad(o)) \in Progress
<1>1. p.processed + 1 \in Nat /\ p.bad + 1 \in Nat /\ p.bad + 0 \in Nat
  BY DEF Progress
<1> QED
  BY <1>1 DEF Bump, Progress

LEMMA FlagType ==
  ASSUME NEW p \in Progress, NEW degrade \in BOOLEAN, NEW stop \in BOOLEAN
  PROVE  /\ [p EXCEPT !.degrade = @ \/ degrade] \in Progress
         /\ [p EXCEPT !.degrade = @ \/ degrade, !.stop = @ \/ stop] \in Progress
BY DEF Progress

LEMMA ResetType ==
  ASSUME NEW p \in Progress
  PROVE  [NoProgress EXCEPT !.f5calls = p.f5calls] \in Progress
BY DEF Progress, NoProgress

-----------------------------------------------------------------------------
(* Types *)

LEMMA TypedInit == Init => Typed
<1> SUFFICES ASSUME Init PROVE Typed
  OBVIOUS
<1> QED
  BY DEF Init, Typed, TypeOK, MemoryOK, Steps, Progress, NoProgress, Tree

LEMMA CallProgress ==
  ASSUME progress \in Progress, CallNext PROVE progress' \in Progress
<1>1. progress' \in {progress, [NoProgress EXCEPT !.f5calls = progress.f5calls]}
  BY DEF CallNext
<1> QED BY <1>1, ResetType

(* Whatever branch a command comes to work on, and whether or not git gets it there. *)
LEMMA EnteredTypes ==
  ASSUME Typed, EnterRunBranch
  PROVE  /\ branch' \in {"none", "on", "off"} /\ {tip', aside', kept', tree'} \subseteq Tree
         /\ lineage' \subseteq {"run", "home"} /\ refused' \subseteq Ticket
<1> USE DEF Typed, TypeOK, Tree, EnterRunBranch, Stay
<1>1. CASE CutRunBranch
  BY <1>1 DEF CutRunBranch
<1>2. CASE RejoinRunBranch
  BY <1>2 DEF RejoinRunBranch, Checkout
<1>3. CASE NoRunBranch
  BY <1>3 DEF NoRunBranch
<1> QED
  BY <1>1, <1>2, <1>3

(* A commit, refused or not, leaves trees. *)
LEMMA CommittedTypes ==
  ASSUME Typed, CommitAll PROVE {tip', tree'} \subseteq Tree
BY DEF Typed, TypeOK, CommitAll, Landing, Refusal

LEMMA TypedNextStep == Typed /\ NextStep => Typed'
<1> SUFFICES ASSUME Typed, NextStep PROVE Typed'
  OBVIOUS
<1> USE DEF Typed, TypeOK, MemoryOK, Steps, store, files, git, memory, agent
<1>1. CASE CallNext
  <2>1. progress' \in Progress
    BY <1>1, CallProgress
  <2> QED
    BY <1>1, <2>1, EnteredTypes DEF CallNext
<1>2. CASE Recover
  BY <1>2 DEF Recover, Recorded, RevertTo, Token
<1>3. CASE RecoverFails
  BY <1>3 DEF RecoverFails, HalfRevert, Token
<1>4. CASE Schedule
  BY <1>4 DEF Schedule
<1>5. CASE Drained
  BY <1>5 DEF Drained
<1>6. CASE Halt
  BY <1>6 DEF Halt
<1>7. ASSUME NEW t \in Ticket, OpenOffer(t) PROVE Typed'
  BY <1>7 DEF OpenOffer
<1>8. ASSUME NEW t \in Ticket, ParkTicket(t) PROVE Typed'
  BY <1>8 DEF ParkTicket, ParkState, Outcome, Terminal, Parked
<1>9. ASSUME NEW t \in Ticket, CountAttempt(t) PROVE Typed'
  BY <1>9 DEF CountAttempt
<1>10. CASE AnswerOffer
  BY <1>10 DEF AnswerOffer, Return, Progress
<1>11. CASE BumpParked
  <2>1. progress' \in Progress
    <3>1. progress \in Progress /\ progress' = Bump(progress, TRUE)
      BY <1>11 DEF BumpParked
    <3> QED
      BY ONLY <3>1, BumpType, Zenon
  <2> QED
    BY <1>11, <2>1 DEF BumpParked, Bump
<1>12. ASSUME NEW t \in Ticket, HaltTicket(t) PROVE Typed'
  BY <1>12 DEF HaltTicket
<1> QED
  BY <1>1, <1>2, <1>3, <1>4, <1>5, <1>6, <1>7, <1>8, <1>9, <1>10, <1>11, <1>12 DEF NextStep

LEMMA TypedProceedStep == Typed /\ ProceedStep => Typed'
<1> SUFFICES ASSUME Typed, ProceedStep PROVE Typed'
  OBVIOUS
<1> USE DEF Typed, TypeOK, MemoryOK, Steps, store, files, git, memory, agent
<1>1. CASE CapTicket
  BY <1>1 DEF CapTicket, Outcome, Terminal, Parked
<1>2. CASE SnapshotFails
  BY <1>2 DEF SnapshotFails, Landing, Outcome, Retry
<1>3. CASE Snapshot
  BY <1>3, CommittedTypes DEF Snapshot, Token, Green, ForcesReview
<1>4. CASE ConsumeOffer
  BY <1>4 DEF ConsumeOffer
<1>5. CASE BumpCapped
  <2>1. progress' \in Progress
    <3>1. progress \in Progress /\ progress' = Bump(progress, TRUE)
      BY <1>5 DEF BumpCapped
    <3> QED
      BY ONLY <3>1, BumpType, Zenon
  <2> QED
    BY <1>5, <2>1 DEF BumpCapped, Bump
<1>6. CASE AfterCapped
  BY <1>6 DEF AfterCapped, Return
<1>7. CASE SavePending
  BY <1>7 DEF SavePending, Here
<1>8. CASE SetSentinel
  BY <1>8 DEF SetSentinel
<1>9. CASE HandOut
  <2>1. progress' \in Progress
    <3>1. PICK exhausted \in {FALSE, CreditPolicy = "degrade"} :
            progress' = [progress EXCEPT !.degrade = @ \/ exhausted]
      BY <1>9 DEF HandOut
    <3> QED
      BY <3>1, FlagType
  <2> QED
    BY <1>9, <2>1 DEF HandOut, Return
<1>10. CASE StopForCredits
  BY <1>10 DEF StopForCredits, RevertTo, Token
<1>11. CASE DropPending
  BY <1>11 DEF DropPending
<1> QED
  BY <1>1, <1>2, <1>3, <1>4, <1>5, <1>6, <1>7, <1>8, <1>9, <1>10, <1>11 DEF ProceedStep

LEMMA TypedTerminateStep == Typed /\ TerminateStep => Typed'
<1> SUFFICES ASSUME Typed, TerminateStep PROVE Typed'
  OBVIOUS
<1> USE DEF Typed, TypeOK, MemoryOK, Steps, store, files, git, memory, agent
<1>1. CASE ClearSentinel
  BY <1>1, ZenonT(60) DEF ClearSentinel
<1>2. CASE RestoreBranch
  BY <1>2 DEF RestoreBranch, Checkout, Stay, Tree
<1>3. CASE ForgetBranch
  BY <1>3 DEF ForgetBranch, Here, Tree
<1>4. CASE ResetRun
  BY <1>4 DEF ResetRun, Return, Progress, NoProgress
<1> QED
  BY <1>1, <1>2, <1>3, <1>4 DEF TerminateStep

LEMMA TypedCompleteStep == Typed /\ CompleteStep => Typed'
<1> SUFFICES ASSUME Typed, CompleteStep PROVE Typed'
  OBVIOUS
<1> USE DEF Typed, TypeOK, MemoryOK, Steps, store, files, git, memory, agent
<1>1. CASE CallComplete
  <2>1. progress' \in Progress
    <3>1. PICK broke \in {FALSE, CreditPolicy # "off"} :
            progress' = [progress EXCEPT !.degrade = @ \/ (broke /\ CreditPolicy = "degrade"),
                                         !.stop = @ \/ (broke /\ CreditPolicy = "stop")]
      BY <1>1 DEF CallComplete
    <3> QED
      BY <3>1, FlagType
  <2> QED
    BY <1>1, <2>1, EnteredTypes DEF CallComplete
<1>2. CASE GatePass
  BY <1>2 DEF GatePass, Gated, CommitResult, Landing, Refusal, Token, Outcome, Terminal, Done
<1>3. CASE GateIntroduced
  BY <1>3 DEF GateIntroduced, RevertTo, Token
<1>4. CASE NoteFailure
  BY <1>4 DEF NoteFailure, Token, Outcome, Terminal, Parked, Retry
<1>5. CASE GatePreexisting
  BY <1>5 DEF GatePreexisting, Gated, CommitResult, Landing, Refusal, Token, Outcome, Terminal, Done
<1>6. CASE GateBlocked
  BY <1>6 DEF GateBlocked, Gated, RevertTo, Token, Outcome, Retry
<1>7. CASE GateGitError
  BY <1>7 DEF GateGitError, Gated, Landing, HalfRevert, Token, Outcome, Retry
<1>8. CASE Record
  BY <1>8, ZenonT(60) DEF Record
<1>9. CASE ClearPending
  BY <1>9 DEF ClearPending
<1>10. CASE BumpProgress
  <2>1. progress' \in Progress
    BY <1>10, BumpType DEF BumpProgress
  <2> QED
    BY <1>10, <2>1 DEF BumpProgress
<1>11. CASE SetAside
  BY <1>11 DEF SetAside, Return, Token
<1> QED
  BY <1>1, <1>2, <1>3, <1>4, <1>5, <1>6, <1>7, <1>8, <1>9, <1>10, <1>11 DEF CompleteStep

LEMMA TypedResolveStep == Typed /\ ResolveStep => Typed'
<1> SUFFICES ASSUME Typed, ResolveStep PROVE Typed'
  OBVIOUS
<1> USE DEF Typed, TypeOK, MemoryOK, Steps, store, files, git, memory, agent
<1>1. ASSUME NEW t \in Ticket, Resolve(t) PROVE Typed'
  BY <1>1, EnteredTypes DEF Resolve, MayAnswer
<1>2. ASSUME NEW t \in Ticket, Decline(t) PROVE Typed'
  BY <1>2, EnteredTypes DEF Decline, MayAnswer, ParkState, Outcome, Terminal, Parked
<1>3. ASSUME NEW t \in Ticket, HaltAnswer(t) PROVE Typed'
  BY <1>3, EnteredTypes DEF HaltAnswer, MayAnswer
<1> QED
  BY <1>1, <1>2, <1>3 DEF ResolveStep

LEMMA TypedAgentStep == Typed /\ AgentStep => Typed'
<1> SUFFICES ASSUME Typed, AgentStep PROVE Typed'
  OBVIOUS
<1> USE DEF Typed, TypeOK, MemoryOK, Steps, store, files, git, memory, agent
<1>1. ASSUME NEW ok \in BOOLEAN, AgentEdit(ok) PROVE Typed'
  BY <1>1 DEF AgentEdit, Tree, Edit
<1>2. CASE Crash
  BY <1>2 DEF Crash, Return
<1> QED
  BY <1>1, <1>2 DEF AgentStep

LEMMA TypedStutter == Typed /\ UNCHANGED vars => Typed'
BY DEF Typed, TypeOK, MemoryOK, vars, store, files, git, memory, agent

LEMMA TypedInductive == Typed /\ [Next]_vars => Typed'
BY TypedNextStep, TypedProceedStep, TypedTerminateStep, TypedCompleteStep, TypedResolveStep,
   TypedAgentStep, TypedStutter DEF Next, Command, AgentStep

(* Every durable file and every step of a command keeps its type, and a command never
   reads a ticket, a token or an outcome it has not set. *)
THEOREM TypeCorrect == Spec => []TypeOK
<1>1. Typed => TypeOK
  BY DEF Typed
<1> QED
  BY <1>1, TypedInit, TypedInductive, PTL DEF Spec

-----------------------------------------------------------------------------
(* Trust, whatever is killed and whatever fails *)

LEMMA WarrantInit == Init => Warrant
BY DEF Init, Warrant, OffersOK, TokensOK, Warranted, Earned, Assisted, Offered, OptedIn, TrustIsEarned, Done, Terminal, Outcome

LEMMA WarrantNextStep == Typed /\ Warrant /\ NextStep => Warrant'
<1> SUFFICES ASSUME Typed, Warrant, NextStep PROVE Warrant'
  OBVIOUS
<1> USE DEF Warrant, OffersOK, TokensOK, Warranted, Earned, Assisted, Offered, OptedIn, TrustIsEarned, Typed, TypeOK, MemoryOK, Token, Kinds, Done, Parked, Retry, Terminal, Outcome, store, files, git, memory, agent
<1>1. CASE CallNext
  BY <1>1 DEF CallNext, EnterRunBranch
<1>2. CASE Recover
  BY <1>2 DEF Recover
<1>3. CASE RecoverFails
  BY <1>3 DEF RecoverFails
<1>4. CASE Schedule
  BY <1>4 DEF Schedule
<1>5. CASE Drained
  BY <1>5 DEF Drained
<1>6. CASE Halt
  BY <1>6 DEF Halt
<1>7. ASSUME NEW t \in Ticket, OpenOffer(t) PROVE Warrant'
  BY <1>7 DEF OpenOffer, CanOffer
<1>8. ASSUME NEW t \in Ticket, ParkTicket(t) PROVE Warrant'
  BY <1>8 DEF ParkTicket, ParkState, Scheduled, Ready
<1>9. ASSUME NEW t \in Ticket, CountAttempt(t) PROVE Warrant'
  BY <1>9 DEF CountAttempt, Scheduled, Ready
<1>10. CASE AnswerOffer
  BY <1>10 DEF AnswerOffer, Return
<1>11. CASE BumpParked
  BY <1>11 DEF BumpParked
<1>12. ASSUME NEW t \in Ticket, HaltTicket(t) PROVE Warrant'
  BY <1>12 DEF HaltTicket
<1> QED
  BY <1>1, <1>2, <1>3, <1>4, <1>5, <1>6, <1>7, <1>8, <1>9, <1>10, <1>11, <1>12 DEF NextStep

LEMMA WarrantProceedStep == Typed /\ Warrant /\ ProceedStep => Warrant'
<1> SUFFICES ASSUME Typed, Warrant, ProceedStep PROVE Warrant'
  OBVIOUS
<1> USE DEF Warrant, OffersOK, TokensOK, Warranted, Earned, Assisted, Offered, OptedIn, TrustIsEarned, Typed, TypeOK, MemoryOK, Token, Kinds, Done, Parked, Retry, Terminal, Outcome, store, files, git, memory, agent
<1>1. CASE CapTicket
  BY <1>1 DEF CapTicket
<1>2. CASE SnapshotFails
  BY <1>2 DEF SnapshotFails
<1>3. CASE Snapshot
  <2>1. pc' = "snapped" /\ UNCHANGED <<outcome, offer, pending, via, cur>>
    BY <1>3 DEF Snapshot
  <2>2. tok'.ticket = cur /\ tok'.review = ForcesReview
    BY <1>3 DEF Snapshot
  <2>3. Kind[cur] \in OptedIn => ForcesReview
    BY <1>3 DEF Snapshot, ForcesReview
  <2>4. pc = "counted"
    BY <1>3 DEF Snapshot
  <2> QED
    BY <2>1, <2>2, <2>3, <2>4
<1>4. CASE ConsumeOffer
  BY <1>4 DEF ConsumeOffer
<1>5. CASE BumpCapped
  BY <1>5 DEF BumpCapped
<1>6. CASE AfterCapped
  BY <1>6 DEF AfterCapped, Return
<1>7. CASE SavePending
  BY <1>7 DEF SavePending, OfferSettled
<1>8. CASE SetSentinel
  BY <1>8 DEF SetSentinel
<1>9. CASE HandOut
  BY <1>9 DEF HandOut, Return
<1>10. CASE StopForCredits
  BY <1>10 DEF StopForCredits
<1>11. CASE DropPending
  BY <1>11 DEF DropPending
<1> QED
  BY <1>1, <1>2, <1>3, <1>4, <1>5, <1>6, <1>7, <1>8, <1>9, <1>10, <1>11 DEF ProceedStep

LEMMA WarrantTerminateStep == Typed /\ Warrant /\ TerminateStep => Warrant'
<1> SUFFICES ASSUME Typed, Warrant, TerminateStep PROVE Warrant'
  OBVIOUS
<1> USE DEF Warrant, OffersOK, TokensOK, Warranted, Earned, Assisted, Offered, OptedIn, TrustIsEarned, Typed, TypeOK, MemoryOK, Token, Kinds, Done, Parked, Retry, Terminal, Outcome, store, files, git, memory, agent
<1>1. CASE ClearSentinel
  BY <1>1 DEF ClearSentinel
<1>2. CASE RestoreBranch
  BY <1>2 DEF RestoreBranch
<1>3. CASE ForgetBranch
  BY <1>3 DEF ForgetBranch
<1>4. CASE ResetRun
  BY <1>4 DEF ResetRun, Return
<1> QED
  BY <1>1, <1>2, <1>3, <1>4 DEF TerminateStep

LEMMA WarrantCompleteStep == Typed /\ Warrant /\ CompleteStep => Warrant'
<1> SUFFICES ASSUME Typed, Warrant, CompleteStep PROVE Warrant'
  OBVIOUS
<1> USE DEF Warrant, OffersOK, TokensOK, Warranted, Earned, Assisted, Offered, OptedIn, TrustIsEarned, Typed, TypeOK, MemoryOK, Token, Kinds, Done, Parked, Retry, Terminal, Outcome, store, files, git, memory, agent
<1>1. CASE CallComplete
  BY <1>1 DEF CallComplete, EnterRunBranch
<1>2. CASE GatePass
  BY <1>2 DEF GatePass, Gated
<1>3. CASE GateIntroduced
  BY <1>3 DEF GateIntroduced
<1>4. CASE NoteFailure
  BY <1>4 DEF NoteFailure
<1>5. CASE GatePreexisting
  BY <1>5 DEF GatePreexisting, Gated
<1>6. CASE GateBlocked
  BY <1>6 DEF GateBlocked, Gated
<1>7. CASE GateGitError
  BY <1>7 DEF GateGitError, Gated
<1>8. CASE Record
  BY <1>8 DEF Record
<1>9. CASE ClearPending
  BY <1>9 DEF ClearPending
<1>10. CASE BumpProgress
  BY <1>10 DEF BumpProgress
<1>11. CASE SetAside
  BY <1>11 DEF SetAside, Return
<1> QED
  BY <1>1, <1>2, <1>3, <1>4, <1>5, <1>6, <1>7, <1>8, <1>9, <1>10, <1>11 DEF CompleteStep

LEMMA WarrantResolveStep == Typed /\ Warrant /\ ResolveStep => Warrant'
<1> SUFFICES ASSUME Typed, Warrant, ResolveStep PROVE Warrant'
  OBVIOUS
<1> USE DEF Warrant, OffersOK, TokensOK, Warranted, Earned, Assisted, Offered, OptedIn, TrustIsEarned, Typed, TypeOK, MemoryOK, Token, Kinds, Done, Parked, Retry, Terminal, Outcome, store, files, git, memory, agent
<1>1. ASSUME NEW t \in Ticket, Resolve(t) PROVE Warrant'
  BY <1>1 DEF Resolve, MayAnswer, EnterRunBranch
<1>2. ASSUME NEW t \in Ticket, Decline(t) PROVE Warrant'
  BY <1>2 DEF Decline, MayAnswer, EnterRunBranch, ParkState
<1>3. ASSUME NEW t \in Ticket, HaltAnswer(t) PROVE Warrant'
  BY <1>3 DEF HaltAnswer, MayAnswer, EnterRunBranch
<1> QED
  BY <1>1, <1>2, <1>3 DEF ResolveStep

LEMMA WarrantAgentStep == Typed /\ Warrant /\ AgentStep => Warrant'
<1> SUFFICES ASSUME Typed, Warrant, AgentStep PROVE Warrant'
  OBVIOUS
<1> USE DEF Warrant, OffersOK, TokensOK, Warranted, Earned, Assisted, Offered, OptedIn, TrustIsEarned, Typed, TypeOK, MemoryOK, Token, Kinds, Done, Parked, Retry, Terminal, Outcome, store, files, git, memory, agent
<1>1. ASSUME NEW ok \in BOOLEAN, AgentEdit(ok) PROVE Warrant'
  BY <1>1 DEF AgentEdit
<1>2. CASE Crash
  BY <1>2 DEF Crash, Return
<1> QED
  BY <1>1, <1>2 DEF AgentStep

LEMMA WarrantStutter == Warrant /\ UNCHANGED vars => Warrant'
BY DEF Warrant, OffersOK, TokensOK, Warranted, Earned, Assisted, Offered, OptedIn, TrustIsEarned, vars, store, files, git, memory, agent

LEMMA WarrantInductive == Typed /\ Warrant /\ [Next]_vars => Warrant'
BY WarrantNextStep, WarrantProceedStep, WarrantTerminateStep, WarrantCompleteStep,
   WarrantResolveStep, WarrantAgentStep, WarrantStutter DEF Next, Command, AgentStep

(* A ticket that had to park is done only through an answered offer, and one of a hard
   category is never recorded DONE, whatever is killed and however git fails. *)
THEOREM TrustAlwaysEarned == Spec => []TrustIsEarned
<1>1. Warrant => TrustIsEarned
  BY DEF Warrant
<1> QED
  BY <1>1, TypedInit, TypedInductive, WarrantInit, WarrantInductive, PTL DEF Spec

-----------------------------------------------------------------------------
(* Finality, when a killed `complete` is not repeated *)

LEMMA StandingInit == Init => Standing
BY DEF Init, Standing

LEMMA StandingNextStep == ~RetryComplete /\ Typed /\ Warrant /\ Standing /\ NextStep => Standing'
<1> SUFFICES ASSUME ~RetryComplete, Typed, Warrant, Standing, NextStep PROVE Standing'
  OBVIOUS
<1> USE DEF Standing, Warrant, OffersOK, TokensOK, Warranted, Earned, Assisted, Offered, OptedIn, Typed, TypeOK, MemoryOK, Token, Done, Parked, Retry, Terminal, Outcome, store, files, git, memory, agent
<1>1. CASE CallNext
  BY <1>1 DEF CallNext, EnterRunBranch
<1>2. CASE Recover
  BY <1>2 DEF Recover
<1>3. CASE RecoverFails
  BY <1>3 DEF RecoverFails
<1>4. CASE Schedule
  BY <1>4 DEF Schedule
<1>5. CASE Drained
  BY <1>5 DEF Drained
<1>6. CASE Halt
  BY <1>6 DEF Halt
<1>7. ASSUME NEW t \in Ticket, OpenOffer(t) PROVE Standing'
  BY <1>7 DEF OpenOffer, CanOffer
<1>8. ASSUME NEW t \in Ticket, ParkTicket(t) PROVE Standing'
  BY <1>8 DEF ParkTicket, ParkState, Scheduled, Ready
<1>9. ASSUME NEW t \in Ticket, CountAttempt(t) PROVE Standing'
  BY <1>9 DEF CountAttempt, Scheduled, Ready
<1>10. CASE AnswerOffer
  BY <1>10 DEF AnswerOffer, Return
<1>11. CASE BumpParked
  BY <1>11 DEF BumpParked
<1>12. ASSUME NEW t \in Ticket, HaltTicket(t) PROVE Standing'
  BY <1>12 DEF HaltTicket
<1> QED
  BY <1>1, <1>2, <1>3, <1>4, <1>5, <1>6, <1>7, <1>8, <1>9, <1>10, <1>11, <1>12 DEF NextStep

LEMMA StandingProceedStep == ~RetryComplete /\ Typed /\ Warrant /\ Standing /\ ProceedStep => Standing'
<1> SUFFICES ASSUME ~RetryComplete, Typed, Warrant, Standing, ProceedStep PROVE Standing'
  OBVIOUS
<1> USE DEF Standing, Warrant, OffersOK, TokensOK, Warranted, Earned, Assisted, Offered, OptedIn, Typed, TypeOK, MemoryOK, Token, Done, Parked, Retry, Terminal, Outcome, store, files, git, memory, agent
<1>1. CASE CapTicket
  BY <1>1 DEF CapTicket
<1>2. CASE SnapshotFails
  BY <1>2 DEF SnapshotFails
<1>3. CASE Snapshot
  BY <1>3 DEF Snapshot, ForcesReview
<1>4. CASE ConsumeOffer
  BY <1>4 DEF ConsumeOffer
<1>5. CASE BumpCapped
  BY <1>5 DEF BumpCapped
<1>6. CASE AfterCapped
  BY <1>6 DEF AfterCapped, Return
<1>7. CASE SavePending
  BY <1>7 DEF SavePending, OfferSettled
<1>8. CASE SetSentinel
  BY <1>8 DEF SetSentinel
<1>9. CASE HandOut
  BY <1>9 DEF HandOut, Return
<1>10. CASE StopForCredits
  BY <1>10 DEF StopForCredits
<1>11. CASE DropPending
  BY <1>11 DEF DropPending
<1> QED
  BY <1>1, <1>2, <1>3, <1>4, <1>5, <1>6, <1>7, <1>8, <1>9, <1>10, <1>11 DEF ProceedStep

LEMMA StandingTerminateStep == ~RetryComplete /\ Typed /\ Warrant /\ Standing /\ TerminateStep => Standing'
<1> SUFFICES ASSUME ~RetryComplete, Typed, Warrant, Standing, TerminateStep PROVE Standing'
  OBVIOUS
<1> USE DEF Standing, Warrant, OffersOK, TokensOK, Warranted, Earned, Assisted, Offered, OptedIn, Typed, TypeOK, MemoryOK, Token, Done, Parked, Retry, Terminal, Outcome, store, files, git, memory, agent
<1>1. CASE ClearSentinel
  BY <1>1 DEF ClearSentinel
<1>2. CASE RestoreBranch
  BY <1>2 DEF RestoreBranch
<1>3. CASE ForgetBranch
  BY <1>3 DEF ForgetBranch
<1>4. CASE ResetRun
  BY <1>4 DEF ResetRun, Return
<1> QED
  BY <1>1, <1>2, <1>3, <1>4 DEF TerminateStep

LEMMA StandingCompleteStep == ~RetryComplete /\ Typed /\ Warrant /\ Standing /\ CompleteStep => Standing'
<1> SUFFICES ASSUME ~RetryComplete, Typed, Warrant, Standing, CompleteStep PROVE Standing'
  OBVIOUS
<1> USE DEF Standing, Warrant, OffersOK, TokensOK, Warranted, Earned, Assisted, Offered, OptedIn, Typed, TypeOK, MemoryOK, Token, Done, Parked, Retry, Terminal, Outcome, store, files, git, memory, agent
<1>1. CASE CallComplete
  BY <1>1 DEF CallComplete, EnterRunBranch
<1>2. CASE GatePass
  BY <1>2 DEF GatePass, Gated
<1>3. CASE GateIntroduced
  BY <1>3 DEF GateIntroduced
<1>4. CASE NoteFailure
  BY <1>4 DEF NoteFailure
<1>5. CASE GatePreexisting
  BY <1>5 DEF GatePreexisting, Gated
<1>6. CASE GateBlocked
  BY <1>6 DEF GateBlocked, Gated
<1>7. CASE GateGitError
  BY <1>7 DEF GateGitError, Gated
<1>8. CASE Record
  BY <1>8 DEF Record
<1>9. CASE ClearPending
  BY <1>9 DEF ClearPending
<1>10. CASE BumpProgress
  BY <1>10 DEF BumpProgress
<1>11. CASE SetAside
  BY <1>11 DEF SetAside, Return
<1> QED
  BY <1>1, <1>2, <1>3, <1>4, <1>5, <1>6, <1>7, <1>8, <1>9, <1>10, <1>11 DEF CompleteStep

LEMMA StandingResolveStep == ~RetryComplete /\ Typed /\ Warrant /\ Standing /\ ResolveStep => Standing'
<1> SUFFICES ASSUME ~RetryComplete, Typed, Warrant, Standing, ResolveStep PROVE Standing'
  OBVIOUS
<1> USE DEF Standing, Warrant, OffersOK, TokensOK, Warranted, Earned, Assisted, Offered, OptedIn, Typed, TypeOK, MemoryOK, Token, Done, Parked, Retry, Terminal, Outcome, store, files, git, memory, agent
<1>1. ASSUME NEW t \in Ticket, Resolve(t) PROVE Standing'
  BY <1>1 DEF Resolve, MayAnswer, EnterRunBranch
<1>2. ASSUME NEW t \in Ticket, Decline(t) PROVE Standing'
  BY <1>2 DEF Decline, MayAnswer, EnterRunBranch, ParkState
<1>3. ASSUME NEW t \in Ticket, HaltAnswer(t) PROVE Standing'
  BY <1>3 DEF HaltAnswer, MayAnswer, EnterRunBranch
<1> QED
  BY <1>1, <1>2, <1>3 DEF ResolveStep

LEMMA StandingAgentStep == ~RetryComplete /\ Typed /\ Warrant /\ Standing /\ AgentStep => Standing'
<1> SUFFICES ASSUME ~RetryComplete, Typed, Warrant, Standing, AgentStep PROVE Standing'
  OBVIOUS
<1> USE DEF Standing, Warrant, OffersOK, TokensOK, Warranted, Earned, Assisted, Offered, OptedIn, Typed, TypeOK, MemoryOK, Token, Done, Parked, Retry, Terminal, Outcome, store, files, git, memory, agent
<1>1. ASSUME NEW ok \in BOOLEAN, AgentEdit(ok) PROVE Standing'
  BY <1>1 DEF AgentEdit
<1>2. CASE Crash
  BY <1>2 DEF Crash, Return
<1> QED
  BY <1>1, <1>2 DEF AgentStep

LEMMA StandingStutter == Standing /\ UNCHANGED vars => Standing'
BY DEF Standing, vars, store, files, git, memory, agent

LEMMA StandingInductive == ~RetryComplete /\ Typed /\ Warrant /\ Standing /\ [Next]_vars => Standing'
BY StandingNextStep, StandingProceedStep, StandingTerminateStep, StandingCompleteStep,
   StandingResolveStep, StandingAgentStep, StandingStutter DEF Next, Command, AgentStep

LEMMA TerminalStep ==
  Typed /\ Standing /\ [Next]_vars => \A t \in Ticket : outcome[t] \in Terminal => outcome'[t] = outcome[t]
<1> SUFFICES ASSUME Typed, Standing, [Next]_vars, NEW t \in Ticket, outcome[t] \in Terminal
             PROVE  outcome'[t] = outcome[t]
  OBVIOUS
<1> USE DEF store, files, git, memory, agent, Typed, TypeOK, MemoryOK, Standing, Token
<1>1. ASSUME NEW u \in Ticket, ParkTicket(u) PROVE outcome'[t] = outcome[t]
  BY <1>1 DEF ParkTicket, Scheduled, Ready
<1>2. CASE CapTicket \/ SnapshotFails
  BY <1>2 DEF CapTicket, SnapshotFails
<1>3. CASE Record
  BY <1>3 DEF Record
<1>4. ASSUME NEW u \in Ticket, Decline(u) PROVE outcome'[t] = outcome[t]
  BY <1>4 DEF Decline, MayAnswer
<1>5. CASE \/ CallNext \/ Recover \/ RecoverFails \/ Schedule \/ Drained \/ Halt \/ AnswerOffer
           \/ BumpParked \/ \E u \in Ticket : HaltTicket(u) \/ OpenOffer(u) \/ CountAttempt(u)
  BY <1>5 DEF CallNext, Recover, RecoverFails, Schedule, Drained, Halt, AnswerOffer, BumpParked,
              HaltTicket, OpenOffer, CountAttempt
<1>6. CASE \/ Snapshot \/ ConsumeOffer \/ BumpCapped \/ AfterCapped \/ SavePending \/ SetSentinel
           \/ HandOut \/ StopForCredits \/ DropPending \/ TerminateStep
  BY <1>6 DEF Snapshot, ConsumeOffer, BumpCapped, AfterCapped, SavePending, SetSentinel, HandOut,
              StopForCredits, DropPending, TerminateStep, ClearSentinel, RestoreBranch,
              ForgetBranch, ResetRun
<1>7. CASE \/ CallComplete \/ GatePass \/ GateIntroduced \/ NoteFailure \/ GatePreexisting
           \/ GateBlocked \/ GateGitError \/ ClearPending \/ BumpProgress \/ SetAside
  BY <1>7 DEF CallComplete, GatePass, GateIntroduced, NoteFailure, GatePreexisting, GateBlocked,
              GateGitError, ClearPending, BumpProgress, SetAside, Gated
<1>8. CASE (\E u \in Ticket : Resolve(u) \/ HaltAnswer(u)) \/ AgentStep \/ UNCHANGED vars
  BY <1>8 DEF Resolve, HaltAnswer, AgentStep, AgentEdit, Crash, vars
<1> QED
  BY <1>1, <1>2, <1>3, <1>4, <1>5, <1>6, <1>7, <1>8
     DEF Next, Command, NextStep, ProceedStep, CompleteStep, ResolveStep, AgentStep

(* A terminal outcome is never revised: no later command, resume, late F5 answer or
   failing git writes over it. *)
THEOREM TerminalStaysFinal == ASSUME ~RetryComplete PROVE Spec => TerminalIsFinal
<1>1. Typed /\ Standing /\ [Next]_vars
        => [\A t \in Ticket : outcome[t] \in Terminal => outcome'[t] = outcome[t]]_vars
  BY TerminalStep
<1> QED
  BY <1>1, TypedInit, TypedInductive, WarrantInit, WarrantInductive, StandingInit,
     StandingInductive, PTL DEF Spec, TerminalIsFinal

-----------------------------------------------------------------------------
(* One ticket in flight, when moreover recovery can revert and offers are answered in turn *)

LEMMA SlotInit == Init => Slot
BY DEF Init, Slot

LEMMA SlotNextStep == ~LateAnswers /\ "recover" \notin GitFaults /\ Typed /\ Slot /\ NextStep => Slot'
<1> SUFFICES ASSUME ~LateAnswers, "recover" \notin GitFaults, Typed, Slot, NextStep PROVE Slot'
  OBVIOUS
<1> USE DEF Slot, Typed, TypeOK, MemoryOK, store, files, git, memory, agent
<1>1. CASE CallNext
  BY <1>1 DEF CallNext, EnterRunBranch
<1>2. CASE Recover
  BY <1>2 DEF Recover
<1>3. CASE RecoverFails
  BY <1>3 DEF RecoverFails
<1>4. CASE Schedule
  BY <1>4 DEF Schedule
<1>5. CASE Drained
  BY <1>5 DEF Drained
<1>6. CASE Halt
  BY <1>6 DEF Halt
<1>7. ASSUME NEW t \in Ticket, OpenOffer(t) PROVE Slot'
  BY <1>7 DEF OpenOffer, CanOffer
<1>8. ASSUME NEW t \in Ticket, ParkTicket(t) PROVE Slot'
  BY <1>8 DEF ParkTicket, ParkState, Scheduled, Ready
<1>9. ASSUME NEW t \in Ticket, CountAttempt(t) PROVE Slot'
  BY <1>9 DEF CountAttempt, Scheduled, Ready
<1>10. CASE AnswerOffer
  BY <1>10 DEF AnswerOffer, Return
<1>11. CASE BumpParked
  BY <1>11 DEF BumpParked
<1>12. ASSUME NEW t \in Ticket, HaltTicket(t) PROVE Slot'
  BY <1>12 DEF HaltTicket
<1> QED
  BY <1>1, <1>2, <1>3, <1>4, <1>5, <1>6, <1>7, <1>8, <1>9, <1>10, <1>11, <1>12 DEF NextStep

LEMMA SlotProceedStep == ~LateAnswers /\ "recover" \notin GitFaults /\ Typed /\ Slot /\ ProceedStep => Slot'
<1> SUFFICES ASSUME ~LateAnswers, "recover" \notin GitFaults, Typed, Slot, ProceedStep PROVE Slot'
  OBVIOUS
<1> USE DEF Slot, Typed, TypeOK, MemoryOK, store, files, git, memory, agent
<1>1. CASE CapTicket
  BY <1>1 DEF CapTicket
<1>2. CASE SnapshotFails
  BY <1>2 DEF SnapshotFails
<1>3. CASE Snapshot
  BY <1>3 DEF Snapshot, ForcesReview
<1>4. CASE ConsumeOffer
  BY <1>4 DEF ConsumeOffer
<1>5. CASE BumpCapped
  BY <1>5 DEF BumpCapped
<1>6. CASE AfterCapped
  BY <1>6 DEF AfterCapped, Return
<1>7. CASE SavePending
  BY <1>7 DEF SavePending, OfferSettled
<1>8. CASE SetSentinel
  BY <1>8 DEF SetSentinel
<1>9. CASE HandOut
  BY <1>9 DEF HandOut, Return
<1>10. CASE StopForCredits
  BY <1>10 DEF StopForCredits
<1>11. CASE DropPending
  BY <1>11 DEF DropPending
<1> QED
  BY <1>1, <1>2, <1>3, <1>4, <1>5, <1>6, <1>7, <1>8, <1>9, <1>10, <1>11 DEF ProceedStep

LEMMA SlotTerminateStep == ~LateAnswers /\ "recover" \notin GitFaults /\ Typed /\ Slot /\ TerminateStep => Slot'
<1> SUFFICES ASSUME ~LateAnswers, "recover" \notin GitFaults, Typed, Slot, TerminateStep PROVE Slot'
  OBVIOUS
<1> USE DEF Slot, Typed, TypeOK, MemoryOK, store, files, git, memory, agent
<1>1. CASE ClearSentinel
  BY <1>1 DEF ClearSentinel
<1>2. CASE RestoreBranch
  BY <1>2 DEF RestoreBranch
<1>3. CASE ForgetBranch
  BY <1>3 DEF ForgetBranch
<1>4. CASE ResetRun
  BY <1>4 DEF ResetRun, Return
<1> QED
  BY <1>1, <1>2, <1>3, <1>4 DEF TerminateStep

LEMMA SlotCompleteStep == ~LateAnswers /\ "recover" \notin GitFaults /\ Typed /\ Slot /\ CompleteStep => Slot'
<1> SUFFICES ASSUME ~LateAnswers, "recover" \notin GitFaults, Typed, Slot, CompleteStep PROVE Slot'
  OBVIOUS
<1> USE DEF Slot, Typed, TypeOK, MemoryOK, store, files, git, memory, agent
<1>1. CASE CallComplete
  BY <1>1 DEF CallComplete, EnterRunBranch
<1>2. CASE GatePass
  BY <1>2 DEF GatePass, Gated
<1>3. CASE GateIntroduced
  BY <1>3 DEF GateIntroduced
<1>4. CASE NoteFailure
  BY <1>4 DEF NoteFailure
<1>5. CASE GatePreexisting
  BY <1>5 DEF GatePreexisting, Gated
<1>6. CASE GateBlocked
  BY <1>6 DEF GateBlocked, Gated
<1>7. CASE GateGitError
  BY <1>7 DEF GateGitError, Gated
<1>8. CASE Record
  BY <1>8 DEF Record
<1>9. CASE ClearPending
  BY <1>9 DEF ClearPending
<1>10. CASE BumpProgress
  BY <1>10 DEF BumpProgress
<1>11. CASE SetAside
  BY <1>11 DEF SetAside, Return
<1> QED
  BY <1>1, <1>2, <1>3, <1>4, <1>5, <1>6, <1>7, <1>8, <1>9, <1>10, <1>11 DEF CompleteStep

LEMMA SlotResolveStep == ~LateAnswers /\ "recover" \notin GitFaults /\ Typed /\ Slot /\ ResolveStep => Slot'
<1> SUFFICES ASSUME ~LateAnswers, "recover" \notin GitFaults, Typed, Slot, ResolveStep PROVE Slot'
  OBVIOUS
<1> USE DEF Slot, Typed, TypeOK, MemoryOK, store, files, git, memory, agent
<1>1. ASSUME NEW t \in Ticket, Resolve(t) PROVE Slot'
  BY <1>1 DEF Resolve, MayAnswer, EnterRunBranch
<1>2. ASSUME NEW t \in Ticket, Decline(t) PROVE Slot'
  BY <1>2 DEF Decline, MayAnswer, EnterRunBranch, ParkState
<1>3. ASSUME NEW t \in Ticket, HaltAnswer(t) PROVE Slot'
  BY <1>3 DEF HaltAnswer, MayAnswer, EnterRunBranch
<1> QED
  BY <1>1, <1>2, <1>3 DEF ResolveStep

LEMMA SlotAgentStep == ~LateAnswers /\ "recover" \notin GitFaults /\ Typed /\ Slot /\ AgentStep => Slot'
<1> SUFFICES ASSUME ~LateAnswers, "recover" \notin GitFaults, Typed, Slot, AgentStep PROVE Slot'
  OBVIOUS
<1> USE DEF Slot, Typed, TypeOK, MemoryOK, store, files, git, memory, agent
<1>1. ASSUME NEW ok \in BOOLEAN, AgentEdit(ok) PROVE Slot'
  BY <1>1 DEF AgentEdit
<1>2. CASE Crash
  BY <1>2 DEF Crash, Return
<1> QED
  BY <1>1, <1>2 DEF AgentStep

LEMMA SlotStutter == Slot /\ UNCHANGED vars => Slot'
BY DEF Slot, vars, store, files, git, memory, agent

LEMMA SlotInductive == ~LateAnswers /\ "recover" \notin GitFaults /\ Typed /\ Slot /\ [Next]_vars => Slot'
BY SlotNextStep, SlotProceedStep, SlotTerminateStep, SlotCompleteStep,
   SlotResolveStep, SlotAgentStep, SlotStutter DEF Next, Command, AgentStep

(* Only SavePending puts a token on disk, and it finds none there. *)
LEMMA OneInFlightStep ==
  Slot /\ [Next]_vars => (pending # None /\ pending' # None => pending' = pending)
<1> SUFFICES ASSUME Slot, [Next]_vars PROVE pending # None /\ pending' # None => pending' = pending
  OBVIOUS
<1> USE DEF store, files, git, memory, agent, Slot
<1>1. CASE NextStep
  BY <1>1 DEF NextStep, CallNext, Recover, RecoverFails, Schedule, Drained, Halt, AnswerOffer,
              BumpParked, HaltTicket, OpenOffer, ParkTicket, CountAttempt
<1>2. CASE ProceedStep
  BY <1>2 DEF ProceedStep, CapTicket, SnapshotFails, Snapshot, ConsumeOffer, BumpCapped, AfterCapped,
              SavePending, SetSentinel, HandOut, StopForCredits, DropPending
<1>3. CASE TerminateStep
  BY <1>3 DEF TerminateStep, ClearSentinel, RestoreBranch, ForgetBranch, ResetRun
<1>4. CASE CompleteStep
  BY <1>4 DEF CompleteStep, CallComplete, GatePass, GateIntroduced, NoteFailure, GatePreexisting,
              GateBlocked, GateGitError, Record, ClearPending, BumpProgress, SetAside, Gated
<1>5. CASE ResolveStep \/ AgentStep \/ UNCHANGED vars
  BY <1>5 DEF ResolveStep, Resolve, Decline, HaltAnswer, AgentStep, AgentEdit, Crash, vars
<1> QED
  BY <1>1, <1>2, <1>3, <1>4, <1>5 DEF Next, Command, AgentStep

(* A token in flight is settled or discarded before another takes its place. *)
THEOREM OneAtATime == ASSUME ~LateAnswers, "recover" \notin GitFaults PROVE Spec => OneInFlight
<1>1. ~LateAnswers /\ "recover" \notin GitFaults /\ Typed /\ Slot /\ [Next]_vars => Slot'
  BY SlotInductive
<1>2. Slot /\ [Next]_vars => [pending # None /\ pending' # None => pending' = pending]_vars
  BY OneInFlightStep
<1> QED
  BY <1>1, <1>2, TypedInit, TypedInductive, SlotInit, PTL DEF Spec, OneInFlight

-----------------------------------------------------------------------------
(* An agent at work is guarded, when no killed `complete` is repeated and offers are answered
   in turn *)

LEMMA HoldInit == Init => Hold
BY DEF Init, Hold, GuardedWhileHeld

LEMMA HoldNextStep == ~RetryComplete /\ ~LateAnswers /\ Typed /\ Standing /\ Hold /\ NextStep => Hold'
<1> SUFFICES ASSUME ~RetryComplete, ~LateAnswers, Typed, Standing, Hold, NextStep PROVE Hold'
  OBVIOUS
<1> USE DEF Hold, GuardedWhileHeld, Standing, Typed, TypeOK, MemoryOK, store, files, git, memory, agent
<1>1. CASE CallNext
  BY <1>1 DEF CallNext, EnterRunBranch
<1>2. CASE Recover
  BY <1>2 DEF Recover
<1>3. CASE RecoverFails
  BY <1>3 DEF RecoverFails
<1>4. CASE Schedule
  BY <1>4 DEF Schedule
<1>5. CASE Drained
  BY <1>5 DEF Drained
<1>6. CASE Halt
  BY <1>6 DEF Halt
<1>7. ASSUME NEW t \in Ticket, OpenOffer(t) PROVE Hold'
  BY <1>7 DEF OpenOffer, CanOffer
<1>8. ASSUME NEW t \in Ticket, ParkTicket(t) PROVE Hold'
  BY <1>8 DEF ParkTicket, ParkState, Scheduled, Ready
<1>9. ASSUME NEW t \in Ticket, CountAttempt(t) PROVE Hold'
  BY <1>9 DEF CountAttempt, Scheduled, Ready
<1>10. CASE AnswerOffer
  BY <1>10 DEF AnswerOffer, Return
<1>11. CASE BumpParked
  BY <1>11 DEF BumpParked
<1>12. ASSUME NEW t \in Ticket, HaltTicket(t) PROVE Hold'
  BY <1>12 DEF HaltTicket
<1> QED
  BY <1>1, <1>2, <1>3, <1>4, <1>5, <1>6, <1>7, <1>8, <1>9, <1>10, <1>11, <1>12 DEF NextStep

LEMMA HoldProceedStep == ~RetryComplete /\ ~LateAnswers /\ Typed /\ Standing /\ Hold /\ ProceedStep => Hold'
<1> SUFFICES ASSUME ~RetryComplete, ~LateAnswers, Typed, Standing, Hold, ProceedStep PROVE Hold'
  OBVIOUS
<1> USE DEF Hold, GuardedWhileHeld, Standing, Typed, TypeOK, MemoryOK, store, files, git, memory, agent
<1>1. CASE CapTicket
  BY <1>1 DEF CapTicket
<1>2. CASE SnapshotFails
  BY <1>2 DEF SnapshotFails
<1>3. CASE Snapshot
  BY <1>3 DEF Snapshot, ForcesReview
<1>4. CASE ConsumeOffer
  BY <1>4 DEF ConsumeOffer
<1>5. CASE BumpCapped
  BY <1>5 DEF BumpCapped
<1>6. CASE AfterCapped
  BY <1>6 DEF AfterCapped, Return
<1>7. CASE SavePending
  BY <1>7 DEF SavePending, OfferSettled
<1>8. CASE SetSentinel
  BY <1>8 DEF SetSentinel
<1>9. CASE HandOut
  BY <1>9 DEF HandOut, Return
<1>10. CASE StopForCredits
  BY <1>10 DEF StopForCredits
<1>11. CASE DropPending
  BY <1>11 DEF DropPending
<1> QED
  BY <1>1, <1>2, <1>3, <1>4, <1>5, <1>6, <1>7, <1>8, <1>9, <1>10, <1>11 DEF ProceedStep

LEMMA HoldTerminateStep == ~RetryComplete /\ ~LateAnswers /\ Typed /\ Standing /\ Hold /\ TerminateStep => Hold'
<1> SUFFICES ASSUME ~RetryComplete, ~LateAnswers, Typed, Standing, Hold, TerminateStep PROVE Hold'
  OBVIOUS
<1> USE DEF Hold, GuardedWhileHeld, Standing, Typed, TypeOK, MemoryOK, store, files, git, memory, agent
<1>1. CASE ClearSentinel
  BY <1>1 DEF ClearSentinel
<1>2. CASE RestoreBranch
  BY <1>2 DEF RestoreBranch
<1>3. CASE ForgetBranch
  BY <1>3 DEF ForgetBranch
<1>4. CASE ResetRun
  BY <1>4 DEF ResetRun, Return
<1> QED
  BY <1>1, <1>2, <1>3, <1>4 DEF TerminateStep

LEMMA HoldCompleteStep == ~RetryComplete /\ ~LateAnswers /\ Typed /\ Standing /\ Hold /\ CompleteStep => Hold'
<1> SUFFICES ASSUME ~RetryComplete, ~LateAnswers, Typed, Standing, Hold, CompleteStep PROVE Hold'
  OBVIOUS
<1> USE DEF Hold, GuardedWhileHeld, Standing, Typed, TypeOK, MemoryOK, store, files, git, memory, agent
<1>1. CASE CallComplete
  BY <1>1 DEF CallComplete, EnterRunBranch
<1>2. CASE GatePass
  BY <1>2 DEF GatePass, Gated
<1>3. CASE GateIntroduced
  BY <1>3 DEF GateIntroduced
<1>4. CASE NoteFailure
  BY <1>4 DEF NoteFailure
<1>5. CASE GatePreexisting
  BY <1>5 DEF GatePreexisting, Gated
<1>6. CASE GateBlocked
  BY <1>6 DEF GateBlocked, Gated
<1>7. CASE GateGitError
  BY <1>7 DEF GateGitError, Gated
<1>8. CASE Record
  BY <1>8 DEF Record
<1>9. CASE ClearPending
  BY <1>9 DEF ClearPending
<1>10. CASE BumpProgress
  BY <1>10 DEF BumpProgress
<1>11. CASE SetAside
  BY <1>11 DEF SetAside, Return
<1> QED
  BY <1>1, <1>2, <1>3, <1>4, <1>5, <1>6, <1>7, <1>8, <1>9, <1>10, <1>11 DEF CompleteStep

LEMMA HoldResolveStep == ~RetryComplete /\ ~LateAnswers /\ Typed /\ Standing /\ Hold /\ ResolveStep => Hold'
<1> SUFFICES ASSUME ~RetryComplete, ~LateAnswers, Typed, Standing, Hold, ResolveStep PROVE Hold'
  OBVIOUS
<1> USE DEF Hold, GuardedWhileHeld, Standing, Typed, TypeOK, MemoryOK, store, files, git, memory, agent
<1>1. ASSUME NEW t \in Ticket, Resolve(t) PROVE Hold'
  BY <1>1 DEF Resolve, MayAnswer, EnterRunBranch
<1>2. ASSUME NEW t \in Ticket, Decline(t) PROVE Hold'
  BY <1>2 DEF Decline, MayAnswer, EnterRunBranch, ParkState
<1>3. ASSUME NEW t \in Ticket, HaltAnswer(t) PROVE Hold'
  BY <1>3 DEF HaltAnswer, MayAnswer, EnterRunBranch
<1> QED
  BY <1>1, <1>2, <1>3 DEF ResolveStep

LEMMA HoldAgentStep == ~RetryComplete /\ ~LateAnswers /\ Typed /\ Standing /\ Hold /\ AgentStep => Hold'
<1> SUFFICES ASSUME ~RetryComplete, ~LateAnswers, Typed, Standing, Hold, AgentStep PROVE Hold'
  OBVIOUS
<1> USE DEF Hold, GuardedWhileHeld, Standing, Typed, TypeOK, MemoryOK, store, files, git, memory, agent
<1>1. ASSUME NEW ok \in BOOLEAN, AgentEdit(ok) PROVE Hold'
  BY <1>1 DEF AgentEdit
<1>2. CASE Crash
  BY <1>2 DEF Crash, Return
<1> QED
  BY <1>1, <1>2 DEF AgentStep

LEMMA HoldStutter == Hold /\ UNCHANGED vars => Hold'
BY DEF Hold, GuardedWhileHeld, vars, store, files, git, memory, agent

LEMMA HoldInductive == ~RetryComplete /\ ~LateAnswers /\ Typed /\ Standing /\ Hold /\ [Next]_vars => Hold'
BY HoldNextStep, HoldProceedStep, HoldTerminateStep, HoldCompleteStep,
   HoldResolveStep, HoldAgentStep, HoldStutter DEF Next, Command, AgentStep

(* The Stop hook sees a run in progress whenever the agent holds a ticket, and that
   ticket is the one the next `complete` will gate. *)
THEOREM AlwaysGuarded == ASSUME ~RetryComplete, ~LateAnswers PROVE Spec => []GuardedWhileHeld
<1>1. ~RetryComplete /\ ~LateAnswers /\ Typed /\ Standing /\ Hold /\ [Next]_vars => Hold'
  BY HoldInductive
<1>2. Hold => GuardedWhileHeld
  BY DEF Hold
<1> QED
  BY <1>1, <1>2, TypedInit, TypedInductive, WarrantInit, WarrantInductive, StandingInit,
     StandingInductive, HoldInit, PTL DEF Spec

LEMMA GuardInit == Init => Guard
BY SlotInit, HoldInit DEF Guard

LEMMA GuardInductive == Healthy /\ Typed /\ Standing /\ Guard /\ [Next]_vars => Guard'
BY SlotInductive, HoldInductive DEF Healthy, Guard

-----------------------------------------------------------------------------
(* A stop for exhausted credits, whatever git does and whatever the agent repeats *)

(* No command gets past the choice of a ticket once the stop is asked for, no offer is then
   in the agent's hand, and the run only forgets the request once its sentinel is gone. *)
Stopped ==
  /\ pc \in {"recover", "schedule", "loop", "offered", "parked"} => held = None
  /\ pc \in {"counted", "capped", "charged"} /\ via = "next" => held = None
  /\ asked # None => pc = "idle" /\ held = None
  /\ pc \in {"restore", "forget", "reset"} => ~sentinel
  /\ progress.stop =>
       /\ asked = None
       /\ pc \notin {"loop", "offered", "parked", "counted", "capped", "charged", "snapped",
                     "saved", "armed", "undone"}

LEMMA StoppedInit == Init => Stopped
BY DEF Init, Stopped, NoProgress

LEMMA StoppedNextStep ==
  ASSUME ~LateAnswers, Typed, Stopped, NextStep
  PROVE  Stopped'
<1> USE DEF Stopped, Typed, TypeOK, MemoryOK, Progress, store, files, git, memory, agent
<1>1. CASE CallNext
  BY <1>1 DEF CallNext, EnterRunBranch, NoProgress
<1>2. CASE Recover
  BY <1>2 DEF Recover
<1>3. CASE RecoverFails
  BY <1>3 DEF RecoverFails
<1>4. CASE Schedule
  BY <1>4 DEF Schedule
<1>5. CASE Drained
  BY <1>5 DEF Drained
<1>6. CASE Halt
  BY <1>6 DEF Halt
<1>7. ASSUME NEW t \in Ticket, OpenOffer(t) PROVE Stopped'
  BY <1>7 DEF OpenOffer, CanOffer
<1>8. ASSUME NEW t \in Ticket, ParkTicket(t) PROVE Stopped'
  BY <1>8 DEF ParkTicket, ParkState, Scheduled, Ready
<1>9. ASSUME NEW t \in Ticket, CountAttempt(t) PROVE Stopped'
  BY <1>9 DEF CountAttempt, Scheduled, Ready
<1>10. CASE AnswerOffer
  BY <1>10 DEF AnswerOffer, Return
<1>11. CASE BumpParked
  BY <1>11 DEF BumpParked, Bump
<1>12. ASSUME NEW t \in Ticket, HaltTicket(t) PROVE Stopped'
  BY <1>12 DEF HaltTicket
<1> QED
  BY <1>1, <1>2, <1>3, <1>4, <1>5, <1>6, <1>7, <1>8, <1>9, <1>10, <1>11, <1>12 DEF NextStep

LEMMA StoppedProceedStep ==
  ASSUME ~LateAnswers, Typed, Stopped, ProceedStep
  PROVE  Stopped'
<1> USE DEF Stopped, Typed, TypeOK, MemoryOK, Progress, store, files, git, memory, agent
<1>1. CASE CapTicket
  BY <1>1 DEF CapTicket
<1>2. CASE SnapshotFails
  BY <1>2 DEF SnapshotFails
<1>3. CASE Snapshot
  BY <1>3 DEF Snapshot, ForcesReview
<1>4. CASE ConsumeOffer
  BY <1>4 DEF ConsumeOffer
<1>5. CASE BumpCapped
  BY <1>5 DEF BumpCapped, Bump
<1>6. CASE AfterCapped
  BY <1>6 DEF AfterCapped, Return
<1>7. CASE SavePending
  BY <1>7 DEF SavePending, OfferSettled
<1>8. CASE SetSentinel
  BY <1>8 DEF SetSentinel
<1>9. CASE HandOut
  BY <1>9 DEF HandOut, Return
<1>10. CASE StopForCredits
  BY <1>10 DEF StopForCredits
<1>11. CASE DropPending
  BY <1>11 DEF DropPending
<1> QED
  BY <1>1, <1>2, <1>3, <1>4, <1>5, <1>6, <1>7, <1>8, <1>9, <1>10, <1>11 DEF ProceedStep

LEMMA StoppedTerminateStep ==
  ASSUME ~LateAnswers, Typed, Stopped, TerminateStep
  PROVE  Stopped'
<1> USE DEF Stopped, Typed, TypeOK, MemoryOK, Progress, store, files, git, memory, agent
<1>1. CASE ClearSentinel
  BY <1>1 DEF ClearSentinel
<1>2. CASE RestoreBranch
  BY <1>2 DEF RestoreBranch
<1>3. CASE ForgetBranch
  BY <1>3 DEF ForgetBranch
<1>4. CASE ResetRun
  BY <1>4 DEF ResetRun, Return, NoProgress
<1> QED
  BY <1>1, <1>2, <1>3, <1>4 DEF TerminateStep

LEMMA StoppedCompleteStep ==
  ASSUME ~LateAnswers, Typed, Stopped, CompleteStep
  PROVE  Stopped'
<1> USE DEF Stopped, Typed, TypeOK, MemoryOK, Progress, store, files, git, memory, agent
<1>1. CASE CallComplete
  BY <1>1 DEF CallComplete, EnterRunBranch
<1>2. CASE GatePass
  BY <1>2 DEF GatePass, Gated
<1>3. CASE GateIntroduced
  BY <1>3 DEF GateIntroduced
<1>4. CASE NoteFailure
  BY <1>4 DEF NoteFailure
<1>5. CASE GatePreexisting
  BY <1>5 DEF GatePreexisting, Gated
<1>6. CASE GateBlocked
  BY <1>6 DEF GateBlocked, Gated
<1>7. CASE GateGitError
  BY <1>7 DEF GateGitError, Gated
<1>8. CASE Record
  BY <1>8 DEF Record
<1>9. CASE ClearPending
  BY <1>9 DEF ClearPending
<1>10. CASE BumpProgress
  BY <1>10 DEF BumpProgress, Bump
<1>11. CASE SetAside
  BY <1>11 DEF SetAside, Return
<1> QED
  BY <1>1, <1>2, <1>3, <1>4, <1>5, <1>6, <1>7, <1>8, <1>9, <1>10, <1>11 DEF CompleteStep

LEMMA StoppedResolveStep ==
  ASSUME ~LateAnswers, Typed, Stopped, ResolveStep
  PROVE  Stopped'
<1> USE DEF Stopped, Typed, TypeOK, MemoryOK, Progress, store, files, git, memory, agent
<1>1. ASSUME NEW t \in Ticket, Resolve(t) PROVE Stopped'
  BY <1>1 DEF Resolve, MayAnswer, EnterRunBranch
<1>2. ASSUME NEW t \in Ticket, Decline(t) PROVE Stopped'
  BY <1>2 DEF Decline, MayAnswer, EnterRunBranch, ParkState
<1>3. ASSUME NEW t \in Ticket, HaltAnswer(t) PROVE Stopped'
  BY <1>3 DEF HaltAnswer, MayAnswer, EnterRunBranch
<1> QED
  BY <1>1, <1>2, <1>3 DEF ResolveStep

LEMMA StoppedAgentStep ==
  ASSUME ~LateAnswers, Typed, Stopped, AgentStep
  PROVE  Stopped'
<1> USE DEF Stopped, Typed, TypeOK, MemoryOK, Progress, store, files, git, memory, agent
<1>1. ASSUME NEW ok \in BOOLEAN, AgentEdit(ok) PROVE Stopped'
  BY <1>1 DEF AgentEdit
<1>2. CASE Crash
  BY <1>2 DEF Crash, Return
<1> QED
  BY <1>1, <1>2 DEF AgentStep

LEMMA StoppedStutter == Stopped /\ UNCHANGED vars => Stopped'
BY DEF Stopped, vars, store, files, git, memory, agent

LEMMA StoppedInductive ==
  ASSUME ~LateAnswers, Typed, Stopped, [Next]_vars
  PROVE  Stopped'
BY StoppedNextStep, StoppedProceedStep, StoppedTerminateStep, StoppedCompleteStep,
   StoppedResolveStep, StoppedAgentStep, StoppedStutter DEF Next, Command, AgentStep

LEMMA StopStep ==
  ASSUME Typed, Stopped, [Next]_vars, progress.stop
  PROVE  (pending' # pending => pending' = None) /\ (progress'.stop \/ ~sentinel)
<1> USE DEF store, files, git, memory, agent, Stopped, Typed, TypeOK, Progress
<1>1. CASE NextStep
  BY <1>1 DEF NextStep, CallNext, Recover, RecoverFails, Schedule, Drained, Halt, AnswerOffer,
              BumpParked, HaltTicket, OpenOffer, ParkTicket, CountAttempt
<1>2. CASE ProceedStep
  BY <1>2 DEF ProceedStep, CapTicket, SnapshotFails, Snapshot, ConsumeOffer, BumpCapped, AfterCapped,
              SavePending, SetSentinel, HandOut, StopForCredits, DropPending
<1>3. CASE TerminateStep
  BY <1>3 DEF TerminateStep, ClearSentinel, RestoreBranch, ForgetBranch, ResetRun
<1>4. CASE CompleteStep
  BY <1>4 DEF CompleteStep, CallComplete, GatePass, GateIntroduced, NoteFailure, GatePreexisting,
              GateBlocked, GateGitError, Record, ClearPending, BumpProgress, SetAside, Gated, Bump
<1>5. CASE ResolveStep \/ AgentStep \/ UNCHANGED vars
  BY <1>5 DEF ResolveStep, Resolve, Decline, HaltAnswer, AgentStep, AgentEdit, Crash, vars
<1> QED
  BY <1>1, <1>2, <1>3, <1>4, <1>5 DEF Next, Command, AgentStep

(* After a 402 under the stop policy no ticket goes out until that run is over, and only its
   end forgets the request: it takes an F5 answer given late to bring a ticket after all. *)
THEOREM StopAlwaysHonoured == ASSUME ~LateAnswers PROVE Spec => StopIsHonoured
<1>1. ~LateAnswers /\ Typed /\ Stopped /\ [Next]_vars => Stopped'
  BY StoppedInductive
<1>2. Typed /\ Stopped /\ [Next]_vars
        => [progress.stop => (pending' # pending => pending' = None)
                             /\ (progress'.stop \/ ~sentinel)]_vars
  BY StopStep
<1> QED
  BY <1>1, <1>2, TypedInit, TypedInductive, StoppedInit, PTL DEF Spec, StopIsHonoured

-----------------------------------------------------------------------------
(* Recorded work, whatever is killed, whichever snapshot, revert or commit fails or is refused
   and however late an offer is answered, as long as git can cut and switch branches *)

Isolated == {"cut", "switch"} \cap GitFaults = {}

(* A running command works on the run branch until it has left it, and no work lands on the
   operator's. *)
OnBranch ==
  /\ pc \in {"recover", "schedule", "loop", "offered", "parked", "counted", "capped", "charged",
            "snapped", "saved", "armed", "undone", "gate", "reverted", "record", "recorded",
            "cleared", "bumped", "terminate", "restore"} => branch = "on"
  /\ pc = "forget" => branch = "off"
  /\ branch = "on" => aside = {}
  /\ branch # "on" => tip = {}
  /\ branch = "none" => aside = {}

(* The content of the run branch. *)
Run == IF branch = "on" THEN tip ELSE aside

(* The agent edits for a ticket that has no final outcome, and for the one in flight, unless
   a late answer is just bringing it another. *)
HeldOwn ==
  held # None =>
    /\ Earned(held)
    /\ pc \notin {"recorded", "cleared", "bumped"} => outcome[held] \notin Terminal
    /\ pending # None /\ pc \notin {"saved", "armed", "undone"} => pending.ticket = held

(* The token in flight can still be reverted to. *)
Unsettled == pending # None /\ outcome[pending.ticket] \notin Terminal

(* Where an edit is found besides the branch it was committed to: every tree a later command
   may commit or go back to has it. *)
Traced(e) ==
  /\ e \in Run => e \in tree \/ branch # "on" \/ e \in kept
  /\ e \in tree => e \in Run \/ e \in kept
  /\ Unsettled /\ e \in Run => e \in pending.snap \/ e \in kept
  /\ Unsettled /\ e \in pending.snap => e \in tree \/ e \in kept \/ (branch # "on" /\ e \in Run)

Committed(t) == outcome[t] \in Done /\ t \notin refused

WorkKept ==
  /\ \A e \in Edit : Committed(e.ticket) => Traced(e)
  /\ pc = "snapped" => tok.snap = tip
  /\ pc = "record" /\ res \in Done /\ tok.ticket \notin refused => tree = tip

LEMMA WorkInit == Init => OnBranch /\ HeldOwn /\ WorkKept
BY DEF Init, OnBranch, Run, HeldOwn, WorkKept, Committed, Traced, Unsettled, Done, Terminal, Outcome

(* Every command starts by going to the run branch, which has what it had. *)
LEMMA Entered ==
  ASSUME Isolated, Typed, OnBranch, EnterRunBranch
  PROVE  /\ branch' = "on" /\ tip' = Run /\ aside' = {} /\ UNCHANGED <<kept, refused>>
         /\ tree' = IF branch = "off" THEN tree \cup aside ELSE tree
         /\ branch = "on" => UNCHANGED <<tip, lineage>>
<1> USE DEF Isolated, OnBranch, Run, EnterRunBranch, Stay
<1>1. CASE CutRunBranch
  BY <1>1 DEF CutRunBranch
<1>2. CASE RejoinRunBranch
  BY <1>2 DEF RejoinRunBranch, Checkout, Typed, TypeOK
<1>3. CASE NoRunBranch
  BY <1>3 DEF NoRunBranch
<1> QED
  BY <1>1, <1>2, <1>3

LEMMA OnBranchNextStep ==
  ASSUME Isolated, Typed, OnBranch, NextStep
  PROVE  OnBranch'
<1> USE DEF OnBranch, Typed, TypeOK, store, files, git, memory, agent
<1>1. CASE CallNext
  BY <1>1, Entered DEF CallNext
<1>2. CASE Recover
  BY <1>2 DEF Recover
<1>3. CASE RecoverFails
  BY <1>3 DEF RecoverFails
<1>4. CASE Schedule
  BY <1>4 DEF Schedule
<1>5. CASE Drained
  BY <1>5 DEF Drained
<1>6. CASE Halt
  BY <1>6 DEF Halt
<1>7. ASSUME NEW t \in Ticket, OpenOffer(t) PROVE OnBranch'
  BY <1>7 DEF OpenOffer, CanOffer
<1>8. ASSUME NEW t \in Ticket, ParkTicket(t) PROVE OnBranch'
  BY <1>8 DEF ParkTicket, ParkState, Scheduled, Ready
<1>9. ASSUME NEW t \in Ticket, CountAttempt(t) PROVE OnBranch'
  BY <1>9 DEF CountAttempt, Scheduled, Ready
<1>10. CASE AnswerOffer
  BY <1>10 DEF AnswerOffer, Return
<1>11. CASE BumpParked
  BY <1>11 DEF BumpParked
<1>12. ASSUME NEW t \in Ticket, HaltTicket(t) PROVE OnBranch'
  BY <1>12 DEF HaltTicket
<1> QED
  BY <1>1, <1>2, <1>3, <1>4, <1>5, <1>6, <1>7, <1>8, <1>9, <1>10, <1>11, <1>12 DEF NextStep

LEMMA OnBranchProceedStep ==
  ASSUME Isolated, Typed, OnBranch, ProceedStep
  PROVE  OnBranch'
<1> USE DEF OnBranch, Typed, TypeOK, store, files, git, memory, agent
<1>1. CASE CapTicket
  BY <1>1 DEF CapTicket
<1>2. CASE SnapshotFails
  BY <1>2 DEF SnapshotFails
<1>3. CASE Snapshot
  BY <1>3 DEF Snapshot, ForcesReview
<1>4. CASE ConsumeOffer
  BY <1>4 DEF ConsumeOffer
<1>5. CASE BumpCapped
  BY <1>5 DEF BumpCapped
<1>6. CASE AfterCapped
  BY <1>6 DEF AfterCapped, Return
<1>7. CASE SavePending
  BY <1>7 DEF SavePending, OfferSettled
<1>8. CASE SetSentinel
  BY <1>8 DEF SetSentinel
<1>9. CASE HandOut
  BY <1>9 DEF HandOut, Return
<1>10. CASE StopForCredits
  BY <1>10 DEF StopForCredits
<1>11. CASE DropPending
  BY <1>11 DEF DropPending
<1> QED
  BY <1>1, <1>2, <1>3, <1>4, <1>5, <1>6, <1>7, <1>8, <1>9, <1>10, <1>11 DEF ProceedStep

LEMMA OnBranchTerminateStep ==
  ASSUME Isolated, Typed, OnBranch, TerminateStep
  PROVE  OnBranch'
<1> USE DEF OnBranch, Typed, TypeOK, store, files, git, memory, agent
<1>1. CASE ClearSentinel
  BY <1>1 DEF ClearSentinel
<1>2. CASE RestoreBranch
  BY <1>2 DEF RestoreBranch, Checkout, Stay, Isolated
<1>3. CASE ForgetBranch
  BY <1>3 DEF ForgetBranch
<1>4. CASE ResetRun
  BY <1>4 DEF ResetRun, Return
<1> QED
  BY <1>1, <1>2, <1>3, <1>4 DEF TerminateStep

LEMMA OnBranchCompleteStep ==
  ASSUME Isolated, Typed, OnBranch, CompleteStep
  PROVE  OnBranch'
<1> USE DEF OnBranch, Typed, TypeOK, store, files, git, memory, agent
<1>1. CASE CallComplete
  BY <1>1, Entered DEF CallComplete
<1>2. CASE GatePass
  BY <1>2 DEF GatePass, Gated
<1>3. CASE GateIntroduced
  BY <1>3 DEF GateIntroduced
<1>4. CASE NoteFailure
  BY <1>4 DEF NoteFailure
<1>5. CASE GatePreexisting
  BY <1>5 DEF GatePreexisting, Gated
<1>6. CASE GateBlocked
  BY <1>6 DEF GateBlocked, Gated
<1>7. CASE GateGitError
  BY <1>7 DEF GateGitError, Gated
<1>8. CASE Record
  BY <1>8 DEF Record
<1>9. CASE ClearPending
  BY <1>9 DEF ClearPending
<1>10. CASE BumpProgress
  BY <1>10 DEF BumpProgress
<1>11. CASE SetAside
  BY <1>11 DEF SetAside, Return
<1> QED
  BY <1>1, <1>2, <1>3, <1>4, <1>5, <1>6, <1>7, <1>8, <1>9, <1>10, <1>11 DEF CompleteStep

LEMMA OnBranchResolveStep ==
  ASSUME Isolated, Typed, OnBranch, ResolveStep
  PROVE  OnBranch'
<1> USE DEF OnBranch, Typed, TypeOK, store, files, git, memory, agent
<1>1. ASSUME NEW t \in Ticket, Resolve(t) PROVE OnBranch'
  BY <1>1, Entered DEF Resolve, MayAnswer
<1>2. ASSUME NEW t \in Ticket, Decline(t) PROVE OnBranch'
  BY <1>2, Entered DEF Decline, MayAnswer
<1>3. ASSUME NEW t \in Ticket, HaltAnswer(t) PROVE OnBranch'
  BY <1>3, Entered DEF HaltAnswer, MayAnswer
<1> QED
  BY <1>1, <1>2, <1>3 DEF ResolveStep

LEMMA OnBranchAgentStep ==
  ASSUME Isolated, Typed, OnBranch, AgentStep
  PROVE  OnBranch'
<1> USE DEF OnBranch, Typed, TypeOK, store, files, git, memory, agent
<1>1. ASSUME NEW ok \in BOOLEAN, AgentEdit(ok) PROVE OnBranch'
  BY <1>1 DEF AgentEdit
<1>2. CASE Crash
  BY <1>2 DEF Crash, Return
<1> QED
  BY <1>1, <1>2 DEF AgentStep

LEMMA OnBranchStutter == OnBranch /\ UNCHANGED vars => OnBranch'
BY DEF OnBranch, vars, store, files, git, memory, agent

LEMMA OnBranchInductive ==
  ASSUME Isolated, Typed, OnBranch, [Next]_vars
  PROVE  OnBranch'
BY OnBranchNextStep, OnBranchProceedStep, OnBranchTerminateStep, OnBranchCompleteStep,
   OnBranchResolveStep, OnBranchAgentStep, OnBranchStutter DEF Next, Command, AgentStep

LEMMA HeldOwnNextStep ==
  ASSUME ~RetryComplete, Typed, Warrant, Standing, HeldOwn, NextStep
  PROVE  HeldOwn'
<1> USE DEF HeldOwn, Standing, Warrant, OffersOK, TokensOK, Warranted, Earned, Assisted, Offered, OptedIn, Typed,
            TypeOK, MemoryOK, Token, Tree, Edit, Done, Parked, Retry, Terminal, Outcome, store,
            files, git, memory, agent
<1>1. CASE CallNext
  BY <1>1 DEF CallNext, EnterRunBranch
<1>2. CASE Recover
  BY <1>2 DEF Recover
<1>3. CASE RecoverFails
  BY <1>3 DEF RecoverFails
<1>4. CASE Schedule
  BY <1>4 DEF Schedule
<1>5. CASE Drained
  BY <1>5 DEF Drained
<1>6. CASE Halt
  BY <1>6 DEF Halt
<1>7. ASSUME NEW t \in Ticket, OpenOffer(t) PROVE HeldOwn'
  BY <1>7 DEF OpenOffer, CanOffer
<1>8. ASSUME NEW t \in Ticket, ParkTicket(t) PROVE HeldOwn'
  BY <1>8 DEF ParkTicket, ParkState, Scheduled, Ready
<1>9. ASSUME NEW t \in Ticket, CountAttempt(t) PROVE HeldOwn'
  BY <1>9 DEF CountAttempt, Scheduled, Ready
<1>10. CASE AnswerOffer
  BY <1>10 DEF AnswerOffer, Return
<1>11. CASE BumpParked
  BY <1>11 DEF BumpParked
<1>12. ASSUME NEW t \in Ticket, HaltTicket(t) PROVE HeldOwn'
  BY <1>12 DEF HaltTicket
<1> QED
  BY <1>1, <1>2, <1>3, <1>4, <1>5, <1>6, <1>7, <1>8, <1>9, <1>10, <1>11, <1>12 DEF NextStep

LEMMA HeldOwnProceedStep ==
  ASSUME ~RetryComplete, Typed, Warrant, Standing, HeldOwn, ProceedStep
  PROVE  HeldOwn'
<1> USE DEF HeldOwn, Standing, Warrant, OffersOK, TokensOK, Warranted, Earned, Assisted, Offered, OptedIn, Typed,
            TypeOK, MemoryOK, Token, Tree, Edit, Done, Parked, Retry, Terminal, Outcome, store,
            files, git, memory, agent
<1>1. CASE CapTicket
  BY <1>1 DEF CapTicket
<1>2. CASE SnapshotFails
  BY <1>2 DEF SnapshotFails
<1>3. CASE Snapshot
  BY <1>3 DEF Snapshot, ForcesReview
<1>4. CASE ConsumeOffer
  BY <1>4 DEF ConsumeOffer
<1>5. CASE BumpCapped
  BY <1>5 DEF BumpCapped
<1>6. CASE AfterCapped
  BY <1>6 DEF AfterCapped, Return
<1>7. CASE SavePending
  BY <1>7 DEF SavePending, OfferSettled
<1>8. CASE SetSentinel
  BY <1>8 DEF SetSentinel
<1>9. CASE HandOut
  BY <1>9 DEF HandOut, Return
<1>10. CASE StopForCredits
  BY <1>10 DEF StopForCredits
<1>11. CASE DropPending
  BY <1>11 DEF DropPending
<1> QED
  BY <1>1, <1>2, <1>3, <1>4, <1>5, <1>6, <1>7, <1>8, <1>9, <1>10, <1>11 DEF ProceedStep

LEMMA HeldOwnTerminateStep ==
  ASSUME ~RetryComplete, Typed, Warrant, Standing, HeldOwn, TerminateStep
  PROVE  HeldOwn'
<1> USE DEF HeldOwn, Standing, Warrant, OffersOK, TokensOK, Warranted, Earned, Assisted, Offered, OptedIn, Typed,
            TypeOK, MemoryOK, Token, Tree, Edit, Done, Parked, Retry, Terminal, Outcome, store,
            files, git, memory, agent
<1>1. CASE ClearSentinel
  BY <1>1 DEF ClearSentinel
<1>2. CASE RestoreBranch
  BY <1>2 DEF RestoreBranch
<1>3. CASE ForgetBranch
  BY <1>3 DEF ForgetBranch
<1>4. CASE ResetRun
  BY <1>4 DEF ResetRun, Return
<1> QED
  BY <1>1, <1>2, <1>3, <1>4 DEF TerminateStep

LEMMA HeldOwnCompleteStep ==
  ASSUME ~RetryComplete, Typed, Warrant, Standing, HeldOwn, CompleteStep
  PROVE  HeldOwn'
<1> USE DEF HeldOwn, Standing, Warrant, OffersOK, TokensOK, Warranted, Earned, Assisted, Offered, OptedIn, Typed,
            TypeOK, MemoryOK, Token, Tree, Edit, Done, Parked, Retry, Terminal, Outcome, store,
            files, git, memory, agent
<1>1. CASE CallComplete
  BY <1>1 DEF CallComplete, EnterRunBranch
<1>2. CASE GatePass
  BY <1>2 DEF GatePass, Gated
<1>3. CASE GateIntroduced
  BY <1>3 DEF GateIntroduced
<1>4. CASE NoteFailure
  BY <1>4 DEF NoteFailure
<1>5. CASE GatePreexisting
  BY <1>5 DEF GatePreexisting, Gated
<1>6. CASE GateBlocked
  BY <1>6 DEF GateBlocked, Gated
<1>7. CASE GateGitError
  BY <1>7 DEF GateGitError, Gated
<1>8. CASE Record
  BY <1>8 DEF Record
<1>9. CASE ClearPending
  BY <1>9 DEF ClearPending
<1>10. CASE BumpProgress
  BY <1>10 DEF BumpProgress
<1>11. CASE SetAside
  BY <1>11 DEF SetAside, Return
<1> QED
  BY <1>1, <1>2, <1>3, <1>4, <1>5, <1>6, <1>7, <1>8, <1>9, <1>10, <1>11 DEF CompleteStep

LEMMA HeldOwnResolveStep ==
  ASSUME ~RetryComplete, Typed, Warrant, Standing, HeldOwn, ResolveStep
  PROVE  HeldOwn'
<1> USE DEF HeldOwn, Standing, Warrant, OffersOK, TokensOK, Warranted, Earned, Assisted, Offered, OptedIn, Typed,
            TypeOK, MemoryOK, Token, Tree, Edit, Done, Parked, Retry, Terminal, Outcome, store,
            files, git, memory, agent
<1>1. ASSUME NEW t \in Ticket, Resolve(t) PROVE HeldOwn'
  BY <1>1 DEF Resolve, MayAnswer, EnterRunBranch
<1>2. ASSUME NEW t \in Ticket, Decline(t) PROVE HeldOwn'
  BY <1>2 DEF Decline, MayAnswer, EnterRunBranch, ParkState
<1>3. ASSUME NEW t \in Ticket, HaltAnswer(t) PROVE HeldOwn'
  BY <1>3 DEF HaltAnswer, MayAnswer, EnterRunBranch
<1> QED
  BY <1>1, <1>2, <1>3 DEF ResolveStep

LEMMA HeldOwnAgentStep ==
  ASSUME ~RetryComplete, Typed, Warrant, Standing, HeldOwn, AgentStep
  PROVE  HeldOwn'
<1> USE DEF HeldOwn, Standing, Warrant, OffersOK, TokensOK, Warranted, Earned, Assisted, Offered, OptedIn, Typed,
            TypeOK, MemoryOK, Token, Tree, Edit, Done, Parked, Retry, Terminal, Outcome, store,
            files, git, memory, agent
<1>1. ASSUME NEW ok \in BOOLEAN, AgentEdit(ok) PROVE HeldOwn'
  BY <1>1 DEF AgentEdit
<1>2. CASE Crash
  BY <1>2 DEF Crash, Return
<1> QED
  BY <1>1, <1>2 DEF AgentStep

LEMMA HeldOwnStutter == HeldOwn /\ UNCHANGED vars => HeldOwn'
BY DEF HeldOwn, Earned, Assisted, Offered, OptedIn, vars, store, files, git, memory, agent

LEMMA HeldOwnInductive ==
  ASSUME ~RetryComplete, Typed, Warrant, Standing, HeldOwn, [Next]_vars
  PROVE  HeldOwn'
BY HeldOwnNextStep, HeldOwnProceedStep, HeldOwnTerminateStep, HeldOwnCompleteStep,
   HeldOwnResolveStep, HeldOwnAgentStep, HeldOwnStutter DEF Next, Command, AgentStep

LEMMA WorkKeptNextStep ==
  ASSUME Isolated, ~RetryComplete, Typed, Warrant, Standing, OnBranch, HeldOwn, WorkKept, NextStep
  PROVE  WorkKept'
<1> USE DEF WorkKept, Committed, Traced, Unsettled, Run, OnBranch, HeldOwn, Standing, Warrant, OffersOK,
            TokensOK, Warranted, Earned, Assisted, Offered, OptedIn, Typed, TypeOK, MemoryOK, Token, Tree, Edit,
            Done, Parked, Retry, Terminal, Outcome, store, files, git, memory, agent
<1>1. CASE CallNext
  BY <1>1, Entered DEF CallNext
<1>2. CASE Recover
  BY <1>2 DEF Recover, RevertTo, Recorded
<1>3. CASE RecoverFails
  BY <1>3 DEF RecoverFails, HalfRevert, Recorded
<1>4. CASE Schedule
  BY <1>4 DEF Schedule
<1>5. CASE Drained
  BY <1>5 DEF Drained
<1>6. CASE Halt
  BY <1>6 DEF Halt
<1>7. ASSUME NEW t \in Ticket, OpenOffer(t) PROVE WorkKept'
  BY <1>7 DEF OpenOffer, CanOffer
<1>8. ASSUME NEW t \in Ticket, ParkTicket(t) PROVE WorkKept'
  BY <1>8 DEF ParkTicket, ParkState, Scheduled, Ready
<1>9. ASSUME NEW t \in Ticket, CountAttempt(t) PROVE WorkKept'
  BY <1>9 DEF CountAttempt, Scheduled, Ready
<1>10. CASE AnswerOffer
  BY <1>10 DEF AnswerOffer, Return
<1>11. CASE BumpParked
  BY <1>11 DEF BumpParked
<1>12. ASSUME NEW t \in Ticket, HaltTicket(t) PROVE WorkKept'
  BY <1>12 DEF HaltTicket
<1> QED
  BY <1>1, <1>2, <1>3, <1>4, <1>5, <1>6, <1>7, <1>8, <1>9, <1>10, <1>11, <1>12 DEF NextStep

LEMMA WorkKeptProceedStep ==
  ASSUME Isolated, ~RetryComplete, Typed, Warrant, Standing, OnBranch, HeldOwn, WorkKept, ProceedStep
  PROVE  WorkKept'
<1> USE DEF WorkKept, Committed, Traced, Unsettled, Run, OnBranch, HeldOwn, Standing, Warrant, OffersOK,
            TokensOK, Warranted, Earned, Assisted, Offered, OptedIn, Typed, TypeOK, MemoryOK, Token, Tree, Edit,
            Done, Parked, Retry, Terminal, Outcome, store, files, git, memory, agent
<1>1. CASE CapTicket
  BY <1>1 DEF CapTicket
<1>2. CASE SnapshotFails
  BY <1>2 DEF SnapshotFails, Landing
<1>3. CASE Snapshot
  BY <1>3 DEF Snapshot, CommitAll, Landing, Refusal
<1>4. CASE ConsumeOffer
  BY <1>4 DEF ConsumeOffer
<1>5. CASE BumpCapped
  BY <1>5 DEF BumpCapped
<1>6. CASE AfterCapped
  BY <1>6 DEF AfterCapped, Return
<1>7. CASE SavePending
  BY <1>7 DEF SavePending, OfferSettled
<1>8. CASE SetSentinel
  BY <1>8 DEF SetSentinel
<1>9. CASE HandOut
  BY <1>9 DEF HandOut, Return
<1>10. CASE StopForCredits
  BY <1>10 DEF StopForCredits, RevertTo
<1>11. CASE DropPending
  BY <1>11 DEF DropPending
<1> QED
  BY <1>1, <1>2, <1>3, <1>4, <1>5, <1>6, <1>7, <1>8, <1>9, <1>10, <1>11 DEF ProceedStep

LEMMA WorkKeptTerminateStep ==
  ASSUME Isolated, ~RetryComplete, Typed, Warrant, Standing, OnBranch, HeldOwn, WorkKept, TerminateStep
  PROVE  WorkKept'
<1> USE DEF WorkKept, Committed, Traced, Unsettled, Run, OnBranch, HeldOwn, Standing, Warrant, OffersOK,
            TokensOK, Warranted, Earned, Assisted, Offered, OptedIn, Typed, TypeOK, MemoryOK, Token, Tree, Edit,
            Done, Parked, Retry, Terminal, Outcome, store, files, git, memory, agent
<1>1. CASE ClearSentinel
  BY <1>1 DEF ClearSentinel
<1>2. CASE RestoreBranch
  BY <1>2 DEF RestoreBranch, Checkout, Stay, Isolated
<1>3. CASE ForgetBranch
  BY <1>3 DEF ForgetBranch
<1>4. CASE ResetRun
  BY <1>4 DEF ResetRun, Return
<1> QED
  BY <1>1, <1>2, <1>3, <1>4 DEF TerminateStep

LEMMA WorkKeptCompleteStep ==
  ASSUME Isolated, ~RetryComplete, Typed, Warrant, Standing, OnBranch, HeldOwn, WorkKept, CompleteStep
  PROVE  WorkKept'
<1> USE DEF WorkKept, Committed, Traced, Unsettled, Run, OnBranch, HeldOwn, Standing, Warrant, OffersOK,
            TokensOK, Warranted, Earned, Assisted, Offered, OptedIn, Typed, TypeOK, MemoryOK, Token, Tree, Edit,
            Done, Parked, Retry, Terminal, Outcome, store, files, git, memory, agent
<1>1. CASE CallComplete
  BY <1>1, Entered DEF CallComplete
<1>2. CASE GatePass
  BY <1>2 DEF GatePass, Gated, CommitResult, Landing, Refusal
<1>3. CASE GateIntroduced
  BY <1>3 DEF GateIntroduced, RevertTo
<1>4. CASE NoteFailure
  BY <1>4 DEF NoteFailure
<1>5. CASE GatePreexisting
  BY <1>5 DEF GatePreexisting, Gated, CommitResult, Landing, Refusal
<1>6. CASE GateBlocked
  BY <1>6 DEF GateBlocked, Gated, RevertTo
<1>7. CASE GateGitError
  BY <1>7 DEF GateGitError, Gated, Landing, HalfRevert
<1>8. CASE Record
  BY <1>8 DEF Record
<1>9. CASE ClearPending
  BY <1>9 DEF ClearPending
<1>10. CASE BumpProgress
  BY <1>10 DEF BumpProgress
<1>11. CASE SetAside
  BY <1>11 DEF SetAside, Return
<1> QED
  BY <1>1, <1>2, <1>3, <1>4, <1>5, <1>6, <1>7, <1>8, <1>9, <1>10, <1>11 DEF CompleteStep

LEMMA WorkKeptResolveStep ==
  ASSUME Isolated, ~RetryComplete, Typed, Warrant, Standing, OnBranch, HeldOwn, WorkKept, ResolveStep
  PROVE  WorkKept'
<1> USE DEF WorkKept, Committed, Traced, Unsettled, Run, OnBranch, HeldOwn, Standing, Warrant, OffersOK,
            TokensOK, Warranted, Earned, Assisted, Offered, OptedIn, Typed, TypeOK, MemoryOK, Token, Tree, Edit,
            Done, Parked, Retry, Terminal, Outcome, store, files, git, memory, agent
<1>1. ASSUME NEW t \in Ticket, Resolve(t) PROVE WorkKept'
  BY <1>1, Entered DEF Resolve, MayAnswer
<1>2. ASSUME NEW t \in Ticket, Decline(t) PROVE WorkKept'
  BY <1>2, Entered DEF Decline, MayAnswer, ParkState
<1>3. ASSUME NEW t \in Ticket, HaltAnswer(t) PROVE WorkKept'
  BY <1>3, Entered DEF HaltAnswer, MayAnswer
<1> QED
  BY <1>1, <1>2, <1>3 DEF ResolveStep

LEMMA WorkKeptAgentStep ==
  ASSUME Isolated, ~RetryComplete, Typed, Warrant, Standing, OnBranch, HeldOwn, WorkKept, AgentStep
  PROVE  WorkKept'
<1> USE DEF WorkKept, Committed, Traced, Unsettled, Run, OnBranch, HeldOwn, Standing, Warrant, OffersOK,
            TokensOK, Warranted, Earned, Assisted, Offered, OptedIn, Typed, TypeOK, MemoryOK, Token, Tree, Edit,
            Done, Parked, Retry, Terminal, Outcome, store, files, git, memory, agent
<1>1. ASSUME NEW ok \in BOOLEAN, AgentEdit(ok) PROVE WorkKept'
  BY <1>1 DEF AgentEdit
<1>2. CASE Crash
  BY <1>2 DEF Crash, Return
<1> QED
  BY <1>1, <1>2 DEF AgentStep

LEMMA WorkKeptStutter == WorkKept /\ UNCHANGED vars => WorkKept'
BY DEF WorkKept, Committed, Traced, Unsettled, Run, vars, store, files, git, memory, agent

LEMMA WorkKeptInductive ==
  ASSUME Isolated, ~RetryComplete, Typed, Warrant, Standing, OnBranch, HeldOwn, WorkKept, [Next]_vars
  PROVE  WorkKept'
BY WorkKeptNextStep, WorkKeptProceedStep, WorkKeptTerminateStep, WorkKeptCompleteStep,
   WorkKeptResolveStep, WorkKeptAgentStep, WorkKeptStutter DEF Next, Command, AgentStep

(* From the moment a token is on disk until its outcome is recorded, the running command has
   the same token in memory, and its ticket is open. *)
LEMMA InHand ==
  ASSUME Typed, Standing, pc \in {"saved", "armed", "gate", "reverted", "record"}
  PROVE  /\ pending = tok /\ tok \in Token /\ pending # None
         /\ tok.ticket \in Ticket /\ outcome[tok.ticket] \notin Terminal
<1>1. pending = tok /\ tok \in Token
  BY DEF Typed, MemoryOK, Standing
<1>2. tok # None
  BY <1>1
<1>3. tok.ticket \in Ticket
  BY <1>1 DEF Token
<1>4. outcome[tok.ticket] \notin Terminal
  <2>1. CASE pc \in {"saved", "armed"}
    BY <1>1, <2>1 DEF Standing
  <2>2. CASE pc \in {"gate", "reverted", "record"}
    BY <1>1, <1>2, <2>2 DEF Standing
  <2> QED
    BY <2>1, <2>2
<1> QED
  BY <1>1, <1>2, <1>3, <1>4

LEMMA SurvivalStep ==
  ASSUME Isolated, Typed, Standing, OnBranch, WorkKept, [Next]_vars,
         NEW e \in tip \cup aside \cup kept, outcome[e.ticket] \in Done, e.ticket \notin refused
  PROVE  e \in tip' \cup aside' \cup kept'
<1>1. e \in Edit
  BY DEF Typed, TypeOK, Tree
<1>2. Traced(e)
  BY <1>1 DEF WorkKept, Committed
<1>3. CASE UNCHANGED <<tip, aside, kept>>
  BY <1>3
<1>4. CASE CommitAll /\ UNCHANGED <<aside, kept>> /\ branch = "on"
  BY <1>2, <1>4 DEF CommitAll, Landing, Refusal, Traced, Run
<1>5. CASE tip' = pending.snap /\ UNCHANGED <<aside, kept>> /\ Unsettled /\ branch = "on"
  BY <1>2, <1>5 DEF Traced, Run
<1>6. CASE kept' = kept \cup aside /\ UNCHANGED tip
  BY <1>6
<1>7. CASE EnterRunBranch
  BY <1>7, Entered DEF OnBranch, Run
<1>8. CASE Checkout /\ UNCHANGED kept
  BY <1>8 DEF Checkout
<1> USE DEF store, files, git, memory, agent
<1>9. CASE NextStep
  <2>1. pc = "recover" => branch = "on"
    BY DEF OnBranch
  <2> QED
    BY <1>3, <1>5, <1>7, <1>9, <2>1 DEF NextStep, CallNext, Recover, RecoverFails, Schedule, Drained, Halt,
       AnswerOffer, BumpParked, HaltTicket, OpenOffer, ParkTicket, CountAttempt, RevertTo, HalfRevert,
       Recorded, Unsettled
<1>10. CASE ProceedStep
  <2>1. pc \in {"counted", "armed"} => branch = "on"
    BY DEF OnBranch
  <2>2. pc = "armed" => pending = tok /\ Unsettled
    BY InHand DEF Unsettled
  <2> QED
    BY <1>3, <1>4, <1>5, <1>10, <2>1, <2>2 DEF ProceedStep, CapTicket, SnapshotFails, Snapshot, ConsumeOffer,
       BumpCapped, AfterCapped, SavePending, SetSentinel, HandOut, StopForCredits, DropPending, RevertTo,
       CommitAll
<1>11. CASE TerminateStep
  BY <1>3, <1>6, <1>8, <1>11 DEF TerminateStep, ClearSentinel, RestoreBranch, ForgetBranch, ResetRun, Stay
<1>12. CASE CompleteStep
  <2>1. pc = "gate" => branch = "on" /\ pending = tok /\ Unsettled
    BY InHand DEF OnBranch, Unsettled
  <2> QED
    BY <1>3, <1>4, <1>5, <1>7, <1>12, <2>1 DEF CompleteStep, CallComplete, GatePass, GateIntroduced,
       NoteFailure, GatePreexisting, GateBlocked, GateGitError, Record, ClearPending, BumpProgress, SetAside,
       Gated, RevertTo, HalfRevert, CommitResult, CommitAll
<1>13. CASE ResolveStep \/ AgentStep \/ UNCHANGED vars
  BY <1>3, <1>7, <1>13 DEF ResolveStep, Resolve, Decline, HaltAnswer, AgentStep, AgentEdit, Crash, vars
<1> QED
  BY <1>9, <1>10, <1>11, <1>12, <1>13 DEF Next, Command, AgentStep

(* Once a ticket is recorded as done and its result committed, its edits never leave the run
   branch, or the branch an earlier run left for review: no revert, recovery, half-done git
   command, refused commit or late answer takes them back. *)
THEOREM WorkSurvives == ASSUME ~RetryComplete, Isolated PROVE Spec => RecordedWorkSurvives
<1>1. Isolated /\ Typed /\ OnBranch /\ [Next]_vars => OnBranch'
  BY OnBranchInductive
<1>2. ~RetryComplete /\ Typed /\ Warrant /\ Standing /\ HeldOwn /\ [Next]_vars => HeldOwn'
  BY HeldOwnInductive
<1>3. /\ Isolated /\ ~RetryComplete /\ Typed /\ Warrant /\ Standing /\ OnBranch /\ HeldOwn /\ WorkKept
      /\ [Next]_vars
      => WorkKept'
  BY WorkKeptInductive
<1>4. Isolated /\ Typed /\ Standing /\ OnBranch /\ WorkKept /\ [Next]_vars
        => [\A e \in tip \cup aside \cup kept :
              outcome[e.ticket] \in Done /\ e.ticket \notin refused
                => e \in tip' \cup aside' \cup kept']_vars
  BY SurvivalStep
<1> QED
  BY <1>1, <1>2, <1>3, <1>4, TypedInit, TypedInductive, WarrantInit, WarrantInductive, StandingInit,
     StandingInductive, WorkInit, PTL DEF Spec, RecordedWorkSurvives

-----------------------------------------------------------------------------
(* A clean tree between tickets, when moreover git can undo and commit an attempt, and does *)

Undoable == Healthy /\ Isolated /\ {"finalize", "refuse"} \cap GitFaults = {}

(* With nothing in flight the tree is HEAD; with a token in flight only its own ticket's edits
   are open, and going back to its snapshot removes them. *)
Swept ==
  /\ pending = None => tree = tip
  /\ \A e \in Edit : e \in Run \/ e \in tree =>
       outcome[e.ticket] \in Done \/ (pending # None /\ pending.ticket = e.ticket)
  /\ pending # None => "run" \in lineage /\ branch = "on"
  /\ Unsettled => \A e \in pending.snap : outcome[e.ticket] \in Done
  /\ pending # None /\ ~Unsettled => tree = tip /\ \A e \in tip : outcome[e.ticket] \in Done
  /\ pc = "snapped" => tok.snap = tree
  /\ pc \in {"undone", "reverted"} => tree = tok.snap /\ tip = tok.snap /\ pending = tok
  /\ pc = "undone" => Unsettled
  /\ pc = "record" => tree = tip /\ (res \in Done \/ tree = tok.snap)
  /\ pc = "recorded" => tree = tip /\ \A e \in tip : outcome[e.ticket] \in Done

LEMMA SweptInit == Init => Swept
BY DEF Init, Swept, Run, Unsettled, Done, Terminal, Outcome

(* Rejoining the run branch with a clean tree leaves it clean. *)
LEMMA CleanEntered ==
  ASSUME Isolated, Typed, OnBranch, EnterRunBranch, tree = tip
  PROVE  branch' = "on" /\ tip' = Run /\ Run' = Run /\ tree' = Run
<1>1. branch' = "on" /\ tip' = Run /\ Run' = Run
  BY Entered DEF Run
<1>2. CASE branch = "on"
  BY <1>2, Entered DEF Run
<1>3. CASE branch = "off"
  <2>1. tree = {} /\ Run = aside
    BY <1>3 DEF OnBranch, Run
  <2>2. tree' = tree \cup aside
    BY <1>3, Entered
  <2> QED
    BY <1>1, <2>1, <2>2
<1>4. CASE branch = "none"
  <2>1. tree = {} /\ Run = {}
    BY <1>4 DEF OnBranch, Run
  <2>2. tree' = tree
    BY <1>4, Entered
  <2> QED
    BY <1>1, <2>1, <2>2
<1> QED
  BY <1>1, <1>2, <1>3, <1>4 DEF Typed, TypeOK

LEMMA SweptEntered ==
  ASSUME Isolated, Typed, OnBranch, Swept, EnterRunBranch, UNCHANGED <<pending, outcome>>,
         pc' \in {"recover", "counted", "terminate"}
  PROVE  Swept'
<1>1. branch' = "on" /\ Run' = Run /\ tip' = Run
  BY Entered DEF Run
<1>2. pending = None => tree' = tip'
  BY CleanEntered DEF Swept
<1>3. pending # None => UNCHANGED <<tip, tree, lineage>>
  BY Entered DEF Swept
<1>4. \A e \in Edit : e \in tree' => e \in tree \/ e \in Run
  BY Entered DEF Run
<1> QED
  BY <1>1, <1>2, <1>3, <1>4 DEF Swept, Unsettled

LEMMA SweptNextStep ==
  ASSUME Undoable, Typed, Standing, Guard, OnBranch, Swept, NextStep
  PROVE  Swept'
<1> USE DEF Swept, Unsettled, Run, Here, OnBranch, Undoable, Isolated, Healthy, Guard, Slot, Hold, GuardedWhileHeld,
            Standing, Typed, TypeOK, MemoryOK, Token, Tree, Edit, Done, Parked, Retry, Terminal,
            Outcome, store, files, git, memory, agent
<1>1. CASE CallNext
  <2>1. EnterRunBranch /\ UNCHANGED <<pending, outcome>> /\ pc' = "recover"
    BY <1>1 DEF CallNext
  <2> QED
    BY ONLY <2>1, Undoable, Typed, OnBranch, Swept, SweptEntered DEF Undoable
<1>2. CASE Recover
  BY <1>2 DEF Recover, RevertTo, Recorded
<1>3. CASE RecoverFails
  BY <1>3 DEF RecoverFails, HalfRevert, Recorded
<1>4. CASE Schedule
  BY <1>4 DEF Schedule
<1>5. CASE Drained
  BY <1>5 DEF Drained
<1>6. CASE Halt
  BY <1>6 DEF Halt
<1>7. ASSUME NEW t \in Ticket, OpenOffer(t) PROVE Swept'
  BY <1>7 DEF OpenOffer, CanOffer
<1>8. ASSUME NEW t \in Ticket, ParkTicket(t) PROVE Swept'
  BY <1>8 DEF ParkTicket, ParkState, Scheduled, Ready
<1>9. ASSUME NEW t \in Ticket, CountAttempt(t) PROVE Swept'
  BY <1>9 DEF CountAttempt, Scheduled, Ready
<1>10. CASE AnswerOffer
  BY <1>10 DEF AnswerOffer, Return
<1>11. CASE BumpParked
  BY <1>11 DEF BumpParked
<1>12. ASSUME NEW t \in Ticket, HaltTicket(t) PROVE Swept'
  BY <1>12 DEF HaltTicket
<1> QED
  BY <1>1, <1>2, <1>3, <1>4, <1>5, <1>6, <1>7, <1>8, <1>9, <1>10, <1>11, <1>12 DEF NextStep

LEMMA SweptProceedStep ==
  ASSUME Undoable, Typed, Standing, Guard, OnBranch, Swept, ProceedStep
  PROVE  Swept'
<1> USE DEF Swept, Unsettled, Run, Here, OnBranch, Undoable, Isolated, Healthy, Guard, Slot, Hold, GuardedWhileHeld,
            Standing, Typed, TypeOK, MemoryOK, Token, Tree, Edit, Done, Parked, Retry, Terminal,
            Outcome, store, files, git, memory, agent
<1>1. CASE CapTicket
  BY <1>1 DEF CapTicket
<1>2. CASE SnapshotFails
  BY <1>2 DEF SnapshotFails, Landing
<1>3. CASE Snapshot
  BY <1>3 DEF Snapshot, CommitAll, Landing, Refusal
<1>4. CASE ConsumeOffer
  BY <1>4 DEF ConsumeOffer
<1>5. CASE BumpCapped
  BY <1>5 DEF BumpCapped
<1>6. CASE AfterCapped
  BY <1>6 DEF AfterCapped, Return
<1>7. CASE SavePending
  BY <1>7 DEF SavePending, OfferSettled
<1>8. CASE SetSentinel
  BY <1>8 DEF SetSentinel
<1>9. CASE HandOut
  BY <1>9 DEF HandOut, Return
<1>10. CASE StopForCredits
  <2>1. pending = tok /\ Unsettled /\ branch = "on" /\ "run" \in lineage
    <3>1. pc = "armed"
      BY <1>10 DEF StopForCredits
    <3> QED
      BY ONLY <3>1, Typed, Standing, OnBranch, Swept, InHand DEF OnBranch, Swept, Unsettled
  <2>2. tip' = tok.snap /\ tree' = tok.snap /\ branch' = "on"
    BY <1>10, <2>1 DEF StopForCredits, RevertTo
  <2>3. UNCHANGED <<outcome, pending, lineage, tok>> /\ Unsettled'
    BY <1>10, <2>1 DEF StopForCredits, Unsettled
  <2>4. \A e \in tok.snap : outcome[e.ticket] \in Done
    BY <2>1
  <2>5. pc' = "undone"
    BY <1>10 DEF StopForCredits
  <2> QED
    BY ONLY <2>1, <2>2, <2>3, <2>4, <2>5 DEF Swept, Unsettled
<1>11. CASE DropPending
  BY <1>11 DEF DropPending
<1> QED
  BY <1>1, <1>2, <1>3, <1>4, <1>5, <1>6, <1>7, <1>8, <1>9, <1>10, <1>11 DEF ProceedStep

LEMMA SweptTerminateStep ==
  ASSUME Undoable, Typed, Standing, Guard, OnBranch, Swept, TerminateStep
  PROVE  Swept'
<1> USE DEF Swept, Unsettled, Run, Here, OnBranch, Undoable, Isolated, Healthy, Guard, Slot, Hold, GuardedWhileHeld,
            Standing, Typed, TypeOK, MemoryOK, Token, Tree, Edit, Done, Parked, Retry, Terminal,
            Outcome, store, files, git, memory, agent
<1>1. CASE ClearSentinel
  BY <1>1 DEF ClearSentinel
<1>2. CASE RestoreBranch
  BY <1>2 DEF RestoreBranch, Checkout, Stay
<1>3. CASE ForgetBranch
  BY <1>3 DEF ForgetBranch
<1>4. CASE ResetRun
  BY <1>4 DEF ResetRun, Return
<1> QED
  BY <1>1, <1>2, <1>3, <1>4 DEF TerminateStep

LEMMA SweptCompleteStep ==
  ASSUME Undoable, Typed, Standing, Guard, OnBranch, Swept, CompleteStep
  PROVE  Swept'
<1> USE DEF Swept, Unsettled, Run, Here, OnBranch, Undoable, Isolated, Healthy, Guard, Slot, Hold, GuardedWhileHeld,
            Standing, Typed, TypeOK, MemoryOK, Token, Tree, Edit, Done, Parked, Retry, Terminal,
            Outcome, store, files, git, memory, agent
<1>1. CASE CallComplete
  BY <1>1, Entered DEF CallComplete
<1>2. CASE GatePass
  BY <1>2 DEF GatePass, Gated, CommitResult, Landing, Refusal
<1>3. CASE GateIntroduced
  <2>1. pending = tok /\ Unsettled /\ branch = "on" /\ "run" \in lineage
    <3>1. pc = "gate"
      BY <1>3 DEF GateIntroduced
    <3> QED
      BY ONLY <3>1, Typed, Standing, OnBranch, Swept, InHand DEF OnBranch, Swept, Unsettled
  <2>2. tip' = tok.snap /\ tree' = tok.snap /\ branch' = "on"
    BY <1>3, <2>1 DEF GateIntroduced, RevertTo
  <2>3. UNCHANGED <<outcome, pending, lineage, tok>> /\ Unsettled'
    BY <1>3, <2>1 DEF GateIntroduced, Unsettled
  <2>4. \A e \in tok.snap : outcome[e.ticket] \in Done
    BY <2>1
  <2>5. pc' = "reverted"
    BY <1>3 DEF GateIntroduced
  <2> QED
    BY ONLY <2>1, <2>2, <2>3, <2>4, <2>5 DEF Swept, Unsettled
<1>4. CASE NoteFailure
  BY <1>4 DEF NoteFailure
<1>5. CASE GatePreexisting
  BY <1>5 DEF GatePreexisting, Gated, CommitResult, Landing, Refusal
<1>6. CASE GateBlocked
  <2>1. pending = tok /\ Unsettled /\ branch = "on" /\ "run" \in lineage
    <3>1. pc = "gate"
      BY <1>6 DEF GateBlocked
    <3> QED
      BY ONLY <3>1, Typed, Standing, OnBranch, Swept, InHand DEF OnBranch, Swept, Unsettled
  <2>2. tip' = tok.snap /\ tree' = tok.snap /\ branch' = "on"
    BY <1>6, <2>1 DEF GateBlocked, Gated, RevertTo
  <2>3. UNCHANGED <<outcome, pending, lineage, tok>> /\ Unsettled'
    BY <1>6, <2>1 DEF GateBlocked, Gated, Unsettled
  <2>4. \A e \in tok.snap : outcome[e.ticket] \in Done
    BY <2>1
  <2>5. pc' = "record"
    BY <1>6 DEF GateBlocked, Gated
  <2> QED
    BY ONLY <2>1, <2>2, <2>3, <2>4, <2>5 DEF Swept, Unsettled
<1>7. CASE GateGitError
  BY <1>7 DEF GateGitError, Gated, Landing, HalfRevert
<1>8. CASE Record
  <2>1. /\ pending = tok /\ tok \in Token /\ tok.ticket \in Ticket /\ Unsettled /\ tree = tip
        /\ res \in Done \/ tree = tok.snap
        /\ branch = "on" /\ "run" \in lineage
    <3>1. pc = "record"
      BY <1>8 DEF Record
    <3> QED
      BY ONLY <3>1, Typed, Standing, OnBranch, Swept, InHand DEF OnBranch, Swept, Unsettled
  <2>2. /\ outcome' = [outcome EXCEPT ![tok.ticket] = res] /\ pc' = "recorded"
        /\ UNCHANGED <<pending, branch, lineage, tip, tree, tok>>
    BY <1>8 DEF Record
  <2>3. outcome'[tok.ticket] = res /\ \A t \in Ticket : t # tok.ticket => outcome'[t] = outcome[t]
    BY <2>1, <2>2
  <2>4. \A e \in tip : e \in Edit /\ e.ticket \in Ticket
    OBVIOUS
  <2>5. \A e \in tip : outcome[e.ticket] \in Done \/ e.ticket = tok.ticket
    BY <2>1, <2>4
  <2>6. \A e \in tip : outcome'[e.ticket] \in Done
    <3>1. CASE res \in Done
      BY <2>3, <2>4, <2>5, <3>1
    <3>2. CASE tip = tok.snap
      <4>1. \A e \in tip : outcome[e.ticket] \in Done
        BY <2>1, <3>2
      <4>2. outcome[tok.ticket] \notin Done
        BY <2>1
      <4> QED
        BY <2>3, <2>4, <4>1, <4>2
    <3> QED
      BY <2>1, <3>1, <3>2
  <2>7. Unsettled' => \A e \in pending'.snap : outcome'[e.ticket] \in Done
    <3> SUFFICES ASSUME Unsettled' PROVE \A e \in tok.snap : outcome'[e.ticket] \in Done
      BY <2>1, <2>2
    <3>1. res \notin Done
      BY <2>1, <2>2, <2>3
    <3> QED
      BY <2>1, <2>6, <3>1
  <2> QED
    BY <2>1, <2>2, <2>6, <2>7
<1>9. CASE ClearPending
  BY <1>9 DEF ClearPending
<1>10. CASE BumpProgress
  BY <1>10 DEF BumpProgress
<1>11. CASE SetAside
  BY <1>11 DEF SetAside, Return
<1> QED
  BY <1>1, <1>2, <1>3, <1>4, <1>5, <1>6, <1>7, <1>8, <1>9, <1>10, <1>11 DEF CompleteStep

LEMMA SweptResolveStep ==
  ASSUME Undoable, Typed, Standing, Guard, OnBranch, Swept, ResolveStep
  PROVE  Swept'
<1> USE DEF Swept, Unsettled, Run, Here, OnBranch, Undoable, Isolated, Healthy, Guard, Slot, Hold, GuardedWhileHeld,
            Standing, Typed, TypeOK, MemoryOK, Token, Tree, Edit, Done, Parked, Retry, Terminal,
            Outcome, store, files, git, memory, agent
<1>1. ASSUME NEW t \in Ticket, Resolve(t) PROVE Swept'
  <2>1. EnterRunBranch /\ UNCHANGED <<pending, outcome>> /\ pc' = "counted"
    BY <1>1 DEF Resolve
  <2> QED
    BY ONLY <2>1, Undoable, Typed, OnBranch, Swept, SweptEntered DEF Undoable
<1>2. ASSUME NEW t \in Ticket, Decline(t) PROVE Swept'
  <2>1. pending = None /\ pending' = None /\ tree = tip /\ outcome[t] \notin Terminal
    <3>1. MayAnswer(t) /\ UNCHANGED pending
      BY <1>2 DEF Decline
    <3>2. asked = t
      BY <3>1 DEF MayAnswer
    <3>3. pending = None
      BY ONLY <1>2, <3>2, Guard, NoneAssumption DEF Guard, Slot, Hold
    <3> QED
      BY ONLY <3>1, <3>3, Swept DEF Swept, MayAnswer
  <2>2. branch' = "on" /\ tree' = Run /\ tip' = Run /\ Run' = Run
    <3>1. EnterRunBranch
      BY <1>2 DEF Decline
    <3> QED
      BY ONLY <2>1, <3>1, Undoable, Typed, OnBranch, CleanEntered DEF Undoable
  <2>3. \A e \in Run : e \in Edit /\ e.ticket \in Ticket /\ outcome[e.ticket] \in Done
    BY <2>1
  <2>4. pc' = "capped" /\ outcome' = [outcome EXCEPT ![t] = ParkState(t)]
    BY <1>2 DEF Decline
  <2>5. \A e \in Run : outcome'[e.ticket] \in Done
    BY <2>1, <2>3, <2>4
  <2> QED
    BY <2>1, <2>2, <2>4, <2>5
<1>3. ASSUME NEW t \in Ticket, HaltAnswer(t) PROVE Swept'
  <2>1. EnterRunBranch /\ UNCHANGED <<pending, outcome>> /\ pc' = "terminate"
    BY <1>3 DEF HaltAnswer
  <2> QED
    BY ONLY <2>1, Undoable, Typed, OnBranch, Swept, SweptEntered DEF Undoable
<1> QED
  BY <1>1, <1>2, <1>3 DEF ResolveStep

LEMMA SweptAgentStep ==
  ASSUME Undoable, Typed, Standing, Guard, OnBranch, Swept, AgentStep
  PROVE  Swept'
<1> USE DEF Swept, Unsettled, Run, Here, OnBranch, Undoable, Isolated, Healthy, Guard, Slot, Hold, GuardedWhileHeld,
            Standing, Typed, TypeOK, MemoryOK, Token, Tree, Edit, Done, Parked, Retry, Terminal,
            Outcome, store, files, git, memory, agent
<1>1. ASSUME NEW ok \in BOOLEAN, AgentEdit(ok) PROVE Swept'
  BY <1>1 DEF AgentEdit
<1>2. CASE Crash
  BY <1>2 DEF Crash, Return
<1> QED
  BY <1>1, <1>2 DEF AgentStep

LEMMA SweptStutter == Swept /\ UNCHANGED vars => Swept'
BY DEF Swept, Unsettled, Run, vars, store, files, git, memory, agent

LEMMA SweptInductive ==
  ASSUME Undoable, Typed, Standing, Guard, OnBranch, Swept, [Next]_vars
  PROVE  Swept'
BY SweptNextStep, SweptProceedStep, SweptTerminateStep, SweptCompleteStep,
   SweptResolveStep, SweptAgentStep, SweptStutter DEF Next, Command, AgentStep

(* Between tickets the working tree is exactly HEAD, and HEAD holds only the work of tickets
   recorded as done, whatever command was killed in between. *)
THEOREM AlwaysClean == ASSUME Undoable PROVE Spec => []CleanBetweenTickets
<1>1. Undoable => Healthy /\ ~RetryComplete
  BY DEF Undoable, Healthy
<1>2. Undoable /\ Typed /\ OnBranch /\ [Next]_vars => OnBranch'
  BY OnBranchInductive DEF Undoable
<1>3. Undoable /\ Typed /\ Standing /\ Guard /\ OnBranch /\ Swept /\ [Next]_vars => Swept'
  BY SweptInductive
<1>4. Typed /\ Swept => CleanBetweenTickets
  BY DEF CleanBetweenTickets, Swept, Typed, TypeOK, Tree
<1> QED
  BY <1>1, <1>2, <1>3, <1>4, TypedInit, TypedInductive, WarrantInit, WarrantInductive, StandingInit,
     StandingInductive, GuardInit, GuardInductive, WorkInit, SweptInit, PTL DEF Spec

-----------------------------------------------------------------------------
(* A green branch stays green, when moreover the baseline gate runs in time *)

(* Every snapshot of the night is green and known to be, so a red gate is always undone. *)
Landed ==
  /\ Green(tip) /\ Green(aside)
  /\ pending # None => pending.green /\ Green(pending.snap)
  /\ pc \in {"snapped", "saved", "armed", "undone", "gate", "reverted", "record"}
       => tok.green /\ Green(tok.snap)

LEMMA LandedInit == BaseGreen /\ Init => Landed
BY DEF Init, Landed, Green

LEMMA LandedNextStep ==
  ASSUME BaseGreen, ~SlowBaseline, Undoable, Typed, Standing, Guard, OnBranch, Swept, Landed,
         NextStep
  PROVE  Landed'
<1> USE DEF Landed, Green, Swept, Run, OnBranch, Undoable, Isolated, Healthy, Guard, Slot, Hold, Typed, TypeOK,
            MemoryOK, Token, Tree, Edit, Done, Parked, Retry, Terminal, Outcome, store, files,
            git, memory, agent
<1>1. CASE CallNext
  BY <1>1, Entered DEF CallNext
<1>2. CASE Recover
  BY <1>2 DEF Recover, RevertTo, Recorded
<1>3. CASE RecoverFails
  BY <1>3 DEF RecoverFails, HalfRevert, Recorded
<1>4. CASE Schedule
  BY <1>4 DEF Schedule
<1>5. CASE Drained
  BY <1>5 DEF Drained
<1>6. CASE Halt
  BY <1>6 DEF Halt
<1>7. ASSUME NEW t \in Ticket, OpenOffer(t) PROVE Landed'
  BY <1>7 DEF OpenOffer, CanOffer
<1>8. ASSUME NEW t \in Ticket, ParkTicket(t) PROVE Landed'
  BY <1>8 DEF ParkTicket, ParkState, Scheduled, Ready
<1>9. ASSUME NEW t \in Ticket, CountAttempt(t) PROVE Landed'
  BY <1>9 DEF CountAttempt, Scheduled, Ready
<1>10. CASE AnswerOffer
  BY <1>10 DEF AnswerOffer, Return
<1>11. CASE BumpParked
  BY <1>11 DEF BumpParked
<1>12. ASSUME NEW t \in Ticket, HaltTicket(t) PROVE Landed'
  BY <1>12 DEF HaltTicket
<1> QED
  BY <1>1, <1>2, <1>3, <1>4, <1>5, <1>6, <1>7, <1>8, <1>9, <1>10, <1>11, <1>12 DEF NextStep

LEMMA LandedProceedStep ==
  ASSUME BaseGreen, ~SlowBaseline, Undoable, Typed, Standing, Guard, OnBranch, Swept, Landed,
         ProceedStep
  PROVE  Landed'
<1> USE DEF Landed, Green, Swept, Run, OnBranch, Undoable, Isolated, Healthy, Guard, Slot, Hold, Typed, TypeOK,
            MemoryOK, Token, Tree, Edit, Done, Parked, Retry, Terminal, Outcome, store, files,
            git, memory, agent
<1>1. CASE CapTicket
  BY <1>1 DEF CapTicket
<1>2. CASE SnapshotFails
  BY <1>2 DEF SnapshotFails, Landing
<1>3. CASE Snapshot
  <2>1. pc = "counted" /\ pending = None /\ branch = "on" /\ tree = tip
    BY <1>3 DEF Snapshot
  <2>2. tip' = tip /\ aside' = aside /\ pending' = None /\ pc' = "snapped"
    BY <1>3, <2>1 DEF Snapshot, CommitAll, Landing, Refusal
  <2>3. PICK timedOut \in {FALSE, SlowBaseline} :
          tok' = [ticket |-> cur, snap |-> tip', green |-> Green(tree) /\ ~timedOut,
                  review |-> ForcesReview]
    BY <1>3 DEF Snapshot
  <2>4. ~timedOut /\ Green(tree)
    <3>1. ~timedOut
      BY ONLY ~SlowBaseline, timedOut \in {FALSE, SlowBaseline}, Zenon
    <3>2. Green(tip)
      BY ONLY Landed DEF Landed
    <3> QED
      BY ONLY <2>1, <3>1, <3>2
  <2>5. tok'.snap = tip' /\ tok'.green = (Green(tree) /\ ~timedOut)
    BY ONLY <2>3
  <2> QED
    BY <2>1, <2>2, <2>4, <2>5
<1>4. CASE ConsumeOffer
  BY <1>4 DEF ConsumeOffer
<1>5. CASE BumpCapped
  BY <1>5 DEF BumpCapped
<1>6. CASE AfterCapped
  BY <1>6 DEF AfterCapped, Return
<1>7. CASE SavePending
  BY <1>7 DEF SavePending, OfferSettled
<1>8. CASE SetSentinel
  BY <1>8 DEF SetSentinel
<1>9. CASE HandOut
  BY <1>9 DEF HandOut, Return
<1>10. CASE StopForCredits
  BY <1>10 DEF StopForCredits, RevertTo
<1>11. CASE DropPending
  BY <1>11 DEF DropPending
<1> QED
  BY <1>1, <1>2, <1>3, <1>4, <1>5, <1>6, <1>7, <1>8, <1>9, <1>10, <1>11 DEF ProceedStep

LEMMA LandedTerminateStep ==
  ASSUME BaseGreen, ~SlowBaseline, Undoable, Typed, Standing, Guard, OnBranch, Swept, Landed,
         TerminateStep
  PROVE  Landed'
<1> USE DEF Landed, Green, Swept, Run, OnBranch, Undoable, Isolated, Healthy, Guard, Slot, Hold, Typed, TypeOK,
            MemoryOK, Token, Tree, Edit, Done, Parked, Retry, Terminal, Outcome, store, files,
            git, memory, agent
<1>1. CASE ClearSentinel
  BY <1>1 DEF ClearSentinel
<1>2. CASE RestoreBranch
  BY <1>2 DEF RestoreBranch, Checkout, Stay
<1>3. CASE ForgetBranch
  BY <1>3 DEF ForgetBranch
<1>4. CASE ResetRun
  BY <1>4 DEF ResetRun, Return
<1> QED
  BY <1>1, <1>2, <1>3, <1>4 DEF TerminateStep

LEMMA LandedCompleteStep ==
  ASSUME BaseGreen, ~SlowBaseline, Undoable, Typed, Standing, Guard, OnBranch, Swept, Landed,
         CompleteStep
  PROVE  Landed'
<1> USE DEF Landed, Green, Swept, Run, OnBranch, Undoable, Isolated, Healthy, Guard, Slot, Hold, Typed, TypeOK,
            MemoryOK, Token, Tree, Edit, Done, Parked, Retry, Terminal, Outcome, store, files,
            git, memory, agent
<1>1. CASE CallComplete
  BY <1>1, Entered DEF CallComplete
<1>2. CASE GatePass
  BY <1>2 DEF GatePass, Gated, CommitResult, Landing, Refusal
<1>3. CASE GateIntroduced
  BY <1>3 DEF GateIntroduced, RevertTo
<1>4. CASE NoteFailure
  BY <1>4 DEF NoteFailure
<1>5. CASE GatePreexisting
  BY <1>5 DEF GatePreexisting, Gated, CommitResult, Landing, Refusal
<1>6. CASE GateBlocked
  BY <1>6 DEF GateBlocked, Gated, RevertTo
<1>7. CASE GateGitError
  BY <1>7 DEF GateGitError, Gated, Landing, HalfRevert
<1>8. CASE Record
  BY <1>8 DEF Record
<1>9. CASE ClearPending
  BY <1>9 DEF ClearPending
<1>10. CASE BumpProgress
  BY <1>10 DEF BumpProgress
<1>11. CASE SetAside
  BY <1>11 DEF SetAside, Return
<1> QED
  BY <1>1, <1>2, <1>3, <1>4, <1>5, <1>6, <1>7, <1>8, <1>9, <1>10, <1>11 DEF CompleteStep

LEMMA LandedResolveStep ==
  ASSUME BaseGreen, ~SlowBaseline, Undoable, Typed, Standing, Guard, OnBranch, Swept, Landed,
         ResolveStep
  PROVE  Landed'
<1> USE DEF Landed, Green, Swept, Run, OnBranch, Undoable, Isolated, Healthy, Guard, Slot, Hold, Typed, TypeOK,
            MemoryOK, Token, Tree, Edit, Done, Parked, Retry, Terminal, Outcome, store, files,
            git, memory, agent
<1>1. ASSUME NEW t \in Ticket, Resolve(t) PROVE Landed'
  BY <1>1, Entered DEF Resolve, MayAnswer
<1>2. ASSUME NEW t \in Ticket, Decline(t) PROVE Landed'
  BY <1>2, Entered DEF Decline, MayAnswer, ParkState
<1>3. ASSUME NEW t \in Ticket, HaltAnswer(t) PROVE Landed'
  BY <1>3, Entered DEF HaltAnswer, MayAnswer
<1> QED
  BY <1>1, <1>2, <1>3 DEF ResolveStep

LEMMA LandedAgentStep ==
  ASSUME BaseGreen, ~SlowBaseline, Undoable, Typed, Standing, Guard, OnBranch, Swept, Landed,
         AgentStep
  PROVE  Landed'
<1> USE DEF Landed, Green, Swept, Run, OnBranch, Undoable, Isolated, Healthy, Guard, Slot, Hold, Typed, TypeOK,
            MemoryOK, Token, Tree, Edit, Done, Parked, Retry, Terminal, Outcome, store, files,
            git, memory, agent
<1>1. ASSUME NEW ok \in BOOLEAN, AgentEdit(ok) PROVE Landed'
  BY <1>1 DEF AgentEdit
<1>2. CASE Crash
  BY <1>2 DEF Crash, Return
<1> QED
  BY <1>1, <1>2 DEF AgentStep

LEMMA LandedStutter == Landed /\ UNCHANGED vars => Landed'
BY DEF Landed, Green, vars, store, files, git, memory, agent

LEMMA LandedInductive ==
  ASSUME BaseGreen, ~SlowBaseline, Undoable, Typed, Standing, Guard, OnBranch, Swept, Landed,
         [Next]_vars
  PROVE  Landed'
BY LandedNextStep, LandedProceedStep, LandedTerminateStep, LandedCompleteStep,
   LandedResolveStep, LandedAgentStep, LandedStutter DEF Next, Command, AgentStep

(* A gate that was green when the night began is green on the run branch after every step of
   it. *)
THEOREM AlwaysGreen == ASSUME Undoable, ~SlowBaseline PROVE Spec => []LandedIsGreen
<1>1. CASE BaseGreen
  <2>1. Undoable => Healthy /\ ~RetryComplete
    BY DEF Undoable, Healthy
  <2>2. Undoable /\ Typed /\ OnBranch /\ [Next]_vars => OnBranch'
    BY OnBranchInductive DEF Undoable
  <2>3. Undoable /\ Typed /\ Standing /\ Guard /\ OnBranch /\ Swept /\ [Next]_vars => Swept'
    BY SweptInductive
  <2>4. /\ BaseGreen /\ ~SlowBaseline /\ Undoable /\ Typed /\ Standing /\ Guard /\ OnBranch /\ Swept
        /\ Landed /\ [Next]_vars
        => Landed'
    BY LandedInductive
  <2>5. Landed => LandedIsGreen
    BY DEF Landed, LandedIsGreen
  <2> QED
    BY <1>1, <2>1, <2>2, <2>3, <2>4, <2>5, TypedInit, TypedInductive, WarrantInit, WarrantInductive,
       StandingInit, StandingInductive, GuardInit, GuardInductive, WorkInit, SweptInit, LandedInit,
       PTL DEF Spec
<1>2. CASE ~BaseGreen
  <2>1. LandedIsGreen
    BY <1>2 DEF LandedIsGreen
  <2> QED
    BY <1>2, <2>1, PTL
<1> QED
  BY <1>1, <1>2

-----------------------------------------------------------------------------
(* The backlog contract *)

Moves(t, s) == Status' = [Status EXCEPT ![t] = s]

LEMMA StatusMoves ==
  ASSUME NEW t \in Ticket, NEW s, Status'[t] = s,
         \A u \in Ticket : u # t => Status'[u] = Status[u]
  PROVE  Moves(t, s)
<1>1. Status = [u \in Ticket |-> Status[u]] /\ Status' = [u \in Ticket |-> Status'[u]]
  BY DEF Status
<1>2. [Status EXCEPT ![t] = s] = [u \in Ticket |-> IF u = t THEN s ELSE Status[u]]
  BY <1>1
<1>3. [u \in Ticket |-> Status'[u]] = [u \in Ticket |-> IF u = t THEN s ELSE Status[u]]
  OBVIOUS
<1> QED
  BY <1>1, <1>2, <1>3 DEF Moves

LEMMA StatusStays ==
  ASSUME UNCHANGED <<outcome, pending>>
  PROVE  UNCHANGED Status
BY DEF Status

LEMMA ContractInit == Init => Contract!Init
BY DEF Init, Contract!Init, Status, Terminal, Done, Parked, Outcome

(* A token that leaves the disk releases its ticket, unless the outcome is final. *)
LEMMA TokenDropped ==
  ASSUME Typed, pending' = None, UNCHANGED outcome
  PROVE  [Contract!Next]_Status
<1>1. CASE pending = None \/ outcome[pending.ticket] \in Terminal
  BY <1>1 DEF Status
<1>2. CASE pending # None /\ outcome[pending.ticket] \notin Terminal
  <2> DEFINE t == pending.ticket
  <2>1. t \in Ticket /\ Status[t] = "in flight" /\ Status'[t] = "waiting"
    BY <1>2 DEF Typed, TypeOK, Token, Status
  <2>2. \A u \in Ticket : u # t => Status'[u] = Status[u]
    BY <1>2 DEF Status
  <2>3. Contract!Release(t)
    BY <2>1, <2>2, StatusMoves DEF Moves, Contract!Release, Contract!InFlight, Contract!Move
  <2> QED
    BY <2>1, <2>3 DEF Contract!Next
<1> QED
  BY <1>1, <1>2

(* An outcome written for a ticket while nothing else is in flight ends it or changes nothing. *)
LEMMA OutcomeWritten ==
  ASSUME Typed, UNCHANGED pending,
         NEW t \in Ticket, NEW o \in Outcome, outcome[t] \notin Terminal,
         o \in Done => pending # None /\ pending.ticket = t,
         outcome' = [outcome EXCEPT ![t] = o]
  PROVE  [Contract!Next]_Status
<1>1. \A u \in Ticket : u # t => Status'[u] = Status[u]
  BY DEF Status, Typed, TypeOK
<1>2. CASE o \in Retry
  <2>1. o \notin Terminal
    BY <1>2 DEF Retry, Terminal, Done, Parked
  <2>2. Status'[t] = Status[t]
    BY <2>1 DEF Status, Typed, TypeOK
  <2>3. \A u \in Ticket : Status'[u] = Status[u]
    BY <1>1, <2>2
  <2>4. Status = [u \in Ticket |-> Status[u]] /\ Status' = [u \in Ticket |-> Status'[u]]
    BY DEF Status
  <2>5. Status' = Status
    BY <2>3, <2>4
  <2> QED
    BY <2>5
<1>3. CASE o \in Done
  <2>1. Status[t] = "in flight" /\ Status'[t] = o
    BY <1>3 DEF Status, Typed, TypeOK, Terminal
  <2>2. Contract!Finish(t)
    BY <1>1, <1>3, <2>1, StatusMoves DEF Moves, Contract!Finish, Contract!InFlight, Contract!Move
  <2> QED
    BY <2>2 DEF Contract!Next
<1>4. CASE o \in Parked
  <2>1. Status[t] \in {"waiting", "in flight"} /\ Status'[t] = o
    BY <1>4 DEF Status, Typed, TypeOK, Terminal
  <2>2. Contract!Park(t)
    BY <1>1, <1>4, <2>1, StatusMoves DEF Moves, Contract!Park, Contract!Move
  <2> QED
    BY <2>2 DEF Contract!Next
<1> QED
  BY <1>2, <1>3, <1>4 DEF Outcome, Terminal

(* A token saved while none is on disk hands its ticket out. *)
LEMMA TokenSaved ==
  ASSUME Typed, pending = None, NEW x \in Token, pending' = x, UNCHANGED outcome,
         outcome[x.ticket] \notin Terminal
  PROVE  Contract!Next
<1> DEFINE t == x.ticket
<1>1. t \in Ticket /\ x # None
  BY DEF Token
<1>2. Status[t] = "waiting" /\ Status'[t] = "in flight"
  BY <1>1 DEF Status
<1>3. \A u \in Ticket : u # t => Status'[u] = Status[u]
  BY <1>1 DEF Status
<1>4. \A u \in Ticket : Status[u] # "in flight"
  BY DEF Status, Terminal, Done, Parked
<1>5. Contract!HandOut(t)
  BY <1>1, <1>2, <1>3, <1>4, StatusMoves DEF Moves, Contract!HandOut, Contract!InFlight, Contract!Move
<1> QED
  BY <1>1, <1>5 DEF Contract!Next

LEMMA ContractStep ==
  Healthy /\ Typed /\ Standing /\ Guard /\ [Next]_vars => [Contract!Next]_Status
<1> SUFFICES ASSUME Healthy, Typed, Standing, Guard, [Next]_vars PROVE [Contract!Next]_Status
  OBVIOUS
<1> USE DEF store, files, git, memory, agent
<1>1. CASE Recover
  <2>1. pending' = None /\ UNCHANGED outcome
    BY <1>1 DEF Recover
  <2> QED
    BY <2>1, TokenDropped
<1>2. ASSUME NEW t \in Ticket, ParkTicket(t) PROVE [Contract!Next]_Status
  <2>1. UNCHANGED pending /\ outcome' = [outcome EXCEPT ![t] = ParkState(t)]
        /\ outcome[t] \notin Terminal
    BY <1>2 DEF ParkTicket, Scheduled, Ready
  <2>2. ParkState(t) \in Outcome /\ ParkState(t) \notin Done
    BY DEF ParkState, Outcome, Terminal, Done, Parked
  <2> QED
    BY <2>1, <2>2, OutcomeWritten
<1>3. CASE CapTicket
  <2>1. UNCHANGED pending /\ outcome' = [outcome EXCEPT ![cur] = "PARKED_DECISION"]
        /\ cur \in Ticket /\ outcome[cur] \notin Terminal
    BY <1>3 DEF CapTicket, Standing, Typed, MemoryOK
  <2>2. "PARKED_DECISION" \in Outcome /\ "PARKED_DECISION" \notin Done
    BY DEF Outcome, Terminal, Done, Parked
  <2> QED
    BY <2>1, <2>2, OutcomeWritten
<1>4. CASE SnapshotFails
  <2>1. UNCHANGED pending /\ outcome' = [outcome EXCEPT ![cur] = "BLOCKED_ENV"]
        /\ cur \in Ticket /\ outcome[cur] \notin Terminal
    BY <1>4 DEF SnapshotFails, Standing, Typed, MemoryOK
  <2>2. "BLOCKED_ENV" \in Outcome /\ "BLOCKED_ENV" \notin Done
    BY DEF Outcome, Retry, Done
  <2> QED
    BY <2>1, <2>2, OutcomeWritten
<1>5. CASE SavePending
  <2>1. pending = None /\ pending' = tok /\ tok \in Token /\ UNCHANGED outcome
        /\ outcome[tok.ticket] \notin Terminal
    BY <1>5 DEF SavePending, Guard, Slot, Standing, Typed, MemoryOK
  <2> QED
    BY <2>1, TokenSaved
<1>6. CASE DropPending \/ ClearPending
  <2>1. pending' = None /\ UNCHANGED outcome
    BY <1>6 DEF DropPending, ClearPending
  <2> QED
    BY <2>1, TokenDropped
<1>7. CASE Record
  <2>1. UNCHANGED pending /\ outcome' = [outcome EXCEPT ![tok.ticket] = res]
        /\ tok \in Token /\ res \in Outcome /\ pending = tok /\ outcome[tok.ticket] \notin Terminal
    BY <1>7 DEF Record, Standing, Typed, MemoryOK, TypeOK
  <2>2. tok.ticket \in Ticket /\ pending # None
    BY <2>1 DEF Token
  <2> QED
    BY <2>1, <2>2, OutcomeWritten
<1>8. ASSUME NEW t \in Ticket, Decline(t) PROVE [Contract!Next]_Status
  <2>1. UNCHANGED pending /\ outcome' = [outcome EXCEPT ![t] = ParkState(t)]
        /\ outcome[t] \notin Terminal
    BY <1>8 DEF Decline, MayAnswer
  <2>2. ParkState(t) \in Outcome /\ ParkState(t) \notin Done
    BY DEF ParkState, Outcome, Terminal, Done, Parked
  <2> QED
    BY <2>1, <2>2, OutcomeWritten
<1>9. CASE \/ CallNext \/ RecoverFails \/ Schedule \/ Drained \/ Halt \/ AnswerOffer \/ BumpParked
           \/ \E t \in Ticket : HaltTicket(t) \/ OpenOffer(t) \/ CountAttempt(t)
  <2>1. UNCHANGED <<outcome, pending>>
    BY <1>9 DEF CallNext, RecoverFails, Schedule, Drained, Halt, AnswerOffer, BumpParked,
                HaltTicket, OpenOffer, CountAttempt
  <2> QED
    BY <2>1, StatusStays
<1>10. CASE \/ Snapshot \/ ConsumeOffer \/ BumpCapped \/ AfterCapped \/ SetSentinel \/ HandOut
            \/ StopForCredits \/ TerminateStep
  <2>1. UNCHANGED <<outcome, pending>>
    BY <1>10 DEF Snapshot, ConsumeOffer, BumpCapped, AfterCapped, SetSentinel, HandOut,
                 StopForCredits, TerminateStep, ClearSentinel, RestoreBranch, ForgetBranch, ResetRun
  <2> QED
    BY <2>1, StatusStays
<1>11. CASE \/ CallComplete \/ GatePass \/ GateIntroduced \/ NoteFailure \/ GatePreexisting
            \/ GateBlocked \/ GateGitError \/ BumpProgress \/ SetAside
  <2>1. UNCHANGED <<outcome, pending>>
    BY <1>11 DEF CallComplete, GatePass, GateIntroduced, NoteFailure, GatePreexisting, GateBlocked,
                 GateGitError, BumpProgress, SetAside, Gated
  <2> QED
    BY <2>1, StatusStays
<1>12. CASE (\E t \in Ticket : Resolve(t) \/ HaltAnswer(t)) \/ AgentStep \/ UNCHANGED vars
  <2>1. UNCHANGED <<outcome, pending>>
    BY <1>12 DEF Resolve, HaltAnswer, AgentStep, AgentEdit, Crash, vars
  <2> QED
    BY <2>1, StatusStays
<1> QED
  BY <1>1, <1>2, <1>3, <1>4, <1>5, <1>6, <1>7, <1>8, <1>9, <1>10, <1>11, <1>12
     DEF Next, Command, NextStep, ProceedStep, CompleteStep, ResolveStep, AgentStep

(* The loop refines Backlog: it hands out one ticket at a time, finishes only the
   ticket in flight, and never revises a terminal outcome. *)
THEOREM LoopImplementsContract == ASSUME Healthy PROVE Spec => Implements
<1>1. Healthy => ~RetryComplete
  BY DEF Healthy
<1> QED
  BY <1>1, ContractInit, ContractStep, TypedInit, TypedInductive, WarrantInit, WarrantInductive,
     StandingInit, StandingInductive, GuardInit, GuardInductive, PTL
     DEF Spec, Implements, Contract!Spec
=============================================================================
