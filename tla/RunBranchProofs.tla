-------------------------- MODULE RunBranchProofs --------------------------
(***************************************************************************)
(* What the run branch keeps however long the history, however many runs,  *)
(* and wherever its commands are killed.                                   *)
(***************************************************************************)
EXTENDS RunBranch, TLAPS

Made == 1 .. Len(past)

(* Whatever names a commit names one that has been made. *)
Rooted ==
  /\ past \in Seq(SUBSET Commit) /\ Len(past) \in Commit
  /\ \A c \in Made : past[c] \subseteq Made
  /\ tip \in [Branch -> Made]
  /\ pending \in Made \cup {None} /\ new \in Made \cup {None}

(* A command past its entry is on the branch that run-branch.json names. *)
OnIt ==
  pc \in {"recover", "dropped", "schedule", "snapped", "finalize", "kept", "reverted", "recorded"} =>
    file # None /\ HEAD = file.run /\ file.orig \in alive

(* An entry not yet saved says where HEAD is and where it was. *)
Unsaved == pc = "save" => file = None /\ entry # None /\ entry.run = HEAD /\ entry.orig \in alive

(* An agent at work has its token, and only complete runs beside it. *)
Attended ==
  /\ held => pending # None
  /\ pc \in {"enter", "save"} => (cmd = "complete" <=> held)
  /\ pc = "finalize" => held
  /\ pc \in {"recover", "dropped", "schedule", "forget"} => ~held

(* A commit in memory is one of the harness. *)
Written ==
  /\ pc = "snapped" => new # None
  /\ pc = "kept" => new \in own

RInv == TypeOK /\ Rooted /\ OnIt /\ Unsaved /\ Attended /\ Written

-----------------------------------------------------------------------------
(* A new commit keeps the graph rooted. *)
LEMMA CommitRooted ==
  ASSUME Rooted, NEW b \in Branch, NEW parents \in SUBSET Made, CommitOn(b, parents)
  PROVE  /\ past' \in Seq(SUBSET Commit) /\ Len(past') \in Commit
         /\ \A c \in 1 .. Len(past') : past'[c] \subseteq 1 .. Len(past')
         /\ tip' \in [Branch -> 1 .. Len(past')] /\ tip' \in [Branch -> Commit]
         /\ Made \subseteq 1 .. Len(past') /\ Len(past') \in 1 .. Len(past')
         /\ \A x \in Branch : x # b => tip'[x] = tip[x]
<1> DEFINE c == Len(past) + 1
           anc == {c} \cup UNION {past[p] : p \in parents}
<1>1. Len(past) \in Nat /\ c \in Commit /\ past' = Append(past, anc) /\ tip' = [tip EXCEPT ![b] = c]
  BY DEF Rooted, CommitOn
<1>2. anc \subseteq 1 .. c
  <2> SUFFICES ASSUME NEW x \in anc PROVE x \in 1 .. c
    OBVIOUS
  <2>1. CASE x = c
    BY <2>1, <1>1
  <2>2. CASE \E p \in parents : x \in past[p]
    BY <2>2, <1>1 DEF Rooted, Made
  <2> QED BY <2>1, <2>2
<1>3. 1 .. c \subseteq Commit
  BY <1>1, RunBranchAssumption DEF Commit
<1>4. past' \in Seq(SUBSET Commit) /\ Len(past') = c
  BY <1>1, <1>2, <1>3 DEF Rooted
<1>5. \A x \in 1 .. c : past'[x] \subseteq 1 .. c
  <2> SUFFICES ASSUME NEW x \in 1 .. c PROVE past'[x] \subseteq 1 .. c
    OBVIOUS
  <2>1. CASE x = c
    BY <2>1, <1>1, <1>2 DEF Rooted
  <2>2. CASE x # c
    <3>1. x \in Made /\ past'[x] = past[x]
      BY <2>2, <1>1 DEF Rooted, Made
    <3> QED BY <3>1, <1>1 DEF Rooted, Made
  <2> QED BY <2>1, <2>2
<1>6. Made \subseteq 1 .. c /\ c \in 1 .. c
  BY <1>1 DEF Made
<1>7. tip' \in [Branch -> 1 .. c] /\ \A x \in Branch : x # b => tip'[x] = tip[x]
  BY <1>1, <1>6 DEF Rooted
<1>8. tip' \in [Branch -> Commit]
  BY <1>3, <1>7
<1> QED BY <1>1, <1>3, <1>4, <1>5, <1>6, <1>7, <1>8

LEMMA RInit == Init => RInv
<1> SUFFICES ASSUME Init PROVE RInv
  OBVIOUS
<1>1. 1 \in Commit /\ Operator \in Branch
  BY RunBranchAssumption DEF Commit, Branch, Operator
<1>2. past = <<{1}>> /\ Len(past) = 1 /\ past \in Seq(SUBSET Commit) /\ past[1] = {1}
  BY <1>1 DEF Init
<1>3. TypeOK
  BY <1>1, <1>2 DEF Init, TypeOK, Steps
<1>4. Rooted
  BY <1>1, <1>2 DEF Init, Rooted, Made
<1> QED BY <1>3, <1>4 DEF Init, RInv, OnIt, Unsaved, Attended, Written

-----------------------------------------------------------------------------
(* the steps *)

LEMMA EnterStep == RInv /\ Enter => RInv'
<1> SUFFICES ASSUME RInv, Enter PROVE RInv'
  OBVIOUS
<1> USE DEF RInv, TypeOK, OnIt, Unsaved, Attended, Written, Entered, Steps, RunState, graph, refs, token, memory
<1>1. CASE Create
  <2>1. PICK b \in Branch \ alive :
          /\ alive' = alive \cup {b} /\ tip' = [tip EXCEPT ![b] = tip[HEAD]] /\ HEAD' = b
          /\ entry' = [run |-> b, orig |-> HEAD, base |-> tip[HEAD]]
    BY <1>1 DEF Create
  <2>2. HEAD \in Branch /\ tip[HEAD] \in Commit /\ entry' \in RunState
    BY <2>1
  <2>3. Rooted'
    BY <1>1, <2>1, <2>2 DEF Create, Rooted, Made
  <2>4. TypeOK'
    BY <1>1, <2>1, <2>2 DEF Create
  <2>5. Unsaved'
    <3>1. entry' # None /\ entry'.run = b /\ entry'.orig = HEAD
      BY <2>1, <2>2, RunBranchAssumption
    <3> QED BY <1>1, <2>1, <3>1 DEF Create
  <2>6. OnIt' /\ Attended' /\ Written'
    BY <1>1, <2>1 DEF Create
  <2> QED BY <2>3, <2>4, <2>5, <2>6
<1>2. CASE Save
  BY <1>2 DEF Save, Rooted, Made
<1>3. CASE Resume
  BY <1>3 DEF Resume, Safe, Goto, Rooted, Made
<1>4. CASE HaltUnsafe
  BY <1>4 DEF HaltUnsafe, Return, Rooted, Made
<1> QED BY <1>1, <1>2, <1>3, <1>4 DEF Enter

LEMMA NextCmdStep == RInv /\ NextCmd => RInv'
<1> SUFFICES ASSUME RInv, NextCmd PROVE RInv'
  OBVIOUS
<1> USE DEF RInv, TypeOK, OnIt, Unsaved, Attended, Written, Steps, graph, refs, token, memory, Goto, Return
<1>1. CASE CallNext
  BY <1>1 DEF CallNext, Rooted, Made
<1>2. CASE DropStale
  BY <1>2 DEF DropStale, Rooted, Made
<1>3. CASE RevertToSnapshot
  <2>1. pending \in Made /\ pending \in Commit
    BY <1>3 DEF RevertToSnapshot, Rooted
  <2>2. tip' \in [Branch -> Made] /\ tip' \in [Branch -> Commit]
    BY <1>3, <2>1 DEF RevertToSnapshot, Rooted
  <2>3. Rooted'
    BY <1>3, <2>2 DEF RevertToSnapshot, Rooted, Made
  <2> QED BY <1>3, <2>2, <2>3 DEF RevertToSnapshot
<1>4. CASE DropToken
  BY <1>4 DEF DropToken, Rooted, Made
<1>5. CASE NothingToRecover
  BY <1>5 DEF NothingToRecover, Rooted, Made
<1>6. CASE Snapshot
  <2>1. HEAD \in Branch /\ {tip[HEAD]} \in SUBSET Made /\ CommitOn(HEAD, {tip[HEAD]})
    BY <1>6 DEF Snapshot, Rooted
  <2>2. /\ past' \in Seq(SUBSET Commit) /\ Len(past') \in Commit
        /\ \A c \in 1 .. Len(past') : past'[c] \subseteq 1 .. Len(past')
        /\ tip' \in [Branch -> 1 .. Len(past')] /\ tip' \in [Branch -> Commit]
        /\ Made \subseteq 1 .. Len(past') /\ Len(past') \in 1 .. Len(past')
    BY <2>1, CommitRooted
  <2>3. new' = Len(past') /\ pending' = pending
    BY <1>6 DEF Snapshot
  <2>4. Rooted'
    BY <2>2, <2>3 DEF Rooted, Made
  <2>5. new' # None
    BY <2>2, <2>3, RunBranchAssumption
  <2> QED BY <1>6, <2>2, <2>3, <2>4, <2>5 DEF Snapshot
<1>7. CASE HandOut
  BY <1>7 DEF HandOut, Rooted, Made
<1>8. CASE Exit
  BY <1>8 DEF Exit, Rooted, Made
<1>9. CASE ForgetRun
  BY <1>9 DEF ForgetRun, Rooted, Made
<1> QED BY <1>1, <1>2, <1>3, <1>4, <1>5, <1>6, <1>7, <1>8, <1>9 DEF NextCmd

LEMMA CompleteStep == RInv /\ Complete => RInv'
<1> SUFFICES ASSUME RInv, Complete PROVE RInv'
  OBVIOUS
<1> USE DEF RInv, TypeOK, OnIt, Unsaved, Attended, Written, Steps, graph, refs, token, memory, Goto, Return
<1>1. CASE CallComplete
  BY <1>1 DEF CallComplete, Rooted, Made
<1>2. CASE Keep
  <2>1. HEAD \in Branch /\ {tip[HEAD]} \in SUBSET Made /\ CommitOn(HEAD, {tip[HEAD]})
    BY <1>2 DEF Keep, Rooted
  <2>2. /\ past' \in Seq(SUBSET Commit) /\ Len(past') \in Commit
        /\ \A c \in 1 .. Len(past') : past'[c] \subseteq 1 .. Len(past')
        /\ tip' \in [Branch -> 1 .. Len(past')] /\ tip' \in [Branch -> Commit]
        /\ Made \subseteq 1 .. Len(past') /\ Len(past') \in 1 .. Len(past')
    BY <2>1, CommitRooted
  <2>3. new' = Len(past') /\ pending' = pending /\ own' = own \cup {new'}
    BY <1>2 DEF Keep
  <2>4. Rooted'
    BY <2>2, <2>3 DEF Rooted, Made
  <2> QED BY <1>2, <2>2, <2>3, <2>4 DEF Keep
<1>3. CASE Revert
  <2>1. pending \in Made /\ pending \in Commit
    BY <1>3 DEF Revert, Rooted
  <2>2. tip' \in [Branch -> Made] /\ tip' \in [Branch -> Commit]
    BY <1>3, <2>1 DEF Revert, Rooted
  <2>3. Rooted'
    BY <1>3, <2>2 DEF Revert, Rooted, Made
  <2> QED BY <1>3, <2>2, <2>3 DEF Revert
<1>4. CASE RecordDone
  BY <1>4 DEF RecordDone, Rooted, Made
<1>5. CASE RecordOther
  BY <1>5 DEF RecordOther, Rooted, Made
<1>6. CASE ClearToken
  BY <1>6 DEF ClearToken, Rooted, Made
<1> QED BY <1>1, <1>2, <1>3, <1>4, <1>5, <1>6 DEF Complete

LEMMA OthersStep == RInv /\ Others => RInv'
<1> SUFFICES ASSUME RInv, Others PROVE RInv'
  OBVIOUS
<1> USE DEF RInv, TypeOK, OnIt, Unsaved, Attended, Written, Steps, graph, refs, token, memory, Return
<1>1. CASE Kill
  BY <1>1 DEF Kill, Rooted, Made
<1>2. CASE AgentGone
  BY <1>2 DEF AgentGone, Rooted, Made
<1>3. ASSUME NEW parents \in SUBSET Made, CommitOn(Operator, parents), pc = "idle",
             UNCHANGED <<own, recorded, refs, file, token, halted, held, memory, over, chosen>>
      PROVE  RInv'
  <2>1. Operator \in Branch
    OBVIOUS
  <2>2. /\ past' \in Seq(SUBSET Commit) /\ Len(past') \in Commit
        /\ \A c \in 1 .. Len(past') : past'[c] \subseteq 1 .. Len(past')
        /\ tip' \in [Branch -> 1 .. Len(past')] /\ tip' \in [Branch -> Commit]
        /\ Made \subseteq 1 .. Len(past')
    BY <2>1, <1>3, CommitRooted
  <2>3. Rooted'
    BY <1>3, <2>2 DEF Rooted, Made
  <2> QED BY <1>3, <2>2, <2>3
<1>4. CASE OperatorCommits
  <2>1. {tip[Operator]} \in SUBSET Made
    BY DEF Rooted
  <2> QED BY <1>3, <1>4, <2>1 DEF OperatorCommits
<1>5. CASE OperatorMerges
  <2>1. PICK b \in alive : CommitOn(Operator, {tip[Operator], tip[b]})
    BY <1>5 DEF OperatorMerges
  <2>2. {tip[Operator], tip[b]} \in SUBSET Made
    BY DEF Rooted
  <2> QED BY <1>3, <1>5, <2>1, <2>2 DEF OperatorMerges
<1>6. CASE OperatorRewrites
  <2>1. PICK c \in past[tip[Operator]] : CommitOn(Operator, past[c] \ {tip[Operator]})
    BY <1>6 DEF OperatorRewrites
  <2>2. tip[Operator] \in Made /\ c \in Made
    BY <2>1 DEF Rooted
  <2>3. past[c] \ {tip[Operator]} \in SUBSET Made
    BY <2>2 DEF Rooted
  <2> QED BY <1>3, <1>6, <2>1, <2>3 DEF OperatorRewrites
<1>7. CASE OperatorSwitches
  BY <1>7 DEF OperatorSwitches, Rooted, Made
<1>8. CASE OperatorDeletes
  BY <1>8 DEF OperatorDeletes, Rooted, Made
<1>9. CASE OperatorForgetsRun
  BY <1>9 DEF OperatorForgetsRun, Rooted, Made
<1> QED BY <1>1, <1>2, <1>4, <1>5, <1>6, <1>7, <1>8, <1>9 DEF Others

LEMMA RStep == RInv /\ [Next]_vars => RInv'
<1>1. RInv /\ UNCHANGED vars => RInv'
  BY DEF RInv, TypeOK, Rooted, Made, OnIt, Unsaved, Attended, Written, vars, graph, refs, token, memory
<1> QED BY <1>1, EnterStep, NextCmdStep, CompleteStep, OthersStep DEF Next, Command

(* Every file, ref and commit the harness reads has been written, wherever it was killed. *)
THEOREM RunBranchTyping == Spec => []TypeOK
<1>1. RInv => TypeOK
  BY DEF RInv
<1> QED BY <1>1, RInit, RStep, PTL DEF Spec

-----------------------------------------------------------------------------
(* driver.py:418-463: every snapshot, commit and revert happens on the run branch, so that
   the operator's branch and those of earlier runs stay where they are. *)
THEOREM OthersStayPut == Spec => OnlyRunBranchMoves
<1>1. RInv /\ [Next]_vars
        => [Command => \A b \in alive : tip'[b] # tip[b] => file # None /\ b = file.run]_vars
  <2> SUFFICES ASSUME RInv, Command, NEW b \in alive, tip'[b] # tip[b]
               PROVE  file # None /\ b = file.run
    OBVIOUS
  <2>1. b \in Branch /\ HEAD \in Branch /\ tip \in [Branch -> Commit] /\ {tip[HEAD]} \in SUBSET Made
    BY DEF RInv, TypeOK, Rooted
  <2>2. CASE Create
    BY <2>1, <2>2 DEF Create
  <2>3. CASE RevertToSnapshot \/ Revert
    BY <2>1, <2>3 DEF RevertToSnapshot, Revert, RInv, OnIt
  <2>4. CASE Snapshot \/ Keep
    <3>1. CommitOn(HEAD, {tip[HEAD]})
      BY <2>4 DEF Snapshot, Keep
    <3>2. b = HEAD
      BY <2>1, <3>1, CommitRooted DEF RInv
    <3> QED BY <2>4, <3>2 DEF Snapshot, Keep, RInv, OnIt
  <2>5. UNCHANGED tip \/ Create \/ RevertToSnapshot \/ Revert \/ Snapshot \/ Keep
    BY DEF Command, Enter, NextCmd, Complete, Save, Resume, HaltUnsafe, CallNext, DropStale, DropToken,
           NothingToRecover, HandOut, Exit, ForgetRun, CallComplete, RecordDone, RecordOther, ClearToken, graph
  <2> QED BY <2>2, <2>3, <2>4, <2>5
<1> QED BY <1>1, RInit, RStep, PTL DEF Spec, OnlyRunBranchMoves

-----------------------------------------------------------------------------
(* The branch to return to is the one the run began on, in the file or in memory; without
   either, HEAD is on it. *)
Homeward ==
  /\ file # None => file.orig = chosen
  /\ pc = "save" => entry.orig = chosen
  /\ pc = "forget" => HEAD = chosen
  /\ file = None /\ pc \in {"idle", "enter"} => HEAD = chosen
  /\ file = None => pc \in {"idle", "enter", "save"}
  /\ over => file = None /\ pc = "idle" /\ ~held

(* driver.py:465-478: the operator is put back on the branch the run began on, unless a
   command was killed between creating the run branch and saving its name. *)
THEOREM PutBack == ASSUME "save" \notin KillAt PROVE Spec => []BackWhereItWas
<1>1. Init => Homeward
  BY DEF Init, Homeward
<1>2. RInv /\ Homeward /\ [Next]_vars => Homeward'
  <2> SUFFICES ASSUME RInv, Homeward, [Next]_vars PROVE Homeward'
    OBVIOUS
  <2> USE DEF Homeward, RInv, OnIt, Unsaved, Attended, graph, refs, token, memory
  <2>1. CASE Enter
    BY <2>1 DEF Enter, Create, Save, Resume, HaltUnsafe, Entered, Goto, Return
  <2>2. CASE NextCmd
    BY <2>2 DEF NextCmd, CallNext, DropStale, RevertToSnapshot, DropToken, NothingToRecover, Snapshot,
                HandOut, Exit, ForgetRun, Goto, Return
  <2>3. CASE Complete
    BY <2>3 DEF Complete, CallComplete, Keep, Revert, RecordDone, RecordOther, ClearToken, Goto, Return
  <2>4. CASE Others
    BY <2>4 DEF Others, Kill, AgentGone, OperatorCommits, OperatorMerges, OperatorRewrites,
                OperatorSwitches, OperatorDeletes, OperatorForgetsRun, CommitOn, Return
  <2>5. CASE UNCHANGED vars
    BY <2>5 DEF vars
  <2> QED BY <2>1, <2>2, <2>3, <2>4, <2>5 DEF Next, Command
<1>3. Homeward => BackWhereItWas
  <2> SUFFICES ASSUME Homeward, pc = "idle", over PROVE HEAD = chosen
    BY DEF BackWhereItWas
  <2> QED BY DEF Homeward
<1> QED BY <1>1, <1>2, <1>3, RInit, RStep, PTL DEF Spec

-----------------------------------------------------------------------------
(* What a commit of the harness stands on *)

(* The ancestors of a commit are closed, and the harness owns only commits that are made. *)
Grown ==
  /\ own \subseteq Made
  /\ \A c \in Made : c \in past[c] /\ \A d \in past[c] : past[d] \subseteq past[c]

(* A run branch is neither the operator's nor the one it began on, where its base is when a
   command enters it; an agent at work has a run. *)
Apart ==
  /\ file # None => file.run \notin {Operator, file.orig} /\ file.base \in Made
  /\ pc = "save" =>
       /\ entry.run \notin {Operator, entry.orig} /\ entry.base \in Made
       /\ tip[entry.run] = entry.base /\ tip[entry.orig] = entry.base
  /\ pc = "recover" => file.base \in past[tip[file.orig]]
  /\ held => file # None
  /\ held /\ pc \in {"idle", "enter", "finalize"} => ~settled
  /\ pc \in {"schedule", "snapped"} => pending = None
  /\ pc = "snapped" => new = tip[HEAD]
  /\ pc = "reverted" => tip[HEAD] = pending

(* What the run branch has beyond the snapshot of the token. *)
Ahead == past[tip[file.run]] \ past[pending]

(* The token is of this run: beyond its snapshot are only commits of the harness, of no
   recorded ticket while its own has no outcome, and not the base.  Or it is of an earlier
   run, and this one has done nothing yet. *)
Tokened ==
  file # None /\ pending # None =>
    \/ /\ Ahead \subseteq own
       /\ ~settled => Ahead \cap recorded = {}
       /\ file.base \notin Ahead
    \/ tip[file.run] = file.base /\ ~held

HInv == RInv /\ Grown /\ Apart /\ Tokened

LEMMA HInit == Init => HInv
<1> SUFFICES ASSUME Init PROVE HInv
  OBVIOUS
<1>1. Made = {1} /\ past[1] = {1}
  BY DEF Init, Made
<1> QED BY <1>1, RInit DEF Init, HInv, Grown, Apart, Tokened

(* A new commit has the old ones beneath it and changes none. *)
LEMMA CommitGrows ==
  ASSUME Rooted, Grown, NEW b \in Branch, NEW parents \in SUBSET Made, CommitOn(b, parents),
         own' \subseteq own \cup {Len(past')}
  PROVE  /\ Len(past') \notin Made /\ Made' = Made \cup {Len(past')}
         /\ \A c \in Made : past'[c] = past[c]
         /\ past'[Len(past')] = {Len(past')} \cup UNION {past[p] : p \in parents}
         /\ tip' = [tip EXCEPT ![b] = Len(past')]
         /\ Grown'
<1> DEFINE c == Len(past) + 1
           anc == {c} \cup UNION {past[p] : p \in parents}
<1>1. Len(past) \in Nat /\ past' = Append(past, anc) /\ tip' = [tip EXCEPT ![b] = c]
  BY DEF Rooted, CommitOn
<1>2. Len(past') = c /\ c \notin Made /\ Made' = Made \cup {c}
  BY <1>1 DEF Rooted, Made
<1>3. (\A d \in Made : past'[d] = past[d]) /\ past'[c] = anc
  BY <1>1 DEF Rooted, Made
<1> HIDE DEF c
<1>4. \A d \in Made : past[d] \subseteq Made /\ d \in past[d] /\ \A e \in past[d] : past[e] \subseteq past[d]
  BY DEF Rooted, Grown
<1>5. ASSUME NEW d \in Made PROVE d \in past'[d] /\ \A e \in past'[d] : past'[e] \subseteq past'[d]
  BY <1>3, <1>4
<1>6. ASSUME NEW e \in anc PROVE past'[e] \subseteq anc
  <2>1. CASE e = c
    BY <2>1, <1>3
  <2>2. CASE e # c
    <3>1. PICK p \in parents : e \in past[p]
      BY <2>2
    <3>2. p \in Made /\ e \in Made /\ past[e] \subseteq past[p]
      BY <3>1, <1>4
    <3> QED BY <3>1, <3>2, <1>3
  <2> QED BY <2>1, <2>2
<1>7. \A d \in Made' : d \in past'[d] /\ \A e \in past'[d] : past'[e] \subseteq past'[d]
  BY <1>2, <1>3, <1>5, <1>6
<1>8. own' \subseteq Made'
  BY <1>2 DEF Grown
<1> QED BY <1>1, <1>2, <1>3, <1>7, <1>8 DEF Grown

(* Tokened speaks of commits only. *)
LEMMA TokenedKept ==
  ASSUME RInv, Tokened, Apart, \A c \in Made : past'[c] = past[c],
         UNCHANGED <<file, pending, settled, own, recorded>>, held' => held,
         file # None => tip'[file.run] = tip[file.run]
  PROVE  Tokened'
<1> SUFFICES ASSUME file # None, pending # None PROVE Tokened'
  BY DEF Tokened
<1>1. file \in RunState /\ pending \in Made /\ tip[file.run] \in Made
  BY DEF RInv, TypeOK, Rooted, RunState
<1>2. Ahead' = Ahead
  BY <1>1 DEF Ahead
<1> QED BY <1>2 DEF Tokened

LEMMA EnterKeeps == HInv /\ Enter => (Grown /\ Apart /\ Tokened)'
<1> SUFFICES ASSUME HInv, Enter PROVE (Grown /\ Apart /\ Tokened)'
  OBVIOUS
<1> USE DEF HInv, Apart, graph, refs, token, memory, Goto, Return
<1>1. CASE Create
  <2>1. PICK b \in Branch \ alive :
          /\ alive' = alive \cup {b} /\ tip' = [tip EXCEPT ![b] = tip[HEAD]] /\ HEAD' = b
          /\ entry' = [run |-> b, orig |-> HEAD, base |-> tip[HEAD]]
    BY <1>1 DEF Create
  <2>2. HEAD \in alive /\ HEAD \in Branch /\ Operator \in alive /\ tip[HEAD] \in Made /\ tip \in [Branch -> Made]
    BY DEF RInv, TypeOK, Rooted
  <2>3. file = None /\ file' = None /\ pc' = "save" /\ held' = held /\ past' = past /\ own' = own
    BY <1>1 DEF Create
  <2>4. /\ entry'.run = b /\ entry'.orig = HEAD /\ entry'.base = tip[HEAD] /\ b # HEAD /\ b # Operator
        /\ tip'[b] = tip[HEAD] /\ tip'[HEAD] = tip[HEAD]
    BY <2>1, <2>2
  <2>5. Apart'
    BY <2>2, <2>3, <2>4 DEF Made
  <2> QED BY <2>3, <2>5 DEF Grown, Made, Tokened
<1>2. CASE Save
  <2>1. /\ entry # None /\ entry \in RunState /\ file' = entry /\ file = None /\ ~held
        /\ UNCHANGED <<graph, token, held>> /\ pc' \in {"recover", "finalize"} /\ (cmd = "complete" <=> held)
        /\ pc' = Entered
    BY <1>2 DEF Save, RInv, TypeOK, Unsaved, Attended, Entered
  <2>2. Grown'
    BY <2>1 DEF Grown, Made
  <2>3. Tokened'
    BY <1>2, <2>1 DEF Save, Tokened
  <2>4. entry.base \in past[entry.base]
    BY <1>2 DEF Save, Grown
  <2>5. Apart'
    BY <1>2, <2>1, <2>4 DEF Save, Made, Entered, RInv, TypeOK
  <2> QED BY <2>2, <2>3, <2>5
<1>3. CASE Resume
  <2>1. Grown'
    BY <1>3 DEF Resume, Grown, Made
  <2>2. Tokened'
    BY <1>3, TokenedKept DEF Resume, Made
  <2>3. Apart'
    BY <1>3 DEF Resume, Made, Entered, Safe, RInv, Attended, TypeOK
  <2> QED BY <2>1, <2>2, <2>3
<1>4. CASE HaltUnsafe
  <2>1. Grown'
    BY <1>4 DEF HaltUnsafe, Grown, Made
  <2>2. Tokened'
    BY <1>4, TokenedKept DEF HaltUnsafe, Made
  <2>3. Apart'
    BY <1>4 DEF HaltUnsafe, Made, RInv, OnIt, Unsaved, Attended
  <2> QED BY <2>1, <2>2, <2>3
<1> QED BY <1>1, <1>2, <1>3, <1>4 DEF Enter

LEMMA NextCmdKeeps == HInv /\ NextCmd => (Grown /\ Apart /\ Tokened)'
<1> SUFFICES ASSUME HInv, NextCmd PROVE (Grown /\ Apart /\ Tokened)'
  OBVIOUS
<1> USE DEF HInv, Apart, graph, refs, token, memory, Goto, Return
<1>1. CASE CallNext
  <2>1. Grown'
    BY <1>1 DEF CallNext, Grown, Made
  <2>2. Tokened'
    BY <1>1, TokenedKept DEF CallNext, Made
  <2>3. Apart'
    BY <1>1 DEF CallNext, Made, RInv, OnIt, Unsaved, Attended
  <2> QED BY <2>1, <2>2, <2>3
<1>2. CASE DropStale
  <2>1. Grown'
    BY <1>2 DEF DropStale, Grown, Made
  <2>2. Tokened'
    BY <1>2 DEF DropStale, Tokened
  <2>3. Apart'
    BY <1>2 DEF DropStale, Made, RInv, OnIt, Unsaved, Attended
  <2> QED BY <2>1, <2>2, <2>3
<1>3. CASE RevertToSnapshot
  <2>1. /\ file \in RunState /\ HEAD = file.run /\ HEAD \in Branch /\ pending \in Made /\ ~held
        /\ UNCHANGED <<file, pending, settled, past, own, recorded, held>> /\ pc' = "dropped"
        /\ tip' \in {tip, [tip EXCEPT ![HEAD] = pending]} /\ tip \in [Branch -> Made]
    BY <1>3 DEF RevertToSnapshot, RInv, TypeOK, OnIt, Attended, Rooted
  <2>2. Grown'
    BY <2>1 DEF Grown, Made
  <2>3. Apart'
    BY <2>1 DEF Made
  <2>4. CASE tip' = tip
    BY <2>1, <2>2, <2>3, <2>4, TokenedKept
  <2>5. CASE tip' = [tip EXCEPT ![HEAD] = pending]
    <3>1. Ahead' = {}
      BY <2>1, <2>5 DEF Ahead
    <3> QED BY <2>2, <2>3, <3>1 DEF Tokened
  <2> QED BY <2>1, <2>4, <2>5
<1>4. CASE DropToken
  <2>1. Grown'
    BY <1>4 DEF DropToken, Grown, Made
  <2>2. Tokened'
    BY <1>4 DEF DropToken, Tokened
  <2>3. Apart'
    BY <1>4 DEF DropToken, Made, RInv, OnIt, Unsaved, Attended
  <2> QED BY <2>1, <2>2, <2>3
<1>5. CASE NothingToRecover
  <2>1. Grown'
    BY <1>5 DEF NothingToRecover, Grown, Made
  <2>2. Tokened'
    BY <1>5, TokenedKept DEF NothingToRecover, Made
  <2>3. Apart'
    BY <1>5 DEF NothingToRecover, Made, RInv, OnIt, Unsaved, Attended
  <2> QED BY <2>1, <2>2, <2>3
<1>6. CASE Snapshot
  <2>1. /\ HEAD \in Branch /\ {tip[HEAD]} \in SUBSET Made /\ CommitOn(HEAD, {tip[HEAD]})
        /\ own' = own \cup {Len(past')} /\ new' = Len(past') /\ tip[HEAD] \in Made
        /\ file \in RunState /\ HEAD = file.run /\ file.orig \in Branch /\ tip \in [Branch -> Made]
        /\ UNCHANGED <<file, pending, settled, recorded, held>>
    BY <1>6 DEF Snapshot, RInv, TypeOK, OnIt, Rooted, RunState
  <2>2. /\ Len(past') \notin Made /\ Made' = Made \cup {Len(past')}
        /\ \A c \in Made : past'[c] = past[c]
        /\ past'[Len(past')] = {Len(past')} \cup past[tip[HEAD]]
        /\ tip' = [tip EXCEPT ![HEAD] = Len(past')]
        /\ Grown'
    BY <2>1, CommitGrows DEF RInv
  <2>3. Apart'
    BY <1>6, <2>1, <2>2 DEF Snapshot
  <2>4. Tokened'
    BY <1>6, <2>1 DEF Snapshot, Tokened
  <2> QED BY <2>2, <2>3, <2>4
<1>7. CASE HandOut
  <2>1. Grown'
    BY <1>7 DEF HandOut, Grown, Made
  <2>2. /\ file # None /\ HEAD = file.run /\ pending' = tip[HEAD]
        /\ UNCHANGED <<file, past, tip, own, recorded>>
    BY <1>7 DEF HandOut, RInv, OnIt
  <2>3. Ahead' = {}
    BY <2>2 DEF Ahead
  <2>4. Tokened'
    BY <2>3 DEF Tokened
  <2>5. Apart'
    BY <1>7, <2>2 DEF HandOut, Made
  <2> QED BY <2>1, <2>4, <2>5
<1>8. CASE Exit
  <2>1. Grown'
    BY <1>8 DEF Exit, Grown, Made
  <2>2. Tokened'
    BY <1>8, TokenedKept DEF Exit, Made
  <2>3. Apart'
    BY <1>8 DEF Exit, Made, RInv, OnIt, Unsaved, Attended
  <2> QED BY <2>1, <2>2, <2>3
<1>9. CASE ForgetRun
  <2>1. Grown'
    BY <1>9 DEF ForgetRun, Grown, Made
  <2>2. Tokened'
    BY <1>9 DEF ForgetRun, Tokened
  <2>3. Apart'
    BY <1>9 DEF ForgetRun, Made, RInv, OnIt, Unsaved, Attended
  <2> QED BY <2>1, <2>2, <2>3
<1> QED BY <1>1, <1>2, <1>3, <1>4, <1>5, <1>6, <1>7, <1>8, <1>9 DEF NextCmd

LEMMA CompleteKeeps == HInv /\ Complete => (Grown /\ Apart /\ Tokened)'
<1> SUFFICES ASSUME HInv, Complete PROVE (Grown /\ Apart /\ Tokened)'
  OBVIOUS
<1> USE DEF HInv, Apart, graph, refs, token, memory, Goto, Return
<1>1. CASE CallComplete
  <2>1. Grown'
    BY <1>1 DEF CallComplete, Grown, Made
  <2>2. Tokened'
    BY <1>1, TokenedKept DEF CallComplete, Made
  <2>3. Apart'
    BY <1>1 DEF CallComplete, Made, RInv, OnIt, Unsaved, Attended
  <2> QED BY <2>1, <2>2, <2>3
<1>2. CASE Keep
  <2>1. /\ HEAD \in Branch /\ {tip[HEAD]} \in SUBSET Made /\ CommitOn(HEAD, {tip[HEAD]})
        /\ own' = own \cup {Len(past')} /\ new' = Len(past') /\ tip[HEAD] \in Made
        /\ file \in RunState /\ HEAD = file.run /\ file.orig \in Branch /\ tip \in [Branch -> Made]
        /\ UNCHANGED <<file, pending, settled, recorded, held>>
    BY <1>2 DEF Keep, RInv, TypeOK, OnIt, Rooted, RunState
  <2>2. /\ Len(past') \notin Made /\ Made' = Made \cup {Len(past')}
        /\ \A c \in Made : past'[c] = past[c]
        /\ past'[Len(past')] = {Len(past')} \cup past[tip[HEAD]]
        /\ tip' = [tip EXCEPT ![HEAD] = Len(past')]
        /\ Grown'
    BY <2>1, CommitGrows DEF RInv
  <2>3. Apart'
    BY <1>2, <2>1, <2>2 DEF Keep
  <2>4. held /\ pending \in Made /\ file # None /\ file.base \in Made /\ recorded \subseteq Made
    BY <1>2 DEF Keep, RInv, TypeOK, Attended, Rooted, Grown
  <2>5. Ahead' \subseteq Ahead \cup {Len(past')}
    BY <2>1, <2>2, <2>4 DEF Ahead
  <2>6. Tokened'
    BY <2>1, <2>2, <2>4, <2>5 DEF Tokened
  <2> QED BY <2>2, <2>3, <2>6
<1>3. CASE Revert
  <2>1. /\ file \in RunState /\ HEAD = file.run /\ HEAD \in Branch /\ pending \in Made
        /\ UNCHANGED <<file, pending, settled, past, own, recorded, held>> /\ pc' = "reverted"
        /\ tip' = [tip EXCEPT ![HEAD] = pending] /\ tip \in [Branch -> Made] /\ HEAD' = HEAD
    BY <1>3 DEF Revert, RInv, TypeOK, OnIt, Attended, Rooted
  <2>2. Grown'
    BY <2>1 DEF Grown, Made
  <2>3. Apart'
    BY <2>1 DEF Made
  <2>4. Ahead' = {}
    BY <2>1 DEF Ahead
  <2> QED BY <2>2, <2>3, <2>4 DEF Tokened
<1>4. CASE RecordDone
  <2>1. Grown'
    BY <1>4 DEF RecordDone, Grown, Made
  <2>2. Ahead' = Ahead
    BY <1>4 DEF RecordDone, Ahead
  <2>3. Tokened'
    BY <1>4, <2>2 DEF RecordDone, Tokened
  <2>4. Apart'
    BY <1>4 DEF RecordDone, Made
  <2> QED BY <2>1, <2>3, <2>4
<1>5. CASE RecordOther
  <2>1. Grown'
    BY <1>5 DEF RecordOther, Grown, Made
  <2>2. file # None /\ tip[file.run] = pending /\ UNCHANGED <<past, tip, file, pending>>
    BY <1>5 DEF RecordOther, RInv, OnIt
  <2>3. Ahead' = {}
    BY <2>2 DEF Ahead
  <2>4. Apart'
    BY <1>5 DEF RecordOther, Made
  <2> QED BY <2>1, <2>3, <2>4 DEF Tokened
<1>6. CASE ClearToken
  <2>1. Grown'
    BY <1>6 DEF ClearToken, Grown, Made
  <2>2. Tokened'
    BY <1>6 DEF ClearToken, Tokened
  <2>3. Apart'
    BY <1>6 DEF ClearToken, Made, RInv, OnIt, Unsaved, Attended
  <2> QED BY <2>1, <2>2, <2>3
<1> QED BY <1>1, <1>2, <1>3, <1>4, <1>5, <1>6 DEF Complete

LEMMA OthersKeep == HInv /\ Others => (Grown /\ Apart /\ Tokened)'
<1> SUFFICES ASSUME HInv, Others PROVE (Grown /\ Apart /\ Tokened)'
  OBVIOUS
<1> USE DEF HInv, Apart, graph, refs, token, memory, Goto, Return
<1>1. ASSUME NEW parents \in SUBSET Made, CommitOn(Operator, parents), pc = "idle",
             UNCHANGED <<own, recorded, refs, file, token, halted, held, memory, over, chosen>>
      PROVE  (Grown /\ Apart /\ Tokened)'
  <2>1. Operator \in Branch /\ tip \in [Branch -> Made] /\ (file # None => file.run \in Branch)
    BY DEF RInv, TypeOK, Rooted, RunState
  <2>2. /\ Made' = Made \cup {Len(past')} /\ tip' = [tip EXCEPT ![Operator] = Len(past')]
        /\ \A c \in Made : past'[c] = past[c]
        /\ Grown'
    BY <1>1, <2>1, CommitGrows DEF RInv
  <2>3. Apart'
    BY <1>1, <2>2
  <2>4. Tokened'
    BY <1>1, <2>1, <2>2, TokenedKept
  <2> QED BY <2>2, <2>3, <2>4
<1>2. CASE Kill
  <2>1. Grown'
    BY <1>2 DEF Kill, Grown, Made
  <2>2. Tokened'
    BY <1>2, TokenedKept DEF Kill, Made
  <2>3. Apart'
    BY <1>2 DEF Kill, Made, RInv, OnIt, Unsaved, Attended
  <2> QED BY <2>1, <2>2, <2>3
<1>3. CASE AgentGone
  <2>1. Grown'
    BY <1>3 DEF AgentGone, Grown, Made
  <2>2. Tokened'
    BY <1>3, TokenedKept DEF AgentGone, Made
  <2>3. Apart'
    BY <1>3 DEF AgentGone, Made, RInv, OnIt, Unsaved, Attended
  <2> QED BY <2>1, <2>2, <2>3
<1>4. CASE OperatorSwitches
  <2>1. Grown'
    BY <1>4 DEF OperatorSwitches, Grown, Made
  <2>2. Tokened'
    BY <1>4, TokenedKept DEF OperatorSwitches, Made
  <2>3. Apart'
    BY <1>4 DEF OperatorSwitches, Made, RInv, OnIt, Unsaved, Attended
  <2> QED BY <2>1, <2>2, <2>3
<1>5. CASE OperatorDeletes
  <2>1. Grown'
    BY <1>5 DEF OperatorDeletes, Grown, Made
  <2>2. Tokened'
    BY <1>5, TokenedKept DEF OperatorDeletes, Made
  <2>3. Apart'
    BY <1>5 DEF OperatorDeletes, Made, RInv, OnIt, Unsaved, Attended
  <2> QED BY <2>1, <2>2, <2>3
<1>6. CASE OperatorForgetsRun
  <2>1. Grown'
    BY <1>6 DEF OperatorForgetsRun, Grown, Made
  <2>2. Tokened'
    BY <1>6 DEF OperatorForgetsRun, Tokened
  <2>3. Apart'
    BY <1>6 DEF OperatorForgetsRun, Made, RInv, OnIt, Unsaved, Attended
  <2> QED BY <2>1, <2>2, <2>3
<1>7. CASE OperatorCommits
  <2>1. {tip[Operator]} \in SUBSET Made
    BY DEF RInv, TypeOK, Rooted
  <2> QED BY <1>1, <1>7, <2>1 DEF OperatorCommits
<1>8. CASE OperatorMerges
  <2>1. PICK b \in alive : CommitOn(Operator, {tip[Operator], tip[b]})
    BY <1>8 DEF OperatorMerges
  <2>2. {tip[Operator], tip[b]} \in SUBSET Made
    BY DEF RInv, TypeOK, Rooted
  <2> QED BY <1>1, <1>8, <2>1, <2>2 DEF OperatorMerges
<1>9. CASE OperatorRewrites
  <2>1. PICK c \in past[tip[Operator]] : CommitOn(Operator, past[c] \ {tip[Operator]})
    BY <1>9 DEF OperatorRewrites
  <2>2. tip[Operator] \in Made /\ c \in Made
    BY <2>1 DEF RInv, TypeOK, Rooted
  <2>3. past[c] \ {tip[Operator]} \in SUBSET Made
    BY <2>2 DEF RInv, Rooted
  <2> QED BY <1>1, <1>9, <2>1, <2>3 DEF OperatorRewrites
<1> QED BY <1>2, <1>3, <1>4, <1>5, <1>6, <1>7, <1>8, <1>9 DEF Others

LEMMA HStep == HInv /\ [Next]_vars => HInv'
<1>1. HInv /\ UNCHANGED vars => (Grown /\ Apart /\ Tokened)'
  BY DEF HInv, Grown, Apart, Tokened, Ahead, Made, vars, graph, refs, token, memory
<1>2. HInv /\ [Next]_vars => RInv'
  BY RStep DEF HInv
<1> QED BY <1>1, <1>2, EnterKeeps, NextCmdKeeps, CompleteKeeps, OthersKeep DEF Next, Command, HInv

(* The steps of the harness that move a branch: it makes one where it is, it commits on the one
   it is on, or it takes that one back to the snapshot of its token. *)
Commits  == CommitOn(HEAD, {tip[HEAD]}) /\ UNCHANGED alive
TakesBack ==
  /\ tip' = [tip EXCEPT ![HEAD] = pending] /\ UNCHANGED <<past, alive>> /\ pending # None /\ ~settled
  /\ held \/ (pc = "recover" /\ pending \in past[tip[HEAD]])

LEMMA Movers ==
  ASSUME HInv, Command
  PROVE  /\ Create \/ UNCHANGED <<past, tip, alive>>
              \/ /\ Commits \/ TakesBack
                 /\ file # None /\ HEAD = file.run /\ file' = file
         /\ file # None /\ file' # None => file' = file
<1> USE DEF graph, refs, token, memory, Goto, Return
<1>1. CASE RevertToSnapshot
  BY <1>1 DEF RevertToSnapshot, OwnLineage, Settled, TakesBack, HInv, RInv, OnIt
<1>2. CASE Revert
  BY <1>2 DEF Revert, TakesBack, HInv, RInv, OnIt, Attended, Apart
<1>3. CASE Snapshot \/ Keep
  BY <1>3 DEF Snapshot, Keep, Commits, HInv, RInv, OnIt
<1>4. CASE Save
  BY <1>4 DEF Save, HInv, RInv, Unsaved
<1>5. CASE Create \/ ForgetRun
  BY <1>5 DEF Create, ForgetRun
<1>6. UNCHANGED <<past, tip, alive, file>> \/ Create \/ RevertToSnapshot \/ Revert \/ Snapshot \/ Keep
        \/ Save \/ ForgetRun
  BY DEF Command, Enter, NextCmd, Complete, Resume, HaltUnsafe, CallNext, DropStale, DropToken,
         NothingToRecover, HandOut, Exit, CallComplete, RecordDone, RecordOther, ClearToken
<1> QED BY <1>1, <1>2, <1>3, <1>4, <1>5, <1>6

(* A commit of the harness grows the branch it is on and nothing else. *)
LEMMA CommitFacts ==
  ASSUME Rooted, Grown, HEAD \in Branch, tip[HEAD] \in Made, CommitOn(HEAD, {tip[HEAD]})
  PROVE  /\ \A d \in Made : past'[d] = past[d]
         /\ past'[Len(past')] = {Len(past')} \cup past[tip[HEAD]]
         /\ tip' = [tip EXCEPT ![HEAD] = Len(past')]
BY DEF Rooted, Made, CommitOn

(* driver.py:836-857, orchestrator.py:413-415: nothing the harness does takes a commit of the operator, or of a
   recorded ticket, out of reach, wherever it was killed and whatever the operator has done to
   the history. *)
THEOREM NothingLost == Spec => HistoryKept
<1>1. HInv /\ [Next]_vars
        => [Command => Reachable \ UNION {past'[tip'[b]] : b \in alive'} \subseteq own \ recorded]_vars
  <2> SUFFICES ASSUME HInv, Command, NEW b \in alive, NEW c \in past[tip[b]],
                      \A d \in alive' : c \notin past'[tip'[d]]
               PROVE  c \in own \ recorded
    BY DEF Reachable
  <2>1. alive \subseteq Branch /\ HEAD \in alive /\ tip \in [Branch -> Made] /\ Rooted /\ Grown
    BY DEF HInv, RInv, TypeOK, Rooted
  <2>2. CASE UNCHANGED <<past, tip, alive>>
    BY <2>2
  <2>3. CASE Create
    BY <2>1, <2>3 DEF Create
  <2>4. CASE Commits
    <3>1. /\ \A d \in Made : past'[d] = past[d]
          /\ past'[Len(past')] = {Len(past')} \cup past[tip[HEAD]]
          /\ tip' = [tip EXCEPT ![HEAD] = Len(past')]
      BY <2>1, <2>4, CommitFacts DEF Commits
    <3>2. c \in past'[tip'[b]]
      BY <2>1, <3>1
    <3> QED BY <2>4, <3>2 DEF Commits
  <2>5. CASE TakesBack /\ file # None /\ HEAD = file.run /\ file' = file
    <3>1. b = HEAD
      BY <2>1, <2>5 DEF TakesBack
    <3>2. c \in past[tip[file.run]] /\ c \notin past[pending]
      BY <2>1, <2>5, <3>1 DEF TakesBack
    <3>3. CASE Ahead \cap recorded = {} /\ Ahead \subseteq own
      BY <3>2, <3>3 DEF Ahead
    <3>4. CASE tip[file.run] = file.base /\ ~held
      <4>1. /\ pc = "recover" /\ file.orig \in alive /\ file.orig # HEAD
            /\ file.base \in past[tip[file.orig]]
        BY <2>5, <3>4 DEF TakesBack, HInv, RInv, OnIt, Apart
      <4>2. tip[file.orig] \in Made /\ past[file.base] \subseteq past[tip[file.orig]]
        BY <2>1, <4>1 DEF Grown
      <4>3. past'[tip'[file.orig]] = past[tip[file.orig]] /\ file.orig \in alive'
        BY <2>1, <2>5, <4>1 DEF TakesBack
      <4> QED BY <3>2, <3>4, <4>2, <4>3
    <3> QED BY <2>5, <3>3, <3>4 DEF TakesBack, HInv, Tokened
  <2> QED BY <2>2, <2>3, <2>4, <2>5, Movers
<1> QED BY <1>1, HInit, HStep, PTL DEF Spec, HistoryKept

(* driver.py:342-364: a run stays safe to resume whatever its commands do, unless it is taken
   back to the snapshot of an earlier run that was merged beneath its base. *)
THEOREM RunsResume == Spec => StaysResumable
<1>1. HInv /\ [Next]_vars
        => [Command /\ file' # None /\ file # None /\ Safe =>
              Safe' \/ (pending \in past[file.base] \ {file.base} /\ file' = file)]_vars
  <2> SUFFICES ASSUME HInv, Command, file' # None, file # None, Safe
               PROVE  Safe' \/ (pending \in past[file.base] \ {file.base} /\ file' = file)
    OBVIOUS
  <2>1. /\ alive \subseteq Branch /\ HEAD \in alive /\ tip \in [Branch -> Made] /\ Rooted /\ Grown
        /\ file' = file /\ file.orig # file.run /\ file.base \in Made
    BY Movers DEF HInv, RInv, TypeOK, Rooted, Apart
  <2>2. CASE UNCHANGED <<past, tip, alive>>
    BY <2>1, <2>2 DEF Safe
  <2>3. CASE Create
    BY <2>3 DEF Create
  <2>4. CASE Commits /\ HEAD = file.run
    <3>1. /\ \A d \in Made : past'[d] = past[d]
          /\ past'[Len(past')] = {Len(past')} \cup past[tip[HEAD]]
          /\ tip' = [tip EXCEPT ![HEAD] = Len(past')]
      BY <2>1, <2>4, CommitFacts DEF Commits
    <3> QED BY <2>1, <2>4, <3>1 DEF Safe, Commits
  <2>5. CASE TakesBack /\ HEAD = file.run
    <3>1. file.base \in past[tip[file.run]] /\ file.base \in past[tip[file.orig]]
          /\ {file.run, file.orig} \subseteq alive
      BY DEF Safe
    <3>2. CASE file.base \in past[pending]
      BY <2>1, <2>5, <3>1, <3>2 DEF Safe, TakesBack
    <3>3. CASE file.base \notin past[pending]
      <4>1. file.base \in Ahead
        BY <3>1, <3>3 DEF Ahead
      <4>2. tip[file.run] = file.base /\ ~held
        BY <2>5, <4>1 DEF HInv, Tokened, TakesBack
      <4>3. pending \in past[file.base] /\ file.base \in past[file.base]
        BY <2>1, <2>5, <4>2 DEF TakesBack, Grown
      <4> QED BY <2>1, <3>3, <4>3
    <3> QED BY <3>2, <3>3
  <2> QED BY <2>2, <2>3, <2>4, <2>5, Movers
<1> QED BY <1>1, HInit, HStep, PTL DEF Spec, StaysResumable
=============================================================================
