-------------------------- MODULE GateCacheProofs --------------------------
(***************************************************************************)
(* A reused verdict is the verdict of the gate, for every gate, whatever   *)
(* is edited, refused, killed or lost, as long as nobody writes between    *)
(* the gate and the receipt.                                               *)
(***************************************************************************)
EXTENDS GateCache, TLAPS

Quiet == (OutsideAt \cup ConfigAt) \cap {"commit", "settle"} = {}

(* The change that is being committed is the one that has passed ... *)
Passed == pc \in {"commit", "settle"} => files \in Green
(* ... and so has what the receipt speaks of. *)
ReceiptTrue == cache # None => <<cache.key[1], cache.key[2], cache.command>> \in Green

CInv == TypeOK /\ Passed /\ ReceiptTrue

LEMMA KeyTyped == ASSUME TypeOK, Key # None PROVE Key \in Code \X Ignored /\ Key = <<code, ignored>>
BY DEF Key, TypeOK, LoopTypeOK

LEMMA CInit == Init => CInv
<1> SUFFICES ASSUME Init PROVE CInv
  OBVIOUS
<1>1. before \in Code \X Ignored \X Command
  BY DEF Init, LoopInit, files
<1>2. TypeOK
  BY <1>1 DEF Init, LoopInit, TypeOK, LoopTypeOK, Steps, Verdicts
<1>3. Passed /\ ReceiptTrue
  BY DEF Init, LoopInit, Passed, ReceiptTrue
<1> QED BY <1>2, <1>3 DEF CInv

(* One step keeps the types, case by case. *)
LEMMA TypingStep == ASSUME TypeOK, [Next]_vars PROVE TypeOK'
<1> USE DEF TypeOK, LoopTypeOK, files, token, loopVars, Steps, Verdicts
<1>1. CASE Reuse
  BY <1>1 DEF Reuse, HandedOut
<1>2. CASE RunBaseline
  BY <1>2 DEF RunBaseline, Baseline, HandedOut
<1>3. CASE Record
  BY <1>3, KeyTyped DEF Record, Receipt
<1>4. CASE Lose
  BY <1>4 DEF Lose
<1>5. CASE Begin /\ UNCHANGED cache
  BY <1>5 DEF Begin, Committed
<1>6. CASE (Edit \/ Pass \/ Settle \/ Kill \/ AgentDies) /\ UNCHANGED cache
  BY <1>6 DEF Edit, Pass, Settle, Kill, AgentDies
<1>7. CASE Verdict /\ UNCHANGED cache
  BY <1>7 DEF Verdict, Introduced, Preexisting, NoVerdict, Settled, Reverted, Committed
<1>8. CASE (Commit \/ Outside) /\ UNCHANGED cache
  BY <1>8 DEF Commit, Outside, Committed
<1>9. CASE UNCHANGED vars
  BY <1>9 DEF vars
<1> QED BY <1>1, <1>2, <1>3, <1>4, <1>5, <1>6, <1>7, <1>8, <1>9 DEF Next, Other

LEMMA CStep == ASSUME Quiet, CInv, [Next]_vars PROVE CInv'
<1>1. TypeOK'
  BY TypingStep DEF CInv
<1>2. Passed'
  <2> USE DEF CInv, Passed, files, token, loopVars
  <2>1. CASE Pass \/ Commit \/ Settle
    BY <2>1 DEF Pass, Commit, Settle
  <2>2. CASE Outside
    BY <2>2 DEF Outside, Quiet
  <2>3. CASE Reuse \/ RunBaseline
    BY <2>3 DEF Reuse, RunBaseline, Baseline, HandedOut
  <2>4. CASE Begin \/ Edit \/ Kill \/ AgentDies
    BY <2>4 DEF Begin, Edit, Kill, AgentDies
  <2>5. CASE Verdict
    BY <2>5 DEF Verdict, Introduced, Preexisting, NoVerdict, Settled
  <2>6. CASE Record \/ Lose \/ UNCHANGED vars
    BY <2>6 DEF Record, Lose, vars
  <2> QED BY <2>1, <2>2, <2>3, <2>4, <2>5, <2>6 DEF Next, Other
<1>3. ReceiptTrue'
  <2>1. CASE Record
    BY <2>1, KeyTyped DEF Record, CInv, Passed, ReceiptTrue, files
  <2>2. CASE Lose
    BY <2>2 DEF Lose, ReceiptTrue
  <2>3. CASE UNCHANGED cache
    BY <2>3 DEF CInv, ReceiptTrue
  <2> QED BY <2>1, <2>2, <2>3 DEF Next, Reuse, RunBaseline, vars
<1> QED BY <1>1, <1>2, <1>3 DEF CInv

(* A hit says what the gate would say. *)
LEMMA HitIsGreen == ASSUME CInv, Hit PROVE files \in Green
BY KeyTyped DEF Hit, CInv, ReceiptTrue, files

(* Every state of the cached loop is well typed, and every receipt is of a tree and a
   command that the gate has passed. *)
THEOREM ReceiptsAreTrue == ASSUME Quiet PROVE Spec => []CInv
BY CInit, CStep, PTL DEF Spec

(* The cached loop implements the one that runs the gate every time: reuse can be told
   from a run of the gate by nothing but its time. *)
THEOREM CacheIsTransparent == ASSUME Quiet PROVE Spec => AsIfUncached
<1>1. Init => LoopInit
  BY DEF Init
<1>2. CInv /\ [Next]_vars => [LoopNext]_loopVars
  <2> SUFFICES ASSUME CInv, [Next]_vars PROVE [LoopNext]_loopVars
    OBVIOUS
  <2>1. CASE Reuse
    <3>1. files \in Green
      BY <2>1, HitIsGreen DEF Reuse
    <3>2. Baseline
      BY <2>1, <3>1 DEF Reuse, Baseline
    <3> QED BY <3>2 DEF LoopNext
  <2>2. CASE RunBaseline
    BY <2>2 DEF RunBaseline, LoopNext
  <2>3. CASE Record \/ Lose \/ UNCHANGED vars
    BY <2>3 DEF Record, Lose, vars
  <2>4. CASE Other
    BY <2>4 DEF Other, LoopNext
  <2> QED BY <2>1, <2>2, <2>3, <2>4 DEF Next
<1> QED BY <1>1, <1>2, ReceiptsAreTrue, PTL DEF Spec, LoopSpec, AsIfUncached

-----------------------------------------------------------------------------
(* Between commands the config stays, and a baseline does not time out: the token then
   says what the gate says of the tree it was made for. *)
Steady == ConfigAt \cap {"edit"} = {} /\ SlowBaseline = FALSE
TokenTrue ==
  pc = "edit" => before[3] = command /\ (base <=> <<before[1], before[2], command>> \in Green)

LEMMA TokenStep ==
  ASSUME Steady, LoopTypeOK, TokenTrue, [LoopNext]_loopVars PROVE TokenTrue'
<1> USE DEF TokenTrue, files, token, loopVars
<1>1. CASE Baseline
  BY <1>1 DEF Baseline, HandedOut, Steady, LoopTypeOK
<1>2. CASE Begin \/ Edit \/ Pass \/ Commit \/ Settle \/ Kill \/ AgentDies
  BY <1>2 DEF Begin, Edit, Pass, Commit, Settle, Kill, AgentDies
<1>3. CASE Verdict
  BY <1>3 DEF Verdict, Introduced, Preexisting, NoVerdict, Settled
<1>4. CASE Outside
  BY <1>4 DEF Outside, Steady
<1> QED BY <1>1, <1>2, <1>3, <1>4 DEF LoopNext

LEMMA JudgedFairly ==
  ASSUME TokenTrue
  PROVE  /\ Introduced  => <<before[1], before[2], command>> \in Green
         /\ Preexisting => <<before[1], before[2], command>> \notin Green
BY DEF TokenTrue, Introduced, Preexisting, Settled

(* The blame for a red gate is laid where it belongs, with the cache as without. *)
THEOREM TaxonomyHolds == ASSUME Quiet, Steady PROVE Spec => TaxonomyIsTrue
<1>1. Init => TokenTrue
  BY DEF Init, LoopInit, TokenTrue
<1>2. CInv /\ TokenTrue /\ [LoopNext]_loopVars => TokenTrue'
  BY TokenStep DEF CInv, TypeOK
<1>3. TokenTrue => [ /\ Introduced  => <<before[1], before[2], command>> \in Green
                     /\ Preexisting => <<before[1], before[2], command>> \notin Green]_loopVars
  BY JudgedFairly
<1> QED BY <1>1, <1>2, <1>3, ReceiptsAreTrue, CacheIsTransparent, PTL
        DEF Spec, AsIfUncached, LoopSpec, TaxonomyIsTrue
=============================================================================
