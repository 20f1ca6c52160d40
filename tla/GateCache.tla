----------------------------- MODULE GateCache -----------------------------
(***************************************************************************)
(* The gate-baseline cache (gate_cache.py): a green complete leaves a      *)
(* receipt, keyed by what the gate saw, and begin_proceed takes a receipt  *)
(* that matches for the baseline instead of running the gate.              *)
(***************************************************************************)
EXTENDS GateLoop

CONSTANT None     \* no key, no receipt
VARIABLE cache    \* the receipt: [key, command], or None

vars == <<loopVars, cache>>

ASSUME CacheAssumption == None \notin Code \X Ignored

(* tree_id: the tree of HEAD, and only when nothing is uncommitted, with the digest of
   the ignored files that are loaded when the gate runs. *)
KeyOfHead   == <<head, ignored>>    \* Mutant: git status is not asked.
KeyOfTree   == IF code = head THEN <<head, CHOOSE i \in Ignored : TRUE>> ELSE None
                                    \* Mutant: the tree id alone.
Key == IF code = head THEN <<head, ignored>> ELSE None

Receipt == [key : Code \X Ignored, command : Command]
TypeOK  == LoopTypeOK /\ cache \in Receipt \cup {None}

Hit == cache # None /\ Key # None /\ cache = [key |-> Key, command |-> command]

Init == LoopInit /\ cache = None

Reuse == Hit /\ HandedOut(TRUE) /\ UNCHANGED cache

(* A miss, or a git probe that failed. *)
RunBaseline == Baseline /\ UNCHANGED cache

(* The receipt is written after the commit and before the outcome; a probe or a write
   that fails leaves the old one. *)
Record ==
  /\ pc = "settle" /\ Key # None
  /\ cache' = [key |-> Key, command |-> command]
  /\ UNCHANGED loopVars

Lose == cache' = None /\ UNCHANGED loopVars   \* unreadable, unparsable or not there

Other == Begin \/ Edit \/ Pass \/ Verdict \/ Commit \/ Settle \/ Kill \/ AgentDies \/ Outside
Next  == Reuse \/ RunBaseline \/ Record \/ Lose \/ (Other /\ UNCHANGED cache)
Spec  == Init /\ [][Next]_vars

(* Whatever is edited, refused, killed or lost, the loop behaves as if the gate were run
   every time. *)
AsIfUncached == LoopSpec
=============================================================================
