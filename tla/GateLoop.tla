------------------------------ MODULE GateLoop ------------------------------
(***************************************************************************)
(* What a gate's verdict on a change is measured against (orchestrator.py, *)
(* gates.py): the tree before the change is snapshotted and gated, the     *)
(* agent edits, the result is gated again, and a red result is the         *)
(* change's fault only if the tree was green before it.  Here the gate is  *)
(* run every time; GateCache reuses an earlier verdict instead.            *)
(*                                                                         *)
(* A gate sees the files git tracks (code), the ignored files that are     *)
(* loaded when it runs (ignored: .env, conftest.py, ...), and is a command *)
(* of the config.                                                          *)
(***************************************************************************)
CONSTANTS
  Code, Ignored, Command,   \* the contents and commands there are
  Green,       \* what the gate passes, as <<code, ignored, command>>
  Refuses,     \* may a commit hook refuse?  (commit_all does not look)
  SlowBaseline,   \* may the gate time out before the change?
  OutsideAt,   \* the steps at which others write the tree
  ConfigAt     \* the steps at which the config is edited

ASSUME GateAssumption ==
  Green \subseteq Code \X Ignored \X Command /\ {Refuses, SlowBaseline} \subseteq BOOLEAN

VARIABLES
  code, ignored, command,   \* the files as they are, and the config
  head,        \* the code last committed
  pc,          \* idle and edit: between commands; the others within one
  snapshot, base,   \* the token: what to go back to, and was it green?
  pending,     \* is there a token on disk?
  verdict,     \* what the last ticket's gate was taken for
  before       \* history: what the token's base speaks of

files    == <<code, ignored, command>>
token    == <<snapshot, base, pending, before>>
loopVars == <<files, head, pc, token, verdict>>

Verdicts == {"none", "pass", "introduced", "preexisting", "env"}
Steps    == {"idle", "baseline", "edit", "commit", "settle"}

LoopTypeOK ==
  /\ code \in Code /\ ignored \in Ignored /\ command \in Command
  /\ {head, snapshot} \subseteq Code /\ {base, pending} \subseteq BOOLEAN
  /\ pc \in Steps /\ verdict \in Verdicts /\ before \in Code \X Ignored \X Command

LoopInit ==
  /\ code \in Code /\ ignored \in Ignored /\ command \in Command
  /\ head \in Code /\ snapshot = head /\ pc = "idle"
  /\ base = FALSE /\ pending = FALSE /\ verdict = "none" /\ before = files

(* commit_all: whatever git answers, the loop goes on. *)
Committed(tree, old) == {tree} \cup (IF Refuses THEN {old} ELSE {})

(* Crash recovery goes back to a token's snapshot; then the pre: commit. *)
Begin ==
  /\ pc = "idle" /\ pc' = "baseline" /\ verdict' = "none"
  /\ LET tree == IF pending THEN snapshot ELSE code
         old  == IF pending THEN snapshot ELSE head
     IN code' = tree /\ head' \in Committed(tree, old)
  /\ snapshot' = head' /\ pending' = FALSE
  /\ UNCHANGED <<ignored, command, base, before>>

HandedOut(green) ==
  /\ pc = "baseline" /\ pc' = "edit"
  /\ base' = green /\ pending' = TRUE /\ before' = files
  /\ UNCHANGED <<files, head, snapshot, verdict>>

(* A gate that times out counts as red. *)
Baseline ==
  \E green \in BOOLEAN :
    /\ green => files \in Green
    /\ files \in Green => green \/ SlowBaseline
    /\ HandedOut(green)

Edit ==
  /\ pc = "edit"
  /\ code' \in Code /\ ignored' \in Ignored
  /\ UNCHANGED <<command, head, pc, token, verdict>>

Settled(v) ==
  /\ pc = "edit" /\ pc' = "idle" /\ verdict' = v /\ pending' = FALSE
  /\ UNCHANGED <<ignored, command, snapshot, base, before>>

(* revert_to: ignored files stay as the agent left them. *)
Reverted == code' = snapshot /\ head' = snapshot

Pass ==
  /\ pc = "edit" /\ files \in Green /\ pc' = "commit"
  /\ UNCHANGED <<files, head, token, verdict>>

Introduced == files \notin Green /\ base /\ Reverted /\ Settled("introduced")

Preexisting ==
  /\ files \notin Green /\ ~base /\ Settled("preexisting")
  /\ head' \in Committed(code, head) /\ UNCHANGED code

(* The gate times out, or the agent gives up. *)
NoVerdict == Reverted /\ Settled("env")

Commit ==
  /\ pc = "commit" /\ pc' = "settle"
  /\ head' \in Committed(code, head)
  /\ UNCHANGED <<files, token, verdict>>

(* The outcome is written, and the token goes. *)
Settle ==
  /\ pc = "settle" /\ pc' = "idle" /\ verdict' = "pass" /\ pending' = FALSE
  /\ UNCHANGED <<files, head, snapshot, base, before>>

Kill ==
  /\ pc \notin {"idle", "edit"} /\ pc' = "idle"
  /\ UNCHANGED <<files, head, token, verdict>>

(* An agent that dies: the next command finds the token. *)
AgentDies ==
  /\ pc = "edit" /\ pc' = "idle"
  /\ UNCHANGED <<files, head, token, verdict>>

Outside ==
  \/ /\ pc \in OutsideAt /\ code' \in Code /\ ignored' \in Ignored
     /\ UNCHANGED <<command, head, pc, token, verdict>>
  \/ /\ pc \in ConfigAt /\ command' \in Command
     /\ UNCHANGED <<code, ignored, head, pc, token, verdict>>

Verdict  == Introduced \/ Preexisting \/ NoVerdict
LoopNext == \/ Begin \/ Baseline \/ Edit \/ Pass \/ Verdict \/ Commit \/ Settle
            \/ Kill \/ AgentDies \/ Outside
LoopSpec == LoopInit /\ [][LoopNext]_loopVars

(* A red gate is the change's fault only if the tree before it was green, and no fault of
   the change only if it was not, under the command that judged: what gate_cache.py calls
   the FAIL_INTRODUCED_BY_DIFF / FAIL_PREEXISTING taxonomy. *)
TaxonomyIsTrue ==
  [][/\ Introduced  => <<before[1], before[2], command>> \in Green
     /\ Preexisting => <<before[1], before[2], command>> \notin Green]_loopVars
=============================================================================
