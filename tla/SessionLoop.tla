---------------------------- MODULE SessionLoop ----------------------------
(***************************************************************************)
(* Fresh sessions (launcher.py), the Stop hook (stop_guard.sh, enforce.py) *)
(* and the three files through which they and the driver keep an agent at  *)
(* work: the sentinel, the session-budget marker and the block counter.    *)
(*                                                                         *)
(* The driver is seen from outside: what next and complete do to the       *)
(* files.  StepDriver models the rest of it.                               *)
(***************************************************************************)
EXTENDS Naturals

CONSTANTS
  Backlog,      \* tickets a run can hand out
  Budget,       \* fresh_session_every
  BlockCap,     \* _STOP_LOOP_CAP
  SpawnCap,     \* SESSION_RESPAWN_CAP
  Platform,     \* "claude": stop_guard.sh; "other": enforce.py, no loop field in its payload
  LeavesEarly,  \* may an agent end or die before its first next?
  MayDie,       \* may an agent die, or one of its commands?
  MayHang,      \* may an agent hang?
  Rewrites,     \* may the operator's branch be rewritten under the run?
  MaxNights     \* bound: launches

ASSUME SessionAssumption ==
  /\ {Backlog, Budget, BlockCap, SpawnCap, MaxNights} \subseteq Nat \ {0}
  /\ Platform \subseteq {"claude", "other"}
  /\ {LeavesEarly, MayDie, MayHang, Rewrites} \subseteq BOOLEAN

VARIABLES
  ready,       \* tickets not settled in this run
  sentinel,    \* run-incomplete
  halted,      \* resume-halt
  unsafe,      \* has the operator's branch been rewritten since the run began?
  count,       \* session-ticket-count
  mark,        \* session-budget-reached
  blocks,      \* stop-block-count
  active,      \* stop_hook_active: has this session been blocked?
  agent,       \* what the agent is doing
  sessions,    \* sessions of this night
  night, verdict,   \* launches, and what the launcher returned
  platform,    \* whose agent this night's launcher spawns
  served,      \* history: tickets that complete has recorded in this session
  ended,       \* history: has the run of this night had its terminal signal?
  refused,     \* history: blocks of this night since a ticket was last settled
  carried      \* history: block counter found by this night, until a ticket is settled

driver == <<ready, sentinel, halted, unsafe, count, mark>>
hook   == <<blocks, active>>
loop   == <<sessions, night, verdict, platform>>
ghost  == <<served, ended, refused, carried>>
vars   == <<driver, hook, agent, loop, ghost>>

TypeOK ==
  /\ ready \in 0 .. Backlog /\ count \in Nat /\ served \in Nat /\ blocks \in 0 .. BlockCap
  /\ {sentinel, halted, unsafe, mark, active, ended} \subseteq BOOLEAN
  /\ agent \in {"gone", "booting", "idle", "holding", "recorded", "counted", "spent", "told", "hung"}
  /\ sessions \in 0 .. SpawnCap /\ night \in 0 .. MaxNights
  /\ verdict \in {"none", "running", "done", "nogo"}
  /\ platform \in Platform /\ refused \in Nat /\ carried \in 0 .. BlockCap

Init ==
  /\ ready = Backlog /\ sentinel = FALSE /\ halted = FALSE /\ unsafe = FALSE
  /\ count = 0 /\ mark = FALSE /\ blocks = 0 /\ active = FALSE
  /\ agent = "gone" /\ sessions = 0 /\ night = 0 /\ verdict = "none"
  /\ platform \in Platform /\ served = 0 /\ ended = FALSE /\ refused = 0 /\ carried = 0

-----------------------------------------------------------------------------
(* the launcher *)

(* Between nights the operator may have cleaned up an unsafe run branch. *)
Launch ==
  /\ verdict # "running" /\ night < MaxNights
  /\ night' = night + 1 /\ verdict' = "running" /\ sessions' = 0
  /\ platform' \in Platform
  /\ ready' = Backlog /\ ended' = FALSE /\ refused' = 0 /\ carried' = blocks
  /\ unsafe' \in {unsafe, FALSE}
  /\ UNCHANGED <<sentinel, halted, count, mark, hook, agent, served>>

Spawn ==
  /\ count' = 0 /\ mark' = FALSE
  /\ sessions' = sessions + 1 /\ agent' = "booting" /\ active' = FALSE /\ served' = 0
  /\ UNCHANGED <<ready, sentinel, halted, unsafe, blocks, night, verdict, platform, ended, refused, carried>>

FirstSpawn == verdict = "running" /\ sessions = 0 /\ Spawn

Return(v) ==
  /\ verdict' = v
  /\ UNCHANGED <<driver, hook, agent, sessions, night, platform, ghost>>

AgentExited == verdict = "running" /\ sessions > 0 /\ agent = "gone"

StopForOperator == AgentExited /\ halted /\ Return("nogo")

Finish == AgentExited /\ ~halted /\ ~sentinel /\ Return("done")

(* Mutant: nothing is done at the cap. *)
RespawnOnly == AgentExited /\ ~halted /\ sentinel /\ sessions < SpawnCap /\ Spawn
Respawn ==
  /\ AgentExited /\ ~halted /\ sentinel
  /\ IF sessions < SpawnCap THEN Spawn ELSE Return("nogo")

-----------------------------------------------------------------------------
(* the agent's commands *)

(* One that is told to stop may ask all the same. *)
Asking == agent \in {"booting", "idle", "spent"}
NoLongerHalted == halted' = FALSE

(* next settles some tickets itself; whatever settles a ticket forgets the blocks.
   Mutant: the blocks are kept. *)
KeepBlocks == UNCHANGED blocks
ForgetBlocks == blocks' = 0
Settle(left) ==
  /\ ready' = left
  /\ IF left < ready THEN ForgetBlocks /\ refused' = 0 /\ carried' = 0
                     ELSE UNCHANGED <<blocks, refused, carried>>

(* Mutant: the sentinel comes with the first result. *)
HandOutUnguarded ==
  /\ Asking /\ ~unsafe /\ ready > 0
  /\ agent' = "holding" /\ NoLongerHalted
  /\ UNCHANGED <<ready, sentinel, unsafe, count, mark, hook, loop, ghost>>
HandOut ==
  /\ Asking /\ ~unsafe
  /\ \E left \in 1 .. ready : Settle(left)
  /\ sentinel' = TRUE /\ agent' = "holding" /\ NoLongerHalted
  /\ UNCHANGED <<unsafe, count, mark, active, loop, served, ended>>

(* Drained, or one of the other ends of a run.  Mutant: the sentinel stays. *)
TerminalLeft ==
  /\ Asking /\ ~unsafe
  /\ ended' = TRUE /\ agent' = "told" /\ NoLongerHalted
  /\ UNCHANGED <<ready, sentinel, unsafe, count, mark, hook, loop, served, refused, carried>>
Terminal ==
  /\ Asking /\ ~unsafe
  /\ \E left \in 0 .. ready : Settle(left)
  /\ sentinel' = FALSE /\ ended' = TRUE /\ agent' = "told" /\ NoLongerHalted
  /\ UNCHANGED <<unsafe, count, mark, active, loop, served>>

HaltUnsafe ==
  /\ (Asking \/ agent = "holding") /\ unsafe
  /\ halted' = TRUE /\ agent' = "told"
  /\ UNCHANGED <<ready, sentinel, unsafe, count, mark, hook, loop, ghost>>

(* complete records the outcome of the ticket, ... *)
Record ==
  /\ agent = "holding" /\ ~unsafe
  /\ Settle(ready - 1) /\ served' = served + 1
  /\ agent' = "recorded" /\ NoLongerHalted
  /\ UNCHANGED <<sentinel, unsafe, count, mark, active, loop, ended>>

(* ... counts it, ...  Mutant: the agent is told to stop before there is a marker. *)
TellFirst ==
  /\ agent = "recorded"
  /\ count' = count + 1
  /\ agent' = IF count' >= Budget THEN "spent" ELSE "idle"
  /\ UNCHANGED <<ready, sentinel, halted, unsafe, mark, hook, loop, ghost>>
Count ==
  /\ agent = "recorded"
  /\ count' = count + 1
  /\ agent' = IF count' >= Budget THEN "counted" ELSE "idle"
  /\ UNCHANGED <<ready, sentinel, halted, unsafe, mark, hook, loop, ghost>>

(* ... and, when that spends the budget, leaves the marker and tells the agent to stop. *)
MarkSpent ==
  /\ agent = "counted"
  /\ mark' = TRUE /\ agent' = "spent"
  /\ UNCHANGED <<ready, sentinel, halted, unsafe, count, hook, loop, ghost>>

Complete == Record \/ Count \/ MarkSpent

-----------------------------------------------------------------------------
(* the Stop hook *)

LetsThrough ==
  CASE platform = "claude" -> active \/ mark \/ ~sentinel
    [] platform = "other"  -> blocks >= BlockCap \/ ~sentinel

(* Every agent that is told to go on by the sentinel asks for a ticket before it leaves. *)
Wanting == agent \in {"booting", "idle", "holding", "spent", "told"}
Leaving == Wanting /\ (agent = "booting" => LeavesEarly \/ sentinel)

StopAllowed ==
  /\ Leaving /\ LetsThrough
  /\ agent' = "gone"
  /\ blocks' = IF platform = "other" /\ blocks < BlockCap THEN 0 ELSE blocks
  /\ UNCHANGED <<driver, active, loop, ghost>>

StopBlocked ==
  /\ Wanting /\ ~LetsThrough
  /\ active' = TRUE /\ refused' = refused + 1
  /\ blocks' = IF platform = "other" THEN blocks + 1 ELSE blocks
  /\ UNCHANGED <<driver, agent, loop, served, ended, carried>>

-----------------------------------------------------------------------------
(* what else may happen *)

Die ==
  /\ MayDie /\ Leaving
  /\ agent' = "gone"
  /\ UNCHANGED <<driver, hook, loop, ghost>>

(* A complete is killed half-way, alone or with its agent. *)
KillComplete ==
  /\ MayDie /\ agent \in {"recorded", "counted"}
  /\ agent' \in {"idle", "gone"}
  /\ UNCHANGED <<driver, hook, loop, ghost>>

Hang ==
  /\ MayHang /\ Wanting
  /\ agent' = "hung"
  /\ UNCHANGED <<driver, hook, loop, ghost>>

RewriteBranch ==
  /\ Rewrites /\ sentinel /\ ~unsafe
  /\ unsafe' = TRUE
  /\ UNCHANGED <<ready, sentinel, halted, count, mark, hook, agent, loop, ghost>>

Supervise == FirstSpawn \/ StopForOperator \/ Finish \/ Respawn
Act == HandOut \/ Terminal \/ HaltUnsafe \/ Complete \/ StopAllowed \/ StopBlocked

Next == Launch \/ Supervise \/ Act \/ Die \/ KillComplete \/ Hang \/ RewriteBranch

Spec == Init /\ [][Next]_vars

(* The launcher waits and acts; an agent that neither hangs nor dies acts or stops. *)
FairSpec == Spec /\ WF_vars(Supervise) /\ WF_vars(Act)

-----------------------------------------------------------------------------
(* The launcher reports a drained backlog only after the driver gave a terminal signal. *)
DoneMeansTerminal == verdict = "done" => ended

(* No session is spawned once the run has ended. *)
NoRespawnAfterTerminal == [][sessions' > sessions => ~ended]_vars

(* Under stop_guard.sh an agent that complete has told to stop is not blocked; and one that
   leaves before the end of the run without having been blocked has had its session's budget
   of tickets recorded. *)
StopMatchesBudget ==
  [][platform = "claude" =>
       /\ StopBlocked => agent # "spent"
       /\ StopAllowed /\ sentinel /\ ~active => served >= Budget]_vars

(* Under enforce.py, with work left and budget left, an agent leaves through the hook only
   after BlockCap blocks without a ticket settled, those carried over from an earlier night
   included ... *)
NeverStopsEarly ==
  [][StopAllowed /\ sentinel /\ ~mark /\ platform = "other" => refused + carried >= BlockCap]_vars

(* The launcher returns, unless an agent hangs. *)
LoopEnds == (verdict = "running") ~> (verdict # "running" \/ agent = "hung")
=============================================================================
