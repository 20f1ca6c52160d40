------------------------- MODULE SessionLoopProofs -------------------------
(***************************************************************************)
(* What the fresh-session loop keeps for every backlog, budget and cap,    *)
(* under either hook; some of it only when no agent ends before its first  *)
(* next.                                                                   *)
(***************************************************************************)
EXTENDS SessionLoop, TLAPS

(* An agent is there only while the launcher waits for it. *)
Attended == verdict # "running" \/ sessions = 0 => agent = "gone"

(* A session that got beyond its first next has left the sentinel, the run's end or the
   halt behind. *)
Traced ==
  /\ agent \in {"holding", "recorded", "counted", "spent", "idle"} => sentinel
  /\ verdict = "running" /\ sessions # 0 /\ agent \in {"told", "gone"} => sentinel \/ ended \/ halted

(* Once the run of the night has ended, nobody asks for more. *)
Over ==
  /\ ended => ~sentinel /\ agent \in {"told", "gone", "hung"}
  /\ ended /\ verdict = "running" => sessions # 0

EInv ==
  /\ sessions \in Nat /\ halted \in BOOLEAN /\ sentinel \in BOOLEAN /\ ended \in BOOLEAN
  /\ Attended /\ Over

LEMMA EInit == Init => EInv
<1> SUFFICES ASSUME Init PROVE EInv
  OBVIOUS
<1>1. sessions \in Nat /\ halted \in BOOLEAN /\ sentinel \in BOOLEAN /\ ended \in BOOLEAN
  BY DEF Init
<1>2. Attended /\ Over
  BY Zenon DEF Init, Attended, Over
<1> QED BY <1>1, <1>2 DEF EInv

(* Every step keeps it. *)
LEMMA EStep == EInv /\ [Next]_vars => EInv'
<1> SUFFICES ASSUME EInv, [Next]_vars PROVE EInv'
  OBVIOUS
<1> USE SessionAssumption DEF EInv, Attended, Over, driver, hook, loop, ghost
<1>1. CASE Launch
  BY <1>1 DEF Launch
<1>2. CASE FirstSpawn
  BY <1>2 DEF FirstSpawn, Spawn
<1>3. CASE StopForOperator \/ Finish
  BY <1>3 DEF StopForOperator, Finish, AgentExited, Return
<1>4. CASE Respawn
  <2>1. CASE Spawn
    <3>1. sessions' \in Nat /\ sessions' # 0
      BY <2>1 DEF Spawn
    <3> QED BY <1>4, <2>1, <3>1 DEF Respawn, AgentExited, Spawn
  <2>2. CASE Return("nogo")
    BY <1>4, <2>2 DEF Respawn, AgentExited, Return
  <2> QED BY <1>4, <2>1, <2>2 DEF Respawn
<1>5. CASE HandOut
  BY <1>5 DEF HandOut, Asking, NoLongerHalted
<1>6. CASE Terminal
  BY <1>6 DEF Terminal, Asking, NoLongerHalted
<1>7. CASE HaltUnsafe
  BY <1>7 DEF HaltUnsafe, Asking
<1>8. CASE Complete \/ KillComplete
  <2>1. CASE Record
    BY <2>1 DEF Record, NoLongerHalted
  <2>2. CASE Count
    BY <2>2 DEF Count
  <2>3. CASE MarkSpent
    BY <2>3 DEF MarkSpent
  <2>4. CASE KillComplete
    BY <2>4 DEF KillComplete
  <2> QED BY <1>8, <2>1, <2>2, <2>3, <2>4 DEF Complete
<1>9. CASE StopAllowed
  BY <1>9 DEF StopAllowed, Leaving, Wanting
<1>10. CASE StopBlocked
  BY <1>10 DEF StopBlocked, Wanting
<1>11. CASE Die \/ Hang
  BY <1>11 DEF Die, Hang, Leaving, Wanting
<1>12. CASE RewriteBranch \/ UNCHANGED vars
  BY <1>12 DEF RewriteBranch, vars
<1> QED BY <1>1, <1>2, <1>3, <1>4, <1>5, <1>6, <1>7, <1>8, <1>9, <1>10, <1>11, <1>12
        DEF Next, Supervise, Act

SInv == EInv /\ Traced /\ DoneMeansTerminal

LEMMA SInit == Init => SInv
BY EInit, Zenon DEF Init, SInv, Traced, DoneMeansTerminal

(* Every step keeps it, if an agent that has not asked yet does not leave. *)
LEMMA SStep == ~LeavesEarly /\ SInv /\ [Next]_vars => SInv'
<1> SUFFICES ASSUME ~LeavesEarly, SInv, [Next]_vars PROVE (Traced /\ DoneMeansTerminal)'
  BY EStep DEF SInv
<1> USE SessionAssumption DEF SInv, EInv, Attended, Traced, Over, DoneMeansTerminal, driver, hook, loop, ghost
<1>1. CASE Launch
  BY <1>1 DEF Launch
<1>2. CASE FirstSpawn
  BY <1>2 DEF FirstSpawn, Spawn
<1>3. CASE StopForOperator \/ Finish
  BY <1>3 DEF StopForOperator, Finish, AgentExited, Return
<1>4. CASE Respawn
  <2>1. CASE Spawn
    <3>1. sessions' \in Nat /\ sessions' # 0
      BY <2>1 DEF Spawn
    <3> QED BY <1>4, <2>1, <3>1 DEF Respawn, AgentExited, Spawn
  <2>2. CASE Return("nogo")
    BY <1>4, <2>2 DEF Respawn, AgentExited, Return
  <2> QED BY <1>4, <2>1, <2>2 DEF Respawn
<1>5. CASE HandOut
  BY <1>5 DEF HandOut, Asking, NoLongerHalted
<1>6. CASE Terminal
  BY <1>6 DEF Terminal, Asking, NoLongerHalted
<1>7. CASE HaltUnsafe
  BY <1>7 DEF HaltUnsafe, Asking
<1>8. CASE Complete \/ KillComplete
  <2>1. CASE Record
    BY <2>1 DEF Record, NoLongerHalted
  <2>2. CASE Count
    BY <2>2 DEF Count
  <2>3. CASE MarkSpent
    BY <2>3 DEF MarkSpent
  <2>4. CASE KillComplete
    BY <2>4 DEF KillComplete
  <2> QED BY <1>8, <2>1, <2>2, <2>3, <2>4 DEF Complete
<1>9. CASE StopAllowed
  BY <1>9 DEF StopAllowed, Leaving, Wanting
<1>10. CASE StopBlocked
  BY <1>10 DEF StopBlocked, Wanting
<1>11. CASE Die \/ Hang
  BY <1>11 DEF Die, Hang, Leaving, Wanting
<1>12. CASE RewriteBranch \/ UNCHANGED vars
  BY <1>12 DEF RewriteBranch, vars
<1> QED BY <1>1, <1>2, <1>3, <1>4, <1>5, <1>6, <1>7, <1>8, <1>9, <1>10, <1>11, <1>12
        DEF Next, Supervise, Act

(* launcher.py:1002-1007: the loop reports success only for a run that had its terminal
   signal. *)
THEOREM DoneIsTerminal == ASSUME ~LeavesEarly PROVE Spec => []DoneMeansTerminal
<1>1. SInv => DoneMeansTerminal
  BY DEF SInv
<1> QED BY <1>1, SInit, SStep, PTL DEF Spec

(* launcher.py:929-931: no session is started for a run that has ended. *)
THEOREM NoSessionAfterEnd == Spec => NoRespawnAfterTerminal
<1>1. EInv /\ [Next]_vars => [sessions' > sessions => ~ended]_vars
  <2> SUFFICES ASSUME EInv, [Next]_vars, sessions' > sessions PROVE ~ended
    OBVIOUS
  <2>1. UNCHANGED sessions \/ Launch \/ FirstSpawn \/ Respawn
    BY DEF Next, Supervise, Act, StopForOperator, Finish, Return, HandOut, Terminal, HaltUnsafe,
           Complete, Record, Count, MarkSpent, KillComplete, StopAllowed, StopBlocked, Die, Hang,
           RewriteBranch, vars, loop
  <2>2. sessions' # sessions /\ ~(sessions' = 0)
    BY DEF EInv
  <2>3. ~Launch
    BY <2>2 DEF Launch
  <2>4. CASE FirstSpawn
    BY <2>4 DEF FirstSpawn, EInv, Over
  <2>5. CASE Respawn
    BY <2>5 DEF Respawn, EInv, Over
  <2> QED BY <2>1, <2>2, <2>3, <2>4, <2>5
<1> QED BY <1>1, EInit, EStep, PTL DEF Spec, NoRespawnAfterTerminal

-----------------------------------------------------------------------------
(* Whatever the counter holds was counted this night or found by it. *)
CInv ==
  /\ blocks \in Nat /\ refused \in Nat /\ carried \in Nat
  /\ blocks <= refused + carried

LEMMA CInit == Init => CInv
BY DEF Init, CInv

(* Settling a ticket clears the counter and both histories together. *)
LEMMA CSettle == ASSUME CInv, NEW left, Settle(left) PROVE CInv'
<1>1. CASE left < ready
  BY <1>1 DEF Settle, ForgetBlocks, CInv
<1>2. CASE ~(left < ready)
  BY <1>2 DEF Settle, CInv
<1> QED BY <1>1, <1>2

LEMMA CStep == CInv /\ [Next]_vars => CInv'
<1> SUFFICES ASSUME CInv, [Next]_vars PROVE CInv'
  OBVIOUS
<1> USE DEF driver, hook, loop, ghost
<1>1. CASE Launch
  BY <1>1 DEF Launch, CInv
<1>2. CASE HandOut
  BY <1>2, CSettle DEF HandOut
<1>3. CASE Terminal
  BY <1>3, CSettle DEF Terminal
<1>4. CASE Record
  BY <1>4, CSettle DEF Record
<1>5. CASE StopAllowed
  BY <1>5 DEF StopAllowed, CInv
<1>6. CASE StopBlocked
  BY <1>6 DEF StopBlocked, CInv
<1>7. CASE UNCHANGED <<blocks, refused, carried>>
  BY <1>7 DEF CInv
<1>8. \/ Launch \/ HandOut \/ Terminal \/ Record \/ StopAllowed \/ StopBlocked
      \/ UNCHANGED <<blocks, refused, carried>>
  BY DEF Next, Supervise, Act, FirstSpawn, StopForOperator, Finish, Respawn, Spawn, Return,
         Complete, Count, MarkSpent, KillComplete, HaltUnsafe, Die, Hang, RewriteBranch, vars
<1> QED BY <1>1, <1>2, <1>3, <1>4, <1>5, <1>6, <1>7, <1>8

(* enforce.py:211-222: with work and budget left, an agent gets away only after BlockCap
   blocks without progress, carried ones included. *)
THEOREM NeverEarly == Spec => NeverStopsEarly
<1>1. CInv /\ [Next]_vars
        => [StopAllowed /\ sentinel /\ ~mark /\ platform = "other" => refused + carried >= BlockCap]_vars
  <2> SUFFICES ASSUME CInv, StopAllowed, sentinel, ~mark, platform = "other"
               PROVE  refused + carried >= BlockCap
    OBVIOUS
  <2>1. BlockCap \in Nat
    BY SessionAssumption
  <2>2. blocks >= BlockCap
    BY DEF StopAllowed, LetsThrough
  <2> QED BY <2>1, <2>2 DEF CInv
<1> QED BY <1>1, CInit, CStep, PTL DEF Spec, NeverStopsEarly

(* A session told to stop has its marker; a marked one has counted its budget; and what it
   has counted it has recorded. *)
BInv ==
  /\ count \in Nat /\ served \in Nat
  /\ agent = "spent" => mark
  /\ mark \/ agent = "counted" => count >= Budget
  /\ IF agent = "recorded" THEN count + 1 <= served ELSE count <= served

LEMMA BInit == Init => BInv
BY SessionAssumption DEF Init, BInv

LEMMA BStep == BInv /\ [Next]_vars => BInv'
<1> SUFFICES ASSUME BInv, [Next]_vars PROVE BInv'
  OBVIOUS
<1> USE SessionAssumption DEF BInv, driver, hook, loop, ghost
<1>1. CASE FirstSpawn \/ Respawn
  <2>1. CASE Spawn
    BY <2>1 DEF Spawn
  <2>2. CASE Return("nogo")
    BY <2>2 DEF Return
  <2> QED BY <1>1, <2>1, <2>2 DEF FirstSpawn, Respawn
<1>2. CASE HandOut
  BY <1>2 DEF HandOut, Asking
<1>3. CASE Terminal
  BY <1>3 DEF Terminal, Asking
<1>4. CASE HaltUnsafe
  BY <1>4 DEF HaltUnsafe, Asking
<1>5. CASE Record
  BY <1>5 DEF Record
<1>6. CASE Count
  BY <1>6 DEF Count
<1>7. CASE MarkSpent
  BY <1>7 DEF MarkSpent
<1>8. CASE StopAllowed \/ StopBlocked
  BY <1>8 DEF StopAllowed, StopBlocked
<1>9. CASE KillComplete
  BY <1>9 DEF KillComplete
<1>10. CASE Die \/ Hang
  BY <1>10 DEF Die, Hang
<1>11. CASE Launch \/ StopForOperator \/ Finish \/ RewriteBranch \/ UNCHANGED vars
  <2>1. UNCHANGED <<agent, count, mark, served>>
    BY <1>11 DEF Launch, StopForOperator, Finish, Return, RewriteBranch, vars
  <2> QED BY <2>1
<1> QED BY <1>1, <1>2, <1>3, <1>4, <1>5, <1>6, <1>7, <1>8, <1>9, <1>10, <1>11
        DEF Next, Supervise, Act, Complete

(* driver.py:313-317 and 1253-1266 against stop_guard.sh:32-48: under that hook an agent that is
   told to stop is not blocked, and one that leaves early unblocked has had its budget of
   tickets recorded, for every backlog, budget and cap and wherever a complete is killed. *)
THEOREM BudgetStops == Spec => StopMatchesBudget
<1>1. BInv /\ [Next]_vars
        => [platform = "claude" =>
              /\ StopBlocked => agent # "spent"
              /\ StopAllowed /\ sentinel /\ ~active => served >= Budget]_vars
  <2> SUFFICES ASSUME BInv, platform = "claude"
               PROVE  /\ StopBlocked => agent # "spent"
                      /\ StopAllowed /\ sentinel /\ ~active => served >= Budget
    OBVIOUS
  <2>1. StopBlocked => ~mark
    BY DEF StopBlocked, LetsThrough
  <2>2. StopAllowed /\ sentinel /\ ~active => mark
    BY DEF StopAllowed, LetsThrough
  <2>3. StopAllowed => agent # "recorded"
    BY DEF StopAllowed, Leaving, Wanting
  <2>4. mark /\ agent # "recorded" => served >= Budget
    BY SessionAssumption DEF BInv
  <2> QED BY <2>1, <2>2, <2>3, <2>4 DEF BInv
<1> QED BY <1>1, BInit, BStep, PTL DEF Spec, StopMatchesBudget

-----------------------------------------------------------------------------
(* Types *)

(* A ticket in hand is one that is not settled. *)
Counters ==
  /\ ready \in 0 .. Backlog /\ (agent = "holding" => ready > 0)
  /\ count \in Nat /\ refused \in Nat /\ served \in Nat
  /\ blocks \in 0 .. BlockCap /\ carried \in 0 .. BlockCap
  /\ sessions \in 0 .. SpawnCap /\ night \in 0 .. MaxNights

Flags ==
  /\ sentinel \in BOOLEAN /\ halted \in BOOLEAN /\ unsafe \in BOOLEAN
  /\ mark \in BOOLEAN /\ active \in BOOLEAN /\ ended \in BOOLEAN
  /\ agent \in {"gone", "booting", "idle", "holding", "recorded", "counted", "spent", "told", "hung"}
  /\ verdict \in {"none", "running", "done", "nogo"}
  /\ platform \in Platform

LEMMA Caps ==
  /\ Backlog \in Nat /\ Backlog > 0 /\ BlockCap \in Nat /\ BlockCap > 0
  /\ SpawnCap \in Nat /\ SpawnCap > 0 /\ MaxNights \in Nat
BY SessionAssumption

LEMMA TInit == Init => Counters /\ Flags
<1> SUFFICES ASSUME Init PROVE Counters /\ Flags
  OBVIOUS
<1>1. Counters
  BY Caps DEF Init, Counters
<1>2. Flags
  BY DEF Init, Flags
<1> QED BY <1>1, <1>2

LEMMA CountersStep == Counters /\ Flags /\ [Next]_vars => Counters'
<1> SUFFICES ASSUME Counters, Flags, [Next]_vars PROVE Counters'
  OBVIOUS
<1> USE Caps DEF Counters, driver, hook, loop, ghost
<1>1. CASE Launch
  BY <1>1 DEF Launch
<1>2. CASE FirstSpawn
  BY <1>2 DEF FirstSpawn, Spawn
<1>3. CASE StopForOperator
  BY <1>3 DEF StopForOperator, AgentExited, Return
<1>4. CASE Finish
  BY <1>4 DEF Finish, AgentExited, Return
<1>5. CASE Respawn
  <2>1. CASE sessions < SpawnCap /\ Spawn
    BY <2>1 DEF Spawn
  <2>2. CASE Return("nogo")
    BY <2>2 DEF Return
  <2> QED BY <1>5, <2>1, <2>2 DEF Respawn
<1>6. CASE HandOut
  <2>1. PICK left \in 1 .. ready : Settle(left)
    BY <1>6 DEF HandOut
  <2> QED BY <1>6, <2>1 DEF HandOut, Settle, ForgetBlocks
<1>7. CASE Terminal
  <2>1. PICK left \in 0 .. ready : Settle(left)
    BY <1>7 DEF Terminal
  <2> QED BY <1>7, <2>1 DEF Terminal, Settle, ForgetBlocks
<1>8. CASE HaltUnsafe
  BY <1>8 DEF HaltUnsafe
<1>9. CASE Complete \/ KillComplete
  <2>1. CASE Record
    BY <2>1 DEF Record, Settle, ForgetBlocks
  <2>2. CASE Count \/ MarkSpent \/ KillComplete
    BY <2>2 DEF Count, MarkSpent, KillComplete
  <2> QED BY <1>9, <2>1, <2>2 DEF Complete
<1>10. CASE StopAllowed
  BY <1>10 DEF StopAllowed
<1>11. CASE StopBlocked
  <2>1. platform = "other" => blocks < BlockCap
    BY <1>11 DEF StopBlocked, LetsThrough
  <2> QED BY <1>11, <2>1 DEF StopBlocked
<1>12. CASE Die
  BY <1>12 DEF Die
<1>13. CASE Hang
  BY <1>13 DEF Hang
<1>14. CASE RewriteBranch
  BY <1>14 DEF RewriteBranch
<1>15. CASE UNCHANGED vars
  BY <1>15 DEF vars
<1> QED BY <1>1, <1>2, <1>3, <1>4, <1>5, <1>6, <1>7, <1>8, <1>9, <1>10, <1>11, <1>12, <1>13, <1>14, <1>15
        DEF Next, Supervise, Act

LEMMA FlagsStep == Counters /\ Flags /\ [Next]_vars => Flags'
<1> SUFFICES ASSUME Counters, Flags, [Next]_vars PROVE Flags'
  OBVIOUS
<1> USE Caps DEF Flags, driver, hook, loop, ghost
<1>1. CASE Launch
  BY <1>1 DEF Launch
<1>2. CASE FirstSpawn
  BY <1>2 DEF FirstSpawn, Spawn
<1>3. CASE StopForOperator
  BY <1>3 DEF StopForOperator, AgentExited, Return
<1>4. CASE Finish
  BY <1>4 DEF Finish, AgentExited, Return
<1>5. CASE Respawn
  BY <1>5 DEF Respawn, AgentExited, Spawn, Return
<1>6. CASE HandOut
  BY <1>6 DEF HandOut, NoLongerHalted
<1>7. CASE Terminal
  BY <1>7 DEF Terminal, NoLongerHalted
<1>8. CASE HaltUnsafe
  BY <1>8 DEF HaltUnsafe
<1>9. CASE Complete \/ KillComplete
  BY <1>9 DEF Complete, Record, Count, MarkSpent, KillComplete, NoLongerHalted
<1>10. CASE StopAllowed
  BY <1>10 DEF StopAllowed
<1>11. CASE StopBlocked
  BY <1>11 DEF StopBlocked
<1>12. CASE Die
  BY <1>12 DEF Die
<1>13. CASE Hang
  BY <1>13 DEF Hang
<1>14. CASE RewriteBranch
  BY <1>14 DEF RewriteBranch
<1>15. CASE UNCHANGED vars
  BY <1>15 DEF vars
<1> QED BY <1>1, <1>2, <1>3, <1>4, <1>5, <1>6, <1>7, <1>8, <1>9, <1>10, <1>11, <1>12, <1>13, <1>14, <1>15
        DEF Next, Supervise, Act

(* The counters stay within their caps: no night has more than SpawnCap sessions, no block
   counter passes BlockCap, and no more tickets are settled than
   there are. *)
THEOREM SessionTyping == Spec => []TypeOK
<1>1. Counters /\ Flags /\ [Next]_vars => Counters' /\ Flags'
  BY CountersStep, FlagsStep
<1>2. Counters /\ Flags => TypeOK
  BY DEF Counters, Flags, TypeOK
<1> QED BY <1>1, <1>2, TInit, PTL DEF Spec
=============================================================================
