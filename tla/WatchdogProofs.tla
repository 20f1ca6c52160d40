--------------------------- MODULE WatchdogProofs ---------------------------
(***************************************************************************)
(* What the watchdog keeps for every choice of its periods and whatever    *)
(* processes its agents leave behind, and what takes that no agent exits   *)
(* while it is judged, or that no signal arrives while none is registered. *)
(***************************************************************************)
EXTENDS Watchdog, TLAPS

(* Restarts are counted up to one beyond the limit, and only the last count stops. *)
Counted == restarts \in Nat /\ (pc # "stopped" => restarts <= MaxRestarts)

(* Through this window an agent is gone before the loop looks again. *)
Slipped == "exit" \in Windows /\ child = "exited"

(* Where the loop is tells what has become of the agent. *)
Placed ==
  /\ pc = "spawn" => child \in {"none", "killed"} \/ Slipped
  /\ pc \in {"register", "poll", "sleep"} => Running \/ child = "exited"
  /\ pc \in {"judge", "kill"} => Running \/ Slipped
  /\ pc = "count" => child = "killed" \/ Slipped
  /\ pc = "stopped" => child \in {"killed", "exited"} \/ "signal" \in Windows

(* Only a running agent has descendants; what is known is in the last snapshot and, while the
   agent runs, its own; once the watchdog has turned, only the deaf are left of it. *)
Lineage ==
  /\ kids \cap strays = {}
  /\ ~Running => kids = {}
  /\ known \subseteq snap /\ (Running => known \subseteq kids)
  /\ child # "exited" \/ pc = "stopped" => strays \cap known \subseteq Deaf

WInv == TypeOK /\ Counted /\ Placed

-----------------------------------------------------------------------------
(* A clock that is bounded stays in its range. *)
LEMMA LaterInRange ==
  ASSUME NEW cap \in Nat, NEW t \in 0 .. cap
  PROVE  Later(t, cap) \in 0 .. cap
BY DEF Later

(* The bounds of the clocks are numbers. *)
LEMMA CapsAreNat == UpCap \in Nat /\ AgeCap \in Nat /\ Poll \in Nat /\ MaxRestarts \in Nat
BY WatchdogAssumption DEF UpCap, AgeCap, Latest

LEMMA WInit == Init => WInv
<1> SUFFICES ASSUME Init PROVE WInv
  OBVIOUS
<1>1. TypeOK
  <2>1. up \in 0 .. UpCap /\ age \in 0 .. AgeCap /\ checked \in 0 .. Poll /\ snapped \in 0 .. Poll
    BY CapsAreNat DEF Init
  <2>2. restarts \in 0 .. MaxRestarts + 1
    BY CapsAreNat DEF Init
  <2> QED BY <2>1, <2>2 DEF Init, TypeOK
<1>2. Counted
  BY CapsAreNat DEF Init, Counted
<1>3. Placed
  BY DEF Init, Placed
<1> QED BY <1>1, <1>2, <1>3 DEF WInv

(* Every step keeps the types. *)
LEMMA TypingStep == WInv /\ [Next]_vars => TypeOK'
<1> SUFFICES ASSUME WInv, [Next]_vars PROVE TypeOK'
  OBVIOUS
<1> USE CapsAreNat DEF TypeOK, WInv, clock, tree, rest
<1>1. CASE Spawn
  <2>1. up' \in 0 .. UpCap /\ age' \in 0 .. AgeCap /\ checked' \in 0 .. Poll /\ snapped' \in 0 .. Poll
    BY <1>1 DEF Spawn
  <2> QED BY <1>1, <2>1 DEF Spawn
<1>2. CASE Register
  BY <1>2 DEF Register
<1>3. CASE PassThrough
  BY <1>3 DEF PassThrough, Reaped
<1>4. CASE StillRunning
  BY <1>4 DEF StillRunning
<1>5. CASE Condemn
  BY <1>5 DEF Condemn, EarlyDue
<1>6. CASE Spare
  BY <1>6 DEF Spare, EarlyDue
<1>7. CASE Sleep
  <2>1. /\ Later(up, UpCap) \in 0 .. UpCap /\ Later(age, AgeCap) \in 0 .. AgeCap
        /\ Later(checked, Poll) \in 0 .. Poll /\ Later(snapped, Poll) \in 0 .. Poll
    BY LaterInRange
  <2> QED BY <1>7, <2>1 DEF Sleep
<1>8. CASE Kill
  <2>1. Later(age, AgeCap) \in 0 .. AgeCap
    BY LaterInRange
  <2> QED BY <1>8, <2>1 DEF Kill, Terminate, Reaped
<1>9. CASE Count
  BY <1>9 DEF Count, Counted
<1>10. CASE OperatorStops
  BY <1>10 DEF OperatorStops, Terminate, Reaped
<1>11. CASE Agent
  <2>1. CASE Beat
    <3>1. age' \in 0 .. AgeCap
      BY <2>1 DEF Beat
    <3> QED BY <2>1, <3>1 DEF Beat
  <2>2. CASE Fork
    BY <2>2 DEF Fork
  <2>3. CASE Freeze
    BY <2>3 DEF Freeze
  <2>4. CASE Exit
    BY <2>4 DEF Exit
  <2>5. CASE Orphan
    BY <2>5 DEF Orphan
  <2> QED BY <1>11, <2>1, <2>2, <2>3, <2>4, <2>5 DEF Agent
<1>12. CASE UNCHANGED vars
  BY <1>12 DEF vars
<1> QED BY <1>1, <1>2, <1>3, <1>4, <1>5, <1>6, <1>7, <1>8, <1>9, <1>10, <1>11, <1>12
        DEF Next, Loop

(* Every step keeps the count and the place. *)
LEMMA PlacedStep == WInv /\ [Next]_vars => (Counted /\ Placed)'
<1> SUFFICES ASSUME WInv, [Next]_vars PROVE (Counted /\ Placed)'
  OBVIOUS
<1> USE CapsAreNat DEF WInv, Running, Slipped, clock, tree, rest
<1>1. CASE Spawn
  BY <1>1 DEF Spawn, Counted, Placed
<1>2. CASE Register
  BY <1>2 DEF Register, Counted, Placed
<1>3. CASE PassThrough
  BY <1>3 DEF PassThrough, Counted, Placed
<1>4. CASE StillRunning
  BY <1>4 DEF StillRunning, Counted, Placed
<1>5. CASE Condemn
  BY <1>5 DEF Condemn, Counted, Placed
<1>6. CASE Spare
  BY <1>6 DEF Spare, Counted, Placed
<1>7. CASE Sleep
  BY <1>7 DEF Sleep, Counted, Placed
<1>8. CASE Kill
  BY <1>8 DEF Kill, Terminate, Counted, Placed
<1>9. CASE Count
  BY <1>9 DEF Count, Counted, Placed
<1>10. CASE OperatorStops
  BY <1>10 DEF OperatorStops, Terminate, Counted, Placed
<1>11. CASE Beat \/ Freeze
  BY <1>11 DEF Beat, Freeze, Counted, Placed
<1>12. CASE Fork \/ Orphan
  BY <1>12 DEF Fork, Orphan, Counted, Placed
<1>13. CASE Exit
  BY <1>13 DEF Exit, Counted, Placed, TypeOK
<1>14. CASE UNCHANGED vars
  BY <1>14 DEF vars, Counted, Placed
<1> QED BY <1>1, <1>2, <1>3, <1>4, <1>5, <1>6, <1>7, <1>8, <1>9, <1>10, <1>11, <1>12, <1>13,
           <1>14 DEF Next, Loop, Agent

(* Every step keeps the lineage, if the windows are shut. *)
LEMMA LineageStep == WInv /\ Lineage /\ Windows = {} /\ [Next]_vars => Lineage'
<1> SUFFICES ASSUME WInv, Lineage, Windows = {}, [Next]_vars PROVE Lineage'
  OBVIOUS
<1> USE DEF WInv, Running, Slipped, Placed, clock, tree, rest
<1>1. CASE Spawn
  BY <1>1 DEF Spawn, Lineage
<1>2. CASE Register
  BY <1>2 DEF Register, Lineage
<1>3. CASE PassThrough
  BY <1>3 DEF PassThrough, Reaped, Lineage
<1>4. CASE StillRunning
  BY <1>4 DEF StillRunning, Lineage
<1>5. CASE Condemn
  BY <1>5 DEF Condemn, Lineage
<1>6. CASE Spare
  BY <1>6 DEF Spare, Lineage
<1>7. CASE Sleep
  BY <1>7 DEF Sleep, Lineage
<1>8. CASE Kill
  BY <1>8 DEF Kill, Terminate, Reaped, Lineage
<1>9. CASE Count
  BY <1>9 DEF Count, Lineage
<1>10. CASE OperatorStops
  BY <1>10 DEF OperatorStops, Terminate, Reaped, Lineage
<1>11. CASE Beat \/ Freeze
  BY <1>11 DEF Beat, Freeze, Lineage
<1>12. CASE Fork \/ Orphan
  BY <1>12 DEF Fork, Orphan, Lineage
<1>13. CASE Exit
  BY <1>13 DEF Exit, Lineage, TypeOK
<1>14. CASE UNCHANGED vars
  BY <1>14 DEF vars, Lineage
<1> QED BY <1>1, <1>2, <1>3, <1>4, <1>5, <1>6, <1>7, <1>8, <1>9, <1>10, <1>11, <1>12, <1>13,
           <1>14 DEF Next, Loop, Agent

(* The invariant is inductive, windows or not. *)
THEOREM WatchdogInvariant == Spec => []WInv
<1>1. WInv /\ [Next]_vars => WInv'
  BY TypingStep, PlacedStep DEF WInv
<1> QED BY WInit, <1>1, PTL DEF Spec

(* The watchdog's variables keep their types. *)
THEOREM WatchdogTyping == Spec => []TypeOK
<1>1. WInv => TypeOK
  BY DEF WInv
<1> QED BY WatchdogInvariant, <1>1, PTL

(* watchdog.py:109-125 and reap.py:119-143: no process that the last snapshot held, and that was
   the agent's to its end, outlives it beyond the watchdog's next turn, unless it ignores the
   signal. *)
THEOREM KnownReaped == ASSUME Windows = {} PROVE Spec => []KnownAreReaped
<1>1. Init => Lineage
  BY DEF Init, Lineage, Running
<1>2. WInv /\ Lineage /\ [Next]_vars => Lineage'
  BY LineageStep
<1>3. WInv /\ Lineage => KnownAreReaped
  BY DEF WInv, Placed, Slipped, Lineage, KnownAreReaped
<1> QED BY WatchdogInvariant, <1>1, <1>2, <1>3, PTL DEF Spec

(* watchdog.py:80-95: when the watchdog has stopped, no agent runs. *)
THEOREM StopsClean == ASSUME "signal" \notin Windows PROVE Spec => []NothingLeftRunning
<1>1. WInv => NothingLeftRunning
  BY DEF WInv, Placed, Running, NothingLeftRunning
<1> QED BY WatchdogInvariant, <1>1, PTL

(* watchdog.py:117-125: an agent that has exited by itself is never started again. *)
THEOREM ExitsPassThrough == ASSUME "exit" \notin Windows PROVE Spec => ExitPassedThrough
<1>1. WInv /\ [Next]_vars => (restarts' > restarts => child # "exited")
  <2> SUFFICES ASSUME WInv, [Next]_vars, restarts' > restarts PROVE child # "exited"
    OBVIOUS
  <2>1. CASE Count
    BY <2>1 DEF Count, WInv, Placed, Slipped
  <2>2. CASE UNCHANGED restarts
    BY <2>2 DEF WInv, Counted
  <2>3. Count \/ UNCHANGED restarts
    BY DEF Next, Loop, Agent, Spawn, Register, PassThrough, StillRunning, Condemn, Spare, Sleep,
           Kill, OperatorStops, Beat, Fork, Orphan, Freeze, Exit, vars, rest
  <2> QED BY <2>1, <2>2, <2>3
<1>2. WInv /\ [Next]_vars => [restarts' > restarts => child # "exited"]_vars
  BY <1>1
<1> QED BY WatchdogInvariant, <1>2, PTL DEF Spec, ExitPassedThrough

-----------------------------------------------------------------------------
(* The periods *)

(* An agent that has not beaten yet: the heartbeat file is older than the agent, and the one
   startup check that finds it so condemns it. *)
Unbeaten ==
  /\ pc \in {"spawn", "count"} => age > 0
  /\ ~beaten => age > up
  /\ early /\ ~beaten => pc \in {"kill", "count", "spawn", "stopped"}
  /\ pc = "sleep" /\ ~beaten /\ Running => up < UpCap

LEMMA UpCapBelowAgeCap == UpCap < AgeCap /\ UpCap = Grace + EarlyStale
BY WatchdogAssumption DEF UpCap, AgeCap, Latest

LEMMA UnbeatenInit == Init => Unbeaten
BY CapsAreNat DEF Init, Unbeaten

LEMMA UnbeatenStep ==
  ASSUME EarlyStale > 0, WInv, Unbeaten, [Next]_vars
  PROVE  Unbeaten'
<1> USE CapsAreNat DEF WInv, TypeOK, Placed, Slipped, Running, clock, tree, rest
<1>1. CASE Spawn
  BY <1>1 DEF Spawn, Unbeaten
<1>2. CASE Register
  BY <1>2 DEF Register, Unbeaten
<1>3. CASE PassThrough
  BY <1>3 DEF PassThrough, Unbeaten
<1>4. CASE StillRunning
  BY <1>4 DEF StillRunning, Unbeaten
<1>5. CASE Condemn
  BY <1>5 DEF Condemn, EarlyDue, Stalled, NoBeatYet, Unbeaten
<1>6. CASE Spare
  <2>1. ~beaten => ~early /\ ~EarlyDue
    BY <1>6 DEF Spare, Stalled, NoBeatYet, Unbeaten
  <2>2. ~beaten => up < UpCap
    BY <2>1, UpCapBelowAgeCap DEF EarlyDue
  <2> QED BY <1>6, <2>1, <2>2 DEF Spare, Unbeaten
<1>7. CASE Sleep
  <2>1. /\ age' = (IF age < AgeCap THEN age + 1 ELSE age)
        /\ up' = (IF up < UpCap THEN up + 1 ELSE up)
    BY <1>7 DEF Sleep, Later
  <2>2. age \in Nat /\ up \in 0 .. UpCap /\ UpCap < AgeCap /\ UpCap \in Nat
    BY UpCapBelowAgeCap
  <2>3. ~beaten => age' > up'
    BY <2>1, <2>2, <1>7 DEF Unbeaten
  <2> QED BY <1>7, <2>3 DEF Sleep, Unbeaten
<1>8. CASE Kill
  <2>1. age' = (IF age < AgeCap THEN age + 1 ELSE age) /\ up' = up
    BY <1>8 DEF Kill, Later
  <2>2. age \in Nat /\ up \in 0 .. UpCap /\ UpCap < AgeCap /\ UpCap \in Nat
    BY UpCapBelowAgeCap
  <2>3. age' > 0 /\ (~beaten => age' > up')
    BY <2>1, <2>2, <1>8 DEF Unbeaten
  <2> QED BY <1>8, <2>3 DEF Kill, Unbeaten
<1>9. CASE Count
  BY <1>9 DEF Count, Unbeaten
<1>10. CASE OperatorStops
  BY <1>10 DEF OperatorStops, Terminate, Unbeaten
<1>11. CASE Beat
  BY <1>11 DEF Beat, Unbeaten
<1>12. CASE Fork \/ Orphan
  BY <1>12 DEF Fork, Orphan, Unbeaten
<1>13. CASE Freeze
  BY <1>13 DEF Freeze, Unbeaten
<1>14. CASE Exit
  BY <1>14 DEF Exit, Unbeaten
<1>15. CASE UNCHANGED vars
  BY <1>15 DEF vars, Unbeaten
<1> QED BY <1>1, <1>2, <1>3, <1>4, <1>5, <1>6, <1>7, <1>8, <1>9, <1>10, <1>11, <1>12, <1>13, <1>14, <1>15
        DEF Next, Loop, Agent

(* watchdog.py:130-150: an agent that has not beaten is not left alone beyond the two startup
   periods, whatever their lengths and whatever heartbeat it found. *)
THEOREM NoStallMissed == ASSUME EarlyStale > 0 PROVE Spec => []StallNoticed
<1>1. EarlyStale > 0 /\ WInv /\ Unbeaten /\ [Next]_vars => Unbeaten'
  BY UnbeatenStep
<1>2. Unbeaten => StallNoticed
  BY UpCapBelowAgeCap DEF Unbeaten, StallNoticed
<1> QED BY <1>1, <1>2, WatchdogInvariant, UnbeatenInit, PTL DEF Spec

(* A working agent has beaten by the age of Boot and then every Gap; until the startup check its
   heartbeat is younger than itself; so the loop does not condemn it. *)
Prompt ==
  /\ child = "working" => IF beaten THEN age <= Gap ELSE up < Boot
  /\ beaten /\ ~early /\ EarlyStale > 0 /\ Running => age <= up
  /\ pc = "sleep" /\ EarlyStale > 0 /\ up >= UpCap => early
  /\ pc = "kill" => child # "working"

LEMMA PromptInit == Init => Prompt
BY CapsAreNat, WatchdogAssumption DEF Init, Prompt, Running, UpCap

LEMMA PromptStep ==
  ASSUME Boot <= Grace, Gap <= Stale, WInv, Prompt, [Next]_vars
  PROVE  Prompt'
<1> USE CapsAreNat DEF WInv, TypeOK, Placed, Slipped, Running, clock, tree, rest
<1>1. CASE Spawn
  BY <1>1, WatchdogAssumption DEF Spawn, Prompt
<1>2. CASE Register
  BY <1>2 DEF Register, Prompt
<1>3. CASE PassThrough
  BY <1>3 DEF PassThrough, Prompt
<1>4. CASE StillRunning
  BY <1>4 DEF StillRunning, Prompt
<1>5. CASE Condemn
  <2>1. child # "working"
    <3> SUFFICES ASSUME child = "working" PROVE FALSE
      OBVIOUS
    <3>1. CASE Stalled
      <4>1. EarlyStale > 0 /\ ~early /\ up >= Grace + EarlyStale /\ age > up
        BY <3>1 DEF Stalled, EarlyDue, NoBeatYet
      <4> QED BY <4>1, WatchdogAssumption DEF Prompt
    <3>2. CASE CheckDue /\ Silent
      BY <3>2, WatchdogAssumption DEF CheckDue, Silent, Prompt
    <3> QED BY <1>5, <3>1, <3>2 DEF Condemn
  <2> QED BY <1>5, <2>1 DEF Condemn, Prompt
<1>6. CASE Spare
  <2>1. EarlyStale > 0 /\ up >= UpCap => early'
    BY <1>6, UpCapBelowAgeCap DEF Spare, EarlyDue
  <2> QED BY <1>6, <2>1 DEF Spare, Prompt
<1>7. CASE Sleep
  <2>1. /\ age' = (IF age < AgeCap THEN age + 1 ELSE age)
        /\ up' = (IF up < UpCap THEN up + 1 ELSE up)
    BY <1>7 DEF Sleep, Later
  <2>2. age \in Nat /\ up \in 0 .. UpCap /\ UpCap \in Nat /\ Boot \in Nat /\ Gap \in Nat
    BY WatchdogAssumption
  <2>3. child' = "working" => IF beaten' THEN age' <= Gap ELSE up' < Boot
    BY <1>7, <2>1, <2>2 DEF Sleep, InTime
  <2>4. beaten' /\ ~early' /\ EarlyStale > 0 /\ Running' => age' <= up'
    BY <1>7, <2>1, <2>2 DEF Sleep, Prompt
  <2> QED BY <1>7, <2>3, <2>4 DEF Sleep, Prompt
<1>8. CASE Kill
  BY <1>8 DEF Kill, Terminate, Prompt
<1>9. CASE Count
  BY <1>9 DEF Count, Prompt
<1>10. CASE OperatorStops
  BY <1>10 DEF OperatorStops, Terminate, Prompt
<1>11. CASE Beat
  BY <1>11, WatchdogAssumption DEF Beat, Prompt
<1>12. CASE Fork \/ Orphan
  BY <1>12 DEF Fork, Orphan, Prompt
<1>13. CASE Freeze
  BY <1>13 DEF Freeze, Prompt
<1>14. CASE Exit
  BY <1>14 DEF Exit, Prompt
<1>15. CASE UNCHANGED vars
  BY <1>15 DEF vars, Prompt
<1> QED BY <1>1, <1>2, <1>3, <1>4, <1>5, <1>6, <1>7, <1>8, <1>9, <1>10, <1>11, <1>12, <1>13, <1>14, <1>15
        DEF Next, Loop, Agent

(* watchdog.py:130-159: an agent that boots within the grace period and beats often enough is
   not killed by the loop, for any such periods. *)
THEOREM WorkersSpared ==
  ASSUME Boot <= Grace, Gap <= Stale
  PROVE  Spec => WorkingNotKilled
<1>1. Boot <= Grace /\ Gap <= Stale /\ WInv /\ Prompt /\ [Next]_vars => Prompt'
  BY PromptStep
<1>2. Prompt /\ [Next]_vars => [Kill => child # "working"]_vars
  BY DEF Prompt, Kill
<1> QED BY <1>1, <1>2, WatchdogInvariant, PromptInit, PTL DEF Spec, WorkingNotKilled
=============================================================================
