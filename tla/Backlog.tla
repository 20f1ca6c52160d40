------------------------------ MODULE Backlog ------------------------------
(***************************************************************************)
(* What the harness promises of a backlog, whatever is killed and whatever *)
(* fails: one ticket is in flight at a time, work is recorded as done only *)
(* for the ticket in flight, and a terminal outcome is never revised.      *)
(***************************************************************************)
CONSTANTS
  Ticket,   \* the backlog
  Done,     \* outcomes of implemented tickets
  Parked    \* outcomes of tickets left to a human

VARIABLE status

TypeOK == status \in [Ticket -> {"waiting", "in flight"} \cup Done \cup Parked]

Init == status = [t \in Ticket |-> "waiting"]

InFlight(t) == status[t] = "in flight"
Move(t, s) == status' = [status EXCEPT ![t] = s]

HandOut(t) ==
  /\ status[t] = "waiting" /\ ~\E u \in Ticket : InFlight(u)
  /\ Move(t, "in flight")

(* Reverted, blocked or killed: the ticket waits for another attempt. *)
Release(t) == InFlight(t) /\ Move(t, "waiting")

Finish(t) == InFlight(t) /\ \E s \in Done : Move(t, s)

Park(t) == status[t] \in {"waiting", "in flight"} /\ \E s \in Parked : Move(t, s)

Next == \E t \in Ticket : HandOut(t) \/ Release(t) \/ Finish(t) \/ Park(t)

Spec == Init /\ [][Next]_status
=============================================================================
