------------------------------- MODULE Board -------------------------------
(***************************************************************************)
(* A run whose tickets are the open issues of a Paperclip project          *)
(* (run.py, sources/paperclip.py): every command fetches them anew, next   *)
(* marks a ticket in progress, and complete, the end of the run and report *)
(* push the recorded outcomes back, over calls that may fail or whose      *)
(* answer may be lost, from processes that may be killed or overlap.       *)
(* paperclip-pushed.json, the marker, remembers what has been pushed.      *)
(***************************************************************************)
EXTENDS Naturals

CONSTANTS
  None,
  Issue,       \* the project's issues
  Local,       \* the tickets with a file in the local ticket folder
  Ambiguous,   \* the tickets that next parks
  Results,     \* what a completed ticket may be recorded as
  Cap,         \* the attempt cap
  Overlap,     \* may a report run beside a command of the agent?
  Misses,      \* may a fetch miss an open issue?
  Theirs,      \* bound: the statuses people move an issue to
  MaxFaults    \* bound: failures, kills and overlaps

Agent == "agent"     Operator == "operator"
Caller == {Agent, Operator}     \* next and complete; report
Ticket == Issue \cup Local
State  == {"done", "low", "parked", "failed", "env"}
Terminal == {"done", "low", "parked"}
Status == {"todo", "in_progress", "blocked", "done"}

ASSUME BoardAssumption ==
  /\ None \notin Ticket \cup State /\ Ambiguous \subseteq Ticket /\ Results \subseteq State
  /\ {Cap, MaxFaults} \subseteq Nat /\ {Overlap, Misses} \subseteq BOOLEAN
  /\ Theirs \subseteq Status

VARIABLES
  status, comments,   \* the board
  moved,       \* the issues whose status their people have changed
  live,        \* integrations.paperclip.write_enabled
  outcome, attempts, pending, skip, sentinel,   \* the run
  marker,      \* what the file says was pushed; nothing, if it cannot be parsed
  pc,          \* the step each caller's command has reached
  cmd,         \* the command the agent calls
  tickets,     \* what each command has fetched
  ids,         \* the fetched tickets whose issue it knows
  pushed,      \* its copy of the marker
  todo,        \* the <<issue, state>> it has yet to push
  faults,      \* failures so far
  owed,        \* history: those that may cost a repeated comment
  changes      \* history: how often each state was newly recorded of a ticket

board == <<status, comments, moved, live>>
run   == <<outcome, changes, attempts, pending, skip, sentinel>>
own   == <<tickets, ids, pushed, todo>>
count == <<faults, owed>>
vars  == <<board, run, marker, pc, cmd, own, count>>

Nothing == [t \in {} |-> "done"]
Marked  == State \cup {"in_progress"}
Steps   == {"idle", "fetch", "act", "ask", "note", "push", "status", "comment", "write"}

(* What a marker file may say. *)
Marker == UNION {[issues -> Marked] : issues \in SUBSET Issue}

BoardOK ==
  /\ status \in [Issue -> Status] /\ comments \in [Issue -> [State -> Nat]]
  /\ moved \in SUBSET Issue /\ live \in BOOLEAN
RunOK ==
  /\ outcome \in [Ticket -> State \cup {None}] /\ changes \in [Ticket -> [State -> Nat]]
  /\ attempts \in [Ticket -> Nat] /\ pending \in Ticket \cup {None}
  /\ skip \in SUBSET Ticket /\ sentinel \in BOOLEAN
OwnOK ==
  /\ pc \in [Caller -> Steps]
  /\ tickets \in [Caller -> SUBSET Ticket] /\ ids \in [Caller -> SUBSET Issue]
  /\ pushed \in [Caller -> Marker] /\ todo \in [Caller -> SUBSET (Issue \X State)]
  /\ \A c \in Caller : pc[c] = "comment" => todo[c] # {}
TypeOK ==
  /\ BoardOK /\ RunOK /\ OwnOK /\ marker \in Marker
  /\ cmd \in {"next", "complete"} /\ faults \in Nat /\ owed \in Nat

Init ==
  /\ status = [i \in Issue |-> "todo"] /\ comments = [i \in Issue |-> [s \in State |-> 0]]
  /\ moved = {} /\ live \in BOOLEAN
  /\ outcome = [t \in Ticket |-> None] /\ attempts = [t \in Ticket |-> 0]
  /\ pending = None /\ skip = {} /\ sentinel = FALSE /\ marker = Nothing
  /\ pc = [c \in Caller |-> "idle"] /\ cmd = "next"
  /\ tickets = [c \in Caller |-> {}] /\ ids = [c \in Caller |-> {}]
  /\ pushed = [c \in Caller |-> Nothing] /\ todo = [c \in Caller |-> {}]
  /\ faults = 0 /\ owed = 0 /\ changes = [t \in Ticket |-> [s \in State |-> 0]]

At(c, step)   == pc[c] = step
Goto(c, step) == pc' = [pc EXCEPT ![c] = step]
(* A command that ends keeps nothing. *)
Ends(c) ==
  /\ Goto(c, "idle")
  /\ tickets' = [tickets EXCEPT ![c] = {}] /\ ids' = [ids EXCEPT ![c] = {}]
  /\ pushed' = [pushed EXCEPT ![c] = Nothing] /\ todo' = [todo EXCEPT ![c] = {}]
Fails    == faults < MaxFaults /\ faults' = faults + 1
FreeFail == Fails /\ UNCHANGED owed          \* costs nothing
Costly   == Fails /\ owed' = owed + 1

-----------------------------------------------------------------------------
(* the source *)

Call(c) ==
  /\ At(c, "idle") /\ Goto(c, "fetch")
  /\ IF \A d \in Caller : At(d, "idle") THEN UNCHANGED count ELSE Overlap /\ Costly
  /\ cmd' \in IF c = Operator THEN {cmd}
              ELSE IF pending = None THEN {"next"} ELSE {"next", "complete"}
  /\ UNCHANGED <<board, run, marker, own>>

(* The issues in an open status. *)
Open == {i \in Issue : status[i] # "done"}
Loads(c, ts, known) ==
  /\ At(c, "fetch") /\ Goto(c, IF c = Agent THEN "act" ELSE "push")
  /\ tickets' = [tickets EXCEPT ![c] = ts] /\ ids' = [ids EXCEPT ![c] = known]
  /\ UNCHANGED <<board, run, marker, cmd, pushed, todo>>

Fetch(c) == Loads(c, Open, Open) /\ UNCHANGED count

(* There is one query for each open status, one after the other: an issue that its people
   move meanwhile, from a status still to be asked for to one that was, is in no answer, and
   an answer with no issues in it, whatever it is, stands for an empty list. *)
FetchInPart(c) ==
  /\ Misses /\ FreeFail
  /\ \E missed \in SUBSET Open \ {{}} : Loads(c, Open \ missed, Open \ missed)

(* A call that fails, a page at its limit, no token: the local folder is used, and its
   issues are known if writing is enabled. *)
FallBack(c) ==
  /\ Loads(c, Local, IF live THEN Local \cap Issue ELSE {}) /\ FreeFail

-----------------------------------------------------------------------------
(* the loop: next_ticket and complete_ticket, as far as the board is concerned *)

Record(ts, s) ==
  /\ outcome' = [t \in Ticket |-> IF t \in ts THEN s ELSE outcome[t]]
  /\ changes' = [t \in Ticket |->
       IF t \in ts /\ outcome[t] # s THEN [changes[t] EXCEPT ![s] = @ + 1] ELSE changes[t]]

(* A run that has ended, or an agent that has died, starts anew. *)
Skip   == IF sentinel \/ pending # None THEN skip ELSE {}
Ready  == {t \in tickets[Agent] : outcome[t] \notin Terminal /\ t \notin Skip}
Parks  == {t \in Ready : t \in Ambiguous \/ attempts[t] >= Cap}
ToPush == Goto(Agent, "push")

(* next parks what it meets on its way to a ticket it can hand out. *)
HandOut ==
  /\ At(Agent, "act") /\ cmd = "next"
  /\ \E t \in Ready \ Parks, met \in SUBSET Parks :
       /\ Record(met, "parked")
       /\ pending' = t /\ attempts' = [attempts EXCEPT ![t] = @ + 1]
  /\ skip' = Skip /\ sentinel' = TRUE /\ Goto(Agent, "ask")
  /\ UNCHANGED <<board, marker, cmd, own, count>>

Drained ==
  /\ At(Agent, "act") /\ cmd = "next" /\ Ready \subseteq Parks
  /\ Record(Parks, "parked")
  /\ pending' = None /\ skip' = Skip /\ sentinel' = FALSE /\ ToPush
  /\ UNCHANGED <<board, attempts, marker, cmd, own, count>>

Complete ==
  /\ At(Agent, "act") /\ cmd = "complete" /\ pending \in tickets[Agent]
  /\ \E s \in Results :
       /\ Record({pending}, s)
       /\ skip' = IF s \in Terminal THEN skip ELSE skip \cup {pending}
  /\ pending' = None /\ ToPush
  /\ UNCHANGED <<board, attempts, sentinel, marker, cmd, own, count>>

(* Tickets were loaded and this one is not among them: its edits are reverted. *)
Vanished ==
  /\ At(Agent, "act") /\ cmd = "complete" /\ tickets[Agent] # {} /\ pending \notin tickets[Agent]
  /\ pending' = None /\ ToPush
  /\ UNCHANGED <<board, outcome, changes, attempts, skip, sentinel, marker, cmd, own, count>>

NoSource ==
  /\ At(Agent, "act") /\ cmd = "complete" /\ tickets[Agent] = {} /\ ToPush
  /\ UNCHANGED <<board, run, marker, cmd, own, count>>

-----------------------------------------------------------------------------
(* requests *)

Set(f, t, s) == [u \in DOMAIN f \cup {t} |-> IF u = t THEN s ELSE f[u]]

(* A PATCH or POST takes effect and is answered; or neither; or only the first. *)
Answered == UNCHANGED count
Refused  == FreeFail /\ UNCHANGED <<status, comments>>
Lost     == Costly

ToStatus(i, s) == status' = [status EXCEPT ![i] = s] /\ UNCHANGED comments
Comment(i, s)  == comments' = [comments EXCEPT ![i][s] = @ + 1] /\ UNCHANGED status

(* _push_in_progress_one *)
MayAsk == pending \in ids[Agent] /\ pending \notin DOMAIN marker
NoAsk ==
  /\ At(Agent, "ask") /\ ~MayAsk /\ Ends(Agent)
  /\ UNCHANGED <<board, run, marker, cmd, count>>

AskInProgress ==
  /\ At(Agent, "ask") /\ MayAsk
  /\ \/ /\ live /\ ToStatus(pending, "in_progress") /\ Answered
        /\ pushed' = [pushed EXCEPT ![Agent] = Set(marker, pending, "in_progress")]
        /\ Goto(Agent, "write") /\ UNCHANGED <<tickets, ids, todo>>
     \/ live /\ ToStatus(pending, "in_progress") /\ Lost /\ Ends(Agent)
     \/ (live => Refused) /\ (~live => UNCHANGED <<status, comments, count>>) /\ Ends(Agent)
  /\ UNCHANGED <<moved, live, run, marker, cmd>>

-----------------------------------------------------------------------------
(* _push_paperclip *)

StatusOf(s) == CASE s = "done" -> "done" [] s \in {"parked", "env"} -> "blocked"
                 [] OTHER -> None
HasComment(s) == s # "done"

(* Mutants: every outcome is pushed again; a ticket once pushed is done with. *)
UnpushedAll(c) == {<<i, outcome[i]>> : i \in {j \in ids[c] : outcome[j] # None}}
UnpushedNew(c) ==
  {<<i, outcome[i]>> : i \in {j \in ids[c] : outcome[j] # None /\ j \notin DOMAIN marker}}
Unpushed(c) ==
  {<<i, outcome[i]>> : i \in {j \in ids[c] :
     outcome[j] # None /\ ~(j \in DOMAIN marker /\ marker[j] = outcome[j])}}

Push(c) ==
  /\ At(c, "push")
  /\ IF ids[c] = {} THEN Ends(c)
     ELSE /\ pushed' = [pushed EXCEPT ![c] = marker]
          /\ todo' = [todo EXCEPT ![c] = IF live THEN Unpushed(c) ELSE {}]
          /\ Goto(c, "status") /\ UNCHANGED <<tickets, ids>>
  /\ UNCHANGED <<board, run, marker, cmd, count>>

(* One outcome at a time, in the order of the store. *)
Current(c) == CHOOSE p \in todo[c] : TRUE
Drop(c)    == todo' = [todo EXCEPT ![c] = @ \ {Current(c)}] /\ Goto(c, "status")
PushedIt(c) == pushed' = [pushed EXCEPT ![c] = Set(@, Current(c)[1], Current(c)[2])]

SetStatus(c) ==
  /\ At(c, "status") /\ todo[c] # {}
  /\ LET i == Current(c)[1]  s == Current(c)[2] IN
     \/ /\ StatusOf(s) = None /\ UNCHANGED <<status, comments>> /\ Answered
        /\ Goto(c, "comment") /\ UNCHANGED <<todo, pushed>>
     \/ /\ StatusOf(s) # None /\ ToStatus(i, StatusOf(s)) /\ Answered
        /\ IF HasComment(s) THEN Goto(c, "comment") /\ UNCHANGED <<todo, pushed>>
                            ELSE Drop(c) /\ PushedIt(c)
     \/ /\ StatusOf(s) # None /\ ((ToStatus(i, StatusOf(s)) /\ Lost) \/ Refused)
        /\ Drop(c) /\ UNCHANGED pushed
  /\ UNCHANGED <<moved, live, run, marker, cmd, tickets, ids>>

AddComment(c) ==
  /\ At(c, "comment") /\ Drop(c)
  /\ LET i == Current(c)[1]  s == Current(c)[2] IN
     \/ Comment(i, s) /\ Answered /\ PushedIt(c)
     \/ ((Comment(i, s) /\ Lost) \/ Refused) /\ UNCHANGED pushed
  /\ UNCHANGED <<moved, live, run, marker, cmd, tickets, ids>>

PushEnds(c) ==
  /\ At(c, "status") /\ todo[c] = {}
  /\ IF pushed[c] = Nothing THEN Ends(c) ELSE Goto(c, "write") /\ UNCHANGED own
  /\ UNCHANGED <<board, run, marker, cmd, count>>

(* Opening the file empties it. *)
WriteMarker(c) ==
  /\ At(c, "write") /\ Ends(c)
  /\ \/ marker' = pushed[c] /\ UNCHANGED count
     \/ marker' = Nothing /\ Costly
  /\ UNCHANGED <<board, run, cmd>>

-----------------------------------------------------------------------------
Kill(c) ==
  /\ pc[c] # "idle" /\ Ends(c) /\ Costly
  /\ marker' \in IF At(c, "write") THEN {marker, Nothing} ELSE {marker}
  /\ UNCHANGED <<board, run, cmd>>

(* The board's people, and whoever edits the config. *)
Move(i) ==
  /\ i \in Open \ moved /\ moved' = moved \cup {i}
  /\ \E s \in Theirs \ {status[i]} : status' = [status EXCEPT ![i] = s]
  /\ UNCHANGED <<comments, live, run, marker, pc, cmd, own, count>>

Enable ==
  /\ ~live /\ live' = TRUE /\ \A c \in Caller : At(c, "idle")
  /\ UNCHANGED <<status, comments, moved, run, marker, pc, cmd, own, count>>

Act == HandOut \/ Drained \/ Complete \/ Vanished \/ NoSource \/ NoAsk \/ AskInProgress
Step(c) == Fetch(c) \/ FetchInPart(c) \/ FallBack(c) \/ Push(c) \/ SetStatus(c) \/ AddComment(c)
             \/ PushEnds(c) \/ WriteMarker(c)
Next == \/ Act \/ Enable \/ \E i \in Issue : Move(i)
        \/ \E c \in Caller : Call(c) \/ Step(c) \/ Kill(c)
Spec == Init /\ [][Next]_vars

(* A command that runs goes on; report is called again, by hand or at the next run. *)
FairSpec == Spec /\ WF_vars(Act \/ Step(Agent)) /\ WF_vars(Call(Operator) \/ Step(Operator))

-----------------------------------------------------------------------------
(* The board shows what the store says of an issue that its people have left open: the
   comment, and the status unless they have set another. *)
Shown(i) ==
  \/ outcome[i] = None \/ (i \in moved /\ i \notin Open)
  \/ LET s == outcome[i] IN
     /\ StatusOf(s) # None /\ i \notin moved => status[i] = StatusOf(s)
     /\ HasComment(s) => comments[i][s] > 0

(* Once writing is enabled, every recorded outcome reaches the board, whatever failed, was
   killed or was only previewed before. *)
BoardCatchesUp == live ~> (\A i \in Issue : Shown(i))

(* A new outcome is commented on once, and once more for a lost answer, a kill or a marker
   that could not be written, at most: nothing else, no resume and no report, repeats a
   comment. *)
EachCommentPaidFor ==
  \A i \in Issue, s \in State : comments[i][s] <= changes[i][s] + owed

(* The work of a ticket in flight is reverted only if the ticket is gone. *)
RevertedOnlyIfGone == [][Vanished => pending \notin Open]_vars
=============================================================================
