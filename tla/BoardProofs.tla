---------------------------- MODULE BoardProofs ----------------------------
(***************************************************************************)
(* What the board is told stays within what has happened: for any issues,  *)
(* any results, any number of failures and kills, no comment is repeated   *)
(* that a failure has not paid for, as long as commands do not overlap.    *)
(***************************************************************************)
EXTENDS Board, TLAPS

-----------------------------------------------------------------------------
(* Types *)

LEMMA NothingTyped == Nothing \in Marker /\ DOMAIN Nothing = {}
BY DEF Nothing, Marker, Marked

LEMMA SetIs ==
  ASSUME NEW f \in Marker, NEW t \in Issue, NEW s \in Marked
  PROVE  Set(f, t, s) \in Marker
<1>1. PICK issues \in SUBSET Issue : f \in [issues -> Marked]
  BY DEF Marker
<1>2. Set(f, t, s) \in [issues \cup {t} -> Marked]
  BY <1>1 DEF Set
<1> QED BY <1>2 DEF Marker

LEMMA CurrentIs ==
  ASSUME NEW c \in Caller, TypeOK, todo[c] # {}
  PROVE  Current(c) \in todo[c] /\ Current(c) \in Issue \X State
BY DEF Current, TypeOK, OwnOK

LEMMA UnpushedTyped ==
  ASSUME NEW c \in Caller, TypeOK
  PROVE  Unpushed(c) \in SUBSET (Issue \X State)
BY DEF Unpushed, TypeOK, RunOK, OwnOK, Ticket

LEMMA EndsTyped == ASSUME OwnOK, NEW c \in Caller, Ends(c) PROVE OwnOK'
BY NothingTyped DEF OwnOK, Ends, Goto, Steps

LEMMA RecordTyped ==
  ASSUME RunOK, NEW ts, NEW s \in State, Record(ts, s)
  PROVE  outcome' \in [Ticket -> State \cup {None}] /\ changes' \in [Ticket -> [State -> Nat]]
<1>1. \A t \in Ticket : [changes[t] EXCEPT ![s] = @ + 1] \in [State -> Nat]
  BY DEF RunOK
<1> QED BY <1>1 DEF RunOK, Record

LEMMA StatusTyped ==
  ASSUME BoardOK, NEW i \in Issue, NEW s \in Status, ToStatus(i, s)
  PROVE  status' \in [Issue -> Status] /\ comments' \in [Issue -> [State -> Nat]]
BY DEF BoardOK, ToStatus

LEMMA CommentTyped ==
  ASSUME BoardOK, NEW i \in Issue, NEW s \in State, Comment(i, s)
  PROVE  status' \in [Issue -> Status] /\ comments' \in [Issue -> [State -> Nat]]
BY DEF BoardOK, Comment

LEMMA StatusOfTyped == ASSUME NEW s, StatusOf(s) # None PROVE StatusOf(s) \in Status
BY DEF StatusOf, Status

(* What is counted: nothing, or one more failure, which may cost a comment. *)
LEMMA CountTyped ==
  ASSUME faults \in Nat, owed \in Nat, Answered \/ FreeFail \/ Costly
  PROVE  faults' \in Nat /\ owed' \in Nat
BY DEF Answered, FreeFail, Costly, Fails, count

LEMMA BInit == Init => TypeOK
<1> SUFFICES ASSUME Init PROVE TypeOK
  OBVIOUS
<1>1. BoardOK
  BY DEF Init, BoardOK, Status
<1>2. RunOK
  BY DEF Init, RunOK
<1>3. OwnOK
  BY NothingTyped DEF Init, OwnOK, Steps
<1> QED BY <1>1, <1>2, <1>3, NothingTyped DEF Init, TypeOK

(* One step keeps the types: the board ... *)
LEMMA BoardTyped == ASSUME TypeOK, [Next]_vars PROVE BoardOK'
<1> USE DEF TypeOK
<1>1. CASE UNCHANGED board
  BY <1>1 DEF board, BoardOK
<1>2. CASE AskInProgress
  <2>1. pending \in Issue
    BY <1>2 DEF AskInProgress, MayAsk, OwnOK, Caller
  <2>2. status' \in [Issue -> Status] /\ comments' \in [Issue -> [State -> Nat]]
    <3>1. CASE ToStatus(pending, "in_progress")
      BY <3>1, <2>1, StatusTyped DEF Status
    <3>2. CASE UNCHANGED <<status, comments>>
      BY <3>2 DEF BoardOK
    <3> QED BY <1>2, <3>1, <3>2 DEF AskInProgress, Refused
  <2> QED BY <1>2, <2>2 DEF AskInProgress, BoardOK
<1>3. ASSUME NEW c \in Caller, SetStatus(c) PROVE BoardOK'
  <2>1. Current(c) \in Issue \X State
    BY <1>3, CurrentIs DEF SetStatus
  <2>2. status' \in [Issue -> Status] /\ comments' \in [Issue -> [State -> Nat]]
    <3>1. CASE UNCHANGED <<status, comments>>
      BY <3>1 DEF BoardOK
    <3>2. CASE /\ StatusOf(Current(c)[2]) # None
               /\ ToStatus(Current(c)[1], StatusOf(Current(c)[2]))
      BY <2>1, <3>2, StatusTyped, StatusOfTyped
    <3> QED BY <1>3, <3>1, <3>2 DEF SetStatus, Refused
  <2> QED BY <1>3, <2>2 DEF SetStatus, BoardOK
<1>4. ASSUME NEW c \in Caller, AddComment(c) PROVE BoardOK'
  <2>1. Current(c) \in Issue \X State
    BY <1>4, CurrentIs DEF AddComment, At, OwnOK
  <2>2. status' \in [Issue -> Status] /\ comments' \in [Issue -> [State -> Nat]]
    <3>1. CASE UNCHANGED <<status, comments>>
      BY <3>1 DEF BoardOK
    <3>2. CASE Comment(Current(c)[1], Current(c)[2])
      BY <2>1, <3>2, CommentTyped
    <3> QED BY <1>4, <3>1, <3>2 DEF AddComment, Refused
  <2> QED BY <1>4, <2>2 DEF AddComment, BoardOK
<1>5. CASE Enable
  BY <1>5 DEF Enable, BoardOK
<1>6. ASSUME NEW i \in Issue, Move(i) PROVE BoardOK'
  <2>1. PICK s \in Status : status' = [status EXCEPT ![i] = s]
    BY <1>6, BoardAssumption DEF Move
  <2> QED BY <1>6, <2>1 DEF Move, BoardOK
<1>7. CASE HandOut \/ Drained \/ Complete \/ Vanished \/ NoSource \/ NoAsk
  BY <1>1, <1>7 DEF HandOut, Drained, Complete, Vanished, NoSource, NoAsk
<1>8. ASSUME NEW c \in Caller,
             Call(c) \/ Fetch(c) \/ FetchInPart(c) \/ FallBack(c) \/ Push(c) \/ PushEnds(c)
             \/ WriteMarker(c) \/ Kill(c)
      PROVE  BoardOK'
  BY <1>1, <1>8 DEF Call, Fetch, FetchInPart, FallBack, Loads, Push, PushEnds, WriteMarker, Kill
<1>9. CASE UNCHANGED vars
  BY <1>1, <1>9 DEF vars
<1> QED BY <1>2, <1>3, <1>4, <1>5, <1>6, <1>7, <1>8, <1>9 DEF Next, Act, Step

(* ... the run ... *)
LEMMA RunTyped == ASSUME TypeOK, [Next]_vars PROVE RunOK'
<1> USE DEF TypeOK
<1>1. CASE UNCHANGED run
  BY <1>1 DEF run, RunOK
<1>2. skip \in SUBSET Ticket /\ Skip \in SUBSET Ticket
  BY DEF Skip, RunOK
<1>3. CASE HandOut
  <2>1. PICK t \in Ready \ Parks, met \in SUBSET Parks :
          /\ Record(met, "parked")
          /\ pending' = t /\ attempts' = [attempts EXCEPT ![t] = @ + 1]
    BY <1>3 DEF HandOut
  <2>2. t \in Ticket
    BY DEF Ready, OwnOK, Caller
  <2>3. outcome' \in [Ticket -> State \cup {None}] /\ changes' \in [Ticket -> [State -> Nat]]
    BY <2>1, RecordTyped DEF State
  <2>4. attempts' \in [Ticket -> Nat]
    BY <2>1, <2>2 DEF RunOK
  <2>5. skip' = Skip /\ sentinel' = TRUE
    BY <1>3 DEF HandOut
  <2> QED BY <1>2, <2>1, <2>2, <2>3, <2>4, <2>5 DEF RunOK
<1>4. CASE Drained
  <2>1. outcome' \in [Ticket -> State \cup {None}] /\ changes' \in [Ticket -> [State -> Nat]]
    BY <1>4, RecordTyped DEF Drained, State
  <2> QED BY <1>2, <1>4, <2>1 DEF Drained, RunOK
<1>5. CASE Complete
  <2>1. PICK s \in Results :
          /\ Record({pending}, s)
          /\ skip' = IF s \in Terminal THEN skip ELSE skip \cup {pending}
    BY <1>5 DEF Complete
  <2>2. outcome' \in [Ticket -> State \cup {None}] /\ changes' \in [Ticket -> [State -> Nat]]
    BY <2>1, RecordTyped, BoardAssumption
  <2>3. pending \in Ticket
    BY <1>5 DEF Complete, OwnOK, Caller
  <2> QED BY <1>2, <1>5, <2>1, <2>2, <2>3 DEF Complete, RunOK
<1>6. CASE Vanished
  BY <1>6 DEF Vanished, RunOK
<1>7. CASE NoSource \/ NoAsk \/ AskInProgress \/ Enable \/ UNCHANGED vars
  BY <1>1, <1>7 DEF NoSource, NoAsk, AskInProgress, Enable, vars
<1>8. ASSUME NEW c \in Caller, Call(c) \/ Step(c) \/ Kill(c) PROVE RunOK'
  BY <1>1, <1>8 DEF Call, Step, Fetch, FetchInPart, FallBack, Loads, Push, SetStatus, AddComment,
                    PushEnds,
                    WriteMarker, Kill
<1>9. ASSUME NEW i \in Issue, Move(i) PROVE RunOK'
  BY <1>1, <1>9 DEF Move
<1> QED BY <1>3, <1>4, <1>5, <1>6, <1>7, <1>8, <1>9 DEF Next, Act

(* ... what a command keeps in memory ... *)
LEMMA OwnTyped == ASSUME TypeOK, [Next]_vars PROVE OwnOK'
<1> USE DEF TypeOK
<1>0. Agent \in Caller
  BY DEF Caller
<1>1. CASE UNCHANGED <<pc, own>>
  BY <1>1 DEF own, OwnOK
<1>2. ASSUME NEW c \in Caller, NEW step \in Steps \ {"comment"}, Goto(c, step), UNCHANGED own
      PROVE  OwnOK'
  BY <1>2 DEF Goto, own, OwnOK
<1>3. CASE HandOut \/ Drained \/ Complete \/ Vanished \/ NoSource
  BY <1>0, <1>2, <1>3 DEF HandOut, Drained, Complete, Vanished, NoSource, ToPush, Steps
<1>4. CASE NoAsk
  BY <1>0, <1>4, EndsTyped DEF NoAsk
<1>5. CASE AskInProgress
  <2>1. pending \in Issue
    BY <1>5, <1>0 DEF AskInProgress, MayAsk, OwnOK
  <2>2. Set(marker, pending, "in_progress") \in Marker
    BY <2>1, SetIs DEF Marked
  <2>3. CASE Ends(Agent)
    BY <1>0, <2>3, EndsTyped
  <2>4. CASE /\ pushed' = [pushed EXCEPT ![Agent] = Set(marker, pending, "in_progress")]
             /\ Goto(Agent, "write") /\ UNCHANGED <<tickets, ids, todo>>
    BY <1>0, <2>2, <2>4 DEF OwnOK, Goto, Steps
  <2> QED BY <1>5, <2>3, <2>4 DEF AskInProgress
<1>6. ASSUME NEW c \in Caller, Call(c) PROVE OwnOK'
  BY <1>2, <1>6 DEF Call, Steps
<1>7. ASSUME NEW c \in Caller, Fetch(c) \/ FetchInPart(c) \/ FallBack(c) PROVE OwnOK'
  <2>1. PICK ts \in SUBSET Ticket, known \in SUBSET Issue : Loads(c, ts, known)
    BY <1>7 DEF Fetch, FetchInPart, FallBack, Open, Ticket
  <2> QED BY <2>1 DEF OwnOK, Loads, Goto, Steps
<1>8. ASSUME NEW c \in Caller, Push(c) PROVE OwnOK'
  <2>1. CASE Ends(c)
    BY <2>1, EndsTyped
  <2>2. CASE /\ pushed' = [pushed EXCEPT ![c] = marker]
             /\ todo' = [todo EXCEPT ![c] = IF live THEN Unpushed(c) ELSE {}]
             /\ Goto(c, "status") /\ UNCHANGED <<tickets, ids>>
    BY <2>2, UnpushedTyped DEF OwnOK, Goto, Steps
  <2> QED BY <1>8, <2>1, <2>2 DEF Push
<1>9. ASSUME NEW c \in Caller, Drop(c), UNCHANGED pushed \/ PushedIt(c), todo[c] # {},
             UNCHANGED <<tickets, ids>>
      PROVE  OwnOK'
  <2>1. Current(c)[1] \in Issue /\ Current(c)[2] \in Marked
    BY <1>9, CurrentIs DEF Marked
  <2>2. pushed[c] \in Marker
    BY DEF OwnOK
  <2>3. Set(pushed[c], Current(c)[1], Current(c)[2]) \in Marker
    <3>1. \A f \in Marker, t \in Issue, s \in Marked : Set(f, t, s) \in Marker
      BY SetIs
    <3> QED BY <2>1, <2>2, <3>1, Zenon
  <2>4. pushed' \in [Caller -> Marker]
    BY <1>9, <2>3 DEF PushedIt, OwnOK
  <2>5. todo' = [todo EXCEPT ![c] = @ \ {Current(c)}] /\ pc' = [pc EXCEPT ![c] = "status"]
    BY <1>9 DEF Drop, Goto
  <2>6. todo' \in [Caller -> SUBSET (Issue \X State)]
    BY <2>5 DEF OwnOK
  <2>7. pc' \in [Caller -> Steps]
    BY <2>5 DEF OwnOK, Steps
  <2>8. \A d \in Caller : pc'[d] = "comment" => todo'[d] # {}
    BY <2>5 DEF OwnOK
  <2> QED BY <1>9, <2>4, <2>6, <2>7, <2>8 DEF OwnOK
<1>10. ASSUME NEW c \in Caller, SetStatus(c) PROVE OwnOK'
  <2>1. CASE Goto(c, "comment") /\ UNCHANGED <<todo, pushed>>
    BY <1>10, <2>1 DEF SetStatus, Goto, Steps, OwnOK
  <2>2. CASE Drop(c) /\ (UNCHANGED pushed \/ PushedIt(c))
    BY <1>9, <1>10, <2>2 DEF SetStatus
  <2> QED BY <1>10, <2>1, <2>2 DEF SetStatus
<1>11. ASSUME NEW c \in Caller, AddComment(c) PROVE OwnOK'
  BY <1>9, <1>11 DEF AddComment, At, OwnOK
<1>12. ASSUME NEW c \in Caller, PushEnds(c) PROVE OwnOK'
  <2>1. CASE Ends(c)
    BY <2>1, EndsTyped
  <2>2. CASE Goto(c, "write") /\ UNCHANGED own
    BY <1>2, <2>2 DEF Steps
  <2> QED BY <1>12, <2>1, <2>2 DEF PushEnds
<1>13. ASSUME NEW c \in Caller, WriteMarker(c) \/ Kill(c) PROVE OwnOK'
  BY <1>13, EndsTyped DEF WriteMarker, Kill
<1>14. CASE Enable \/ UNCHANGED vars \/ \E i \in Issue : Move(i)
  BY <1>1, <1>14 DEF Enable, Move, vars, own
<1> QED BY <1>3, <1>4, <1>5, <1>6, <1>7, <1>8, <1>10, <1>11, <1>12, <1>13, <1>14
        DEF Next, Act, Step
(* ... and the rest. *)
LEMMA BTyping == ASSUME TypeOK, [Next]_vars PROVE TypeOK'
<1> USE DEF TypeOK
<1>1. BoardOK' /\ RunOK' /\ OwnOK'
  BY BoardTyped, RunTyped, OwnTyped
<1>2. marker' \in Marker
  <2>1. ASSUME NEW c \in Caller, WriteMarker(c) \/ Kill(c) PROVE marker' \in Marker
    BY <2>1, NothingTyped DEF WriteMarker, Kill, OwnOK
  <2>2. CASE UNCHANGED marker
    BY <2>2
  <2> QED BY <2>1, <2>2 DEF Next, Act, Step, HandOut, Drained, Complete, Vanished, NoSource, NoAsk,
            AskInProgress, Enable, Move, Call, Fetch, FetchInPart, FallBack, Loads, Push,
            SetStatus, AddComment,
            PushEnds, vars
<1>3. cmd' \in {"next", "complete"}
  <2>1. CASE UNCHANGED cmd
    BY <2>1
  <2>2. ASSUME NEW c \in Caller, Call(c) PROVE cmd' \in {"next", "complete"}
    BY <2>2 DEF Call
  <2> QED BY <2>1, <2>2 DEF Next, Act, Step, HandOut, Drained, Complete, Vanished, NoSource, NoAsk,
            AskInProgress, Enable, Move, Kill, Fetch, FetchInPart, FallBack, Loads, Push,
            SetStatus, AddComment,
            PushEnds, WriteMarker, vars
<1>4. faults' \in Nat /\ owed' \in Nat
  <2>1. Answered \/ FreeFail \/ Costly
    BY DEF Next, Act, Step, HandOut, Drained, Complete, Vanished, NoSource, NoAsk, AskInProgress,
           Enable, Move, Kill, Call, Fetch, FetchInPart, FallBack, Push, SetStatus, AddComment,
           PushEnds,
           WriteMarker, Refused, Lost, Answered, vars, count
  <2> QED BY <2>1, CountTyped
<1> QED BY <1>1, <1>2, <1>3, <1>4

(* Everything the commands read back has been written by one of them, wherever they fail,
   lose an answer, are killed or overlap. *)
THEOREM BoardTyping == Spec => []TypeOK
<1>1. TypeOK /\ [Next]_vars => TypeOK'
  BY BTyping
<1> QED BY BInit, <1>1, PTL DEF Spec

-----------------------------------------------------------------------------
(* Comments *)

(* One command at a time. *)
Alone == \A c, d \in Caller : c # d => pc[c] = "idle" \/ pc[d] = "idle"

Pushing == {"status", "comment", "write"}
Has(f, i, s) == i \in DOMAIN f /\ f[i] = s

(* Is state s of issue i taken for pushed?  A command that pushes goes by its own copy of
   the marker, and whoever comes next by the file. *)
Taken(p, w, m, i, s) ==
  IF \E c \in Caller : p[c] \in Pushing
  THEN \E c \in Caller : p[c] \in Pushing /\ Has(w[c], i, s)
  ELSE Has(m, i, s)

(* A comment that is still to come. *)
Due(i, s) == outcome[i] = s /\ ~Taken(pc, pushed, marker, i, s)

(* What has been commented on and what is still to come is paid for. *)
Paid == \A i \in Issue, s \in State :
  comments[i][s] + (IF Due(i, s) THEN 1 ELSE 0) <= changes[i][s] + owed

(* What is on the list is due, and the copy of the marker has lost nothing. *)
OnTheList == \A c \in Caller :
  /\ pc[c] \in {"status", "comment"} =>
       \A p \in todo[c] : outcome[p[1]] = p[2] /\ ~Has(pushed[c], p[1], p[2])
  /\ pc[c] \in Pushing => \A i \in DOMAIN marker : i \in DOMAIN pushed[c]

PInv == TypeOK /\ Alone /\ OnTheList /\ Paid

(* A failure that costs a comment pays for one ... *)
LEMMA PaidByFailure ==
  ASSUME TypeOK, Paid, Costly, comments' = comments, changes' = changes
  PROVE  Paid'
<1> SUFFICES ASSUME NEW i \in Issue, NEW s \in State
             PROVE  comments'[i][s] + (IF Due(i, s)' THEN 1 ELSE 0) <= changes'[i][s] + owed'
  BY DEF Paid
<1>1. comments[i][s] \in Nat /\ changes[i][s] \in Nat /\ owed \in Nat
  BY DEF TypeOK, BoardOK, RunOK, Ticket
<1>2. comments[i][s] <= changes[i][s] + owed
  BY <1>1 DEF Paid
<1> QED BY <1>1, <1>2 DEF Costly, Fails

(* ... and a step that makes nothing due needs none. *)
LEMMA PaidStill ==
  ASSUME TypeOK, Paid, owed' = owed, comments' = comments, changes' = changes,
         \A i \in Issue, s \in State : Due(i, s)' => Due(i, s)
  PROVE  Paid'
<1> SUFFICES ASSUME NEW i \in Issue, NEW s \in State
             PROVE  comments'[i][s] + (IF Due(i, s)' THEN 1 ELSE 0) <= changes'[i][s] + owed'
  BY DEF Paid
<1>1. comments[i][s] \in Nat /\ changes[i][s] \in Nat /\ owed \in Nat
  BY DEF TypeOK, BoardOK, RunOK, Ticket
<1>2. comments[i][s] + (IF Due(i, s) THEN 1 ELSE 0) <= changes[i][s] + owed
  BY DEF Paid
<1> QED BY <1>1, <1>2

(* What a step of one caller means for what is due, when the others are idle. *)
LEMMA Acting ==
  ASSUME TypeOK, NEW c \in Caller, \A d \in Caller : d # c => pc[d] = "idle", NEW x, Goto(c, x)
  PROVE  /\ Alone' /\ pc'[c] = x /\ (\A d \in Caller : d # c => pc'[d] = "idle")
         /\ \A i \in Issue, s \in State :
              /\ Due(i, s) <=> /\ outcome[i] = s
                               /\ ~IF pc[c] \in Pushing THEN Has(pushed[c], i, s)
                                                        ELSE Has(marker, i, s)
              /\ Due(i, s)' <=> /\ outcome'[i] = s
                                /\ ~IF x \in Pushing THEN Has(pushed'[c], i, s)
                                                     ELSE Has(marker', i, s)
<1>1. pc'[c] = x /\ \A d \in Caller : d # c => pc'[d] = "idle"
  BY DEF Goto, TypeOK, OwnOK
<1>2. Alone'
  BY <1>1 DEF Alone
<1>3. ASSUME NEW i \in Issue, NEW s \in State
      PROVE  /\ Taken(pc, pushed, marker, i, s) <=>
                  IF pc[c] \in Pushing THEN Has(pushed[c], i, s) ELSE Has(marker, i, s)
             /\ Taken(pc', pushed', marker', i, s) <=>
                  IF pc'[c] \in Pushing THEN Has(pushed'[c], i, s) ELSE Has(marker', i, s)
  <2>1. \A d \in Caller : d # c => pc[d] = "idle"
    OBVIOUS
  <2> QED BY <1>1, <2>1 DEF Taken, Pushing
<1> QED BY <1>1, <1>2, <1>3 DEF Due

LEMMA Others ==
  ASSUME Alone, NEW c \in Caller, pc[c] # "idle"
  PROVE  \A d \in Caller : d # c => pc[d] = "idle"
BY DEF Alone

Kept == Alone' /\ OnTheList' /\ Paid'

(* The steps that neither record, push nor fail. *)
LEMMA QuietKept ==
  ASSUME PInv, NEW c \in Caller, \A d \in Caller : d # c => pc[d] = "idle",
         NEW x \in {"idle", "fetch", "act", "ask", "push"}, Goto(c, x),
         pc[c] \notin Pushing,
         UNCHANGED <<comments, outcome, changes, marker, owed>>
  PROVE  Kept
<1> USE DEF PInv
<1>1. x \notin Pushing /\ x \notin {"status", "comment"}
  BY DEF Pushing
<1>2. \A i \in Issue, s \in State : Due(i, s)' <=> Due(i, s)
  BY <1>1, Acting
<1>3. Paid'
  BY <1>2, PaidStill
<1>4. Alone' /\ OnTheList'
  BY <1>1, Acting DEF OnTheList, Pushing
<1> QED BY <1>3, <1>4 DEF Kept

(* A command that ends or goes on after a costly failure. *)
LEMMA CostlyKept ==
  ASSUME PInv, NEW c \in Caller, \A d \in Caller : d # c => pc[d] = "idle",
         Goto(c, "idle"), UNCHANGED <<comments, outcome, changes>>, Costly
  PROVE  Kept
<1> USE DEF PInv
<1>1. Paid'
  BY PaidByFailure
<1>2. Alone' /\ OnTheList'
  BY Acting DEF OnTheList, Pushing
<1> QED BY <1>1, <1>2 DEF Kept

(* A new outcome makes one comment due, and is counted. *)
LEMMA RecordKept ==
  ASSUME PInv, NEW c \in Caller, pc[c] = "act", NEW x \in {"ask", "push"}, Goto(c, x),
         NEW ts, NEW st \in State, Record(ts, st), UNCHANGED <<comments, marker, owed>>
  PROVE  Kept
<1> USE DEF PInv
<1>1. x \notin Pushing /\ x \notin {"status", "comment"} /\ pc[c] \notin Pushing
  BY DEF Pushing
<1>2. \A d \in Caller : d # c => pc[d] = "idle"
  BY Others
<1>3. ASSUME NEW i \in Issue, NEW s \in State
      PROVE  comments'[i][s] + (IF Due(i, s)' THEN 1 ELSE 0) <= changes'[i][s] + owed'
  <2>1. /\ comments[i][s] \in Nat /\ changes[i][s] \in Nat /\ owed \in Nat
        /\ i \in Ticket /\ changes[i] \in [State -> Nat]
    BY DEF TypeOK, BoardOK, RunOK, Ticket
  <2>2. comments[i][s] + (IF Due(i, s) THEN 1 ELSE 0) <= changes[i][s] + owed
    BY DEF Paid
  <2>3. /\ Due(i, s) <=> outcome[i] = s /\ ~Has(marker, i, s)
        /\ Due(i, s)' <=> outcome'[i] = s /\ ~Has(marker, i, s)
    BY <1>1, <1>2, Acting
  <2>4. CASE i \in ts /\ outcome[i] # st
    <3>1. outcome'[i] = st /\ changes'[i] = [changes[i] EXCEPT ![st] = @ + 1]
      BY <2>1, <2>4 DEF Record
    <3>2. CASE s = st
      <4>1. changes'[i][s] = changes[i][s] + 1
        BY <2>1, <3>1, <3>2
      <4> QED BY <2>1, <2>2, <4>1
    <3>3. CASE s # st
      <4>1. changes'[i][s] = changes[i][s] /\ ~Due(i, s)'
        BY <2>1, <2>3, <3>1, <3>3
      <4> QED BY <2>1, <2>2, <4>1
    <3> QED BY <3>2, <3>3
  <2>5. CASE ~(i \in ts /\ outcome[i] # st)
    <3>1. outcome'[i] = outcome[i] /\ changes'[i] = changes[i]
      BY <2>1, <2>5 DEF Record
    <3> QED BY <2>1, <2>2, <2>3, <3>1
  <2> QED BY <2>4, <2>5
<1>4. Alone' /\ OnTheList'
  BY <1>1, <1>2, Acting DEF OnTheList, Pushing
<1> QED BY <1>3, <1>4 DEF Kept, Paid

(* Setting one entry of a marker leaves the others. *)
LEMMA HasSet ==
  ASSUME NEW f, NEW t, NEW r
  PROVE  /\ \A i, s : Has(Set(f, t, r), i, s) <=> (i = t /\ s = r) \/ (i # t /\ Has(f, i, s))
         /\ \A i \in DOMAIN f : i \in DOMAIN Set(f, t, r)
<1>1. ASSUME NEW i, NEW s
      PROVE  Has(Set(f, t, r), i, s) <=> (i = t /\ s = r) \/ (i # t /\ Has(f, i, s))
  <2>1. CASE i = t
    BY <2>1 DEF Has, Set
  <2>2. CASE i # t /\ i \in DOMAIN f
    BY <2>2 DEF Has, Set
  <2>3. CASE i # t /\ i \notin DOMAIN f
    BY <2>3 DEF Has, Set
  <2> QED BY <2>1, <2>2, <2>3
<1> QED BY <1>1 DEF Set

(* The list is made: what is on it is due. *)
LEMMA PushKept == ASSUME PInv, NEW c \in Caller, Push(c) PROVE Kept
<1> USE DEF PInv, board, run, count
<1>1. pc[c] = "push" /\ \A d \in Caller : d # c => pc[d] = "idle"
  BY Others DEF Push, At
<1>2. CASE ids[c] = {}
  BY <1>1, <1>2, QuietKept DEF Push, Ends, Pushing
<1>3. CASE ids[c] # {}
  <2>1. /\ Goto(c, "status") /\ pushed'[c] = marker
        /\ \A p \in todo'[c] : p \in Unpushed(c)
    BY <1>3 DEF Push, TypeOK, OwnOK
  <2>2. \A i \in Issue, s \in State : Due(i, s)' <=> Due(i, s)
    BY <1>1, <2>1, Acting DEF Push, Pushing
  <2>3. Paid'
    BY <2>2, PaidStill DEF Push
  <2>4. \A p \in todo'[c] : outcome'[p[1]] = p[2] /\ ~Has(pushed'[c], p[1], p[2])
    BY <2>1 DEF Push, Unpushed, Has
  <2>5. Alone' /\ OnTheList'
    BY <1>1, <2>1, <2>4, Acting DEF OnTheList, Pushing, Push
  <2> QED BY <2>3, <2>5 DEF Kept
<1> QED BY <1>2, <1>3

(* An entry leaves the list, pushed or not. *)
LEMMA DropKept ==
  ASSUME PInv, NEW c \in Caller, pc[c] \in {"status", "comment"}, todo[c] # {}, Drop(c),
         UNCHANGED <<outcome, marker>>, UNCHANGED pushed \/ PushedIt(c)
  PROVE  /\ Alone' /\ OnTheList' /\ Due(Current(c)[1], Current(c)[2])
         /\ UNCHANGED pushed => \A i \in Issue, s \in State : Due(i, s)' <=> Due(i, s)
         /\ PushedIt(c) => \A i \in Issue, s \in State :
              Due(i, s)' <=> Due(i, s) /\ <<i, s>> # Current(c)
<1> DEFINE ci == Current(c)[1]
           cs == Current(c)[2]
<1> USE DEF PInv
<1>1. Current(c) \in todo[c] /\ ci \in Issue /\ cs \in State /\ Current(c) = <<ci, cs>>
  BY CurrentIs
<1>2. \A d \in Caller : d # c => pc[d] = "idle"
  BY Others
<1>3. /\ Goto(c, "status") /\ todo'[c] = todo[c] \ {Current(c)}
      /\ pc[c] \in Pushing /\ "status" \in Pushing
  BY DEF Drop, TypeOK, OwnOK, Pushing
<1>4. outcome[ci] = cs /\ ~Has(pushed[c], ci, cs)
  BY <1>1 DEF OnTheList
<1>5. Due(ci, cs)
  BY <1>1, <1>2, <1>3, <1>4, Acting
<1>6. ASSUME PushedIt(c)
      PROVE  /\ \A i \in Issue, s \in State :
                  Has(pushed'[c], i, s) <=>
                    (i = ci /\ s = cs) \/ (i # ci /\ Has(pushed[c], i, s))
             /\ \A i \in DOMAIN pushed[c] : i \in DOMAIN pushed'[c]
  <2>1. pushed'[c] = Set(pushed[c], ci, cs)
    BY <1>6 DEF PushedIt, TypeOK, OwnOK
  <2>2. /\ \A i, s : Has(Set(pushed[c], ci, cs), i, s) <=>
                       (i = ci /\ s = cs) \/ (i # ci /\ Has(pushed[c], i, s))
        /\ \A i \in DOMAIN pushed[c] : i \in DOMAIN Set(pushed[c], ci, cs)
    BY HasSet
  <2> HIDE DEF ci, cs
  <2> QED BY <2>1, <2>2
<1>7. ASSUME UNCHANGED pushed, NEW i \in Issue, NEW s \in State PROVE Due(i, s)' <=> Due(i, s)
  BY <1>2, <1>3, <1>7, Acting
<1>8. ASSUME PushedIt(c), NEW i \in Issue, NEW s \in State
      PROVE  Due(i, s)' <=> Due(i, s) /\ <<i, s>> # Current(c)
  <2>1. /\ Due(i, s) <=> outcome[i] = s /\ ~Has(pushed[c], i, s)
        /\ Due(i, s)' <=> outcome[i] = s /\ ~Has(pushed'[c], i, s)
    BY <1>2, <1>3, Acting
  <2>2. Has(pushed'[c], i, s) <=>
                    (i = ci /\ s = cs) \/ (i # ci /\ Has(pushed[c], i, s))
    BY <1>6, <1>8
  <2>3. <<i, s>> # Current(c) <=> i # ci \/ s # cs
    BY <1>1
  <2> HIDE DEF ci, cs
  <2> QED BY <1>4, <2>1, <2>2, <2>3
<1>9. \A p \in todo'[c] : outcome'[p[1]] = p[2] /\ ~Has(pushed'[c], p[1], p[2])
  <2> SUFFICES ASSUME NEW p \in todo'[c]
               PROVE  outcome[p[1]] = p[2] /\ ~Has(pushed'[c], p[1], p[2])
    OBVIOUS
  <2>1. /\ p \in todo[c] /\ p # Current(c) /\ p[1] \in Issue /\ p[2] \in State
        /\ p = <<p[1], p[2]>>
    BY <1>3 DEF TypeOK, OwnOK
  <2>2. outcome[p[1]] = p[2] /\ ~Has(pushed[c], p[1], p[2])
    BY <2>1 DEF OnTheList
  <2>3. p[1] # ci
    BY <1>1, <1>4, <2>1, <2>2
  <2>4. PushedIt(c) => (Has(pushed'[c], p[1], p[2]) <=> Has(pushed[c], p[1], p[2]))
    BY <1>6, <2>1, <2>3
  <2> QED BY <2>2, <2>4
<1>10. \A i \in DOMAIN marker' : i \in DOMAIN pushed'[c]
  BY <1>3, <1>6 DEF OnTheList
<1>11. Alone' /\ OnTheList'
  BY <1>2, <1>3, <1>9, <1>10, Acting DEF OnTheList, Pushing
<1> QED BY <1>5, <1>7, <1>8, <1>11

LEMMA SetStatusKept == ASSUME PInv, NEW c \in Caller, SetStatus(c) PROVE Kept
<1> USE DEF PInv, run, count
<1>1. /\ pc[c] = "status" /\ todo[c] # {} /\ UNCHANGED <<outcome, changes, marker>>
      /\ comments' = comments
  BY DEF SetStatus, At, ToStatus, Refused
<1>2. \A d \in Caller : d # c => pc[d] = "idle"
  BY <1>1, Others
<1>3. CASE Goto(c, "comment") /\ UNCHANGED <<todo, pushed>> /\ UNCHANGED owed
  <2>1. \A i \in Issue, s \in State : Due(i, s)' <=> Due(i, s)
    BY <1>1, <1>2, <1>3, Acting DEF Pushing
  <2>2. Alone' /\ OnTheList'
    BY <1>1, <1>2, <1>3, Acting DEF OnTheList, Pushing
  <2> QED BY <1>1, <1>3, <2>1, <2>2, PaidStill DEF Kept
<1>4. CASE Drop(c) /\ (UNCHANGED pushed \/ PushedIt(c)) /\ UNCHANGED owed
  <2>1. Alone' /\ OnTheList' /\ \A i \in Issue, s \in State : Due(i, s)' => Due(i, s)
    BY <1>1, <1>4, DropKept
  <2> QED BY <1>1, <1>4, <2>1, PaidStill DEF Kept
<1>5. CASE Drop(c) /\ UNCHANGED pushed /\ Costly
  <2>1. Alone' /\ OnTheList'
    BY <1>1, <1>5, DropKept
  <2> QED BY <1>1, <1>5, <2>1, PaidByFailure DEF Kept
<1> QED BY <1>3, <1>4, <1>5 DEF SetStatus, Answered, Refused, Lost, FreeFail

(* A comment that is made is no longer due, or its failure pays for the next. *)
LEMMA AddCommentKept == ASSUME PInv, NEW c \in Caller, AddComment(c) PROVE Kept
<1> DEFINE ci == Current(c)[1]
           cs == Current(c)[2]
<1> USE DEF PInv, run, count
<1>1. /\ pc[c] = "comment" /\ todo[c] # {} /\ UNCHANGED <<outcome, changes, marker>>
      /\ Drop(c)
  BY DEF AddComment, At, TypeOK, OwnOK
<1>2. CASE UNCHANGED <<comments, pushed, owed>>
  <2>1. Alone' /\ OnTheList' /\ \A i \in Issue, s \in State : Due(i, s)' => Due(i, s)
    BY <1>1, <1>2, DropKept
  <2> QED BY <1>1, <1>2, <2>1, PaidStill DEF Kept
<1>3. CASE Comment(ci, cs) /\ (\/ PushedIt(c) /\ UNCHANGED owed
                               \/ UNCHANGED pushed /\ Costly)
  <2>1. /\ Alone' /\ OnTheList' /\ Due(ci, cs)
        /\ UNCHANGED pushed => \A i \in Issue, s \in State : Due(i, s)' <=> Due(i, s)
        /\ PushedIt(c) => \A i \in Issue, s \in State :
              Due(i, s)' <=> Due(i, s) /\ <<i, s>> # Current(c)
    BY <1>1, <1>3, DropKept
  <2>2. ci \in Issue /\ cs \in State /\ Current(c) = <<ci, cs>>
    BY <1>1, CurrentIs
  <2>3. ASSUME NEW i \in Issue, NEW s \in State
        PROVE  comments'[i][s] + (IF Due(i, s)' THEN 1 ELSE 0) <= changes'[i][s] + owed'
    <3>1. comments[i][s] \in Nat /\ changes[i][s] \in Nat /\ owed \in Nat
      BY DEF TypeOK, BoardOK, RunOK, Ticket
    <3>2. comments[i][s] + (IF Due(i, s) THEN 1 ELSE 0) <= changes[i][s] + owed
      BY DEF Paid
    <3>3. comments'[i][s] = IF i = ci /\ s = cs THEN comments[i][s] + 1 ELSE comments[i][s]
      BY <1>3, <2>2 DEF Comment, TypeOK, BoardOK
    <3>4. owed' = owed \/ owed' = owed + 1
      BY <1>3 DEF Costly
    <3>5. CASE i = ci /\ s = cs
      <4>1. Due(i, s) /\ (Due(i, s)' => owed' = owed + 1)
        BY <1>3, <2>1, <2>2, <3>5 DEF Costly
      <4> QED BY <1>1, <3>1, <3>2, <3>3, <3>4, <3>5, <4>1
    <3>6. CASE ~(i = ci /\ s = cs)
      <4>1. Due(i, s)' => Due(i, s)
        BY <1>3, <2>1
      <4> QED BY <1>1, <3>1, <3>2, <3>3, <3>4, <3>6, <4>1
    <3> QED BY <3>5, <3>6
  <2> QED BY <2>1, <2>3 DEF Kept, Paid
<1> QED BY <1>1, <1>2, <1>3 DEF AddComment, Answered, Refused, Lost, FreeFail

LEMMA AskKept == ASSUME PInv, AskInProgress PROVE Kept
<1> USE DEF PInv, run, count, Caller
<1>1. /\ pc[Agent] = "ask" /\ Agent \in Caller /\ pending \notin DOMAIN marker
      /\ UNCHANGED <<outcome, changes, marker>> /\ comments' = comments
  BY DEF AskInProgress, At, ToStatus, Refused, MayAsk
<1>2. \A d \in Caller : d # Agent => pc[d] = "idle"
  BY <1>1, Others
<1>3. CASE Ends(Agent) /\ UNCHANGED owed
  BY <1>1, <1>2, <1>3, QuietKept DEF Ends, Pushing
<1>4. CASE Ends(Agent) /\ Costly
  BY <1>1, <1>2, <1>4, CostlyKept DEF Ends
<1>5. CASE /\ pushed' = [pushed EXCEPT ![Agent] = Set(marker, pending, "in_progress")]
           /\ Goto(Agent, "write") /\ UNCHANGED owed
  <2>1. pushed'[Agent] = Set(marker, pending, "in_progress")
    BY <1>5 DEF TypeOK, OwnOK
  <2>2. /\ \A i, s : Has(pushed'[Agent], i, s) <=>
               (i = pending /\ s = "in_progress") \/ (i # pending /\ Has(marker, i, s))
        /\ \A i \in DOMAIN marker : i \in DOMAIN pushed'[Agent]
    BY <2>1, HasSet
  <2>3. ASSUME NEW i \in Issue, NEW s \in State
        PROVE  Has(pushed'[Agent], i, s) <=> Has(marker, i, s)
    BY <1>1, <2>2 DEF Has, State
  <2>4. ASSUME NEW i \in Issue, NEW s \in State PROVE Due(i, s)' <=> Due(i, s)
    <3>1. "ask" \notin Pushing /\ "write" \in Pushing
      BY DEF Pushing
    <3> QED BY <1>1, <1>2, <1>5, <2>3, <3>1, Acting
  <2>5. Alone' /\ OnTheList'
    BY <1>1, <1>2, <1>5, <2>2, Acting DEF OnTheList, Pushing
  <2> QED BY <1>1, <1>5, <2>4, <2>5, PaidStill DEF Kept
<1> QED BY <1>3, <1>4, <1>5 DEF AskInProgress, Answered, Refused, Lost, FreeFail

(* The copy and the file agree at the end, or the marker is lost at the price of a failure. *)
LEMMA EndsKept ==
  ASSUME PInv, NEW c \in Caller, PushEnds(c) \/ WriteMarker(c) \/ Kill(c)
  PROVE  Kept
<1> USE DEF PInv, board, run, count
<1>1. pc[c] # "idle" /\ UNCHANGED <<outcome, changes, comments>>
  BY DEF PushEnds, WriteMarker, Kill, At
<1>2. \A d \in Caller : d # c => pc[d] = "idle"
  BY <1>1, Others
<1>3. CASE Ends(c) /\ Costly
  BY <1>1, <1>2, <1>3, CostlyKept DEF Ends
<1>4. CASE WriteMarker(c) /\ UNCHANGED count
  <2>1. pc[c] \in Pushing /\ (marker' = pushed[c] \/ Costly)
    BY <1>4 DEF WriteMarker, At, Pushing
  <2>2. ~Costly /\ Goto(c, "idle") /\ "idle" \notin Pushing
    BY <1>4 DEF Costly, Fails, TypeOK, WriteMarker, Ends, Pushing
  <2>3. \A i \in Issue, s \in State : Due(i, s)' <=> Due(i, s)
    BY <1>1, <1>2, <2>1, <2>2, Acting
  <2>4. Alone' /\ OnTheList'
    BY <1>1, <1>2, <2>2, Acting DEF OnTheList, Pushing
  <2> QED BY <1>1, <1>4, <2>3, <2>4, PaidStill DEF Kept
<1>5. CASE PushEnds(c) /\ Ends(c)
  <2>1. /\ pc[c] = "status" /\ Goto(c, "idle") /\ UNCHANGED <<marker, owed>>
        /\ "status" \in Pushing /\ "idle" \notin Pushing
    BY <1>5 DEF PushEnds, At, Ends, Pushing
  <2>2. pushed[c] = Nothing \/ pc'[c] = "write"
    BY <1>5 DEF PushEnds, Goto, TypeOK, OwnOK
  <2>3. pc'[c] = "idle"
    BY <1>2, <2>1, Acting
  <2>4. DOMAIN marker = {} /\ DOMAIN pushed[c] = {}
    BY <2>1, <2>2, <2>3, NothingTyped DEF OnTheList
  <2>5. \A i \in Issue, s \in State : Due(i, s)' <=> Due(i, s)
    BY <1>1, <1>2, <2>1, <2>4, Acting DEF Has
  <2>6. Alone' /\ OnTheList'
    BY <1>1, <1>2, <2>1, Acting DEF OnTheList, Pushing
  <2> QED BY <1>1, <2>1, <2>5, <2>6, PaidStill DEF Kept
<1>6. CASE PushEnds(c) /\ Goto(c, "write") /\ UNCHANGED own
  <2>1. /\ pc[c] = "status" /\ UNCHANGED <<marker, owed, pushed>>
        /\ "status" \in Pushing /\ "write" \in Pushing
    BY <1>6 DEF PushEnds, At, own, Pushing
  <2>2. \A i \in Issue, s \in State : Due(i, s)' <=> Due(i, s)
    BY <1>1, <1>2, <1>6, <2>1, Acting
  <2>3. Alone' /\ OnTheList'
    BY <1>1, <1>2, <1>6, <2>1, Acting DEF OnTheList, Pushing
  <2> QED BY <1>1, <2>1, <2>2, <2>3, PaidStill DEF Kept
<1> QED BY <1>3, <1>4, <1>5, <1>6 DEF PushEnds, WriteMarker, Kill

LEMMA PStep == ASSUME ~Overlap, PInv, [Next]_vars PROVE PInv'
<1> USE DEF PInv, board, run, count
<1> SUFFICES Kept
  BY BTyping DEF Kept
<1>1. Agent \in Caller
  BY DEF Caller
<1>2. ASSUME NEW c \in Caller, Call(c) PROVE Kept
  <2>1. \A d \in Caller : pc[d] = "idle"
    BY <1>2 DEF Call, At
  <2> QED BY <1>2, <2>1, QuietKept DEF Call, At, Pushing
<1>3. ASSUME NEW c \in Caller, Fetch(c) \/ FetchInPart(c) \/ FallBack(c) PROVE Kept
  <2>1. pc[c] = "fetch" /\ (Goto(c, "act") \/ Goto(c, "push"))
    BY <1>3 DEF Fetch, FetchInPart, FallBack, Loads, At
  <2>2. UNCHANGED <<comments, outcome, changes, marker, owed>>
    BY <1>3 DEF Fetch, FetchInPart, FallBack, Loads, FreeFail
  <2>3. \A d \in Caller : d # c => pc[d] = "idle"
    BY <2>1, Others
  <2> QED BY <2>1, <2>2, <2>3, QuietKept DEF Pushing
<1>4. CASE HandOut
  <2>1. PICK met \in SUBSET Parks : Record(met, "parked")
    BY <1>4 DEF HandOut
  <2>2. pc[Agent] = "act" /\ Goto(Agent, "ask") /\ UNCHANGED <<comments, marker, owed>>
    BY <1>4 DEF HandOut, At
  <2>3. "parked" \in State
    BY DEF State
  <2> QED BY <1>1, <2>1, <2>2, <2>3, RecordKept
<1>5. CASE Drained
  <2>1. /\ pc[Agent] = "act" /\ Goto(Agent, "push") /\ Record(Parks, "parked")
        /\ UNCHANGED <<comments, marker, owed>>
    BY <1>5 DEF Drained, ToPush, At
  <2>2. "parked" \in State
    BY DEF State
  <2> QED BY <1>1, <2>1, <2>2, RecordKept
<1>6. CASE Complete
  <2>1. PICK s \in Results : Record({pending}, s)
    BY <1>6 DEF Complete
  <2>2. pc[Agent] = "act" /\ Goto(Agent, "push") /\ UNCHANGED <<comments, marker, owed>>
    BY <1>6 DEF Complete, ToPush, At
  <2>3. s \in State
    BY BoardAssumption
  <2> QED BY <1>1, <2>1, <2>2, <2>3, RecordKept
<1>7. CASE Vanished \/ NoSource \/ NoAsk
  <2>1. pc[Agent] \in {"act", "ask"} /\ (Goto(Agent, "push") \/ Goto(Agent, "idle"))
    BY <1>7 DEF Vanished, NoSource, NoAsk, ToPush, Ends, At
  <2>2. UNCHANGED <<comments, outcome, changes, marker, owed>>
    BY <1>7 DEF Vanished, NoSource, NoAsk
  <2>3. (\A d \in Caller : d # Agent => pc[d] = "idle") /\ pc[Agent] \notin Pushing
    BY <1>1, <2>1, Others DEF Pushing
  <2>4. CASE Goto(Agent, "push")
    BY <1>1, <2>2, <2>3, <2>4, QuietKept
  <2>5. CASE Goto(Agent, "idle")
    BY <1>1, <2>2, <2>3, <2>5, QuietKept
  <2> QED BY <2>1, <2>4, <2>5
<1>8. ASSUME UNCHANGED <<comments, outcome, changes, marker, pc, pushed, todo, owed>> PROVE Kept
  <2>1. \A i \in Issue, s \in State : Due(i, s)' <=> Due(i, s)
    BY <1>8 DEF Due, Taken
  <2>2. Alone' /\ OnTheList'
    BY <1>8 DEF Alone, OnTheList
  <2> QED BY <1>8, <2>1, <2>2, PaidStill DEF Kept
<1>9. ASSUME NEW i \in Issue, Move(i) PROVE Kept
  BY <1>8, <1>9 DEF Move, own
<1>10. CASE Enable
  BY <1>8, <1>10 DEF Enable, own
<1>11. CASE UNCHANGED vars
  BY <1>8, <1>11 DEF vars, own
<1>12. ASSUME NEW c \in Caller, Step(c) \/ Kill(c) PROVE Kept
  BY <1>3, <1>12, PushKept, SetStatusKept, AddCommentKept, EndsKept DEF Step
<1>13. CASE Act
  BY <1>4, <1>5, <1>6, <1>7, <1>13, AskKept DEF Act
<1> QED BY <1>2, <1>9, <1>10, <1>11, <1>12, <1>13 DEF Next

LEMMA PInit == Init => PInv
<1> SUFFICES ASSUME Init PROVE PInv
  OBVIOUS
<1>1. TypeOK
  BY BInit
<1>2. Alone /\ OnTheList
  BY DEF Init, Alone, OnTheList, Pushing
<1>3. \A i \in Issue, s \in State : comments[i][s] = 0 /\ changes[i][s] = 0 /\ ~Due(i, s)
  BY BoardAssumption DEF Init, Due, Ticket, State
<1>4. Paid
  BY <1>3 DEF Paid, Init
<1> QED BY <1>1, <1>2, <1>4 DEF PInv

(* A new outcome is commented on once, and once more for each failure that costs a comment,
   at most, as long as commands do not overlap: for any issues, any fetches and any number
   of failures and kills. *)
THEOREM CommentsPaidFor == ASSUME ~Overlap PROVE Spec => []EachCommentPaidFor
<1>1. Init => PInv
  BY PInit
<1>2. PInv /\ [Next]_vars => PInv'
  BY PStep
<1>3. PInv => EachCommentPaidFor
  <2> SUFFICES ASSUME PInv, NEW i \in Issue, NEW s \in State
               PROVE  comments[i][s] <= changes[i][s] + owed
    BY DEF EachCommentPaidFor
  <2>1. comments[i][s] \in Nat /\ changes[i][s] \in Nat /\ owed \in Nat
    BY DEF PInv, TypeOK, BoardOK, RunOK, Ticket
  <2> QED BY <2>1 DEF PInv, Paid
<1> QED BY <1>1, <1>2, <1>3, PTL DEF Spec

-----------------------------------------------------------------------------
(* Tickets in flight *)

(* The local folder has a file for every issue, or for none. *)
AllOrNoneLocal == Local = {} \/ Issue \subseteq Local

(* What the agent's command has fetched is the local folder, or lacks only issues that are done. *)
Fetched == pc[Agent] = "act" =>
  tickets[Agent] = Local \/ \A i \in Issue \ tickets[Agent] : status[i] = "done"

(* While the agent's command acts, only the board's people change a status. *)
LEMMA StatusWhileActing ==
  ASSUME ~Overlap, PInv, [Next]_vars, pc[Agent] = "act", pc'[Agent] = "act"
  PROVE  /\ UNCHANGED tickets
         /\ \A i \in Issue : status[i] = "done" => status'[i] = "done"
<1> USE DEF PInv, board, own
<1>1. /\ Agent \in Caller /\ (\A c \in Caller : pc[c] # "idle" => c = Agent)
      /\ pc \in [Caller -> Steps] /\ status \in [Issue -> Status]
  BY DEF Caller, Alone, TypeOK, OwnOK, BoardOK
<1>2. ASSUME NEW c \in Caller, Call(c) PROVE FALSE
  BY <1>1, <1>2 DEF Call, At
<1>3. ASSUME NEW c \in Caller, Kill(c) PROVE FALSE
  BY <1>1, <1>3 DEF Kill, Ends, Goto
<1>4. ASSUME NEW c \in Caller, Step(c) PROVE FALSE
  <2>1. pc[c] \in {"fetch", "push", "status", "comment", "write"}
    BY <1>4 DEF Step, Fetch, FetchInPart, FallBack, Loads, Push, SetStatus, AddComment, PushEnds,
                WriteMarker, At, Drop
  <2> QED BY <1>1, <2>1
<1>5. CASE Act
  <2>1. Goto(Agent, "ask") \/ Goto(Agent, "push") \/ pc[Agent] = "ask"
    BY <1>5 DEF Act, HandOut, Drained, Complete, Vanished, NoSource, NoAsk, AskInProgress, ToPush,
                At
  <2> QED BY <1>1, <2>1 DEF Goto
<1>6. CASE Enable
  BY <1>1, <1>6 DEF Enable, At
<1>7. ASSUME NEW i \in Issue, Move(i)
      PROVE  UNCHANGED tickets /\ \A j \in Issue : status[j] = "done" => status'[j] = "done"
  BY <1>1, <1>7 DEF Move, Open
<1>8. CASE UNCHANGED vars
  BY <1>8 DEF vars
<1> QED BY <1>2, <1>3, <1>4, <1>5, <1>6, <1>7, <1>8 DEF Next

LEMMA FetchedStep == ASSUME ~Overlap, ~Misses, PInv, Fetched, [Next]_vars PROVE Fetched'
<1> SUFFICES ASSUME pc'[Agent] = "act" PROVE Fetched'
  BY DEF Fetched
<1>1. CASE pc[Agent] = "act"
  BY <1>1, StatusWhileActing DEF Fetched
<1>2. CASE pc[Agent] # "act"
  <2>1. Agent \in Caller /\ pc \in [Caller -> Steps]
        /\ tickets \in [Caller -> SUBSET Ticket] /\ status \in [Issue -> Status]
    BY DEF Caller, PInv, TypeOK, OwnOK, BoardOK
  <2>2. ASSUME NEW c \in Caller, Fetch(c) \/ FetchInPart(c) \/ FallBack(c), c = Agent PROVE Fetched'
    BY <2>1, <2>2 DEF Fetch, FetchInPart, FallBack, Loads, Open, Fetched, board
  <2>3. ASSUME NEW c \in Caller, Call(c) \/ Step(c) \/ Kill(c),
               ~((Fetch(c) \/ FetchInPart(c) \/ FallBack(c)) /\ c = Agent)
        PROVE  FALSE
    <3>1. \E x \in Steps \ {"act"} : Goto(c, x) \/ UNCHANGED pc
      BY <2>3 DEF Call, Step, Fetch, FetchInPart, FallBack, Loads, Kill, Push, SetStatus,
                  AddComment, PushEnds,
                  WriteMarker, Drop, Ends, Steps
    <3> QED BY <1>2, <2>1, <3>1 DEF Goto
  <2>4. CASE Act
    <3>1. \E x \in Steps \ {"act"} : Goto(Agent, x)
      BY <2>4 DEF Act, HandOut, Drained, Complete, Vanished, NoSource, NoAsk, AskInProgress, ToPush,
                  Ends, Steps
    <3> QED BY <2>1, <3>1 DEF Goto
  <2>5. CASE Enable \/ (\E i \in Issue : Move(i)) \/ UNCHANGED vars
    BY <1>2, <2>5 DEF Enable, Move, vars
  <2> QED BY <2>2, <2>3, <2>4, <2>5 DEF Next, Step
<1> QED BY <1>1, <1>2

(* driver.py:1203-1228: the work of a ticket in flight is reverted only if the ticket is gone,
   whatever request fails and whoever is killed, under two assumptions about what is taken for
   the board: a fetch that succeeds has every open issue in it (its queries see one state of the
   board, and each answer is a list), and the local folder cannot pass for the board, since it
   has a file for every issue, or for none. *)
THEOREM RevertsOnlyTheGone ==
  ASSUME ~Overlap, ~Misses, AllOrNoneLocal PROVE Spec => RevertedOnlyIfGone
<1>1. Init => Fetched
  BY DEF Init, Fetched, Caller
<1>2. ~Overlap /\ ~Misses /\ PInv /\ Fetched /\ [Next]_vars => Fetched'
  BY FetchedStep
<1>3. PInv /\ Fetched /\ [Next]_vars => [Vanished => pending \notin Open]_vars
  <2> SUFFICES ASSUME PInv, Fetched, Vanished, pending \in Open PROVE FALSE
    OBVIOUS
  <2>1. /\ pc[Agent] = "act" /\ tickets[Agent] # {} /\ pending \notin tickets[Agent]
        /\ pending \in Issue /\ status[pending] # "done"
    BY DEF Vanished, At, Open
  <2>2. tickets[Agent] = Local
    BY <2>1 DEF Fetched
  <2> QED BY <2>1, <2>2 DEF AllOrNoneLocal
<1>4. ~Overlap /\ PInv /\ [Next]_vars => PInv'
  BY PStep
<1> QED BY <1>1, <1>2, <1>3, <1>4, PInit, PTL DEF Spec, RevertedOnlyIfGone
=============================================================================
