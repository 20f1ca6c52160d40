------------------------- MODULE ParkedGuardProofs -------------------------
(***************************************************************************)
(* Proofs about the parked-WIP guard, each level on top of the one before: *)
(*   types: of any run of the guard;                                       *)
(*   Own: the SHA a run has pinned names its own entry (no overlap);       *)
(*   Held: its work is in the tree, a commit or that entry (and no kill    *)
(*     between stash and marker);                                          *)
(*   Away: the work leaves the tree with the marker and is back before it  *)
(*     goes (and git stashes what it is told to, no kill before the marker *)
(*     is removed);                                                        *)
(*   Fenced: the fence stands while a run needs it (and one run only has   *)
(*     throwaways).                                                        *)
(***************************************************************************)
EXTENDS ParkedGuard, FiniteSetTheorems, SequenceTheorems, TLAPS

(* The entries of the stash, without their order. *)
Entry == [sha : Nat, piece : Piece]
Entries == {stash[i] : i \in DOMAIN stash}

-----------------------------------------------------------------------------
(* Stashing and unstashing, seen from the set of entries *)

LEMMA StashType ==
  ASSUME TypeOK
  PROVE  /\ stash \in Seq(Entry) /\ Len(stash) \in Nat /\ DOMAIN stash = 1 .. Len(stash)
         /\ \A i \in DOMAIN stash : stash[i] \in Entry
         /\ Entries \subseteq Entry
<1>1. stash \in Seq(Entry)
  BY DEF TypeOK, Entry
<1>2. Len(stash) \in Nat /\ DOMAIN stash = 1 .. Len(stash)
  BY <1>1, LenProperties
<1>3. \A i \in DOMAIN stash : stash[i] \in Entry
  BY <1>1, <1>2, ElementOfSeq
<1> QED
  BY <1>1, <1>2, <1>3 DEF Entries

LEMMA CountFrom1 ==
  ASSUME NEW n \in Nat
  PROVE  IsFiniteSet(1 .. n) /\ Cardinality(1 .. n) = n
<1>1. /\ IsFiniteSet(1 .. n)
      /\ Cardinality(1 .. n) = IF 1 > n THEN 0 ELSE n - 1 + 1
  BY FS_Interval
<1> QED
  BY <1>1

LEMMA UnionBound ==
  ASSUME NEW S, NEW T, IsFiniteSet(S), IsFiniteSet(T)
  PROVE  /\ IsFiniteSet(S \cup T) /\ Cardinality(S \cup T) \in Nat
         /\ Cardinality(S) \in Nat /\ Cardinality(T) \in Nat
         /\ Cardinality(S \cup T) <= Cardinality(S) + Cardinality(T)
<1>1. /\ IsFiniteSet(S \cup T)
      /\ Cardinality(S \cup T) = Cardinality(S) + Cardinality(T) - Cardinality(S \cap T)
  BY FS_Union
<1>2. IsFiniteSet(S \cap T)
  BY FS_Intersection
<1>3. /\ Cardinality(S) \in Nat /\ Cardinality(T) \in Nat /\ Cardinality(S \cap T) \in Nat
      /\ Cardinality(S \cup T) \in Nat
  BY <1>1, <1>2, FS_CardinalityType
<1> QED
  BY <1>1, <1>3

LEMMA ImageBound ==
  ASSUME NEW S, IsFiniteSet(S), NEW T, NEW f \in Surjection(S, T)
  PROVE  IsFiniteSet(T) /\ Cardinality(T) \in Nat /\ Cardinality(T) <= Cardinality(S)
<1>1. IsFiniteSet(T) /\ Cardinality(T) <= Cardinality(S)
  BY FS_Surjection
<1> QED
  BY <1>1, FS_CardinalityType

(* There is always a SHA that nothing refers to. *)
LEMMA ShaIsFresh ==
  ASSUME TypeOK
  PROVE  /\ FreshSha \in Nat \ {0}
         /\ \A x \in Entries : x.sha # FreshSha
         /\ \A r \in Run : marker[r] # FreshSha /\ sha[r] # FreshSha
<1> DEFINE A == {stash[i].sha : i \in DOMAIN stash}
           B == {marker[r] : r \in Run}
           C == {sha[r] : r \in Run}
           used == A \cup B \cup C
           bound == Len(stash) + 2 * Cardinality(Run) + 1
<1>1. Len(stash) \in Nat /\ DOMAIN stash = 1 .. Len(stash) /\ Cardinality(Run) \in Nat /\ IsFiniteSet(Run)
  BY StashType, FS_CardinalityType, RunAssumption
<1>2. IsFiniteSet(DOMAIN stash) /\ Cardinality(DOMAIN stash) = Len(stash)
  BY <1>1, CountFrom1
<1>3. IsFiniteSet(A) /\ Cardinality(A) \in Nat /\ Cardinality(A) <= Len(stash)
  <2>1. [i \in DOMAIN stash |-> stash[i].sha] \in Surjection(DOMAIN stash, A)
    BY DEF Surjection
  <2> QED
    BY <1>2, <2>1, ImageBound
<1>4. IsFiniteSet(B) /\ Cardinality(B) \in Nat /\ Cardinality(B) <= Cardinality(Run)
  <2>1. [r \in Run |-> marker[r]] \in Surjection(Run, B)
    BY DEF Surjection
  <2> QED
    BY <1>1, <2>1, ImageBound
<1>5. IsFiniteSet(C) /\ Cardinality(C) \in Nat /\ Cardinality(C) <= Cardinality(Run)
  <2>1. [r \in Run |-> sha[r]] \in Surjection(Run, C)
    BY DEF Surjection
  <2> QED
    BY <1>1, <2>1, ImageBound
<1>6. IsFiniteSet(used) /\ Cardinality(used) \in Nat /\ Cardinality(used) <= Len(stash) + 2 * Cardinality(Run)
  <2> HIDE DEF A, B, C
  <2>1. IsFiniteSet(A \cup B) /\ Cardinality(A \cup B) \in Nat
        /\ Cardinality(A \cup B) <= Cardinality(A) + Cardinality(B)
    BY <1>3, <1>4, UnionBound
  <2>2. IsFiniteSet(used) /\ Cardinality(used) \in Nat
        /\ Cardinality(used) <= Cardinality(A \cup B) + Cardinality(C)
    BY <1>5, <2>1, UnionBound
  <2> QED
    BY <1>1, <1>3, <1>4, <1>5, <2>1, <2>2
<1> HIDE DEF A, B, C
<1>7. bound \in Nat /\ Cardinality(1 .. bound) = bound /\ IsFiniteSet(1 .. bound)
  <2>1. bound \in Nat
    BY <1>1
  <2> QED
    BY <2>1, CountFrom1
<1>8. \E n \in (1 .. bound) \ used : TRUE
  <2> SUFFICES ASSUME 1 .. bound \subseteq used PROVE FALSE
    OBVIOUS
  <2>1. Cardinality(1 .. bound) <= Cardinality(used)
    BY <1>6, FS_Subset
  <2> QED
    BY <1>1, <1>6, <1>7, <2>1
<1>9. FreshSha \in (1 .. bound) \ used
  BY <1>8 DEF FreshSha, A, B, C
<1> QED
  BY <1>7, <1>9 DEF A, B, C, Entries

LEMMA Prepended ==
  ASSUME TypeOK, NEW p \in Piece, Prepend(p)
  PROVE  \E n \in Nat \ {0} :
           /\ \A x \in Entries : x.sha # n
           /\ \A r \in Run : marker[r] # n /\ sha[r] # n
           /\ stash' \in Seq(Entry) /\ stash' # <<>>
           /\ stash'[1] = [sha |-> n, piece |-> p]
           /\ Entries' = Entries \cup {[sha |-> n, piece |-> p]}
<1> DEFINE x == [sha |-> FreshSha, piece |-> p]
<1>1. FreshSha \in Nat \ {0}
  BY ShaIsFresh
<1>2. x \in Entry /\ <<x>> \in Seq(Entry) /\ stash \in Seq(Entry) /\ Len(<<x>>) = 1 /\ <<x>>[1] = x
  BY <1>1 DEF TypeOK, Entry
<1>3. stash' = <<x>> \o stash
  BY DEF Prepend
<1> HIDE DEF x
<1>4. /\ stash' \in Seq(Entry) /\ Len(stash') = 1 + Len(stash) /\ Len(stash) \in Nat
      /\ \A i \in 1 .. 1 + Len(stash) : stash'[i] = IF i <= 1 THEN <<x>>[i] ELSE stash[i - 1]
  BY <1>2, <1>3, ConcatProperties
<1>5. DOMAIN stash = 1 .. Len(stash) /\ DOMAIN stash' = 1 .. 1 + Len(stash)
  BY <1>2, <1>4
<1>6. stash' # <<>> /\ stash'[1] = x
  BY <1>2, <1>4
<1>7. \A i \in DOMAIN stash : i + 1 \in DOMAIN stash' /\ stash'[i + 1] = stash[i]
  BY <1>4, <1>5
<1>8. \A i \in DOMAIN stash' : i = 1 \/ (i - 1 \in DOMAIN stash /\ stash'[i] = stash[i - 1])
  BY <1>4, <1>5
<1>9. Entries' = Entries \cup {x}
  BY <1>5, <1>6, <1>7, <1>8 DEF Entries
<1> QED
  BY <1>1, <1>4, <1>6, <1>9, ShaIsFresh DEF x

(* Whoever stashes leaves the entries that are there. *)
LEMMA PrependKeeps ==
  ASSUME TypeOK, NEW p \in Piece, Prepend(p)
  PROVE  Entries \subseteq Entries'
BY Prepended

LEMMA Removed ==
  ASSUME TypeOK, NEW i \in DOMAIN stash, stash' = RemoveAt(stash, i)
  PROVE  /\ stash' \in Seq(Entry)
         /\ Entries' \subseteq Entries
         /\ Entries \ {stash[i]} \subseteq Entries'
<1> DEFINE n == Len(stash)
           a == SubSeq(stash, 1, i - 1)
           b == SubSeq(stash, i + 1, n)
<1>1. stash \in Seq(Entry) /\ n \in Nat /\ DOMAIN stash = 1 .. n /\ i \in 1 .. n
      /\ \A j \in 1 .. n : stash[j] \in Entry
  BY StashType
<1>2. a \in Seq(Entry) /\ Len(a) = i - 1 /\ \A j \in 1 .. i - 1 : a[j] = stash[j]
  <2>1. /\ a \in Seq(Entry) /\ Len(a) = IF 1 <= i - 1 THEN (i - 1) - 1 + 1 ELSE 0
        /\ \A j \in 1 .. (i - 1) - 1 + 1 : a[j] = stash[1 + j - 1]
    BY <1>1, SubSeqProperties
  <2> QED
    BY <1>1, <2>1
<1>3. b \in Seq(Entry) /\ Len(b) = n - i /\ \A j \in 1 .. n - i : b[j] = stash[i + j]
  <2>1. /\ b \in Seq(Entry) /\ Len(b) = IF i + 1 <= n THEN n - (i + 1) + 1 ELSE 0
        /\ \A j \in 1 .. n - (i + 1) + 1 : b[j] = stash[(i + 1) + j - 1]
    BY <1>1, SubSeqProperties
  <2> HIDE DEF a, b, n
  <2>2. Len(b) = n - i
    BY <1>1, <2>1
  <2>3. ASSUME NEW j \in 1 .. n - i PROVE b[j] = stash[i + j]
    <3>1. j \in 1 .. n - (i + 1) + 1 /\ (i + 1) + j - 1 = i + j
      BY <1>1
    <3> QED
      BY <2>1, <3>1
  <2> QED
    BY <2>1, <2>2, <2>3
<1>4. stash' = a \o b
  BY DEF RemoveAt
<1> HIDE DEF a, b, n
<1>5. /\ stash' \in Seq(Entry) /\ Len(stash') = (i - 1) + (n - i)
      /\ \A j \in 1 .. (i - 1) + (n - i) : stash'[j] = IF j <= i - 1 THEN a[j] ELSE b[j - (i - 1)]
  <2>1. /\ a \o b \in Seq(Entry) /\ Len(a \o b) = Len(a) + Len(b)
        /\ \A j \in 1 .. Len(a) + Len(b) : (a \o b)[j] = IF j <= Len(a) THEN a[j] ELSE b[j - Len(a)]
    BY <1>2, <1>3, ConcatProperties
  <2>2. Len(a) = i - 1 /\ Len(b) = n - i
    BY <1>2, <1>3
  <2> QED
    BY ONLY <1>4, <2>1, <2>2
<1>6. DOMAIN stash' = 1 .. n - 1
  BY <1>1, <1>5
<1>7. \A j \in 1 .. n - 1 : stash'[j] = IF j < i THEN stash[j] ELSE stash[j + 1]
  <2> SUFFICES ASSUME NEW j \in 1 .. n - 1 PROVE stash'[j] = IF j < i THEN stash[j] ELSE stash[j + 1]
    OBVIOUS
  <2>1. CASE j < i
    BY <1>1, <1>2, <1>5, <2>1
  <2>2. CASE j >= i
    <3>1. j - (i - 1) \in 1 .. n - i /\ i + (j - (i - 1)) = j + 1
      BY <1>1, <2>2
    <3>2. stash'[j] = b[j - (i - 1)]
      <4>1. j \in 1 .. (i - 1) + (n - i) /\ ~(j <= i - 1)
        BY <1>1, <2>2
      <4> QED
        BY <1>5, <4>1
    <3> QED
      BY <1>1, <1>3, <2>2, <3>1, <3>2
  <2> QED
    BY <1>1, <2>1, <2>2
<1>8. Entries' \subseteq Entries
  <2> SUFFICES ASSUME NEW j \in 1 .. n - 1 PROVE stash'[j] \in Entries
    BY <1>6 DEF Entries
  <2>1. j \in DOMAIN stash /\ j + 1 \in DOMAIN stash
    BY <1>1
  <2> QED
    BY <1>7, <2>1 DEF Entries
<1>9. Entries \ {stash[i]} \subseteq Entries'
  <2> SUFFICES ASSUME NEW j \in 1 .. n, stash[j] # stash[i] PROVE stash[j] \in Entries'
    BY <1>1 DEF Entries
  <2>1. CASE j < i
    <3>1. j \in DOMAIN stash' /\ stash'[j] = stash[j]
      BY <1>1, <1>6, <1>7, <2>1
    <3> QED
      BY <3>1 DEF Entries
  <2>2. CASE j > i
    <3>1. j - 1 \in DOMAIN stash' /\ stash'[j - 1] = stash[j]
      BY <1>1, <1>6, <1>7, <2>2
    <3> QED
      BY <3>1 DEF Entries
  <2> QED
    BY <1>1, <2>1, <2>2
<1> QED
  BY <1>5, <1>8, <1>9

-----------------------------------------------------------------------------
(* Types *)

LEMMA PieceType ==
  /\ \A r \in Run : Wip(r) \in Piece /\ Junk(r) \in Piece
  /\ [of |-> Stranger, tracked |-> TRUE] \in Piece
BY DEF Wip, Junk, Piece

LEMMA TypeInit == Init => TypeOK
<1> SUFFICES ASSUME Init PROVE TypeOK
  OBVIOUS
<1>1. tree \in [Run -> SUBSET Piece]
  BY PieceType DEF Init
<1>2. stash \in Seq([sha : Nat, piece : Piece])
  BY EmptySeq DEF Init
<1> QED
  BY <1>1, <1>2 DEF Init, TypeOK, Steps

LEMMA TypeProtect ==
  ASSUME TypeOK, NEW r \in Run, Protect(r), UNCHANGED busy
  PROVE  TypeOK'
<1> USE DEF TypeOK, Steps, work, shared
<1>1. CASE CallNext(r)
  BY <1>1 DEF CallNext, Quiet, FirstStep, Goto, Tell
<1>2. CASE Push(r)
  <2>1. stash' \in Seq(Entry)
    BY <1>2, PieceType, Prepended DEF Push
  <2> QED
    BY <1>2, <2>1 DEF Push, Goto, Entry
<1>3. CASE PushNothing(r)
  BY <1>3 DEF PushNothing, Goto
<1>4. CASE Pin(r)
  <2>1. stash # <<>> => Head(stash) \in Entry
    BY StashType, HeadTailProperties
  <2> QED
    BY <1>4, <2>1 DEF Pin, Goto, Entry
<1>5. CASE Fence(r)
  BY <1>5 DEF Fence, Goto
<1>6. CASE Mark(r)
  BY <1>6 DEF Mark, Goto
<1> QED
  BY <1>1, <1>2, <1>3, <1>4, <1>5, <1>6 DEF Protect

LEMMA TypeWork ==
  ASSUME TypeOK, NEW r \in Run, Work(r), UNCHANGED busy
  PROVE  TypeOK'
<1> USE DEF TypeOK, Steps, work, shared
<1>1. CASE HandOut(r)
  BY <1>1 DEF HandOut, Snapshot, Sweepable, Leave, Goto, Tell
<1>2. CASE Ask(r)
  BY <1>2 DEF Ask, Leave, Goto, Tell
<1>3. CASE Complete(r)
  BY <1>3 DEF Complete, Snapshot, Sweepable
<1>4. CASE Terminal(r)
  BY <1>4 DEF Terminal, Goto
<1>5. CASE TerminalAnswer(r)
  BY <1>5 DEF TerminalAnswer, Tell
<1> QED
  BY <1>1, <1>2, <1>3, <1>4, <1>5 DEF Work

LEMMA TypeRestore ==
  ASSUME TypeOK, NEW r \in Run, Restore(r), UNCHANGED busy
  PROVE  TypeOK'
<1> USE DEF TypeOK, Steps, work, shared
<1>1. CASE RestoreByHand(r)
  BY <1>1 DEF RestoreByHand, Quiet, Goto, Tell
<1>2. CASE Find(r)
  <2>1. (CHOOSE i \in OwnStash(r) : TRUE) \in DOMAIN stash
    BY <1>2 DEF Find, OwnStash
  <2>2. (CHOOSE i \in OwnStash(r) : TRUE) \in Nat
    BY <2>1, StashType
  <2> QED
    BY <1>2, <2>2 DEF Find, Goto
<1>3. CASE FindNothing(r)
  BY <1>3 DEF FindNothing, Goto, OwnStash
<1>4. CASE Pop(r)
  <2>1. stash' \in Seq(Entry)
    BY <1>4, Removed DEF Pop
  <2>2. stash[ref[r]].piece \in Piece
    BY <1>4, StashType DEF Pop, Entry
  <2> QED
    BY <1>4, <2>1, <2>2 DEF Pop, Goto, Entry
<1>5. CASE PopFails(r)
  <2>1. tree' \in [Run -> SUBSET Piece] /\ unmerged' \in SUBSET Run
    <3>1. CASE Refused(r)
      BY <3>1 DEF Refused
    <3>2. CASE Conflict(r)
      <4>1. stash[ref[r]].piece \in Piece
        BY <3>2, StashType DEF Conflict, Entry
      <4> QED
        BY <3>2, <4>1 DEF Conflict
    <3> QED
      BY <1>5, <3>1, <3>2 DEF PopFails
  <2> QED
    BY <1>5, <2>1 DEF PopFails, Leave, Goto, Tell
<1>6. CASE Unfence(r)
  BY <1>6 DEF Unfence, Goto
<1>7. CASE Unmark(r)
  BY <1>7 DEF Unmark, Leave, Goto, Tell
<1> QED
  BY <1>1, <1>2, <1>3, <1>4, <1>5, <1>6, <1>7 DEF Restore

LEMMA TypeKill ==
  ASSUME TypeOK, NEW r \in Run, Kill(r), UNCHANGED busy
  PROVE  TypeOK'
<1> USE DEF TypeOK, Steps, work, shared
<1> QED
  BY DEF Kill, Leave, Goto

LEMMA TypeStrangerPushes ==
  ASSUME TypeOK, StrangerPushes, UNCHANGED busy
  PROVE  TypeOK'
<1> USE DEF TypeOK, Steps, work, shared
<1>1. stash' \in Seq(Entry)
  BY PieceType, Prepended DEF StrangerPushes
<1> QED
  BY <1>1 DEF StrangerPushes, Entry

LEMMA TypeStrangerPops ==
  ASSUME TypeOK, StrangerPops, UNCHANGED busy
  PROVE  TypeOK'
<1> USE DEF TypeOK, Steps, work, shared
<1>1. stash' \in Seq(Entry)
  BY Removed DEF StrangerPops
<1> QED
  BY <1>1 DEF StrangerPops, Entry

LEMMA TypeInductive ==
  ASSUME TypeOK, [Next]_vars
  PROVE  TypeOK'
<1>1. CASE UNCHANGED vars
  BY <1>1 DEF vars, TypeOK, Steps, work, shared
<1>2. CASE Next
  BY <1>2, TypeProtect, TypeWork, TypeRestore, TypeKill,
     TypeStrangerPushes, TypeStrangerPops DEF Next
<1> QED
  BY <1>1, <1>2

(* Whatever the runs, the stranger and git do, every entry of the stash stays an entry and every
   marker a SHA: fresh ones never run out. *)
THEOREM ParkedTyping == Spec => []TypeOK
<1>1. TypeOK /\ [Next]_vars => TypeOK'
  BY TypeInductive
<1> QED
  BY <1>1, TypeInit, PTL DEF Spec

-----------------------------------------------------------------------------
(* Each run finds its own entry, as long as no two commands overlap *)

(* The SHA a run has pinned, on disk or still in memory, names an entry with its own work or
   none at all. *)
OwnRun(r) ==
  /\ pc[r] \in {"push", "pin", "fence", "mark"} => marker[r] = None
  /\ pc[r] \in {"ready", "restore", "pop", "unfence", "unmark"} => marker[r] # None
  /\ pc[r] \in {"idle", "push", "pin"} => sha[r] = 0
  /\ \A x \in Entries : marker[r] = x.sha => x.piece = Wip(r)
  /\ pc[r] \in {"fence", "mark"} => \A x \in Entries : sha[r] = x.sha => x.piece = Wip(r)
  /\ pc[r] = "pin" => stash # <<>> /\ stash[1].piece = Wip(r)
  /\ pc[r] = "pop" => ref[r] \in DOMAIN stash /\ stash[ref[r]].sha = marker[r]
  /\ tree[r] \subseteq {Wip(r), Junk(r)}

Filed(n) == \E x \in Entries : x.sha = n

Own ==
  /\ \A r, s \in Run : pc[r] # "idle" /\ pc[s] # "idle" => r = s
  /\ \A x \in Entries : x.sha # 0
  /\ \A x, y \in Entries : x.sha = y.sha => x = y
  /\ \A r \in Run : OwnRun(r)

LEMMA OwnInit == Init => Own
BY DEF Init, Own, OwnRun, Entries, Wip, Junk

LEMMA EntriesSame == UNCHANGED stash => Entries' = Entries
BY DEF Entries

(* What a command is about to pop is the work of its own run. *)
LEMMA PopsItsOwn ==
  ASSUME Own, NEW r \in Run, pc[r] = "pop"
  PROVE  stash[ref[r]].piece = Wip(r)
<1>1. stash[ref[r]] \in Entries /\ stash[ref[r]].sha = marker[r]
  BY DEF Own, OwnRun, Entries
<1> QED
  BY <1>1 DEF Own, OwnRun

(* A pop that fails leaves the tree as it is or adds that work. *)
LEMMA FailedPop ==
  ASSUME TypeOK, Own, NEW r \in Run, PopFails(r)
  PROVE  /\ \A s \in Run : s # r => tree'[s] = tree[s] /\ (s \in unmerged' <=> s \in unmerged)
         /\ tree[r] \subseteq tree'[r] /\ tree'[r] \subseteq tree[r] \cup {Wip(r)}
         /\ Wip(r) \in tree'[r] => Wip(r) \in tree[r] \/ r \in unmerged'
         /\ r \in unmerged => r \in unmerged'
         /\ pc[r] = "pop" /\ Filed(marker[r])
<1>1. stash[ref[r]].piece = Wip(r) /\ stash[ref[r]].sha = marker[r] /\ ref[r] \in DOMAIN stash
  BY PopsItsOwn DEF PopFails, Own, OwnRun
<1>2. Filed(marker[r])
  BY <1>1 DEF Filed, Entries
<1>3. tree \in [Run -> SUBSET Piece]
  BY DEF TypeOK
<1> QED
  BY <1>1, <1>2, <1>3 DEF PopFails, Refused, Conflict, work

LEMMA OwnProtect ==
  ASSUME ~Racing, TypeOK, Own, NEW r \in Run, Protect(r), UNCHANGED busy
  PROVE  Own'
<1> USE DEF Own, OwnRun, TypeOK, work, shared
<1>1. CASE CallNext(r)
  BY <1>1, EntriesSame DEF CallNext, Quiet, FirstStep, Goto, Tell
<1>2. CASE Push(r)
  <2>1. Wip(r) \in Piece
    BY PieceType
  <2>2. PICK n \in Nat \ {0} :
          /\ \A x \in Entries : x.sha # n
          /\ \A s \in Run : marker[s] # n /\ sha[s] # n
          /\ stash' \in Seq(Entry) /\ stash' # <<>>
          /\ stash'[1] = [sha |-> n, piece |-> Wip(r)]
          /\ Entries' = Entries \cup {[sha |-> n, piece |-> Wip(r)]}
    BY <1>2, <2>1, Prepended DEF Push
  <2> QED
    BY <1>2, <2>2 DEF Push, Goto
<1>3. CASE PushNothing(r)
  BY <1>3, EntriesSame DEF PushNothing, Goto
<1>4. CASE Pin(r)
  <2>1. stash # <<>> => Head(stash) \in Entries /\ Head(stash) = stash[1]
    BY StashType, HeadTailProperties DEF Entries
  <2> QED
    BY <1>4, <2>1, EntriesSame DEF Pin, Goto
<1>5. CASE Fence(r)
  BY <1>5, EntriesSame DEF Fence, Goto
<1>6. CASE Mark(r)
  <2>1. sha[r] # None /\ Entries' = Entries
    BY <1>6, EntriesSame, RunAssumption DEF Mark
  <2> QED
    BY <1>6, <2>1 DEF Mark, Goto
<1> QED
  BY <1>1, <1>2, <1>3, <1>4, <1>5, <1>6 DEF Protect

LEMMA OwnWork ==
  ASSUME ~Racing, TypeOK, Own, NEW r \in Run, Work(r), UNCHANGED busy
  PROVE  Own'
<1> USE DEF Own, OwnRun, TypeOK, work, shared
<1>1. CASE HandOut(r)
  BY <1>1, EntriesSame DEF HandOut, Snapshot, Sweepable, Leave, Goto, Tell
<1>2. CASE Ask(r)
  BY <1>2, EntriesSame DEF Ask, Leave, Goto, Tell
<1>3. CASE Complete(r)
  BY <1>3, EntriesSame DEF Complete, Snapshot, Sweepable
<1>4. CASE Terminal(r)
  BY <1>4, EntriesSame DEF Terminal, Goto
<1>5. CASE TerminalAnswer(r)
  BY <1>5, EntriesSame DEF TerminalAnswer, Tell
<1> QED
  BY <1>1, <1>2, <1>3, <1>4, <1>5 DEF Work

LEMMA OwnRestore ==
  ASSUME ~Racing, TypeOK, Own, NEW r \in Run, Restore(r), UNCHANGED busy
  PROVE  Own'
<1> USE DEF Own, OwnRun, TypeOK, work, shared
<1>1. CASE RestoreByHand(r)
  BY <1>1, EntriesSame DEF RestoreByHand, Quiet, Goto, Tell
<1>2. CASE Find(r)
  <2>1. ref'[r] \in DOMAIN stash /\ stash[ref'[r]].sha = marker[r]
    BY <1>2 DEF Find, OwnStash
  <2>2. /\ pc[r] = "restore" /\ pc' = [pc EXCEPT ![r] = "pop"]
        /\ \A s \in Run : s # r => ref'[s] = ref[s]
        /\ UNCHANGED <<tree, stash, marker, sha>> /\ Entries' = Entries
    BY <1>2, EntriesSame DEF Find, Goto
  <2>3. ASSUME NEW s \in Run PROVE OwnRun(s)'
    <3>1. CASE s = r
      BY <2>1, <2>2, <3>1
    <3>2. CASE s # r
      <4>1. pc'[s] = pc[s] /\ pc[s] = "idle"
        BY <2>2, <3>2
      <4> QED
        BY <2>2, <3>2, <4>1
    <3> QED
      BY <3>1, <3>2
  <2> QED
    BY <2>2, <2>3
<1>3. CASE FindNothing(r)
  BY <1>3, EntriesSame DEF FindNothing, Goto, OwnStash
<1>4. CASE Pop(r)
  <2>1. Entries' \subseteq Entries
    BY <1>4, Removed DEF Pop
  <2>2. stash[ref[r]].piece = Wip(r)
    BY <1>4 DEF Pop, Entries
  <2> QED
    BY <1>4, <2>1, <2>2 DEF Pop, Goto
<1>5. CASE PopFails(r)
  <2>1. UNCHANGED <<stash, marker>> /\ pc' = [pc EXCEPT ![r] = "idle"] /\ Entries' = Entries
        /\ sha' = [sha EXCEPT ![r] = 0] /\ ref' = [ref EXCEPT ![r] = 0] /\ pc[r] = "pop"
    BY <1>5, EntriesSame DEF PopFails, Leave, Goto
  <2>2. \A s \in Run : tree'[s] \subseteq tree[s] \cup {Wip(s)}
    BY <1>5, FailedPop
  <2> QED
    BY <2>1, <2>2
<1>6. CASE Unfence(r)
  BY <1>6, EntriesSame DEF Unfence, Goto
<1>7. CASE Unmark(r)
  <2>1. (\A x \in Entries : x.sha # None) /\ Entries' = Entries
    BY <1>7, StashType, EntriesSame, RunAssumption DEF Unmark, Entry
  <2> QED
    BY <1>7, <2>1 DEF Unmark, Leave, Goto
<1> QED
  BY <1>1, <1>2, <1>3, <1>4, <1>5, <1>6, <1>7 DEF Restore

LEMMA OwnKill ==
  ASSUME ~Racing, TypeOK, Own, NEW r \in Run, Kill(r), UNCHANGED busy
  PROVE  Own'
<1> USE DEF Own, OwnRun, TypeOK, work, shared
<1> QED
  BY EntriesSame DEF Kill, Leave, Goto

LEMMA OwnStrangerPushes ==
  ASSUME ~Racing, TypeOK, Own, StrangerPushes, UNCHANGED busy
  PROVE  Own'
<1> USE DEF Own, OwnRun, TypeOK, work, shared
<1>1. PICK n \in Nat \ {0} :
        /\ \A x \in Entries : x.sha # n
        /\ \A s \in Run : marker[s] # n /\ sha[s] # n
        /\ stash' \in Seq(Entry) /\ stash' # <<>>
        /\ stash'[1] = [sha |-> n, piece |-> [of |-> Stranger, tracked |-> TRUE]]
        /\ Entries' = Entries \cup {[sha |-> n, piece |-> [of |-> Stranger, tracked |-> TRUE]]}
  BY PieceType, Prepended DEF StrangerPushes
<1>2. \A r \in Run : pc[r] = "idle"
  BY DEF StrangerPushes, Quiet
<1>3. UNCHANGED <<tree, marker, pc, sha, ref>>
  BY DEF StrangerPushes
<1>4. (\A x \in Entries' : x.sha # 0) /\ (\A x, y \in Entries' : x.sha = y.sha => x = y)
  <2> DEFINE z == [sha |-> n, piece |-> [of |-> Stranger, tracked |-> TRUE]]
  <2>1. z.sha = n /\ n # 0 /\ Entries' = Entries \cup {z} /\ \A x \in Entries : x.sha # n
    BY <1>1
  <2> HIDE DEF z
  <2> QED
    BY <2>1
<1>5. ASSUME NEW r \in Run PROVE OwnRun(r)'
  <2>1. \A x \in Entries' : marker[r] = x.sha => x \in Entries
    BY <1>1
  <2> QED
    BY <1>2, <1>3, <2>1
<1> QED
  BY <1>2, <1>3, <1>4, <1>5

LEMMA OwnStrangerPops ==
  ASSUME ~Racing, TypeOK, Own, StrangerPops, UNCHANGED busy
  PROVE  Own'
<1> USE DEF Own, OwnRun, TypeOK, work, shared
<1>1. Entries' \subseteq Entries
  BY Removed DEF StrangerPops
<1>2. \A r \in Run : pc[r] = "idle"
  BY DEF StrangerPops, Quiet
<1> QED
  BY <1>1, <1>2 DEF StrangerPops

LEMMA OwnInductive ==
  ASSUME ~Racing, TypeOK, Own, [Next]_vars
  PROVE  Own'
<1>1. CASE UNCHANGED vars
  BY <1>1 DEF vars, Own, OwnRun, Entries, work, shared
<1>2. CASE Next
  BY <1>2, OwnProtect, OwnWork, OwnRestore, OwnKill,
     OwnStrangerPushes, OwnStrangerPops DEF Next
<1> QED
  BY <1>1, <1>2

(* A worktree is never given somebody else's work, however the runs and the stranger take
   turns on the stash and wherever a command is killed. *)
THEOREM OwnWorkOnly == ASSUME ~Racing PROVE Spec => []NoStrangersWork
<1>1. ~Racing /\ TypeOK /\ Own /\ [Next]_vars => Own'
  BY OwnInductive
<1>2. Own => NoStrangersWork
  <2> SUFFICES ASSUME Own PROVE NoStrangersWork
    OBVIOUS
  <2>1. \A r \in Run : Wip(r).of = r /\ Junk(r).of = r
    BY DEF Wip, Junk
  <2>2. \A r \in Run : \A p \in tree[r] : p = Wip(r) \/ p = Junk(r)
    BY DEF Own, OwnRun
  <2> QED
    BY <2>1, <2>2 DEF NoStrangersWork
<1> QED
  BY <1>1, <1>2, TypeInit, TypeInductive, OwnInit, PTL DEF Spec

-----------------------------------------------------------------------------
(* The work of a run is always somewhere, as long as moreover no command is killed between its
   stash and its marker *)

Here(r) == Wip(r) \in tree[r] \cup taken

HeldRun(r) ==
  /\ pc[r] \in {"idle", "push"} /\ marker[r] = None => Here(r)
  /\ pc[r] \in {"unfence", "unmark"} => Here(r)
  /\ pc[r] \in {"fence", "mark"} => Here(r) \/ Filed(sha[r])
  /\ pc[r] \in {"idle", "ready", "restore", "pop"} /\ marker[r] # None => Here(r) \/ Filed(marker[r])

Held == \A r \in busy : HeldRun(r)

MarkedOnceStashed == KillAt \cap {"pin", "fence", "mark"} = {}

LEMMA HeldInit == Init => Held
BY DEF Init, Held, HeldRun, Here

LEMMA TopEntry ==
  ASSUME TypeOK, stash # <<>>
  PROVE  Head(stash) \in Entries /\ Head(stash) = stash[1]
BY StashType, HeadTailProperties DEF Entries

LEMMA FiledSame == ASSUME UNCHANGED stash, NEW n PROVE Filed(n)' <=> Filed(n)
BY DEF Filed, Entries

LEMMA FiledGrows == ASSUME Entries \subseteq Entries', NEW n, Filed(n) PROVE Filed(n)'
BY DEF Filed

LEMMA HeldProtect ==
  ASSUME ~Racing, MarkedOnceStashed, TypeOK, Own, Held, NEW r \in Run, Protect(r), UNCHANGED
         busy
  PROVE  Held'
<1> USE DEF Held, HeldRun, Here, Own, OwnRun, TypeOK, work, shared
<1>1. CASE CallNext(r)
  BY <1>1, FiledSame DEF CallNext, Quiet, FirstStep, Goto, Tell
<1>2. CASE Push(r)
  <2>1. Entries \subseteq Entries'
    BY <1>2, PieceType, PrependKeeps DEF Push
  <2> QED
    BY <1>2, <2>1, FiledGrows DEF Push, Goto
<1>3. CASE PushNothing(r)
  BY <1>3, FiledSame DEF PushNothing, Goto
<1>4. CASE Pin(r)
  <2>1. stash # <<>> => Head(stash) \in Entries /\ Head(stash) = stash[1]
    BY TopEntry
  <2>2. stash # <<>> /\ sha'[r] = Head(stash).sha
    BY <1>4 DEF Pin
  <2>3. Filed(sha'[r])
    BY <2>1, <2>2 DEF Filed
  <2> QED
    BY <1>4, <2>3, FiledSame DEF Pin, Goto
<1>5. CASE Fence(r)
  BY <1>5, FiledSame DEF Fence, Goto
<1>6. CASE Mark(r)
  BY <1>6, FiledSame DEF Mark, Goto
<1> QED
  BY <1>1, <1>2, <1>3, <1>4, <1>5, <1>6 DEF Protect

LEMMA HeldWork ==
  ASSUME ~Racing, MarkedOnceStashed, TypeOK, Own, Held, NEW r \in Run, Work(r), UNCHANGED busy
  PROVE  Held'
<1> USE DEF Held, HeldRun, Here, Own, OwnRun, TypeOK, work, shared
<1>1. CASE HandOut(r)
  BY <1>1, FiledSame DEF HandOut, Snapshot, Sweepable, Leave, Goto, Tell
<1>2. CASE Ask(r)
  BY <1>2, FiledSame DEF Ask, Leave, Goto, Tell
<1>3. CASE Complete(r)
  BY <1>3, FiledSame DEF Complete, Snapshot, Sweepable
<1>4. CASE Terminal(r)
  BY <1>4, FiledSame DEF Terminal, Goto
<1>5. CASE TerminalAnswer(r)
  BY <1>5, FiledSame DEF TerminalAnswer, Tell
<1> QED
  BY <1>1, <1>2, <1>3, <1>4, <1>5 DEF Work

LEMMA HeldRestore ==
  ASSUME ~Racing, MarkedOnceStashed, TypeOK, Own, Held, NEW r \in Run, Restore(r), UNCHANGED
         busy
  PROVE  Held'
<1> USE DEF Held, HeldRun, Here, Own, OwnRun, TypeOK, work, shared
<1>1. CASE RestoreByHand(r)
  BY <1>1, FiledSame DEF RestoreByHand, Quiet, Goto, Tell
<1>2. CASE Find(r)
  BY <1>2, FiledSame DEF Find, Goto, OwnStash
<1>3. CASE FindNothing(r)
  <2>1. ~Filed(marker[r])
    BY <1>3 DEF FindNothing, OwnStash, Filed, Entries, Own
  <2> QED
    BY <1>3, <2>1, FiledSame DEF FindNothing, Goto
<1>4. CASE Pop(r)
  <2>1. stash[ref[r]].piece = Wip(r)
    BY <1>4, PopsItsOwn DEF Pop
  <2>2. Entries \ {stash[ref[r]]} \subseteq Entries'
    BY <1>4, Removed DEF Pop
  <2>3. ASSUME NEW s \in Run, s # r, NEW x \in Entries, x.piece = Wip(s) PROVE x \in Entries'
    BY <2>1, <2>2, <2>3 DEF Wip
  <2>4. ASSUME NEW s \in Run, s # r, Filed(marker[s]) PROVE Filed(marker[s])'
    BY <1>4, <2>3, <2>4 DEF Filed, Pop
  <2> QED
    BY <1>4, <2>1, <2>4 DEF Pop, Goto
<1>5. CASE PopFails(r)
  <2>1. \A s \in Run : tree[s] \subseteq tree'[s]
    BY <1>5, FailedPop
  <2> QED
    BY <1>5, <2>1, FiledSame DEF PopFails, Leave, Goto, Tell
<1>6. CASE Unfence(r)
  BY <1>6, FiledSame DEF Unfence, Goto
<1>7. CASE Unmark(r)
  BY <1>7, FiledSame DEF Unmark, Leave, Goto, Tell
<1> QED
  BY <1>1, <1>2, <1>3, <1>4, <1>5, <1>6, <1>7 DEF Restore

LEMMA HeldKill ==
  ASSUME ~Racing, MarkedOnceStashed, TypeOK, Own, Held, NEW r \in Run, Kill(r), UNCHANGED busy
  PROVE  Held'
<1> USE DEF Held, HeldRun, Here, Own, OwnRun, TypeOK, work, shared
<1>1. pc[r] \notin {"pin", "fence", "mark"}
  BY DEF Kill, MarkedOnceStashed
<1>2. /\ UNCHANGED <<tree, stash, taken, marker>> /\ pc' = [pc EXCEPT ![r] = "idle"]
      /\ sha' = [sha EXCEPT ![r] = 0]
  BY DEF Kill, Leave, Goto
<1>3. ASSUME NEW s \in busy PROVE HeldRun(s)'
  <2>1. s \in Run /\ HeldRun(s) /\ marker'[s] = marker[s] /\ (Here(s)' <=> Here(s))
    BY <1>2, <1>3
  <2>2. Filed(marker[s])' <=> Filed(marker[s])
    BY <1>2, FiledSame
  <2>3. CASE s = r
    <3>1. pc'[s] = "idle" /\ pc[s] \in Steps /\ pc[s] \notin {"pin", "fence", "mark"} /\ OwnRun(s)
      BY <1>1, <1>2, <2>1, <2>3
    <3>2. marker[s] = None => Here(s)
      BY ONLY <2>1, <3>1 DEF Steps, OwnRun, HeldRun
    <3>3. marker[s] # None => Here(s) \/ Filed(marker[s])
      BY ONLY <2>1, <3>1 DEF Steps, OwnRun, HeldRun
    <3> QED
      BY <2>1, <2>2, <3>1, <3>2, <3>3
  <2>4. CASE s # r
    <3>1. pc'[s] = pc[s] /\ sha'[s] = sha[s]
      BY <1>2, <2>1, <2>4
    <3>2. Filed(sha[s])' <=> Filed(sha[s])
      <4>1. Entries' = Entries
        BY <1>2, EntriesSame
      <4> QED
        BY <3>1, <4>1 DEF Filed
    <3> QED
      BY <2>1, <2>2, <3>1, <3>2
  <2> QED
    BY <2>3, <2>4
<1> QED
  BY <1>3

LEMMA HeldStrangerPushes ==
  ASSUME ~Racing, MarkedOnceStashed, TypeOK, Own, Held, StrangerPushes, UNCHANGED busy
  PROVE  Held'
<1> USE DEF Held, HeldRun, Here, Own, OwnRun, TypeOK, work, shared
<1>1. Entries \subseteq Entries'
  BY PieceType, PrependKeeps DEF StrangerPushes
<1> QED
  BY <1>1, FiledGrows DEF StrangerPushes

LEMMA HeldStrangerPops ==
  ASSUME ~Racing, MarkedOnceStashed, TypeOK, Own, Held, StrangerPops, UNCHANGED busy
  PROVE  Held'
<1> USE DEF Held, HeldRun, Here, Own, OwnRun, TypeOK, work, shared
<1>1. PICK i \in DOMAIN stash : stash[i].piece.of = Stranger /\ stash' = RemoveAt(stash, i)
  BY DEF StrangerPops
<1>2. Entries \ {stash[i]} \subseteq Entries'
  BY <1>1, Removed
<1>3. ASSUME NEW s \in Run, NEW x \in Entries, x.piece = Wip(s) PROVE x \in Entries'
  BY <1>1, <1>2, <1>3, RunAssumption DEF Wip
<1>4. ASSUME NEW s \in Run, Filed(marker[s]) PROVE Filed(marker[s])'
  BY <1>3, <1>4 DEF Filed, StrangerPops
<1>5. \A s \in Run : pc[s] = "idle"
  BY DEF StrangerPops, Quiet
<1> QED
  BY <1>4, <1>5 DEF StrangerPops

LEMMA HeldInductive ==
  ASSUME ~Racing, MarkedOnceStashed, TypeOK, Own, Held, [Next]_vars
  PROVE  Held'
<1>1. CASE UNCHANGED vars
  BY <1>1 DEF vars, Held, HeldRun, Here, Filed, Entries, work, shared
<1>2. CASE Next
  BY <1>2, HeldProtect, HeldWork, HeldRestore, HeldKill,
     HeldStrangerPushes, HeldStrangerPops DEF Next
<1> QED
  BY <1>1, <1>2

(* Between commands the operator's work is in the tree, in a commit, or in the entry that the
   marker pins: a later command or `parked restore` finds it. *)
THEOREM AlwaysRecoverable == ASSUME ~Racing, MarkedOnceStashed PROVE Spec => []Recoverable
<1>1. ~Racing /\ TypeOK /\ Own /\ [Next]_vars => Own'
  BY OwnInductive
<1>2. ~Racing /\ MarkedOnceStashed /\ TypeOK /\ Own /\ Held /\ [Next]_vars => Held'
  BY HeldInductive
<1>3. TypeOK /\ Own /\ Held => Recoverable
  <2> SUFFICES ASSUME TypeOK, Own, Held, NEW r \in busy, pc[r] = "idle", ~Here(r)
               PROVE  \E i \in OwnStash(r) : stash[i].piece = Wip(r)
    BY DEF Recoverable, Here
  <2>1. r \in Run
    BY DEF TypeOK
  <2>2. Filed(marker[r])
    BY <2>1 DEF Held, HeldRun
  <2>3. PICK i \in DOMAIN stash : stash[i].sha = marker[r]
    BY <2>2 DEF Filed, Entries
  <2>4. stash[i].piece = Wip(r)
    BY <2>1, <2>3 DEF Own, OwnRun, Entries
  <2> QED
    BY <2>3, <2>4 DEF OwnStash
<1> QED
  BY <1>1, <1>2, <1>3, TypeInit, TypeInductive, OwnInit, HeldInit, PTL DEF Spec

-----------------------------------------------------------------------------
(* The work leaves the tree with the marker and comes back before it goes, when moreover git can
   stash it and no command is killed between taking the work back and removing the marker *)

KilledRestartably == KillAt \subseteq {"push", "ready", "restore", "pop"}

LEMMA Restartable == ASSUME KilledRestartably PROVE MarkedOnceStashed
BY DEF KilledRestartably, MarkedOnceStashed

InTree(r) == Wip(r) \in tree[r]

AwayRun(r) ==
  /\ pc[r] # "idle" => signal[r] = "none"
  /\ signal[r] = "running" => marker[r] # None
  /\ signal[r] = "terminal" => marker[r] = None
  /\ InTree(r) => \/ pc[r] \in {"unfence", "unmark"}
                  \/ marker[r] = None /\ pc[r] \in {"idle", "push"}
                  \/ r \in unmerged
  /\ r \in unmerged => /\ pc[r] \in {"idle", "ready", "restore", "pop"}
                       /\ marker[r] # None /\ Filed(marker[r])

BackRun(r) ==
  /\ marker[r] = None /\ pc[r] \in {"idle", "push"} => InTree(r)
  /\ pc[r] \in {"unfence", "unmark"} => InTree(r)
  /\ pc[r] \in {"fence", "mark"} => Filed(sha[r])
  /\ marker[r] # None /\ pc[r] \in {"idle", "ready", "restore", "pop"} => Filed(marker[r])

Away ==
  /\ \A r \in Run : AwayRun(r)
  /\ \A r \in busy : BackRun(r)

LEMMA AwayInit == Init => Away
<1>1. \A r \in Run : Wip(r) # Junk(r)
  BY DEF Wip, Junk
<1> QED
  BY <1>1 DEF Init, Away, AwayRun, BackRun, InTree

LEMMA AwayProtect ==
  ASSUME ~Racing, ~PushMayFail, KilledRestartably, TypeOK, Own, Away, NEW r \in Run, Protect(r),
         UNCHANGED busy
  PROVE  Away'
<1> USE DEF Away, AwayRun, BackRun, InTree, Own, OwnRun, TypeOK, work, shared
<1>1. CASE CallNext(r)
  BY <1>1, FiledSame DEF CallNext, Quiet, FirstStep, Goto, Tell
<1>2. CASE Push(r)
  <2>1. Entries \subseteq Entries'
    BY <1>2, PieceType, PrependKeeps DEF Push
  <2>2. \A s \in Run : s # r => (InTree(s)' <=> InTree(s))
    BY <1>2 DEF Push
  <2> QED
    BY <1>2, <2>1, <2>2, FiledGrows DEF Push, Goto
<1>3. CASE PushNothing(r)
  BY <1>3, FiledSame DEF PushNothing, Goto
<1>4. CASE Pin(r)
  <2>1. stash # <<>> => Head(stash) \in Entries /\ Head(stash) = stash[1]
    BY TopEntry
  <2>2. stash # <<>> /\ sha'[r] = Head(stash).sha
    BY <1>4 DEF Pin
  <2>3. Filed(sha'[r])
    BY <2>1, <2>2 DEF Filed
  <2> QED
    BY <1>4, <2>3, FiledSame DEF Pin, Goto
<1>5. CASE Fence(r)
  BY <1>5, FiledSame DEF Fence, Goto
<1>6. CASE Mark(r)
  BY <1>6, FiledSame DEF Mark, Goto
<1> QED
  BY <1>1, <1>2, <1>3, <1>4, <1>5, <1>6 DEF Protect

LEMMA AwayWork ==
  ASSUME ~Racing, ~PushMayFail, KilledRestartably, TypeOK, Own, Away, NEW r \in Run, Work(r),
         UNCHANGED busy
  PROVE  Away'
<1> USE DEF Away, AwayRun, BackRun, InTree, Own, OwnRun, TypeOK, work, shared
<1>1. CASE HandOut(r)
  <2>1. /\ ~InTree(r)' /\ r \notin unmerged' /\ marker[r] # None
        /\ \A s \in Run : s # r => (InTree(s)' <=> InTree(s)) /\ (s \in unmerged' <=> s \in unmerged)
    BY <1>1 DEF HandOut, Snapshot, Sweepable, Wip
  <2> QED
    BY <1>1, <2>1, FiledSame DEF HandOut, Leave, Goto, Tell
<1>2. CASE Ask(r)
  BY <1>2, FiledSame DEF Ask, Leave, Goto, Tell
<1>3. CASE Complete(r)
  <2>1. /\ ~InTree(r)' /\ r \notin unmerged' /\ marker[r] # None
        /\ \A s \in Run : s # r => (InTree(s)' <=> InTree(s)) /\ (s \in unmerged' <=> s \in unmerged)
    BY <1>3 DEF Complete, Snapshot, Sweepable, Wip
  <2> QED
    BY <1>3, <2>1, FiledSame DEF Complete
<1>4. CASE Terminal(r)
  BY <1>4, FiledSame DEF Terminal, Goto
<1>5. CASE TerminalAnswer(r)
  BY <1>5, FiledSame DEF TerminalAnswer, Tell
<1> QED
  BY <1>1, <1>2, <1>3, <1>4, <1>5 DEF Work

LEMMA AwayRestore ==
  ASSUME ~Racing, ~PushMayFail, KilledRestartably, TypeOK, Own, Away, NEW r \in Run, Restore(r),
         UNCHANGED busy
  PROVE  Away'
<1> USE DEF Away, AwayRun, BackRun, InTree, Own, OwnRun, TypeOK, work, shared
<1>1. CASE RestoreByHand(r)
  BY <1>1, FiledSame DEF RestoreByHand, Quiet, Goto, Tell
<1>2. CASE Find(r)
  <2>1. /\ pc[r] = "restore" /\ pc' = [pc EXCEPT ![r] = "pop"]
        /\ UNCHANGED <<tree, unmerged, stash, marker, sha, signal>>
    BY <1>2 DEF Find, Goto
  <2> QED
    BY <2>1, FiledSame
<1>3. CASE FindNothing(r)
  <2>1. ~Filed(marker[r])
    BY <1>3 DEF FindNothing, OwnStash, Filed, Entries, Own
  <2> QED
    BY <1>3, <2>1, FiledSame DEF FindNothing, Goto
<1>4. CASE Pop(r)
  <2>1. stash[ref[r]].piece = Wip(r)
    BY <1>4, PopsItsOwn DEF Pop
  <2>2. Entries \ {stash[ref[r]]} \subseteq Entries'
    BY <1>4, Removed DEF Pop
  <2>3. ASSUME NEW s \in Run, s # r, NEW x \in Entries, x.piece = Wip(s) PROVE x \in Entries'
    BY <2>1, <2>2, <2>3 DEF Wip
  <2>4. ASSUME NEW s \in Run, s # r, Filed(marker[s]) PROVE Filed(marker[s])'
    BY <1>4, <2>3, <2>4 DEF Filed, Pop
  <2> QED
    BY <1>4, <2>1, <2>4 DEF Pop, Goto
<1>5. CASE PopFails(r)
  <2>1. pc[r] = "pop" /\ pc' = [pc EXCEPT ![r] = "idle"] /\ UNCHANGED <<stash, marker>>
        /\ signal' = [signal EXCEPT ![r] = "conflict"] /\ sha' = [sha EXCEPT ![r] = 0]
    BY <1>5 DEF PopFails, Leave, Goto, Tell
  <2>2. /\ \A s \in Run : s # r => (InTree(s)' <=> InTree(s)) /\ (s \in unmerged' <=> s \in unmerged)
        /\ InTree(r)' => r \in unmerged'
        /\ Filed(marker[r]) /\ marker[r] # None
    <3>1. InTree(r) => r \in unmerged
      BY <2>1
    <3>2. Wip(r) \in tree'[r] => r \in unmerged'
      BY <1>5, <3>1, FailedPop
    <3>3. Filed(marker[r]) /\ marker[r] # None
      BY <1>5, <2>1, FailedPop
    <3> QED
      BY <1>5, <3>2, <3>3, FailedPop
  <2>3. \A s \in Run : Filed(marker[s])' <=> Filed(marker[s])
    BY <2>1, FiledSame
  <2>4. ASSUME NEW s \in Run PROVE AwayRun(s)'
    <3>1. CASE s = r
      BY <2>1, <2>2, <2>3, <3>1
    <3>2. CASE s # r
      BY <2>1, <2>2, <2>3, <3>2
    <3> QED
      BY <3>1, <3>2
  <2>5. ASSUME NEW s \in busy PROVE BackRun(s)'
    <3>1. CASE s = r
      BY <2>1, <2>2, <2>3, <3>1
    <3>2. CASE s # r
      <4>1. pc'[s] = "idle" /\ pc[s] = "idle" /\ marker'[s] = marker[s]
        BY <2>1, <3>2
      <4> QED
        BY <2>2, <2>3, <3>2, <4>1
    <3> QED
      BY <3>1, <3>2
  <2> QED
    BY <2>4, <2>5
<1>6. CASE Unfence(r)
  BY <1>6, FiledSame DEF Unfence, Goto
<1>7. CASE Unmark(r)
  BY <1>7, FiledSame DEF Unmark, Leave, Goto, Tell
<1> QED
  BY <1>1, <1>2, <1>3, <1>4, <1>5, <1>6, <1>7 DEF Restore

LEMMA AwayKill ==
  ASSUME ~Racing, ~PushMayFail, KilledRestartably, TypeOK, Own, Away, NEW r \in Run, Kill(r),
         UNCHANGED busy
  PROVE  Away'
<1> USE DEF Away, AwayRun, BackRun, InTree, Own, OwnRun, TypeOK, work, shared
<1>1. pc[r] \in {"push", "ready", "restore", "pop"}
  BY DEF Kill, KilledRestartably
<1>2. /\ UNCHANGED <<tree, unmerged, stash, taken, marker, signal>> /\ pc' = [pc EXCEPT ![r] = "idle"]
      /\ sha' = [sha EXCEPT ![r] = 0]
  BY DEF Kill, Leave, Goto
<1>3. ASSUME NEW s \in busy PROVE BackRun(s)'
  <2>1. s \in Run /\ BackRun(s) /\ OwnRun(s) /\ marker'[s] = marker[s] /\ (InTree(s)' <=> InTree(s))
    BY <1>2, <1>3
  <2>2. Filed(marker[s])' <=> Filed(marker[s])
    BY <1>2, FiledSame
  <2>3. CASE s = r
    <3>1. pc'[s] = "idle" /\ pc[s] \in {"push", "ready", "restore", "pop"}
      BY <1>1, <1>2, <2>1, <2>3
    <3>2. marker[s] = None => InTree(s)
      BY ONLY <2>1, <3>1 DEF OwnRun, BackRun
    <3>3. marker[s] # None => Filed(marker[s])
      BY ONLY <2>1, <3>1 DEF OwnRun, BackRun
    <3> QED
      BY ONLY <2>1, <2>2, <3>1, <3>2, <3>3 DEF BackRun
  <2>4. CASE s # r
    <3>1. pc'[s] = pc[s] /\ sha'[s] = sha[s]
      BY <1>2, <2>1, <2>4
    <3>2. Filed(sha[s])' <=> Filed(sha[s])
      <4>1. Entries' = Entries
        BY <1>2, EntriesSame
      <4> QED
        BY <3>1, <4>1 DEF Filed
    <3> QED
      BY <2>1, <2>2, <3>1, <3>2
  <2> QED
    BY <2>3, <2>4
<1>4. ASSUME NEW s \in Run PROVE AwayRun(s)'
  <2>1. AwayRun(s) /\ OwnRun(s) /\ marker'[s] = marker[s]
        /\ (InTree(s)' <=> InTree(s)) /\ signal'[s] = signal[s]
        /\ (s \in unmerged' <=> s \in unmerged) /\ (Filed(marker[s])' <=> Filed(marker[s]))
    BY <1>2, FiledSame
  <2>2. CASE s = r
    <3>1. pc'[s] = "idle" /\ pc[s] \in {"push", "ready", "restore", "pop"}
      BY <1>1, <1>2, <2>2
    <3> QED
      BY ONLY <2>1, <3>1 DEF OwnRun, AwayRun
  <2>3. CASE s # r
    <3>1. pc'[s] = pc[s]
      BY <1>2, <2>3
    <3> QED
      BY ONLY <2>1, <3>1 DEF AwayRun
  <2> QED
    BY <2>2, <2>3
<1> QED
  BY <1>3, <1>4

LEMMA AwayStrangerPushes ==
  ASSUME ~Racing, ~PushMayFail, KilledRestartably, TypeOK, Own, Away, StrangerPushes, UNCHANGED
         busy
  PROVE  Away'
<1> USE DEF Away, AwayRun, BackRun, InTree, Own, OwnRun, TypeOK, work, shared
<1>1. Entries \subseteq Entries'
  BY PieceType, PrependKeeps DEF StrangerPushes
<1> QED
  BY <1>1, FiledGrows DEF StrangerPushes

LEMMA AwayStrangerPops ==
  ASSUME ~Racing, ~PushMayFail, KilledRestartably, TypeOK, Own, Away, StrangerPops, UNCHANGED
         busy
  PROVE  Away'
<1> USE DEF Away, AwayRun, BackRun, InTree, Own, OwnRun, TypeOK, work, shared
<1>1. PICK i \in DOMAIN stash : stash[i].piece.of = Stranger /\ stash' = RemoveAt(stash, i)
  BY DEF StrangerPops
<1>2. Entries \ {stash[i]} \subseteq Entries'
  BY <1>1, Removed
<1>3. ASSUME NEW s \in Run, NEW x \in Entries, x.piece = Wip(s) PROVE x \in Entries'
  BY <1>1, <1>2, <1>3, RunAssumption DEF Wip
<1>4. ASSUME NEW s \in Run, Filed(marker[s]) PROVE Filed(marker[s])'
  BY <1>3, <1>4 DEF Filed, StrangerPops
<1>5. \A s \in Run : pc[s] = "idle"
  BY DEF StrangerPops, Quiet
<1> QED
  BY <1>4, <1>5 DEF StrangerPops

LEMMA AwayInductive ==
  ASSUME ~Racing, ~PushMayFail, KilledRestartably, TypeOK, Own, Away, [Next]_vars
  PROVE  Away'
<1>1. CASE UNCHANGED vars
  BY <1>1 DEF vars, Away, AwayRun, BackRun, InTree, Filed, Entries, work, shared
<1>2. CASE Next
  BY <1>2, AwayProtect, AwayWork, AwayRestore, AwayKill,
     AwayStrangerPushes, AwayStrangerPops DEF Next
<1> QED
  BY <1>1, <1>2

(* When next reports the end of the run and no conflict, the operator has the work back. *)
THEOREM WorkComesBack ==
  ASSUME ~Racing, ~PushMayFail, KilledRestartably
  PROVE  Spec => []RestoredWhenOver
<1>1. ~Racing /\ TypeOK /\ Own /\ [Next]_vars => Own'
  BY OwnInductive
<1>2. /\ ~Racing /\ ~PushMayFail /\ KilledRestartably
      /\ TypeOK /\ Own /\ Away /\ [Next]_vars => Away'
  BY AwayInductive
<1>3. Away => RestoredWhenOver
  BY DEF Away, AwayRun, BackRun, InTree, RestoredWhenOver
<1> QED
  BY <1>1, <1>2, <1>3, TypeInit, TypeInductive, OwnInit, AwayInit, PTL DEF Spec

-----------------------------------------------------------------------------
(* Nothing is swept but what a conflict leaves, when moreover only one run has throwaways: the
   fence is one for all *)

OneFence == \A r, s \in Throwaways : r = s

FencedRun(r) ==
  /\ Junk(r) \in tree[r] => r \in Throwaways
  /\ r \in Throwaways =>
       /\ pc[r] \in {"mark", "ready", "restore", "pop", "unfence"} => fence
       /\ pc[r] = "idle" /\ marker[r] # None => fence

Fenced == \A r \in Run : FencedRun(r)

LEMMA FencedInit == Init => Fenced
<1>1. \A r, s \in Run : Wip(r) # Junk(s)
  BY DEF Wip, Junk
<1> QED
  BY <1>1 DEF Init, Fenced, FencedRun

(* While the fence is up a snapshot of a run takes nothing, unless a conflict has left the work,
   and then the work is in the stash as well. *)
LEMMA LittleToSweep ==
  ASSUME TypeOK, Own, Away, Fenced, NEW r \in Run,
         marker[r] # None, pc[r] \in {"idle", "ready"}, NEW p \in Sweepable(r)
  PROVE  p = Wip(r) /\ r \in unmerged /\ \E i \in OwnStash(r) : stash[i].piece = p
<1>1. tree[r] \subseteq {Wip(r), Junk(r)}
  BY DEF Own, OwnRun
<1>2. Junk(r) \in tree[r] => fence
  BY DEF Fenced, FencedRun
<1>3. p = Wip(r) /\ InTree(r)
  <2>1. p \in tree[r] /\ (p.tracked \/ ~fence)
    BY DEF Sweepable
  <2>2. p = Wip(r) \/ p = Junk(r)
    BY <1>1, <2>1
  <2>3. ~Junk(r).tracked
    BY DEF Junk
  <2>4. p # Junk(r)
    BY <1>2, <2>1, <2>3
  <2> QED
    BY <2>1, <2>2, <2>4 DEF InTree
<1>4. r \in unmerged /\ Filed(marker[r])
  BY <1>3 DEF Away, AwayRun
<1>5. PICK i \in DOMAIN stash : stash[i].sha = marker[r]
  BY <1>4 DEF Filed, Entries
<1>6. stash[i].piece = Wip(r)
  BY <1>5 DEF Own, OwnRun, Entries
<1> QED
  BY <1>3, <1>4, <1>5, <1>6 DEF OwnStash

(* Only a snapshot takes, and what it takes is that. *)
LEMMA TakesLittle ==
  ASSUME ~Racing, TypeOK, Own, Away, Fenced, Next, NEW p \in taken' \ taken
  PROVE  p.of \in unmerged /\ \E i \in OwnStash(p.of) : stash[i].piece = p
<1>1. \A r \in Run : Wip(r).of = r
  BY DEF Wip
<1>2. ASSUME NEW r \in Run, HandOut(r) \/ Complete(r)
      PROVE  p.of \in unmerged /\ \E i \in OwnStash(p.of) : stash[i].piece = p
  <2>1. p \in Sweepable(r) /\ marker[r] # None /\ pc[r] \in {"idle", "ready"}
    BY <1>2 DEF HandOut, Complete, Snapshot, Away, AwayRun, Own, OwnRun
  <2>2. p = Wip(r) /\ r \in unmerged /\ \E i \in OwnStash(r) : stash[i].piece = p
    BY <2>1, LittleToSweep
  <2> QED
    BY <1>1, <2>2
<1>3. \/ UNCHANGED taken
      \/ \E r \in Run : HandOut(r) \/ Complete(r)
  <2>1. ASSUME NEW r \in Run, Protect(r) PROVE UNCHANGED taken
    BY <2>1 DEF Protect, CallNext, Push, PushNothing, Pin, Fence, Mark, shared
  <2>2. ASSUME NEW r \in Run, Work(r), ~HandOut(r), ~Complete(r) PROVE UNCHANGED taken
    BY <2>2 DEF Work, Ask, Terminal, TerminalAnswer, shared
  <2>3. ASSUME NEW r \in Run, Restore(r) PROVE UNCHANGED taken
    BY <2>3 DEF Restore, RestoreByHand, Find, FindNothing, Pop, PopFails, Unfence, Unmark, shared
  <2>4. ASSUME NEW r \in Run, Kill(r) PROVE UNCHANGED taken
    BY <2>4 DEF Kill, shared
  <2>5. StrangerPushes \/ StrangerPops => UNCHANGED taken
    BY DEF StrangerPushes, StrangerPops
  <2> QED
    BY <2>1, <2>2, <2>3, <2>4, <2>5 DEF Next
<1> QED
  BY <1>2, <1>3

LEMMA FencedProtect ==
  ASSUME ~Racing, KilledRestartably, OneFence, TypeOK, Own, Away, Fenced, NEW r \in Run,
         Protect(r), UNCHANGED busy
  PROVE  Fenced'
<1> USE DEF Fenced, FencedRun, Own, OwnRun, TypeOK, work, shared, OneFence
<1>1. CASE CallNext(r)
  BY <1>1 DEF CallNext, Quiet, FirstStep, Goto, Tell
<1>2. CASE Push(r)
  BY <1>2 DEF Push, Goto
<1>3. CASE PushNothing(r)
  BY <1>3 DEF PushNothing, Goto
<1>4. CASE Pin(r)
  BY <1>4 DEF Pin, Goto
<1>5. CASE Fence(r)
  BY <1>5 DEF Fence, Goto
<1>6. CASE Mark(r)
  BY <1>6 DEF Mark, Goto
<1> QED
  BY <1>1, <1>2, <1>3, <1>4, <1>5, <1>6 DEF Protect

LEMMA FencedWork ==
  ASSUME ~Racing, KilledRestartably, OneFence, TypeOK, Own, Away, Fenced, NEW r \in Run,
         Work(r), UNCHANGED busy
  PROVE  Fenced'
<1> USE DEF Fenced, FencedRun, Own, OwnRun, TypeOK, work, shared, OneFence
<1>1. CASE HandOut(r)
  BY <1>1 DEF HandOut, Snapshot, Leave, Goto
<1>2. CASE Ask(r)
  BY <1>2 DEF Ask, Leave, Goto, Tell
<1>3. CASE Complete(r)
  BY <1>3 DEF Complete, Snapshot
<1>4. CASE Terminal(r)
  BY <1>4 DEF Terminal, Goto
<1>5. CASE TerminalAnswer(r)
  BY <1>5 DEF TerminalAnswer, Tell
<1> QED
  BY <1>1, <1>2, <1>3, <1>4, <1>5 DEF Work

LEMMA FencedRestore ==
  ASSUME ~Racing, KilledRestartably, OneFence, TypeOK, Own, Away, Fenced, NEW r \in Run,
         Restore(r), UNCHANGED busy
  PROVE  Fenced'
<1> USE DEF Fenced, FencedRun, Own, OwnRun, TypeOK, work, shared, OneFence
<1>1. CASE RestoreByHand(r)
  BY <1>1 DEF RestoreByHand, Quiet, Goto, Tell
<1>2. CASE Find(r)
  BY <1>2 DEF Find, Goto, OwnStash
<1>3. CASE FindNothing(r)
  BY <1>3 DEF FindNothing, Goto, OwnStash
<1>4. CASE Pop(r)
  <2>1. stash[ref[r]].piece = Wip(r)
    BY <1>4, PopsItsOwn DEF Pop
  <2>2. Wip(r) # Junk(r)
    BY DEF Wip, Junk
  <2> QED
    BY <1>4, <2>1, <2>2 DEF Pop, Goto
<1>5. CASE PopFails(r)
  <2>1. Wip(r) # Junk(r)
    BY DEF Wip, Junk
  <2>2. \A s \in Run : Junk(s) \in tree'[s] => Junk(s) \in tree[s]
    BY <1>5, <2>1, FailedPop
  <2>3. /\ pc[r] = "pop" /\ pc' = [pc EXCEPT ![r] = "idle"]
        /\ UNCHANGED <<fence, marker>>
    BY <1>5 DEF PopFails, Leave, Goto
  <2> QED
    BY <2>2, <2>3
<1>6. CASE Unfence(r)
  BY <1>6 DEF Unfence, Goto
<1>7. CASE Unmark(r)
  BY <1>7 DEF Unmark, Leave, Goto, Tell
<1> QED
  BY <1>1, <1>2, <1>3, <1>4, <1>5, <1>6, <1>7 DEF Restore

LEMMA FencedKill ==
  ASSUME ~Racing, KilledRestartably, OneFence, TypeOK, Own, Away, Fenced, NEW r \in Run,
         Kill(r), UNCHANGED busy
  PROVE  Fenced'
<1> USE DEF Fenced, FencedRun, Own, OwnRun, TypeOK, work, shared, OneFence
<1>1. pc[r] \in {"push", "ready", "restore", "pop"} /\ pc' = [pc EXCEPT ![r] = "idle"]
  BY DEF Kill, KilledRestartably, Leave, Goto
<1>2. UNCHANGED <<tree, fence, taken, marker>>
  BY DEF Kill
<1>3. ASSUME NEW s \in Run PROVE FencedRun(s)'
  <2>1. FencedRun(s) /\ (s = r => OwnRun(s))
    OBVIOUS
  <2>2. CASE s = r
    BY ONLY <1>1, <1>2, <2>1, <2>2 DEF FencedRun, OwnRun
  <2>3. CASE s # r
    BY <1>1, <1>2, <2>1, <2>3
  <2> QED
    BY <2>2, <2>3
<1> QED
  BY <1>2, <1>3

LEMMA FencedStrangerPushes ==
  ASSUME ~Racing, KilledRestartably, OneFence, TypeOK, Own, Away, Fenced, StrangerPushes,
         UNCHANGED busy
  PROVE  Fenced'
<1> USE DEF Fenced, FencedRun, Own, OwnRun, TypeOK, work, shared, OneFence
<1> QED
  BY DEF StrangerPushes, Quiet

LEMMA FencedStrangerPops ==
  ASSUME ~Racing, KilledRestartably, OneFence, TypeOK, Own, Away, Fenced, StrangerPops,
         UNCHANGED busy
  PROVE  Fenced'
<1> USE DEF Fenced, FencedRun, Own, OwnRun, TypeOK, work, shared, OneFence
<1> QED
  BY DEF StrangerPops, Quiet

LEMMA FencedInductive ==
  ASSUME ~Racing, KilledRestartably, OneFence, TypeOK, Own, Away, Fenced, [Next]_vars
  PROVE  Fenced'
<1>1. CASE UNCHANGED vars
  BY <1>1 DEF vars, Fenced, FencedRun, work, shared
<1>2. CASE Next
  BY <1>2, FencedProtect, FencedWork, FencedRestore, FencedKill,
     FencedStrangerPushes, FencedStrangerPops DEF Next
<1> QED
  BY <1>1, <1>2

(* No snapshot of any run ever commits a throwaway, nor the operator's tracked work unless a
   conflicting pop has left it in the tree, and then the pinned stash has it too. *)
THEOREM NeverSwept ==
  ASSUME ~Racing, ~PushMayFail, KilledRestartably, OneFence
  PROVE  Spec => NothingSwept
<1>1. ~Racing /\ TypeOK /\ Own /\ [Next]_vars => Own'
  BY OwnInductive
<1>2. /\ ~Racing /\ ~PushMayFail /\ KilledRestartably
      /\ TypeOK /\ Own /\ Away /\ [Next]_vars => Away'
  BY AwayInductive
<1>3. /\ ~Racing /\ KilledRestartably /\ OneFence
      /\ TypeOK /\ Own /\ Away /\ Fenced /\ [Next]_vars => Fenced'
  BY FencedInductive
<1>4. /\ ~Racing /\ TypeOK /\ Own /\ Away /\ Fenced /\ [Next]_vars
      => [\A p \in taken' \ taken :
            p.of \in unmerged /\ \E i \in OwnStash(p.of) : stash[i].piece = p]_vars
  BY TakesLittle
<1> QED
  BY <1>1, <1>2, <1>3, <1>4, TypeInit, TypeInductive, OwnInit, AwayInit, FencedInit,
     PTL DEF Spec, NothingSwept

=============================================================================
