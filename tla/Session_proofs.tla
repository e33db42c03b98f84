---------------------------- MODULE Session_proofs ----------------------------
(***************************************************************************)
(* Proofs about Session, for any sessions, records, slice cap and bounds.  *)
(***************************************************************************)
EXTENDS Session, WellFoundedInduction, TLAPS

-----------------------------------------------------------------------------
(* The high-water mark. *)

\* The stamps in the store are bounded, so that it has a high-water mark.
Bounded == \E n \in Nat : \A id \in Present : store[id].at <= n

LEMMA MarkIsMax ==
    ASSUME store \in [Id -> Entry], Bounded
    PROVE  /\ MaxUpdatedAt \in {store[id].at : id \in Present} \cup {0}
           /\ MaxUpdatedAt \in Nat
           /\ \A id \in Present : store[id].at <= MaxUpdatedAt
<1> DEFINE S == {store[id].at : id \in Present} \cup {0}
           T == {n \in Nat : \A id \in Present : store[id].at <= n}
<1>1. \A id \in Present : store[id] \in Record /\ store[id].at \in Nat
    BY DEF Present, Entry, Record
<1>2. PICK m \in T : \A n \in T : m <= n
    <2>1. T \subseteq Nat /\ T # {}
        BY DEF Bounded
    <2> HIDE DEF T
    <2> DEFINE R == {p \in Nat \X Nat : p[1] < p[2]}
    <2>2. IsWellFoundedOn(R, Nat)
        BY NatLessThanWellFounded DEF OpToRel
    <2> HIDE DEF R
    <2>3. PICK m \in T : \A n \in T : ~(<<n, m>> \in R)
        BY <2>1, <2>2, WFMin
    <2>4. \A n \in T : m <= n
        <3> SUFFICES ASSUME NEW n \in T PROVE m <= n
            OBVIOUS
        <3>1. n \in Nat /\ m \in Nat
            BY <2>1
        <3>2. n < m => <<n, m>> \in R
            BY <3>1 DEF R
        <3> QED
            BY <2>3, <3>1, <3>2
    <2> QED
        BY <2>4
<1>3. m \in S
    <2>1. CASE m = 0
        BY <2>1
    <2>2. CASE m # 0
        <3>1. m - 1 \in Nat /\ m - 1 \notin T
            BY <1>2, <2>2
        <3>2. PICK id \in Present : ~(store[id].at <= m - 1)
            BY <3>1
        <3>3. store[id].at = m
            BY <1>1, <1>2, <3>2
        <3> QED
            BY <3>3
    <2> QED
        BY <2>1, <2>2
<1>4. \E x \in S : \A id \in Present : store[id].at <= x
    BY <1>2, <1>3
<1>5. MaxUpdatedAt \in S /\ \A id \in Present : store[id].at <= MaxUpdatedAt
    BY <1>4 DEF MaxUpdatedAt
<1> QED
    BY <1>1, <1>5

-----------------------------------------------------------------------------
(* Type correctness. *)

TypeInv == TypeOK /\ Bounded

LEMMA TypeInit == Init => TypeInv
<1> SUFFICES ASSUME Init PROVE TypeInv
    OBVIOUS
<1>1. [content : Content, at : {1}] \cup {Absent} \subseteq Entry
    BY DEF Entry, Record
<1>2. store \in [Id -> Entry]
    BY <1>1 DEF Init
<1>3. Fresh \in Checkpoint /\ NoRefill \in Refill
    BY DEF Fresh, Unseen, Checkpoint, NoRefill, Refill
<1>4. Bounded
    <2>1. \A id \in Present : store[id].at <= 1
        BY DEF Init, Present
    <2> QED
        BY <2>1 DEF Bounded
<1> QED
    BY <1>2, <1>3, <1>4 DEF Init, TypeInv, TypeOK

LEMMA ArmKeepsType ==
    ASSUME TypeInv, NEW c \in Checkpoint, NEW remember \in BOOLEAN
    PROVE  Arm(c, remember) \in Checkpoint /\ Arm(c, remember).seen = c.seen
                                           /\ Arm(c, remember).needFloor = c.needFloor
<1>1. MaxUpdatedAt \in Nat
    BY MarkIsMax DEF TypeInv, TypeOK
<1> QED
    BY <1>1 DEF Arm, Checkpoint

LEMMA ListedIsPresent == Listed \subseteq Present
    BY DEF Listed

LEMMA MarkKeepsType ==
    ASSUME TypeInv, NEW seen \in [Id -> Nat], NEW k \in SUBSET Present
    PROVE  Mark(seen, k) \in [Id -> Nat]
    BY DEF Mark, TypeInv, TypeOK, Present, Entry, Record

LEMMA ShownAreRecords ==
    ASSUME TypeInv, NEW k \in SUBSET Present
    PROVE  Shown(k) \subseteq Id \X Record
    BY DEF Shown, TypeInv, TypeOK, Present, Entry

LEMMA CommitStores ==
    ASSUME TypeInv, NEW id \in Id, Commit(id)
    PROVE  \E r \in Record : /\ store' = [store EXCEPT ![id] = r]
                             /\ r.at = last' /\ last' \in Nat /\ last' # 0
                             /\ OneClock => last' > last
<1>1. PICK c \in Content, now \in Clock :
        LET t == NextStamp(IF OneClock THEN last ELSE 0, now) IN
        /\ store' = [store EXCEPT ![id] = Stamped([content |-> c, at |-> 0], t)]
        /\ last' = t
    BY DEF Commit
<1> DEFINE t == NextStamp(IF OneClock THEN last ELSE 0, now)
           r == Stamped([content |-> c, at |-> 0], t)
<1>2. t \in Nat /\ t # 0 /\ (OneClock => t > last)
    BY ClockIsMillis DEF NextStamp, TypeInv, TypeOK
<1>3. r \in Record /\ r.at = t
    BY <1>2 DEF Stamped, Record
<1> QED
    BY <1>1, <1>2, <1>3

LEMMA ChangeKeepsRefill ==
    ASSUME TypeInv, StoreChanges
    PROVE  refill' \in [Sess -> Refill]
<1>1. \A s \in Sess : [refill[s] EXCEPT !.again = refill[s].on] \in Refill
    BY DEF TypeInv, TypeOK, Refill
<1> QED
    BY <1>1 DEF StoreChanges

LEMMA TypeStep == TypeInv /\ [Next]_vars => TypeInv'
<1> SUFFICES ASSUME TypeInv, [Next]_vars PROVE TypeInv'
    OBVIOUS
<1>0. /\ Fresh \in Checkpoint /\ NoRefill \in Refill
      /\ [Fresh EXCEPT !.needFloor = TRUE] \in Checkpoint
      /\ Unseen \in [Id -> Nat]
    BY DEF Fresh, Unseen, Checkpoint, NoRefill, Refill
<1>1. ASSUME NEW id \in Id, Commit(id) PROVE TypeInv'
    <2>1. PICK r \in Record : store' = [store EXCEPT ![id] = r] /\ last' \in Nat
        BY <1>1, CommitStores
    <2>2. store' \in [Id -> Entry]
        BY <2>1 DEF TypeInv, TypeOK, Entry
    <2>3. Bounded'
        <3>1. PICK n \in Nat : \A x \in Present : store[x].at <= n
            BY DEF TypeInv, Bounded
        <3>2. r.at \in Nat
            BY DEF Record
        <3>3. \A x \in Present : store[x].at \in Nat
            BY DEF TypeInv, TypeOK, Present, Entry, Record
        <3>4. \A x \in Present' : x \in Id /\ (x = id \/ x \in Present)
            BY <2>1 DEF Present, TypeInv, TypeOK
        <3>5. \A x \in Present' : store'[x].at <= n + r.at
            <4> SUFFICES ASSUME NEW x \in Present' PROVE store'[x].at <= n + r.at
                OBVIOUS
            <4>1. CASE x = id
                BY <2>1, <3>2, <4>1 DEF TypeInv, TypeOK
            <4>2. CASE x # id
                <5>1. x \in Id /\ store'[x] = store[x] /\ x \in Present
                    BY <2>1, <3>4, <4>2 DEF TypeInv, TypeOK
                <5> QED
                    BY <3>1, <3>2, <3>3, <5>1
            <4> QED
                BY <4>1, <4>2
        <3>6. n + r.at \in Nat
            BY <3>2
        <3> QED
            BY <3>5, <3>6 DEF Bounded
    <2>4. refill' \in [Sess -> Refill]
        BY <1>1, ChangeKeepsRefill DEF Commit
    <2>5. since' \in [Sess -> SUBSET Id]
        BY <1>1 DEF TypeInv, TypeOK, Commit
    <2> QED
        BY <1>1, <2>1, <2>2, <2>3, <2>4, <2>5 DEF TypeInv, TypeOK, Commit, StoreChanges
<1>2. ASSUME NEW id \in Id, Forget(id) PROVE TypeInv'
    <2>1. store' \in [Id -> Entry]
        BY <1>2 DEF TypeInv, TypeOK, Forget, Entry
    <2>2. Bounded'
        <3>1. \A x \in Present' : x \in Present /\ store'[x] = store[x]
            BY <1>2 DEF TypeInv, TypeOK, Forget, Present
        <3> QED
            BY <3>1 DEF TypeInv, Bounded
    <2>3. refill' \in [Sess -> Refill]
        BY <1>2, ChangeKeepsRefill DEF Forget
    <2>4. since' \in [Sess -> SUBSET Id]
        BY <1>2 DEF TypeInv, TypeOK, Forget
    <2> QED
        BY <1>2, <2>1, <2>2, <2>3, <2>4 DEF TypeInv, TypeOK, Forget, StoreChanges
<1>3. ASSUME NEW s \in Sess, Start(s) \/ Compact(s) \/ Lose(s) PROVE TypeInv'
    <2>1. CASE Start(s)
        BY <1>0, <2>1 DEF TypeInv, TypeOK, Bounded, Present, Start
    <2>2. CASE Compact(s)
        BY <1>0, <2>2 DEF TypeInv, TypeOK, Bounded, Present, Compact
    <2>3. CASE Lose(s)
        BY <1>0, <2>3 DEF TypeInv, TypeOK, Bounded, Present, Lose
    <2> QED
        BY <1>3, <2>1, <2>2, <2>3
<1>4. ASSUME NEW s \in Sess, Stop(s) PROVE TypeInv'
    BY <1>4 DEF TypeInv, TypeOK, Bounded, Present, Stop, counters, Checkpoint
<1>5. ASSUME NEW s \in Sess, RefillMark(s) PROVE TypeInv'
    <2>1. PICK k \in SUBSET Present :
            cp' = [cp EXCEPT ![s].seen = Mark(Unseen, k), ![s].needFloor = FALSE]
        BY <1>5, ListedIsPresent DEF RefillMark
    <2>2. Mark(Unseen, k) \in [Id -> Nat]
        BY <1>0, MarkKeepsType
    <2>3. cp' \in [Sess -> Checkpoint]
        BY <2>1, <2>2 DEF TypeInv, TypeOK, Checkpoint
    <2>4. [NoRefill EXCEPT !.upto = IF refill[s].again THEN last ELSE 0] \in Refill
        BY DEF TypeInv, TypeOK, NoRefill, Refill
    <2>5. refill' \in [Sess -> Refill]
        BY <1>5, <2>4 DEF TypeInv, TypeOK, RefillMark
    <2> QED
        BY <1>5, <2>3, <2>5 DEF TypeInv, TypeOK, Bounded, Present, RefillMark, counters
<1>6. ASSUME NEW s \in Sess, NEW task \in SUBSET Id, NEW remember \in BOOLEAN, Turn(s, task, remember)
      PROVE  TypeInv'
    <2>1. PICK k \in Slices(Candidates(s, task)) :
            /\ ctx' = [ctx EXCEPT ![s] = @ \cup Shown(k)]
            /\ cp' = [cp EXCEPT ![s] = [Arm(cp[s], remember) EXCEPT !.seen = Mark(@, k)]]
        BY <1>6 DEF Turn
    <2>2. k \in SUBSET Present
        BY ListedIsPresent DEF Slices, Candidates
    <2>3. ctx' \in [Sess -> SUBSET (Id \X Record)]
        BY <2>1, <2>2, ShownAreRecords DEF TypeInv, TypeOK
    <2>4. cp' \in [Sess -> Checkpoint]
        <3>1. cp[s] \in Checkpoint
            BY DEF TypeInv, TypeOK
        <3>2. Arm(cp[s], remember) \in Checkpoint
            BY <3>1, ArmKeepsType
        <3>3. Mark(Arm(cp[s], remember).seen, k) \in [Id -> Nat]
            BY <2>2, <3>2, MarkKeepsType DEF Checkpoint
        <3>4. [Arm(cp[s], remember) EXCEPT !.seen = Mark(@, k)] \in Checkpoint
            BY <3>2, <3>3 DEF Checkpoint
        <3> QED
            BY <2>1, <3>4 DEF TypeInv, TypeOK
    <2> QED
        BY <1>6, <2>3, <2>4 DEF TypeInv, TypeOK, Bounded, Present, Turn, Remember
<1>7. ASSUME NEW s \in Sess, NEW task \in SUBSET Id, NEW remember \in BOOLEAN, RefillShow(s, task, remember)
      PROVE  TypeInv'
    <2>1. PICK k \in Slices(task \cap Listed), words \in BOOLEAN, sel \in BOOLEAN :
            /\ ctx' = [ctx EXCEPT ![s] = @ \cup Injected(k, words)]
            /\ refill' = [refill EXCEPT ![s] = [on |-> TRUE, kept |-> k, again |-> sel, upto |-> @.upto]]
        BY <1>7 DEF RefillShow
    <2>2. k \in SUBSET Present /\ k \in SUBSET Id
        BY ListedIsPresent DEF Slices, Present
    <2>3. ctx' \in [Sess -> SUBSET (Id \X Record)]
        <3>1. Injected(k, words) \subseteq Id \X Record
            BY <2>2, ListedIsPresent, ShownAreRecords DEF Injected
        <3> QED
            BY <2>1, <3>1 DEF TypeInv, TypeOK
    <2>4. refill' \in [Sess -> Refill]
        <3> DEFINE r == [on |-> TRUE, kept |-> k, again |-> sel, upto |-> refill[s].upto]
        <3>1. r \in Refill
            BY <2>2 DEF TypeInv, TypeOK, Refill
        <3>2. refill' = [refill EXCEPT ![s] = r]
            BY <2>1 DEF TypeInv, TypeOK
        <3> HIDE DEF r
        <3> QED
            BY <3>1, <3>2 DEF TypeInv, TypeOK
    <2>5. cp' \in [Sess -> Checkpoint]
        <3>1. cp[s] \in Checkpoint
            BY DEF TypeInv, TypeOK
        <3>2. Arm(cp[s], remember) \in Checkpoint
            BY <3>1, ArmKeepsType
        <3> QED
            BY <1>7, <3>2 DEF TypeInv, TypeOK, RefillShow
    <2>6. Bounded'
        BY <1>7 DEF TypeInv, Bounded, Present, RefillShow
    <2>7. remembers' \in Nat
        BY <1>7 DEF TypeInv, TypeOK, RefillShow, Remember
    <2> QED
        BY <1>7, <2>3, <2>4, <2>5, <2>6, <2>7 DEF TypeInv, TypeOK, RefillShow
<1>8. CASE UNCHANGED vars
    BY <1>8 DEF TypeInv, TypeOK, Bounded, Present, vars
<1> QED
    BY <1>1, <1>2, <1>3, <1>4, <1>5, <1>6, <1>7, <1>8 DEF Next

\* Every reachable state has the shape TypeOK gives it; the store always has a
\* high-water mark, which the type of flaggedAt rests on.
THEOREM TypeCorrect == Spec => []TypeOK
<1>1. TypeInv => TypeOK
    BY DEF TypeInv
<1> QED
    BY TypeInit, TypeStep, <1>1, PTL DEF Spec

-----------------------------------------------------------------------------
(* The protocol is never lost unnoticed. *)

\* A refill has sent the protocol before its second reading.
FloorInv == FloorIsThereOrDue /\ \A s \in Sess : refill[s].on => floor[s]

\* While a checkpoint that owes the floor is not lost before it is read again,
\* every session's agent has the protocol or gets it with its next turn.
THEOREM FloorIsThereOrDueAlways ==
    ASSUME KeepFloorMark = TRUE
    PROVE  Spec => []FloorIsThereOrDue
<1>1. Init => FloorInv
    BY DEF Init, FloorInv, FloorIsThereOrDue, NoRefill
<1>2. TypeInv /\ FloorInv /\ [Next]_vars => FloorInv'
    <2> SUFFICES ASSUME TypeInv, FloorInv, [Next]_vars PROVE FloorInv'
        OBVIOUS
    <2> USE DEF TypeInv, TypeOK, FloorInv, FloorIsThereOrDue, Refill, Checkpoint
    <2>1. ASSUME NEW id \in Id, Commit(id) \/ Forget(id) PROVE FloorInv'
        <3>1. StoreChanges
            BY <2>1 DEF Commit, Forget
        <3>2. \A s \in Sess : refill'[s].on = refill[s].on
            BY <3>1 DEF StoreChanges
        <3> QED
            BY <3>1, <3>2 DEF StoreChanges
    <2>2. ASSUME NEW s \in Sess, Start(s) PROVE FloorInv'
        BY <2>2 DEF Start, Idle
    <2>3. ASSUME NEW s \in Sess, Compact(s) PROVE FloorInv'
        <3>1. cp'[s].needFloor /\ \A x \in Sess : x # s => cp'[x] = cp[x]
            BY <2>3 DEF Compact, Fresh
        <3>2. ~refill'[s].on /\ \A x \in Sess : x # s => refill'[x] = refill[x] /\ floor'[x] = floor[x]
            BY <2>3 DEF Compact, NoRefill
        <3> QED
            BY <3>1, <3>2
    <2>4. ASSUME NEW s \in Sess, Stop(s) PROVE FloorInv'
        BY <2>4 DEF Stop
    <2>5. ASSUME NEW s \in Sess, Lose(s) PROVE FloorInv'
        BY <2>5 DEF Lose
    <2>6. ASSUME NEW s \in Sess, RefillMark(s) PROVE FloorInv'
        BY <2>6 DEF RefillMark, NoRefill
    <2>7. ASSUME NEW s \in Sess, NEW task \in SUBSET Id, NEW remember \in BOOLEAN,
                 Turn(s, task, remember)
          PROVE  FloorInv'
        <3>1. Idle(s) /\ ~cp[s].needFloor /\ UNCHANGED <<refill, floor>>
            BY <2>7 DEF Turn
        <3>2. \A x \in Sess : x # s => cp'[x] = cp[x]
            BY <2>7 DEF Turn
        <3>3. \A x \in Sess : floor'[x] \/ cp'[x].needFloor
            BY <3>1, <3>2
        <3>4. \A x \in Sess : refill'[x].on => floor'[x]
            BY <3>1
        <3> QED
            BY <3>3, <3>4
    <2>8. ASSUME NEW s \in Sess, NEW task \in SUBSET Id, NEW remember \in BOOLEAN,
                 RefillShow(s, task, remember)
          PROVE  FloorInv'
        BY <2>8 DEF RefillShow
    <2>9. CASE UNCHANGED vars
        BY <2>9 DEF vars
    <2> HIDE DEF TypeInv, TypeOK, FloorInv, FloorIsThereOrDue
    <2> QED
        BY <2>1, <2>2, <2>3, <2>4, <2>5, <2>6, <2>7, <2>8, <2>9 DEF Next
<1>3. FloorInv => FloorIsThereOrDue
    BY DEF FloorInv
<1> QED
    BY <1>1, <1>2, <1>3, TypeInit, TypeStep, PTL DEF Spec

-----------------------------------------------------------------------------
(* Stamps of one clock order the history. *)

\* Every stamp in the store and in a checkpoint was issued already.
StampsIssued ==
    /\ \A id \in Present : store[id].at # 0 /\ store[id].at <= last
    /\ \A s \in Sess : cp[s].flaggedAt <= last /\ \A id \in Id : cp[s].seen[id] <= last

\* The mark of an @remember separates what was committed before from what was
\* committed after it.
MarkSeparates ==
    \A s \in Sess :
        /\ since[s] \subseteq Present
        /\ ~cp[s].flagged => since[s] = {}
        /\ cp[s].flagged => \A id \in Present : id \in since[s] <=> store[id].at > cp[s].flaggedAt

\* A refill that will select the same again has shown what its checkpoint will hold.
RefillIsShown ==
    \A s \in Sess : refill[s].on /\ ~refill[s].again => /\ refill[s].kept \subseteq Present
                                                        /\ Shown(refill[s].kept) \subseteq ctx[s]

HistoryInv == StampsIssued /\ MarkSeparates
SeenInv == SeenIsShown /\ RefillIsShown

\* What a Turn or a RefillShow does to the mark: arming takes the high-water
\* mark of the store, which no stamp exceeds.
LEMMA ArmSeparates ==
    ASSUME TypeInv, HistoryInv, NEW s \in Sess, NEW remember \in BOOLEAN
    PROVE  LET c == Arm(cp[s], remember) IN
           /\ c.flaggedAt <= last
           /\ ~c.flagged => since[s] = {}
           /\ c.flagged => \A id \in Present : id \in since[s] <=> store[id].at > c.flaggedAt
<1> DEFINE c == Arm(cp[s], remember)
<1>1. /\ MaxUpdatedAt \in {store[id].at : id \in Present} \cup {0}
      /\ MaxUpdatedAt \in Nat
      /\ \A id \in Present : store[id].at <= MaxUpdatedAt
    BY MarkIsMax DEF TypeInv, TypeOK
<1>2. MaxUpdatedAt <= last
    BY <1>1 DEF HistoryInv, StampsIssued, TypeInv, TypeOK
<1>3. cp[s] \in Checkpoint
    BY DEF TypeInv, TypeOK
<1>4. CASE remember /\ ~cp[s].flagged
    <2>1. c.flagged /\ c.flaggedAt = MaxUpdatedAt
        BY <1>3, <1>4 DEF Arm, Checkpoint
    <2>2. since[s] = {}
        BY <1>4 DEF HistoryInv, MarkSeparates
    <2>3. \A id \in Present : store[id].at \in Nat
        BY DEF TypeInv, TypeOK, Present, Entry, Record
    <2>4. \A id \in Present : ~(store[id].at > MaxUpdatedAt)
        BY <1>1, <2>3
    <2> QED
        BY <1>2, <2>1, <2>2, <2>4
<1>5. CASE ~(remember /\ ~cp[s].flagged)
    BY <1>5 DEF Arm, HistoryInv, StampsIssued, MarkSeparates
<1> QED
    BY <1>4, <1>5

LEMMA MarkIsIssued ==
    ASSUME TypeInv, StampsIssued, NEW seen \in [Id -> Nat], NEW k \in SUBSET Present,
           \A id \in Id : seen[id] <= last
    PROVE  \A id \in Id : Mark(seen, k)[id] <= last
    BY DEF Mark, StampsIssued

LEMMA HistoryInit == Init => HistoryInv
    BY DEF Init, HistoryInv, StampsIssued, MarkSeparates, Present, Fresh, Unseen

LEMMA HistoryCommit ==
    ASSUME OneClock = TRUE, TypeInv, HistoryInv, NEW id \in Id, Commit(id)
    PROVE  HistoryInv'
<1>1. PICK r \in Record : /\ store' = [store EXCEPT ![id] = r]
                          /\ r.at = last' /\ last' \in Nat /\ last' # 0
                          /\ last' > last
    BY CommitStores
<1>2. /\ UNCHANGED cp
      /\ since' = [s \in Sess |-> IF cp[s].flagged THEN since[s] \cup {id} ELSE {}]
    BY DEF Commit, StoreChanges
<1>3. last \in Nat
    BY DEF TypeInv, TypeOK
<1>4. store'[id] = r /\ \A x \in Id : x # id => store'[x] = store[x]
    BY <1>1 DEF TypeInv, TypeOK
<1>5. Present' = Present \cup {id}
    BY <1>4, AbsentIsNoRecord DEF Present
<1>6. \A x \in Present : store[x].at \in Nat
    BY DEF TypeInv, TypeOK, Present, Entry, Record
<1>7. \A s \in Sess : cp[s].flaggedAt \in Nat /\ \A x \in Id : cp[s].seen[x] \in Nat
    BY DEF TypeInv, TypeOK, Checkpoint
<1>8. StampsIssued'
    <2>1. \A x \in Present' : store'[x].at # 0 /\ store'[x].at <= last'
        <3> SUFFICES ASSUME NEW x \in Present' PROVE store'[x].at # 0 /\ store'[x].at <= last'
            OBVIOUS
        <3>1. CASE x = id
            BY <1>1, <1>4, <3>1
        <3>2. CASE x # id
            <4>1. x \in Present /\ x \in Id /\ store'[x] = store[x]
                BY <1>4, <1>5, <3>2 DEF Present
            <4> QED
                BY <1>1, <1>3, <1>6, <4>1 DEF HistoryInv, StampsIssued
        <3> QED
            BY <3>1, <3>2
    <2>2. \A s \in Sess : cp[s].flaggedAt <= last' /\ \A x \in Id : cp[s].seen[x] <= last'
        BY <1>1, <1>3, <1>7 DEF HistoryInv, StampsIssued
    <2> QED
        BY <1>2, <2>1, <2>2 DEF StampsIssued
<1>9. MarkSeparates'
    <2> SUFFICES ASSUME NEW s \in Sess
                 PROVE  /\ since'[s] \subseteq Present'
                        /\ ~cp[s].flagged => since'[s] = {}
                        /\ cp[s].flagged => \A x \in Present' :
                              x \in since'[s] <=> store'[x].at > cp[s].flaggedAt
        BY <1>2 DEF MarkSeparates
    <2>1. since'[s] = IF cp[s].flagged THEN since[s] \cup {id} ELSE {}
        BY <1>2
    <2>2. ASSUME cp[s].flagged, NEW x \in Present'
          PROVE  x \in since'[s] <=> store'[x].at > cp[s].flaggedAt
        <3>1. CASE x = id
            <4>1. store'[x].at > cp[s].flaggedAt
                BY <1>1, <1>3, <1>4, <1>7, <3>1 DEF HistoryInv, StampsIssued
            <4> QED
                BY <2>1, <2>2, <3>1, <4>1
        <3>2. CASE x # id
            <4>1. x \in Present /\ x \in Id /\ store'[x] = store[x]
                BY <1>4, <1>5, <3>2 DEF Present
            <4> QED
                BY <2>1, <2>2, <3>2, <4>1 DEF HistoryInv, MarkSeparates
        <3> QED
            BY <3>1, <3>2
    <2>3. since'[s] \subseteq Present'
        BY <1>5, <2>1 DEF HistoryInv, MarkSeparates
    <2> QED
        BY <2>1, <2>2, <2>3
<1> QED
    BY <1>8, <1>9 DEF HistoryInv

LEMMA HistoryForget ==
    ASSUME TypeInv, HistoryInv, NEW id \in Id, Forget(id)
    PROVE  HistoryInv'
<1>1. /\ store' = [store EXCEPT ![id] = Absent]
      /\ since' = [s \in Sess |-> since[s] \ {id}]
      /\ UNCHANGED <<cp, last>>
    BY DEF Forget, StoreChanges
<1>2. Present' = Present \ {id} /\ \A x \in Present' : store'[x] = store[x]
    BY <1>1 DEF Present, TypeInv, TypeOK
<1>3. StampsIssued'
    BY <1>1, <1>2 DEF HistoryInv, StampsIssued
<1>4. MarkSeparates'
    BY <1>1, <1>2 DEF HistoryInv, MarkSeparates
<1> QED
    BY <1>3, <1>4 DEF HistoryInv

LEMMA HistoryCall ==
    ASSUME TypeInv, HistoryInv, NEW s \in Sess, NEW c \in Checkpoint,
           cp' = [cp EXCEPT ![s] = c], UNCHANGED <<store, last>>,
           \A x \in Sess : x # s => since'[x] = since[x],
           \A id \in Id : c.seen[id] <= last,
           c.flaggedAt <= last,
           since'[s] \subseteq Present,
           ~c.flagged => since'[s] = {},
           c.flagged => \A id \in Present : id \in since'[s] <=> store[id].at > c.flaggedAt
    PROVE  HistoryInv'
<1>1. Present' = Present
    BY DEF Present
<1>2. cp'[s] = c /\ \A x \in Sess : x # s => cp'[x] = cp[x]
    BY DEF TypeInv, TypeOK
<1>3. StampsIssued'
    BY <1>1, <1>2 DEF HistoryInv, StampsIssued
<1>4. MarkSeparates'
    BY <1>1, <1>2 DEF HistoryInv, MarkSeparates
<1> QED
    BY <1>3, <1>4 DEF HistoryInv

LEMMA HistoryStep ==
    ASSUME OneClock = TRUE
    PROVE  TypeInv /\ HistoryInv /\ [Next]_vars => HistoryInv'
<1> SUFFICES ASSUME TypeInv, HistoryInv, [Next]_vars PROVE HistoryInv'
    OBVIOUS
<1>0. /\ last \in Nat /\ 0 <= last
      /\ \A s \in Sess : cp[s] \in Checkpoint /\ since[s] \subseteq Present
    BY DEF TypeInv, TypeOK, HistoryInv, MarkSeparates
<1>1. ASSUME NEW id \in Id, Commit(id) PROVE HistoryInv'
    BY <1>1, HistoryCommit
<1>2. ASSUME NEW id \in Id, Forget(id) PROVE HistoryInv'
    BY <1>2, HistoryForget
<1>3. ASSUME NEW s \in Sess, NEW c \in {Fresh, [Fresh EXCEPT !.needFloor = TRUE]},
             cp' = [cp EXCEPT ![s] = c], since' = [since EXCEPT ![s] = {}],
             UNCHANGED <<store, last>>
      PROVE  HistoryInv'
    <2>1. Fresh \in Checkpoint /\ Fresh.seen = Unseen /\ Fresh.flaggedAt = 0 /\ ~Fresh.flagged
        BY DEF Fresh, Unseen, Checkpoint
    <2>2. c \in Checkpoint /\ c.seen = Unseen /\ c.flaggedAt = 0 /\ ~c.flagged
        BY <2>1 DEF Checkpoint
    <2>3. \A id \in Id : c.seen[id] <= last
        BY <1>0, <2>2 DEF Unseen
    <2>4. since'[s] = {} /\ \A x \in Sess : x # s => since'[x] = since[x]
        BY <1>3 DEF TypeInv, TypeOK
    <2> QED
        BY <1>0, <1>3, <2>2, <2>3, <2>4, HistoryCall
<1>4. ASSUME NEW s \in Sess, Start(s) \/ Compact(s) \/ Lose(s) PROVE HistoryInv'
    BY <1>3, <1>4 DEF Start, Compact, Lose
<1>5. ASSUME NEW s \in Sess, Stop(s) PROVE HistoryInv'
    <2> DEFINE c == [cp[s] EXCEPT !.flagged = FALSE, !.flaggedAt = 0]
    <2>1. /\ c \in Checkpoint /\ c.flaggedAt = 0 /\ ~c.flagged
          /\ c.seen = cp[s].seen
        BY <1>0 DEF Checkpoint
    <2>2. cp' = [cp EXCEPT ![s] = c] /\ UNCHANGED <<store, last>>
        BY <1>5 DEF Stop
    <2>3. since'[s] = {} /\ \A x \in Sess : x # s => since'[x] = since[x]
        BY <1>5 DEF Stop, TypeInv, TypeOK
    <2>4. \A id \in Id : c.seen[id] <= last
        BY <2>1 DEF HistoryInv, StampsIssued
    <2> HIDE DEF c
    <2> QED
        BY <1>0, <2>1, <2>2, <2>3, <2>4, HistoryCall
<1>6. ASSUME NEW s \in Sess, RefillMark(s) PROVE HistoryInv'
    <2>1. PICK k \in SUBSET Present :
            cp' = [cp EXCEPT ![s].seen = Mark(Unseen, k), ![s].needFloor = FALSE]
        BY <1>6, ListedIsPresent DEF RefillMark
    <2> DEFINE c == [cp[s] EXCEPT !.seen = Mark(Unseen, k), !.needFloor = FALSE]
    <2>2. Unseen \in [Id -> Nat] /\ \A id \in Id : Unseen[id] <= last
        BY <1>0 DEF Unseen
    <2>3. Mark(Unseen, k) \in [Id -> Nat]
        BY <2>2, MarkKeepsType
    <2>4. c \in Checkpoint /\ c.seen = Mark(Unseen, k)
                           /\ c.flagged = cp[s].flagged /\ c.flaggedAt = cp[s].flaggedAt
        BY <1>0, <2>3 DEF Checkpoint
    <2>5. cp' = [cp EXCEPT ![s] = c] /\ UNCHANGED <<store, last, since>>
        BY <1>6, <2>1 DEF RefillMark
    <2>6. \A id \in Id : c.seen[id] <= last
        BY <2>2, <2>4, MarkIsIssued DEF HistoryInv
    <2> HIDE DEF c
    <2>7. /\ c.flaggedAt <= last
          /\ ~c.flagged => since[s] = {}
          /\ c.flagged => \A id \in Present : id \in since[s] <=> store[id].at > c.flaggedAt
        BY <2>4 DEF HistoryInv, StampsIssued, MarkSeparates
    <2> QED
        BY <1>0, <2>4, <2>5, <2>6, <2>7, HistoryCall
<1>7. ASSUME NEW s \in Sess, NEW task \in SUBSET Id, NEW remember \in BOOLEAN,
             Turn(s, task, remember)
      PROVE  HistoryInv'
    <2>1. PICK k \in Slices(Candidates(s, task)) :
            cp' = [cp EXCEPT ![s] = [Arm(cp[s], remember) EXCEPT !.seen = Mark(@, k)]]
        BY <1>7 DEF Turn
    <2> DEFINE a == Arm(cp[s], remember)
               c == [a EXCEPT !.seen = Mark(@, k)]
    <2>2. a \in Checkpoint /\ a.seen = cp[s].seen
        BY <1>0, ArmKeepsType
    <2>3. k \in SUBSET Present
        BY ListedIsPresent DEF Slices, Candidates
    <2>4. a.seen \in [Id -> Nat] /\ \A id \in Id : a.seen[id] <= last
        BY <2>2 DEF Checkpoint, HistoryInv, StampsIssued
    <2>5. /\ a.flaggedAt <= last
          /\ ~a.flagged => since[s] = {}
          /\ a.flagged => \A id \in Present : id \in since[s] <=> store[id].at > a.flaggedAt
        BY ArmSeparates
    <2> HIDE DEF a
    <2>6. Mark(a.seen, k) \in [Id -> Nat]
        BY <2>3, <2>4, MarkKeepsType
    <2>7. c \in Checkpoint /\ c.seen = Mark(a.seen, k)
                           /\ c.flagged = a.flagged /\ c.flaggedAt = a.flaggedAt
        BY <2>2, <2>6 DEF Checkpoint
    <2>8. cp' = [cp EXCEPT ![s] = c] /\ UNCHANGED <<store, last, since>>
        BY <1>7, <2>1 DEF Turn, a
    <2>9. \A id \in Id : c.seen[id] <= last
        BY <2>3, <2>4, <2>7, MarkIsIssued DEF HistoryInv
    <2> HIDE DEF c
    <2> QED
        BY <1>0, <2>5, <2>7, <2>8, <2>9, HistoryCall
<1>8. ASSUME NEW s \in Sess, NEW task \in SUBSET Id, NEW remember \in BOOLEAN,
             RefillShow(s, task, remember)
      PROVE  HistoryInv'
    <2> DEFINE c == Arm(cp[s], remember)
    <2>1. c \in Checkpoint /\ c.seen = cp[s].seen
        BY <1>0, ArmKeepsType
    <2>2. /\ c.flaggedAt <= last
          /\ ~c.flagged => since[s] = {}
          /\ c.flagged => \A id \in Present : id \in since[s] <=> store[id].at > c.flaggedAt
        BY ArmSeparates
    <2>3. cp' = [cp EXCEPT ![s] = c] /\ UNCHANGED <<store, last, since>>
        BY <1>8 DEF RefillShow
    <2>4. \A id \in Id : c.seen[id] <= last
        BY <2>1 DEF HistoryInv, StampsIssued
    <2> HIDE DEF c
    <2> QED
        BY <1>0, <2>1, <2>2, <2>3, <2>4, HistoryCall
<1>9. CASE UNCHANGED vars
    BY <1>9 DEF vars, HistoryInv, StampsIssued, MarkSeparates, Present
<1> QED
    BY <1>1, <1>2, <1>4, <1>5, <1>6, <1>7, <1>8, <1>9 DEF Next

\* While one clock stamps every commit, a Stop nudges exactly when an @remember
\* is flagged and nothing in the store was committed after it, whatever the
\* other sessions did in between.
THEOREM NudgeIffUncommittedAlways ==
    ASSUME OneClock = TRUE
    PROVE  Spec => []NudgeIffUncommitted
<1>1. TypeInv /\ HistoryInv => NudgeIffUncommitted
    <2> SUFFICES ASSUME TypeInv, HistoryInv, NEW s \in Sess
                 PROVE  Suggests(s) = (cp[s].flagged /\ since[s] = {})
        BY DEF NudgeIffUncommitted
    <2>1. cp[s].flagged \in BOOLEAN /\ cp[s].flaggedAt \in Nat
        BY DEF TypeInv, TypeOK, Checkpoint
    <2>2. ASSUME cp[s].flagged PROVE MaxUpdatedAt <= cp[s].flaggedAt <=> since[s] = {}
        <3>1. /\ since[s] \subseteq Present
              /\ \A id \in Present : id \in since[s] <=> store[id].at > cp[s].flaggedAt
            BY <2>2 DEF HistoryInv, MarkSeparates
        <3>2. /\ MaxUpdatedAt \in {store[id].at : id \in Present} \cup {0}
              /\ MaxUpdatedAt \in Nat
              /\ \A id \in Present : store[id].at <= MaxUpdatedAt
            BY MarkIsMax DEF TypeInv, TypeOK
        <3>3. \A id \in Present : store[id].at \in Nat
            BY DEF TypeInv, TypeOK, Present, Entry, Record
        <3>4. ASSUME MaxUpdatedAt <= cp[s].flaggedAt PROVE since[s] = {}
            BY <2>1, <3>1, <3>2, <3>3, <3>4
        <3>5. ASSUME since[s] = {} PROVE MaxUpdatedAt <= cp[s].flaggedAt
            <4>1. CASE MaxUpdatedAt = 0
                BY <2>1, <4>1
            <4>2. CASE \E id \in Present : MaxUpdatedAt = store[id].at
                BY <2>1, <3>1, <3>3, <3>5, <4>2
            <4> QED
                BY <3>2, <4>1, <4>2
        <3> QED
            BY <3>4, <3>5
    <2> QED
        BY <2>1, <2>2 DEF Suggests
<1>2. TypeInv /\ HistoryInv /\ [Next]_vars => HistoryInv'
    BY HistoryStep
<1> QED
    BY TypeInit, TypeStep, HistoryInit, <1>1, <1>2, PTL DEF Spec

-----------------------------------------------------------------------------
(* Nothing is held back from an agent that does not have it. *)

\* Marking what was shown, in a context that has it.
LEMMA MarkIsShown ==
    ASSUME NEW seen, NEW k \in SUBSET Present, NEW C, Shown(k) \subseteq C,
           \A id \in Present : seen[id] = store[id].at => <<id, store[id]>> \in C
    PROVE  \A id \in Present : Mark(seen, k)[id] = store[id].at => <<id, store[id]>> \in C
<1> SUFFICES ASSUME NEW id \in Present, Mark(seen, k)[id] = store[id].at
             PROVE  <<id, store[id]>> \in C
    OBVIOUS
<1>1. CASE id \in k
    BY <1>1 DEF Shown
<1>2. CASE id \notin k
    BY <1>2 DEF Mark, Present
<1> QED
    BY <1>1, <1>2

\* A call of one session that leaves the store alone and only adds to contexts.
LEMMA SeenCall ==
    ASSUME TypeInv, SeenInv, NEW s \in Sess, UNCHANGED store,
           \A x \in Sess : x # s => cp'[x] = cp[x] /\ refill'[x] = refill[x],
           \A x \in Sess : ctx[x] \subseteq ctx'[x],
           \A id \in Present : cp'[s].seen[id] = store[id].at /\ store[id].at > refill'[s].upto
                                  => <<id, store[id]>> \in ctx'[s],
           refill'[s].on /\ ~refill'[s].again =>
               \/ refill'[s] = refill[s]
               \/ refill'[s].kept \subseteq Present /\ Shown(refill'[s].kept) \subseteq ctx'[s]
    PROVE  SeenInv'
<1>1. Present' = Present
    BY DEF Present
<1>2. SeenIsShown'
    <2> SUFFICES ASSUME NEW x \in Sess, NEW id \in Present,
                        cp'[x].seen[id] = store[id].at, store[id].at > refill'[x].upto
                 PROVE  <<id, store[id]>> \in ctx'[x]
        BY <1>1 DEF SeenIsShown
    <2>1. CASE x = s
        BY <2>1
    <2>2. CASE x # s
        BY <2>2 DEF SeenInv, SeenIsShown
    <2> QED
        BY <2>1, <2>2
<1>3. RefillIsShown'
    <2> SUFFICES ASSUME NEW x \in Sess, refill'[x].on, ~refill'[x].again
                 PROVE  /\ refill'[x].kept \subseteq Present
                        /\ Shown(refill'[x].kept) \subseteq ctx'[x]
        BY <1>1 DEF RefillIsShown, Shown
    <2>1. CASE refill'[x] = refill[x]
        BY <2>1 DEF SeenInv, RefillIsShown
    <2>2. CASE x = s /\ refill'[s] # refill[s]
        BY <2>2
    <2> QED
        BY <2>1, <2>2
<1> QED
    BY <1>2, <1>3 DEF SeenInv

LEMMA SeenStep ==
    ASSUME OneClock = TRUE
    PROVE  TypeInv /\ HistoryInv /\ SeenInv /\ [Next]_vars => SeenInv'
<1> SUFFICES ASSUME TypeInv, HistoryInv, SeenInv, [Next]_vars PROVE SeenInv'
    OBVIOUS
<1>0. \A s \in Sess : /\ cp[s] \in Checkpoint /\ refill[s] \in Refill
                      /\ ctx[s] \subseteq Id \X Record
    BY DEF TypeInv, TypeOK
<1>1. ASSUME NEW id \in Id, Commit(id) PROVE SeenInv'
    <2>1. PICK r \in Record : /\ store' = [store EXCEPT ![id] = r]
                              /\ r.at = last' /\ last' \in Nat /\ last' > last
        BY <1>1, CommitStores
    <2>2. /\ UNCHANGED <<cp, ctx>>
          /\ refill' = [s \in Sess |-> [refill[s] EXCEPT !.again = refill[s].on]]
        BY <1>1 DEF Commit, StoreChanges
    <2>3. \A s \in Sess : /\ refill'[s].on => refill'[s].again
                          /\ refill'[s].upto = refill[s].upto
        BY <1>0, <2>2 DEF Refill
    <2>4. store'[id] = r /\ \A x \in Id : x # id => store'[x] = store[x]
        BY <2>1 DEF TypeInv, TypeOK
    <2>5. SeenIsShown'
        <3> SUFFICES ASSUME NEW s \in Sess, NEW x \in Present',
                            cp[s].seen[x] = store'[x].at, store'[x].at > refill[s].upto
                     PROVE  <<x, store'[x]>> \in ctx[s]
            BY <2>2, <2>3 DEF SeenIsShown
        <3>1. x \in Id /\ cp[s].seen[x] \in Nat /\ last \in Nat /\ cp[s].seen[x] <= last
            BY <1>0 DEF Present, Checkpoint, HistoryInv, StampsIssued, TypeInv, TypeOK
        <3>2. x # id
            BY <2>1, <2>4, <3>1
        <3>3. x \in Present /\ store'[x] = store[x]
            BY <2>4, <3>1, <3>2 DEF Present
        <3> QED
            BY <3>3 DEF SeenInv, SeenIsShown
    <2> QED
        BY <2>3, <2>5 DEF SeenInv, RefillIsShown
<1>2. ASSUME NEW id \in Id, Forget(id) PROVE SeenInv'
    <2>1. /\ store' = [store EXCEPT ![id] = Absent]
          /\ UNCHANGED <<cp, ctx>>
          /\ refill' = [s \in Sess |-> [refill[s] EXCEPT !.again = refill[s].on]]
        BY <1>2 DEF Forget, StoreChanges
    <2>2. \A s \in Sess : /\ refill'[s].on => refill'[s].again
                          /\ refill'[s].upto = refill[s].upto
        BY <1>0, <2>1 DEF Refill
    <2>3. \A x \in Present' : x \in Present /\ store'[x] = store[x]
        BY <2>1 DEF Present, TypeInv, TypeOK
    <2>4. SeenIsShown'
        BY <2>1, <2>2, <2>3 DEF SeenInv, SeenIsShown
    <2> QED
        BY <2>2, <2>4 DEF SeenInv, RefillIsShown
<1>3. ASSUME NEW s \in Sess, NEW c \in {Fresh, [Fresh EXCEPT !.needFloor = TRUE]},
             cp' = [cp EXCEPT ![s] = c], refill' = [refill EXCEPT ![s] = NoRefill],
             \A x \in Sess : x # s => ctx'[x] = ctx[x],
             UNCHANGED store
      PROVE  SeenInv'
    <2>1. Fresh \in Checkpoint /\ Fresh.seen = Unseen
        BY DEF Fresh, Unseen, Checkpoint
    <2>2. c.seen = Unseen
        BY <2>1 DEF Checkpoint
    <2>3. \A id \in Present : c.seen[id] # store[id].at
        BY <2>2 DEF Unseen, Present, HistoryInv, StampsIssued
    <2>4. /\ cp'[s] = c /\ ~refill'[s].on
          /\ \A x \in Sess : x # s => cp'[x] = cp[x] /\ refill'[x] = refill[x]
        BY <1>3 DEF TypeInv, TypeOK, NoRefill
    <2>5. SeenIsShown'
        BY <1>3, <2>3, <2>4 DEF SeenInv, SeenIsShown, Present
    <2>6. RefillIsShown'
        BY <1>3, <2>4 DEF SeenInv, RefillIsShown, Present, Shown
    <2> QED
        BY <2>5, <2>6 DEF SeenInv
<1>4. ASSUME NEW s \in Sess, Start(s) \/ Compact(s) \/ Lose(s) PROVE SeenInv'
    <2>1. /\ \E c \in {Fresh, [Fresh EXCEPT !.needFloor = TRUE]} : cp' = [cp EXCEPT ![s] = c]
          /\ refill' = [refill EXCEPT ![s] = NoRefill] /\ UNCHANGED store
        BY <1>4 DEF Start, Compact, Lose
    <2>2. \A x \in Sess : x # s => ctx'[x] = ctx[x]
        BY <1>4 DEF Start, Compact, Lose, TypeInv, TypeOK
    <2> QED
        BY <1>3, <2>1, <2>2
<1>5. ASSUME NEW s \in Sess, Stop(s) PROVE SeenInv'
    <2>1. cp' = [cp EXCEPT ![s].flagged = FALSE, ![s].flaggedAt = 0] /\ UNCHANGED <<store, refill, ctx>>
        BY <1>5 DEF Stop
    <2>2. cp'[s].seen = cp[s].seen /\ \A x \in Sess : x # s => cp'[x] = cp[x]
        BY <1>0, <2>1 DEF TypeInv, TypeOK, Checkpoint
    <2>3. \A id \in Present : cp'[s].seen[id] = store[id].at /\ store[id].at > refill'[s].upto
                                => <<id, store[id]>> \in ctx'[s]
        BY <2>1, <2>2 DEF SeenInv, SeenIsShown
    <2> QED
        BY <2>1, <2>2, <2>3, SeenCall
<1>6. ASSUME NEW s \in Sess, RefillMark(s) PROVE SeenInv'
    <2>1. PICK k \in SUBSET Present :
            /\ refill[s].again \/ k = refill[s].kept
            /\ cp' = [cp EXCEPT ![s].seen = Mark(Unseen, k), ![s].needFloor = FALSE]
        BY <1>6, ListedIsPresent DEF RefillMark
    <2>2. /\ UNCHANGED <<store, ctx>> /\ refill[s].on /\ ~refill'[s].on
          /\ refill'[s].upto = IF refill[s].again THEN last ELSE 0
          /\ \A x \in Sess : x # s => refill'[x] = refill[x]
        BY <1>6 DEF RefillMark, NoRefill, TypeInv, TypeOK
    <2>3. cp'[s].seen = Mark(Unseen, k) /\ \A x \in Sess : x # s => cp'[x] = cp[x]
        BY <1>0, <2>1 DEF TypeInv, TypeOK, Checkpoint
    <2>4. ASSUME ~refill[s].again
          PROVE  \A id \in Present : Mark(Unseen, k)[id] = store[id].at => <<id, store[id]>> \in ctx[s]
        <3>1. Shown(k) \subseteq ctx[s]
            BY <2>1, <2>2, <2>4 DEF SeenInv, RefillIsShown
        <3>2. \A id \in Present : Unseen[id] # store[id].at
            BY DEF Unseen, Present, HistoryInv, StampsIssued
        <3> QED
            BY <3>1, <3>2, MarkIsShown
    <2>5. ASSUME refill[s].again, NEW id \in Present
          PROVE  ~(store[id].at > refill'[s].upto)
        <3>1. store[id].at <= last /\ store[id].at \in Nat /\ last \in Nat
            BY DEF HistoryInv, StampsIssued, TypeInv, TypeOK, Present, Entry, Record
        <3> QED
            BY <2>2, <2>5, <3>1
    <2>6. \A id \in Present : cp'[s].seen[id] = store[id].at /\ store[id].at > refill'[s].upto
                                => <<id, store[id]>> \in ctx'[s]
        BY <2>2, <2>3, <2>4, <2>5
    <2> QED
        BY <2>2, <2>3, <2>6, SeenCall
<1>7. ASSUME NEW s \in Sess, NEW task \in SUBSET Id, NEW remember \in BOOLEAN,
             Turn(s, task, remember)
      PROVE  SeenInv'
    <2>1. PICK k \in Slices(Candidates(s, task)) :
            /\ ctx' = [ctx EXCEPT ![s] = @ \cup Shown(k)]
            /\ cp' = [cp EXCEPT ![s] = [Arm(cp[s], remember) EXCEPT !.seen = Mark(@, k)]]
        BY <1>7 DEF Turn
    <2> DEFINE a == Arm(cp[s], remember)
    <2>2. a \in Checkpoint /\ a.seen = cp[s].seen
        BY <1>0, ArmKeepsType
    <2>3. k \in SUBSET Present
        BY ListedIsPresent DEF Slices, Candidates
    <2>4. UNCHANGED <<store, refill>>
        BY <1>7 DEF Turn
    <2>5. /\ ctx'[s] = ctx[s] \cup Shown(k) /\ \A x \in Sess : x # s => ctx'[x] = ctx[x]
          /\ \A x \in Sess : x # s => cp'[x] = cp[x]
        BY <2>1 DEF TypeInv, TypeOK
    <2> HIDE DEF a
    <2>6. cp'[s] = [a EXCEPT !.seen = Mark(@, k)]
        BY <2>1 DEF TypeInv, TypeOK, a
    <2>7. cp'[s].seen = Mark(cp[s].seen, k)
        BY <2>2, <2>6 DEF Checkpoint
    <2>8. ASSUME NEW id \in Present, cp'[s].seen[id] = store[id].at, store[id].at > refill[s].upto
          PROVE  <<id, store[id]>> \in ctx'[s]
        <3>1. CASE id \in k
            BY <2>5, <3>1 DEF Shown
        <3>2. CASE id \notin k
            <4>1. cp[s].seen[id] = store[id].at
                BY <2>7, <2>8, <3>2 DEF Mark, Present
            <4> QED
                BY <2>5, <2>8, <4>1 DEF SeenInv, SeenIsShown
        <3> QED
            BY <3>1, <3>2
    <2> QED
        BY <2>4, <2>5, <2>8, SeenCall
<1>8. ASSUME NEW s \in Sess, NEW task \in SUBSET Id, NEW remember \in BOOLEAN,
             RefillShow(s, task, remember)
      PROVE  SeenInv'
    <2>1. PICK k \in Slices(task \cap Listed), words \in BOOLEAN, sel \in BOOLEAN :
            /\ ctx' = [ctx EXCEPT ![s] = @ \cup Injected(k, words)]
            /\ refill' = [refill EXCEPT ![s] = [on |-> TRUE, kept |-> k, again |-> sel, upto |-> @.upto]]
        BY <1>8 DEF RefillShow
    <2>2. k \in SUBSET Present /\ k \subseteq Listed
        BY ListedIsPresent DEF Slices
    <2>3. /\ ctx'[s] = ctx[s] \cup Injected(k, words)
          /\ \A x \in Sess : x # s => ctx'[x] = ctx[x] /\ refill'[x] = refill[x]
          /\ refill'[s].kept = k /\ refill'[s].upto = refill[s].upto
        BY <2>1 DEF TypeInv, TypeOK
    <2>4. Shown(k) \subseteq ctx'[s]
        BY <2>2, <2>3 DEF Shown, Injected
    <2>5. UNCHANGED store /\ cp'[s] = Arm(cp[s], remember) /\ \A x \in Sess : x # s => cp'[x] = cp[x]
        BY <1>8 DEF RefillShow, TypeInv, TypeOK
    <2>6. cp'[s].seen = cp[s].seen
        BY <1>0, <2>5, ArmKeepsType
    <2>7. \A id \in Present : cp'[s].seen[id] = store[id].at /\ store[id].at > refill'[s].upto
                                => <<id, store[id]>> \in ctx'[s]
        BY <2>3, <2>6 DEF SeenInv, SeenIsShown
    <2> QED
        BY <2>2, <2>3, <2>4, <2>5, <2>6, <2>7, SeenCall
<1>9. CASE UNCHANGED vars
    BY <1>9 DEF vars, SeenInv, SeenIsShown, RefillIsShown, Present, Shown
<1> QED
    BY <1>1, <1>2, <1>4, <1>5, <1>6, <1>7, <1>8, <1>9 DEF Next

\* While one clock stamps every commit, a record is held back only from an agent
\* that was given it, in its present version, since its context was last lost;
\* except in a version there was when a refill ended that the store, or a model's
\* second answer, had disturbed.
THEOREM SeenIsShownAlways ==
    ASSUME OneClock = TRUE
    PROVE  Spec => []SeenIsShown
<1>1. Init => SeenInv
    <2> SUFFICES ASSUME Init PROVE SeenInv
        OBVIOUS
    <2>1. \A s \in Sess : cp[s].seen = Unseen /\ ~refill[s].on
        BY DEF Init, Fresh, NoRefill
    <2>2. \A id \in Present : store[id].at = 1 /\ Unseen[id] = 0
        BY DEF Init, Present, Unseen
    <2> QED
        BY <2>1, <2>2 DEF SeenInv, SeenIsShown, RefillIsShown
<1>2. TypeInv /\ HistoryInv /\ [Next]_vars => HistoryInv'
    BY HistoryStep
<1>3. TypeInv /\ HistoryInv /\ SeenInv /\ [Next]_vars => SeenInv'
    BY SeenStep
<1>4. SeenInv => SeenIsShown
    BY DEF SeenInv
<1> QED
    BY TypeInit, TypeStep, HistoryInit, <1>1, <1>2, <1>3, <1>4, PTL DEF Spec
=============================================================================
