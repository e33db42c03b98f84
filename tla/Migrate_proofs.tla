---------------------------- MODULE Migrate_proofs ----------------------------
(***************************************************************************)
(* Proofs about Migrate, for any processes, plan of steps and faults, those *)
(* between a step and its ledger entry and inside an adoption included.    *)
(***************************************************************************)
EXTENDS Migrate, TLAPS

\* What an Open that is under way rests on: the counter vouches for steps that
\* have run, an adoption enters only such steps, a step about to be entered
\* has run, and what is neither entered nor still to do does not exist.
OpenInv ==
    /\ \A k \in Steps : k <= counter => k \in schema
    /\ ledger \subseteq schema
    /\ \A p \in Proc :
          /\ pc[p] = "adopt" => todo[p] \subseteq schema
          /\ pc[p] = "mark" => \E k \in todo[p] : IsFirst(k, todo[p]) /\ k \in schema
          /\ pc[p] \in {"up", "mark"} => Steps \ schema \subseteq todo[p]
          /\ pc[p] = "open" => schema = Steps

IInv == TypeOK /\ OpenInv

LEMMA InitEstablishes == Init => IInv
<1> SUFFICES ASSUME Init PROVE IInv
    OBVIOUS
<1>1. PICK n \in 0 .. M + 1, ledgered \in BOOLEAN :
        LET ran == 1 .. (IF n < M THEN n ELSE M) IN
        /\ counter = IF ledgered THEN 0 ELSE n
        /\ schema = ran
        /\ ledger = IF ledgered THEN ran ELSE {}
    BY DEF Init
<1>2. TypeOK
    <2>1. torn \in BOOLEAN
        BY DEF Init
    <2>2. counter \in Nat /\ schema \subseteq Steps /\ ledger \subseteq Steps
        BY <1>1, SomeMigrations DEF Steps
    <2> QED
        BY <2>1, <2>2, FaultsAreBounded DEF Init, TypeOK
<1>3. OpenInv
    BY <1>1, SomeMigrations DEF Init, OpenInv, Steps
<1> QED
    BY <1>2, <1>3 DEF IInv

\* The first of a set of steps is one step.
LEMMA FirstIsUnique ==
    ASSUME NEW S \in SUBSET Steps, NEW k, NEW j, IsFirst(k, S), IsFirst(j, S)
    PROVE  k = j
    BY SomeMigrations DEF IsFirst, Steps

LEMMA StepPreserves == IInv /\ [Next]_vars => IInv'
<1> SUFFICES ASSUME IInv, [Next]_vars PROVE IInv'
    OBVIOUS
<1> USE DEF IInv, TypeOK, OpenInv, At, Goto
<1>1. ASSUME NEW p \in Proc, Begin(p) \/ Adopted(p) \/ Close(p) PROVE IInv'
    BY <1>1 DEF Begin, Adopted, Close
<1>2. ASSUME NEW p \in Proc, Count(p) PROVE IInv'
    BY <1>2 DEF Count
<1>3. ASSUME NEW p \in Proc, CountFails(p) \/ Fault(p) PROVE IInv'
    <2>1. torn' \in BOOLEAN
        BY <1>3 DEF CountFails, Fault, Tears
    <2> QED
        BY <1>3, <2>1, FaultsAreBounded DEF CountFails, Fault
<1>4. ASSUME NEW p \in Proc, Adopt(p) PROVE IInv'
    BY <1>4 DEF Adopt, Enter, IsFirst
<1>5. ASSUME NEW p \in Proc, Plan(p) PROVE IInv'
    BY <1>5 DEF Plan
<1>6. ASSUME NEW p \in Proc, Run(p) PROVE IInv'
    BY <1>6 DEF Run
<1>7. ASSUME NEW p \in Proc, Mark(p) PROVE IInv'
    <2>1. PICK k \in todo[p] : IsFirst(k, todo[p]) /\ Enter(p, k, "up")
        BY <1>7 DEF Mark
    <2>2. k \in schema
        BY <1>7, <2>1, FirstIsUnique DEF Mark
    <2> QED
        BY <1>7, <2>1, <2>2 DEF Mark, Enter
<1>8. ASSUME NEW p \in Proc, Opened(p) PROVE IInv'
    BY <1>8 DEF Opened
<1>9. CASE UNCHANGED vars
    BY <1>9 DEF vars
<1> HIDE DEF IInv, TypeOK, OpenInv
<1> QED
    BY <1>1, <1>2, <1>3, <1>4, <1>5, <1>6, <1>7, <1>8, <1>9 DEF Next, Opening

\* The inductive invariant is one of every behaviour.
LEMMA Inductive == Spec => []IInv
    BY InitEstablishes, StepPreserves, PTL DEF Spec

\* Every reachable state has the shape TypeOK gives it.
THEOREM TypeCorrect == Spec => []TypeOK
<1>1. IInv => TypeOK
    BY DEF IInv
<1> QED
    BY Inductive, <1>1, PTL

\* The ledger lists only steps that have run, whatever faults fall anywhere and
\* however many processes open the database at once.
THEOREM LedgerIsTrueAlways == Spec => []LedgerIsTrue
<1>1. IInv => LedgerIsTrue
    BY DEF IInv, OpenInv, LedgerIsTrue
<1> QED
    BY Inductive, <1>1, PTL

\* A store is returned only over the whole current schema, whatever faults and
\* other processes there are.
THEOREM OpenMeansCurrentAlways == Spec => []OpenMeansCurrent
<1>1. IInv => OpenMeansCurrent
    BY DEF IInv, OpenInv, OpenMeansCurrent, At
<1> QED
    BY Inductive, <1>1, PTL
===============================================================================
