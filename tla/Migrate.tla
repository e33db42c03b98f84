------------------------------ MODULE Migrate ------------------------------
(***************************************************************************)
(* Opening a SQLite store (sqlite.go, migrate.go): the migrations that are *)
(* not in the ledger run one after the other, each followed by its entry   *)
(* in the ledger.  A database of the time before the ledger has a counter  *)
(* instead, which the first Open turns into ledger entries.                *)
(*                                                                         *)
(* Nothing here is one transaction (sowConn is not a TxConn), several      *)
(* processes may open one file, and a process may end, or a statement fail *)
(* and the Open with it, between any two statements.  The ledger and Up    *)
(* belong to the sow library, outside the repository; they are modelled    *)
(* from how migrate.go uses them: Up runs the missing steps in order and   *)
(* stops at the first that fails, and a step whose column exists already   *)
(* fails.                                                                  *)
(***************************************************************************)
EXTENDS Integers

CONSTANTS
    Proc,           \* processes that open the database
    M,              \* len(storeMigrations)
    MaxFaults       \* bound: faults

ASSUME SomeMigrations == M \in Nat \ {0}
ASSUME FaultsAreBounded == MaxFaults \in Nat

Steps == 1 .. M

VARIABLES
    counter,    \* schema_version, 0 when there is no such table
    schema,     \* the steps whose SQL has run
    ledger,     \* the steps sow_migrations lists
    pc,         \* pc[p]: where the Open of p is
    todo,       \* todo[p]: steps p has still to adopt or to run
    torn,       \* history: has a fault left a step that ran out of the ledger?
    faults      \* counter of the bounded actions

vars == <<counter, schema, ledger, pc, todo, torn, faults>>

TypeOK ==
    /\ counter \in Nat
    /\ schema \subseteq Steps
    /\ ledger \subseteq Steps
    /\ pc \in [Proc -> {"closed", "count", "adopt", "plan", "up", "mark", "open"}]
    /\ todo \in [Proc -> SUBSET Steps]
    /\ torn \in BOOLEAN
    /\ faults \in 0 .. MaxFaults

\* A database of the counter, also one a newer release wrote, or one of the
\* ledger; a new file is the case 0 of both.
Init ==
    /\ \E n \in 0 .. M + 1, ledgered \in BOOLEAN :
          LET ran == 1 .. (IF n < M THEN n ELSE M) IN
          /\ counter = IF ledgered THEN 0 ELSE n
          /\ schema = ran
          /\ ledger = IF ledgered THEN ran ELSE {}
    /\ pc = [p \in Proc |-> "closed"]
    /\ todo = [p \in Proc |-> {}]
    /\ torn = FALSE /\ faults = 0

-----------------------------------------------------------------------------
(* adoptLegacyVersion. *)

At(p, here) == pc[p] = here
Goto(p, there) == pc' = [pc EXCEPT ![p] = there]

\* An Open that takes any ledger for a complete one.
BeginTrustsLedger(p) ==
    /\ At(p, "closed")
    /\ Goto(p, IF ledger = {} THEN "count" ELSE "open")
    /\ UNCHANGED <<counter, schema, ledger, todo, torn, faults>>

\* A ledger that lists anything is the source of truth.
Begin(p) ==
    /\ At(p, "closed")
    /\ Goto(p, IF ledger = {} THEN "count" ELSE "plan")
    /\ UNCHANGED <<counter, schema, ledger, todo, torn, faults>>

\* An Open that never looks for the counter.
CountSkipped(p) ==
    /\ At(p, "count")
    /\ Goto(p, "plan")
    /\ todo' = [todo EXCEPT ![p] = {}]
    /\ UNCHANGED <<counter, schema, ledger, torn, faults>>

\* An adoption of every step, whatever the counter says.
CountAdoptsAll(p) ==
    /\ At(p, "count")
    /\ Goto(p, "adopt")
    /\ todo' = [todo EXCEPT ![p] = Steps]
    /\ UNCHANGED <<counter, schema, ledger, torn, faults>>

\* The steps the counter vouches for; none when there is no counter.
Count(p) ==
    /\ At(p, "count")
    /\ Goto(p, "adopt")
    /\ todo' = [todo EXCEPT ![p] = {k \in Steps : k <= counter}]
    /\ UNCHANGED <<counter, schema, ledger, torn, faults>>

\* The query for the counter fails, which is taken for there being none.
CountFails(p) ==
    /\ At(p, "count")
    /\ faults < MaxFaults
    /\ faults' = faults + 1
    /\ Goto(p, "plan")
    /\ UNCHANGED <<counter, schema, ledger, todo, torn>>

IsFirst(k, S) == k \in S /\ \A j \in S : k <= j

\* MarkApplied(k) and where p goes on; an entry that is there already may be
\* refused, which ends the Open.
Enter(p, k, there) ==
    \/ /\ ledger' = ledger \cup {k}
       /\ todo' = [todo EXCEPT ![p] = @ \ {k}]
       /\ Goto(p, there)
    \/ /\ k \in ledger
       /\ Goto(p, "closed")
       /\ UNCHANGED <<ledger, todo>>

Adopt(p) ==
    /\ At(p, "adopt")
    /\ \E k \in todo[p] : IsFirst(k, todo[p]) /\ Enter(p, k, "adopt")
    /\ UNCHANGED <<counter, schema, torn, faults>>

Adopted(p) ==
    /\ At(p, "adopt") /\ todo[p] = {}
    /\ Goto(p, "plan")
    /\ UNCHANGED <<counter, schema, ledger, todo, torn, faults>>

-----------------------------------------------------------------------------
(* sow's Up. *)

Plan(p) ==
    /\ At(p, "plan")
    /\ todo' = [todo EXCEPT ![p] = Steps \ ledger]
    /\ Goto(p, "up")
    /\ UNCHANGED <<counter, schema, ledger, torn, faults>>

\* A step: it creates the table or adds a column to it, unless that is there
\* already, or the table is not; then the Open ends with an error.
Runs(k) == k \notin schema /\ (k = 1 \/ 1 \in schema)

Run(p) ==
    /\ At(p, "up")
    /\ \E k \in todo[p] :
          /\ IsFirst(k, todo[p])
          /\ schema' = IF Runs(k) THEN schema \cup {k} ELSE schema
          /\ Goto(p, IF Runs(k) THEN "mark" ELSE "closed")
    /\ UNCHANGED <<counter, ledger, todo, torn, faults>>

Mark(p) ==
    /\ At(p, "mark")
    /\ \E k \in todo[p] : IsFirst(k, todo[p]) /\ Enter(p, k, "up")
    /\ UNCHANGED <<counter, schema, torn, faults>>

-----------------------------------------------------------------------------

\* Open returns the store.
Opened(p) ==
    /\ At(p, "up") /\ todo[p] = {}
    /\ Goto(p, "open")
    /\ UNCHANGED <<counter, schema, ledger, todo, torn, faults>>

Close(p) ==
    /\ At(p, "open")
    /\ Goto(p, "closed")
    /\ UNCHANGED <<counter, schema, ledger, todo, torn, faults>>

\* A fault now would leave a step that ran, and no adoption to enter it: p is
\* between the step and its entry, or the adoption has entered some.
Tears(p) == At(p, "mark") \/ (At(p, "adopt") /\ todo[p] # {} /\ ledger # {})

\* The process ends, or a statement of the Open fails and it returns an error.
Fault(p) ==
    /\ faults < MaxFaults
    /\ pc[p] \notin {"closed", "open"}
    /\ faults' = faults + 1 /\ torn' = (torn \/ Tears(p))
    /\ Goto(p, "closed")
    /\ UNCHANGED <<counter, schema, ledger, todo>>

Opening(p) ==
    \/ Begin(p) \/ Count(p) \/ Adopt(p) \/ Adopted(p)
    \/ Plan(p) \/ Run(p) \/ Mark(p) \/ Opened(p)

Next == \E p \in Proc : Opening(p) \/ Close(p) \/ Fault(p) \/ CountFails(p)

Spec == Init /\ [][Next]_vars

\* A call of Open runs to its end, and one that failed is tried again.
Retrying == \A p \in Proc : WF_vars(Opening(p))

FairSpec == Spec /\ Retrying

-----------------------------------------------------------------------------
(* Properties. *)

\* The ledger never claims a step that has not run, whoever adopted or marked
\* it and whatever was cut off: otherwise a column would stay missing for good
\* and every Put fail.
LedgerIsTrue == ledger \subseteq schema

\* Open returns a store only over the whole current schema (migrate.go:33),
\* whatever other processes are doing to it meanwhile.
OpenMeansCurrent == \A p \in Proc : At(p, "open") => schema = Steps

\* Every process gets the store open in the end, from every database, past
\* other processes' half-finished migrations and its own failures, unless one of
\* these falls between a step and its entry or between two entries of an adoption.
EventuallyOpens == (\A p \in Proc : []<>At(p, "open")) \/ <>torn

\* A database of the counter has its steps marked so that they are not run
\* again, "which would fail", and from then on the ledger is the source of
\* truth (migrate.go:55-57): over a ledger that lists anything, Up never comes
\* to a step the counter vouches for.
LegacyStepsNotRerun ==
    [][\A p \in Proc : Run(p) /\ ledger # {} =>
          \E k \in todo[p] : IsFirst(k, todo[p]) /\ k > counter]_vars
=============================================================================
