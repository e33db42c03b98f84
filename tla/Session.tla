------------------------------ MODULE Session ------------------------------
(***************************************************************************)
(* The per-session context lifecycle of session.go: many sessions share    *)
(* one store, each with a checkpoint of its own that says what is already  *)
(* in its agent's context.                                                 *)
(*                                                                         *)
(*   Start    SessionContext with no task: the floor, a fresh checkpoint   *)
(*   Compact  SessionContext with reset: the agent's context is about to   *)
(*            be summarised away                                           *)
(*   Turn     SessionContext with a task: the delta                        *)
(*   RefillShow, RefillMark                                                *)
(*            the turn after a Compact: the text is rendered from one      *)
(*            reading of the store, the checkpoint from a second one       *)
(*   Stop     SessionSuggest                                               *)
(*   Lose     the checkpoint file is lost or corrupt; Load then answers    *)
(*            the zero Checkpoint                                          *)
(*   Commit, Forget                                                        *)
(*            Put and Delete by any agent                                  *)
(*                                                                         *)
(* Records are the reference records of one section (the law is re-sent    *)
(* whole on every turn and needs no checkpoint), and of a record's content *)
(* its body is kept.  A task is the set of identifiers it makes relevant.  *)
(* The focus field only reorders the records of a slice, and a slice is    *)
(* here any CapN of the candidates; how rankAndCap chooses them is module  *)
(* Slice.                                                                  *)
(***************************************************************************)
EXTENDS Records, FiniteSets

CONSTANTS
    Sess,           \* session identifiers
    Id,             \* reference records, numbered in the order List has them
    Blank,          \* the empty body
    CapN,           \* maxSliceRecords
    Clock,          \* what nowMillis may return
    OneClock,       \* are all commits stamped by one process's clock?
    KeepFloorMark,  \* is a checkpoint never lost between a Compact and its refill?
    MaxCommits,     \* bound: commits and deletes
    MaxCompacts,    \* bound: compactions
    MaxLosses,      \* bound: lost checkpoints
    MaxRemembers    \* bound: messages that carry @remember

ASSUME IdsAreOrdered == Id \subseteq Nat
ASSUME CapIsPositive == CapN \in Nat \ {0}
ASSUME ClockIsMillis == Clock \subseteq Nat
ASSUME SwitchesAreBoolean == {OneClock, KeepFloorMark} \subseteq BOOLEAN

VARIABLES
    store,      \* store[id]: the shared store
    last,       \* lastStamp of the process that stamps commits
    cp,         \* cp[s]: the saved checkpoint
    refill,     \* refill[s]: the refill half-way, or what the last one left in doubt
    ctx,        \* history: the <<id, record>> in the agent's context
    floor,      \* history: is the protocol in the agent's context?
    since,      \* history: what was committed since @remember was flagged, and is there
    commits, compacts, losses, remembers    \* counters of the bounded actions

counters == <<commits, compacts, losses, remembers>>
vars == <<store, last, cp, refill, ctx, floor, since, commits, compacts, losses, remembers>>

\* A stamp 0 in seen stands for an identifier not in the map: Put leaves no
\* stored record with stamp 0.
Checkpoint == [seen : [Id -> Nat], needFloor : BOOLEAN, flagged : BOOLEAN, flaggedAt : Nat]
Unseen == [id \in Id |-> 0]
Fresh  == [seen |-> Unseen, needFloor |-> FALSE, flagged |-> FALSE, flaggedAt |-> 0]

\* A refill: is it half-way, which slice did it show, may the second selection
\* differ from the first; and, history, the stamp up to which the checkpoint may
\* name records it did not show.
Refill == [on : BOOLEAN, kept : SUBSET Id, again : BOOLEAN, upto : Nat]
NoRefill == [on |-> FALSE, kept |-> {}, again |-> FALSE, upto |-> 0]

TypeOK ==
    /\ store \in [Id -> Entry]
    /\ last \in Nat
    /\ cp \in [Sess -> Checkpoint]
    /\ refill \in [Sess -> Refill]
    /\ ctx \in [Sess -> SUBSET (Id \X Record)]
    /\ floor \in [Sess -> BOOLEAN]
    /\ since \in [Sess -> SUBSET Id]
    /\ commits \in Nat /\ compacts \in Nat /\ losses \in Nat /\ remembers \in Nat

Present == {id \in Id : store[id] # Absent}

\* The records a section renders: of several with one body, the first.
Listed ==
    {id \in Present : \A j \in Present :
        j < id => store[j].content # store[id].content \/ store[id].content = Blank}

\* The high-water mark of the store, 0 when it is empty.
MaxUpdatedAt ==
    CHOOSE m \in {store[id].at : id \in Present} \cup {0} :
        \A id \in Present : store[id].at <= m

\* A new session over a store that already holds some records.
Init ==
    /\ store \in [Id -> [content : Content, at : {1}] \cup {Absent}]
    /\ last = 1
    /\ cp = [s \in Sess |-> Fresh]
    /\ refill = [s \in Sess |-> NoRefill]
    /\ ctx = [s \in Sess |-> {}]
    /\ floor = [s \in Sess |-> TRUE]
    /\ since = [s \in Sess |-> {}]
    /\ commits = 0 /\ compacts = 0 /\ losses = 0 /\ remembers = 0

-----------------------------------------------------------------------------
(* The shared store. *)

StoreChanges ==
    /\ commits < MaxCommits
    /\ commits' = commits + 1
    /\ refill' = [s \in Sess |-> [refill[s] EXCEPT !.again = refill[s].on]]
    /\ UNCHANGED <<cp, ctx, floor, compacts, losses, remembers>>

\* A commit goes through Put without a stamp; a process that has just started
\* has stamped nothing yet.
Commit(id) ==
    /\ StoreChanges
    /\ \E c \in Content, now \in Clock :
          LET t == NextStamp(IF OneClock THEN last ELSE 0, now) IN
          /\ store' = [store EXCEPT ![id] = Stamped([content |-> c, at |-> 0], t)]
          /\ last' = t
    /\ since' = [s \in Sess |-> IF cp[s].flagged THEN since[s] \cup {id} ELSE {}]

Forget(id) ==
    /\ StoreChanges
    /\ store' = [store EXCEPT ![id] = Absent]
    /\ since' = [s \in Sess |-> since[s] \ {id}]
    /\ UNCHANGED last

-----------------------------------------------------------------------------
(* The calls of one session, which its hooks make one at a time. *)

Idle(s) == ~refill[s].on

\* SessionStart: a fresh checkpoint, and the floor as text.
Start(s) ==
    /\ Idle(s) /\ compacts < MaxCompacts
    /\ compacts' = compacts + 1
    /\ cp' = [cp EXCEPT ![s] = Fresh]
    /\ ctx' = [ctx EXCEPT ![s] = {}]
    /\ floor' = [floor EXCEPT ![s] = TRUE]
    /\ since' = [since EXCEPT ![s] = {}]
    /\ refill' = [refill EXCEPT ![s] = NoRefill]
    /\ UNCHANGED <<store, last, commits, losses, remembers>>

\* A reset that keeps what the checkpoint says the agent has seen.
CompactKeepsSeen(s) ==
    /\ Idle(s) /\ compacts < MaxCompacts
    /\ compacts' = compacts + 1
    /\ cp' = [cp EXCEPT ![s] = [Fresh EXCEPT !.needFloor = TRUE, !.seen = cp[s].seen]]
    /\ ctx' = [ctx EXCEPT ![s] = {}]
    /\ floor' = [floor EXCEPT ![s] = FALSE]
    /\ since' = [since EXCEPT ![s] = {}]
    /\ refill' = [refill EXCEPT ![s] = NoRefill]
    /\ UNCHANGED <<store, last, commits, losses, remembers>>

\* A reset that does not mark the floor lost.
CompactForgetsFloor(s) ==
    /\ Idle(s) /\ compacts < MaxCompacts
    /\ compacts' = compacts + 1
    /\ cp' = [cp EXCEPT ![s] = Fresh]
    /\ ctx' = [ctx EXCEPT ![s] = {}]
    /\ floor' = [floor EXCEPT ![s] = FALSE]
    /\ since' = [since EXCEPT ![s] = {}]
    /\ refill' = [refill EXCEPT ![s] = NoRefill]
    /\ UNCHANGED <<store, last, commits, losses, remembers>>

\* A reset that leaves the map nil.
CompactNilSeen(s) ==
    /\ Idle(s) /\ compacts < MaxCompacts
    /\ compacts' = compacts + 1
    /\ cp' = [cp EXCEPT ![s] = [Fresh EXCEPT !.needFloor = TRUE, !.seen = << >>]]
    /\ ctx' = [ctx EXCEPT ![s] = {}]
    /\ floor' = [floor EXCEPT ![s] = FALSE]
    /\ since' = [since EXCEPT ![s] = {}]
    /\ refill' = [refill EXCEPT ![s] = NoRefill]
    /\ UNCHANGED <<store, last, commits, losses, remembers>>

\* PreCompact: the floor is marked lost, nothing is injected, and what the
\* agent had been given goes.
Compact(s) ==
    /\ Idle(s) /\ compacts < MaxCompacts
    /\ compacts' = compacts + 1
    /\ cp' = [cp EXCEPT ![s] = [Fresh EXCEPT !.needFloor = TRUE]]
    /\ ctx' = [ctx EXCEPT ![s] = {}]
    /\ floor' = [floor EXCEPT ![s] = FALSE]
    /\ since' = [since EXCEPT ![s] = {}]
    /\ refill' = [refill EXCEPT ![s] = NoRefill]
    /\ UNCHANGED <<store, last, commits, losses, remembers>>

\* An @remember arms the Stop suggestion, unless it is armed already.
Arm(c, remember) ==
    IF remember /\ ~c.flagged
    THEN [c EXCEPT !.flagged = TRUE, !.flaggedAt = MaxUpdatedAt] ELSE c

Remember(s, remember) ==
    /\ remember => remembers < MaxRemembers
    /\ remembers' = IF remember THEN remembers + 1 ELSE remembers

\* What a capped selection may keep of a set of candidates.
Slices(cand) ==
    {k \in SUBSET cand : Cardinality(k) = IF Cardinality(cand) < CapN THEN Cardinality(cand) ELSE CapN}

Shown(k) == {<<id, store[id]>> : id \in k}

\* What a refill injects: the slice kept, or the whole section when the message
\* has no usable words.
Injected(k, words) == Shown(IF words THEN k ELSE Listed)

Mark(seen, k) == [id \in Id |-> IF id \in k THEN store[id].at ELSE seen[id]]

\* The relevant records that are new or changed for a checkpoint.
Candidates(s, task) == {id \in task \cap Listed : cp[s].seen[id] # store[id].at}

\* A delta that marks what the slice had no room for as seen as well.
TurnMarksCandidates(s, task, remember) ==
    /\ Idle(s) /\ ~cp[s].needFloor
    /\ Remember(s, remember)
    /\ \E k \in Slices(Candidates(s, task)) :
          /\ ctx' = [ctx EXCEPT ![s] = @ \cup Shown(k)]
          /\ cp' = [cp EXCEPT ![s] = [Arm(cp[s], remember) EXCEPT
                                        !.seen = Mark(@, Candidates(s, task))]]
    /\ UNCHANGED <<store, last, refill, floor, since, commits, compacts, losses>>

\* UserPromptSubmit with the floor in place: the delta.
Turn(s, task, remember) ==
    /\ Idle(s) /\ ~cp[s].needFloor
    /\ Remember(s, remember)
    /\ \E k \in Slices(Candidates(s, task)) :
          /\ ctx' = [ctx EXCEPT ![s] = @ \cup Shown(k)]
          /\ cp' = [cp EXCEPT ![s] = [Arm(cp[s], remember) EXCEPT !.seen = Mark(@, k)]]
    /\ UNCHANGED <<store, last, refill, floor, since, commits, compacts, losses>>

\* UserPromptSubmit after a reset, first reading: the protocol and a whole
\* slice.  The selection is by tokens or by a SelectorFunc (sel), whose answer may
\* differ from call to call; without one, a message without usable words makes
\* everything relevant and shows it.
RefillShow(s, task, remember) ==
    /\ Idle(s) /\ cp[s].needFloor
    /\ Remember(s, remember)
    /\ \E k \in Slices(task \cap Listed), words, sel \in BOOLEAN :
          /\ words \/ (task = Id /\ ~sel)
          /\ ctx' = [ctx EXCEPT ![s] = @ \cup Injected(k, words)]
          /\ refill' = [refill EXCEPT ![s] = [on |-> TRUE, kept |-> k, again |-> sel, upto |-> @.upto]]
    /\ floor' = [floor EXCEPT ![s] = TRUE]
    /\ cp' = [cp EXCEPT ![s] = Arm(@, remember)]
    /\ UNCHANGED <<store, last, since, commits, compacts, losses>>

\* Second reading: the checkpoint is re-seeded from a slice selected anew,
\* which is the one shown if the store has not changed and no model is asked.
RefillMark(s) ==
    /\ refill[s].on
    /\ \E k \in SUBSET Listed :
          /\ Cardinality(k) <= CapN
          /\ refill[s].again \/ k = refill[s].kept
          /\ cp' = [cp EXCEPT ![s].seen = Mark(Unseen, k), ![s].needFloor = FALSE]
    /\ refill' = [refill EXCEPT ![s] = [NoRefill EXCEPT !.upto = IF refill[s].again THEN last ELSE 0]]
    /\ UNCHANGED <<store, last, ctx, floor, since, counters>>

\* A suggestion that takes the mark itself for a commit.
SuggestsBelowMark(s) == cp[s].flagged /\ MaxUpdatedAt < cp[s].flaggedAt

\* What SessionSuggest would answer: nudge if nothing was committed above the mark.
Suggests(s) == cp[s].flagged /\ MaxUpdatedAt <= cp[s].flaggedAt

\* SessionSuggest answers, and disarms.
Stop(s) ==
    /\ Idle(s)
    /\ cp' = [cp EXCEPT ![s].flagged = FALSE, ![s].flaggedAt = 0]
    /\ since' = [since EXCEPT ![s] = {}]
    /\ UNCHANGED <<store, last, refill, ctx, floor, counters>>

\* The file goes between two calls.
Lose(s) ==
    /\ Idle(s) /\ losses < MaxLosses
    /\ KeepFloorMark => ~cp[s].needFloor
    /\ losses' = losses + 1
    /\ cp' = [cp EXCEPT ![s] = Fresh]
    /\ since' = [since EXCEPT ![s] = {}]
    /\ refill' = [refill EXCEPT ![s] = NoRefill]
    /\ UNCHANGED <<store, last, ctx, floor, commits, compacts, remembers>>

Next ==
    \/ \E id \in Id : Commit(id) \/ Forget(id)
    \/ \E s \in Sess :
          \/ Start(s) \/ Compact(s) \/ Stop(s) \/ Lose(s) \/ RefillMark(s)
          \/ \E task \in SUBSET Id, remember \in BOOLEAN :
                Turn(s, task, remember) \/ RefillShow(s, task, remember)

Spec == Init /\ [][Next]_vars

\* A session goes on asking about everything, and a call that is running ends.
Asking ==
    \A s \in Sess :
        /\ WF_vars(Turn(s, Id, FALSE))
        /\ WF_vars(RefillShow(s, Id, FALSE))
        /\ WF_vars(RefillMark(s))

FairSpec == Spec /\ Asking

-----------------------------------------------------------------------------
(* Properties. *)

\* A record is held back only from an agent that has it: whatever a checkpoint
\* suppresses was injected, in its present version, since the agent's context
\* was last lost ("mark ONLY what we actually inject as seen",
\* preamble.go:539; Checkpoint.Seen, session.go:17-19).  A refill during which
\* the store changed, or for which a model was asked twice, may be wrong about
\* the versions there were when it ended, and about no later one.
SeenIsShown ==
    \A s \in Sess, id \in Present :
        cp[s].seen[id] = store[id].at /\ store[id].at > refill[s].upto => <<id, store[id]>> \in ctx[s]

\* The protocol is in the agent's context, or the checkpoint says that the next
\* turn must send it (session.go:20-21, 34-35).
FloorIsThereOrDue == \A s \in Sess : floor[s] \/ cp[s].needFloor

\* The high-water mark stands for the history: a Stop nudges exactly when an
\* @remember is flagged and nothing that is in the store was committed after it
\* (session.go:104-106), whatever other sessions wrote, deleted and asked.
NudgeIffUncommitted == \A s \in Sess : Suggests(s) = (cp[s].flagged /\ since[s] = {})

\* What overflows a slice is not lost: a session that goes on asking gets every
\* record, or the one with the same body that stands for it, in the version the
\* store ends up with, through compactions, changed records, duplicates that
\* come and go, and lost checkpoints; all but a version that a disturbed refill
\* took for shown.
OverflowDrains ==
    <>[](\A s \in Sess, id \in Listed :
            <<id, store[id]>> \in ctx[s] \/ (cp[s].seen[id] = store[id].at /\ store[id].at <= refill[s].upto))
=============================================================================
