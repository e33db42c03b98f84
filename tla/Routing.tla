------------------------------ MODULE Routing ------------------------------
(***************************************************************************)
(* The decider (RouteDecide, routing.go) that gives a task a model tier,   *)
(* with the triage a caller hands it: the provider that is asked           *)
(* (ResolveCompletion, integration.go) and the reading of its answer       *)
(* (ParseTierReply, modelreply.go).                                        *)
(*                                                                         *)
(* Every setting the decider needs is a List of its own, and a model is    *)
(* asked in between.  Meanwhile users commit and delete settings and the   *)
(* store is seeded (SeedFloor, seed.go), record by record.  One decision   *)
(* is modelled read by read: decisions share nothing but the store.        *)
(*                                                                         *)
(* A word stands for a keyword and for the fact that a task's text         *)
(* contains it; a deleted setting and an empty one are read alike.         *)
(***************************************************************************)
EXTENDS Integers, Sequences, FiniteSets

CONSTANTS
    Word,        \* keywords
    BuiltIn,     \* the built-in vocabulary of each class
    Vocabulary,  \* what users commit as the vocabulary of a class
    Provider,    \* names of integrations
    Shipped,     \* DefaultIntegration's
    Task,        \* tasks to decide
    Reply,       \* what the model answers
    Unset,       \* an absent setting, no tier, no command
    Typo,        \* a setting that names no tier
    MaxChanges,  \* bound: writes of users, seedings and failing Puts together
    MaxPast      \* bound: stores one decision sees

Tier       == {"cheap-fast", "default", "deep-reasoning", "elevate"}
Rank       == [t \in Tier |-> IF t = "cheap-fast" THEN 0 ELSE IF t = "default" THEN 1
                              ELSE IF t = "deep-reasoning" THEN 2 ELSE 3]
TierByRank == <<"cheap-fast", "default", "deep-reasoning">>
ByWords    == {"deep-reasoning", "cheap-fast", "default"}
WordClass  == ByWords \cup {"risk"}
Setting    == Tier \cup {Unset, Typo}
Command    == {"shipped", "own", Unset}
Source     == {"override", "pin", "keyword", "triage", "triage-escalated", "default"}

\* What of the store the decider reads.
Store == [floor : Setting, pin : Setting, words : [WordClass -> SUBSET Word],
          cmd : [Tier -> Command], active : Provider \cup {Unset}, spec : SUBSET Provider]

ASSUME BuiltInSpeaks == BuiltIn \in [WordClass -> (SUBSET Word) \ {{}}]
ASSUME VocabularyIsWords == Vocabulary \subseteq SUBSET Word
ASSUME TasksHaveWords == Task \subseteq [words : SUBSET Word, at : SUBSET Tier]
ASSUME RepliesSpeak ==
    Reply # {} /\ Reply \subseteq [tier : Tier \cup {Unset}, sure : BOOLEAN, words : SUBSET Tier]
ASSUME ShippedIsProvider == Shipped \in Provider
ASSUME NothingIsNoName ==
    /\ Unset \notin Tier \cup Source \cup Provider \cup Reply \cup {"shipped", "own"}
    /\ Typo \notin Tier
ASSUME BoundsAreNat == MaxChanges \in Nat /\ MaxPast \in Nat

VARIABLES
    store,      \* the settings and the tier map
    seeding,    \* the Put a seeding is at, 0 when none is under way
    call,       \* the decision under way or made
    past,       \* history: the stores there were during the call
    writes, seeds, fails  \* counters of the bounded actions

vars == <<store, seeding, call, past, writes, seeds, fails>>

\* Where a decision is: the read that is next.
Pc == {"floor", "risk", "pin", "deep-reasoning", "cheap-fast", "default",
       "active", "spec", "reply", "cmd", "done"}

Call == [pc : Pc, task : Task, triage : BOOLEAN,
         floor : Setting, hits : SUBSET ByWords, provider : Provider \cup {Unset},
         declared : BOOLEAN, reply : Reply \cup {Unset},
         class : Tier \cup {Unset}, source : Source \cup {Unset}, cmd : Command]

TypeOK ==
    /\ store \in Store
    /\ seeding \in 0 .. 10
    /\ call \in Call \cup {Unset}
    /\ past \in SUBSET Store
    /\ writes \in Nat /\ seeds \in Nat /\ fails \in Nat
    /\ writes + seeds + fails <= MaxChanges

Unseeded == [floor |-> Unset, pin |-> Unset, words |-> [c \in WordClass |-> {}],
             cmd |-> [t \in Tier |-> Unset], active |-> Unset, spec |-> {}]

FullySeeded == [floor |-> Unset, pin |-> Unset, words |-> BuiltIn,
                cmd |-> [t \in Tier |-> "shipped"], active |-> Shipped, spec |-> {Shipped}]

Init ==
    /\ store \in {Unseeded, FullySeeded} /\ seeding = 0
    /\ call = Unset /\ past = {}
    /\ writes = 0 /\ seeds = 0 /\ fails = 0

-----------------------------------------------------------------------------
(* The store changes. *)

\* A decision is being made.
Deciding == call # Unset /\ call.pc # "done"

Becomes(s) ==
    /\ store' = s
    /\ past' = IF Deciding THEN past \cup {s} ELSE past
    /\ Cardinality(past') <= MaxPast

\* The store changes before or during a decision: one that is made reads no more.
Changing == call = Unset \/ Deciding

Bounded == writes + seeds + fails < MaxChanges

\* The stores one commit or delete of a user away.
Edits(s) ==
    {[s EXCEPT !.floor = x] : x \in Setting} \cup {[s EXCEPT !.pin = x] : x \in Setting}
      \cup {[s EXCEPT !.words[c] = w] : c \in WordClass, w \in Vocabulary}
      \cup {[s EXCEPT !.cmd[t] = x] : t \in Tier, x \in {"own", Unset}}
      \cup {[s EXCEPT !.active = p] : p \in Provider \cup {Unset}}
      \cup {[s EXCEPT !.spec = @ \cup {p}] : p \in Provider}
      \cup {[s EXCEPT !.spec = @ \ {p}] : p \in Provider}

Write ==
    /\ Changing /\ Bounded
    /\ \E s \in Edits(store) \ {store} : Becomes(s)
    /\ writes' = writes + 1
    /\ UNCHANGED <<seeding, call, seeds, fails>>

\* SeedFloor's Puts of what the decider reads: the tier map, the integration
\* and its activation, the vocabularies.
Seeded(i, s) ==
    IF i <= 4 THEN [s EXCEPT !.cmd[(Append(TierByRank, "elevate"))[i]] = "shipped"]
    ELSE IF i = 5 THEN [s EXCEPT !.spec = @ \cup {Shipped}]
    ELSE IF i = 6 THEN [s EXCEPT !.active = Shipped]
    ELSE LET c == <<"deep-reasoning", "cheap-fast", "default", "risk">>[i - 6]
         IN  [s EXCEPT !.words[c] = BuiltIn[c]]

StartSeeding ==
    /\ Changing /\ Bounded /\ seeding = 0
    /\ seeding' = 1 /\ seeds' = seeds + 1
    /\ UNCHANGED <<store, call, past, writes, fails>>

\* A Put that fails is skipped and the next one tried.
Seed ==
    /\ Changing /\ seeding > 0
    /\ seeding' = (seeding + 1) % 11
    /\ \/ Becomes(Seeded(seeding, store)) /\ UNCHANGED fails
       \/ Bounded /\ fails' = fails + 1 /\ UNCHANGED <<store, past>>
    /\ UNCHANGED <<call, writes, seeds>>

-----------------------------------------------------------------------------
(* The ladder. *)

RankOf(c) == IF c \in Tier THEN Rank[c] ELSE 1

\* The next tier up, in what an escalation may reach.
Escalate(c) == TierByRank[IF RankOf(c) + 1 < Len(TierByRank) THEN RankOf(c) + 2 ELSE Len(TierByRank)]

\* One missing vocabulary counts only if all are missing.
VocabularyAllOrNothing(s, c) ==
    IF \A d \in WordClass : s.words[d] = {} THEN BuiltIn[c] ELSE s.words[c]

VocabularyOf(s, c) == IF s.words[c] = {} THEN BuiltIn[c] ELSE s.words[c]

Hits(s, task, c) == task.words \cap VocabularyOf(s, c) # {}

\* The first of the mentions in the order the override is parsed.
Mentioned(task) == CHOOSE t \in task.at : \A u \in task.at : Rank[t] <= Rank[u]

\* A floor under everything, the override and the pin included.
ResolvedFlooring(k, class, source, applyFloor) ==
    [k EXCEPT !.pc = "cmd", !.source = source,
              !.class = IF k.floor \in Tier /\ RankOf(class) < RankOf(k.floor) THEN k.floor ELSE class]

Resolved(k, class, source, applyFloor) ==
    [k EXCEPT !.pc = "cmd", !.source = source,
              !.class = IF applyFloor /\ k.floor \in Tier /\ RankOf(class) < RankOf(k.floor)
                        THEN k.floor ELSE class]

\* The steps of a decision: k is the call, s the store as it is read.
ReadFloor(k, s) == [k EXCEPT !.pc = "risk", !.floor = s.floor]

\* A risk floor that replaces whatever floor there is.
ReadRiskLowers(k, s) ==
    LET floor == IF Hits(s, k.task, "risk") THEN "deep-reasoning" ELSE k.floor
        next  == [k EXCEPT !.pc = "pin", !.floor = floor]
    IN  IF k.task.at = {} THEN next ELSE Resolved(next, Mentioned(k.task), "override", FALSE)

ReadRisk(k, s) ==
    LET risky == Hits(s, k.task, "risk") /\ RankOf("deep-reasoning") > RankOf(k.floor)
        next  == [k EXCEPT !.pc = "pin", !.floor = IF risky THEN "deep-reasoning" ELSE @]
    IN  IF k.task.at = {} THEN next ELSE Resolved(next, Mentioned(k.task), "override", FALSE)

\* A pin that is not checked to name a tier.
ReadPinUnchecked(k, s) ==
    IF s.pin # Unset THEN Resolved(k, s.pin, "pin", FALSE) ELSE [k EXCEPT !.pc = "deep-reasoning"]

ReadPin(k, s) ==
    IF s.pin \in Tier THEN Resolved(k, s.pin, "pin", FALSE) ELSE [k EXCEPT !.pc = "deep-reasoning"]

\* A keyword of the default tier that counts as no signal.
ClassifiedUnsure(k) ==
    IF "deep-reasoning" \in k.hits THEN Resolved(k, "deep-reasoning", "keyword", TRUE)
    ELSE IF "cheap-fast" \in k.hits THEN Resolved(k, "cheap-fast", "keyword", TRUE)
    ELSE IF k.triage THEN [k EXCEPT !.pc = "active"]
    ELSE Resolved(k, "default", "default", TRUE)

\* What to do once all vocabularies are read.
Classified(k) ==
    IF "deep-reasoning" \in k.hits THEN Resolved(k, "deep-reasoning", "keyword", TRUE)
    ELSE IF "cheap-fast" \in k.hits THEN Resolved(k, "cheap-fast", "keyword", TRUE)
    ELSE IF "default" \in k.hits THEN Resolved(k, "default", "keyword", TRUE)
    ELSE IF k.triage THEN [k EXCEPT !.pc = "active"]
    ELSE Resolved(k, "default", "default", TRUE)

ReadWords(k, s) ==
    LET next == [k EXCEPT !.hits = IF Hits(s, k.task, k.pc) THEN @ \cup {k.pc} ELSE @]
    IN  IF k.pc = "deep-reasoning" THEN [next EXCEPT !.pc = "cheap-fast"]
        ELSE IF k.pc = "cheap-fast" THEN [next EXCEPT !.pc = "default"]
        ELSE Classified(next)

\* ResolveCompletion reads the active name, then that integration.
ReadActive(k, s) ==
    IF s.active = Unset THEN [k EXCEPT !.pc = "reply", !.provider = Shipped]
    ELSE [k EXCEPT !.pc = "spec", !.provider = s.active]

ReadSpec(k, s) ==
    [k EXCEPT !.pc = "reply", !.declared = k.provider \in s.spec,
              !.provider = IF k.provider \in s.spec THEN @ ELSE Shipped]

\* A parser that trusts a bare word as it trusts the JSON shape.
ParseTrusting(r) ==
    IF r.tier \in Tier THEN [tier |-> r.tier, confident |-> r.sure]
    ELSE IF r.words = {} THEN [tier |-> Unset, confident |-> FALSE]
    ELSE [tier |-> CHOOSE t \in r.words : TRUE, confident |-> TRUE]

\* ParseTierReply: the JSON shape, or else the first bare word it looks for.
Parse(r) ==
    IF r.tier \in Tier THEN [tier |-> r.tier, confident |-> r.sure]
    ELSE [tier |-> IF "deep-reasoning" \in r.words THEN "deep-reasoning"
                   ELSE IF "cheap-fast" \in r.words THEN "cheap-fast"
                   ELSE IF "default" \in r.words THEN "default" ELSE Unset,
          confident |-> FALSE]

Answered(k, r) ==
    LET next == [k EXCEPT !.reply = r]
        said == Parse(r)
    IN  IF said.tier \notin Tier THEN Resolved(next, "default", "default", TRUE)
        ELSE IF said.confident THEN Resolved(next, said.tier, "triage", TRUE)
        ELSE Resolved(next, Escalate(said.tier), "triage-escalated", TRUE)

ReadCmd(k, s) == [k EXCEPT !.pc = "done", !.cmd = s.cmd[k.class]]

-----------------------------------------------------------------------------
(* A decision over the store. *)

Ask(task, triage) ==
    /\ ~Deciding
    /\ call' = [pc |-> "floor", task |-> task, triage |-> triage, floor |-> Unset, hits |-> {},
                provider |-> Unset, declared |-> FALSE, reply |-> Unset,
                class |-> Unset, source |-> Unset, cmd |-> Unset]
    /\ past' = {store}
    /\ UNCHANGED <<store, seeding, writes, seeds, fails>>

Goes(k) == call' = k /\ UNCHANGED <<store, seeding, past, writes, seeds, fails>>

Read ==
    /\ Deciding
    /\ \/ call.pc = "floor" /\ Goes(ReadFloor(call, store))
       \/ call.pc = "risk" /\ Goes(ReadRisk(call, store))
       \/ call.pc = "pin" /\ Goes(ReadPin(call, store))
       \/ call.pc \in ByWords /\ Goes(ReadWords(call, store))
       \/ call.pc = "active" /\ Goes(ReadActive(call, store))
       \/ call.pc = "spec" /\ Goes(ReadSpec(call, store))
       \/ call.pc = "cmd" /\ Goes(ReadCmd(call, store))

\* The model answers, when it does.
Answer == Deciding /\ call.pc = "reply" /\ \E r \in Reply : Goes(Answered(call, r))

Next ==
    \/ Write \/ StartSeeding \/ Seed \/ Read \/ Answer
    \/ \E task \in Task, triage \in BOOLEAN : Ask(task, triage)

Spec == Init /\ [][Next]_vars
-----------------------------------------------------------------------------
(* Properties. *)

\* What the ladder promises for a store that holds still: an override, or else
\* the pin, or else the keywords' or the model's tier raised to every floor.
Decide(s, task, triage, reply) ==
    LET floors == ({s.floor} \cap Tier) \cup IF Hits(s, task, "risk") THEN {"deep-reasoning"} ELSE {}
        hits   == {c \in ByWords : Hits(s, task, c)}
        said   == Parse(reply)
        chosen == IF hits = {} /\ triage /\ said.tier # Unset
                  THEN IF said.confident THEN said.tier ELSE Escalate(said.tier)
                  ELSE IF "deep-reasoning" \in hits THEN "deep-reasoning"
                  ELSE IF "cheap-fast" \in hits THEN "cheap-fast" ELSE "default"
    IN  IF task.at # {} THEN Mentioned(task)
        ELSE IF s.pin \in Tier THEN s.pin
        ELSE CHOOSE t \in floors \cup {chosen} : \A u \in floors \cup {chosen} : Rank[u] <= Rank[t]

Made == call # Unset /\ call.pc = "done"

\* What the model answered, or may have answered had it been asked.
Answers == IF call.reply = Unset THEN Reply ELSE {call.reply}

\* If no more than one setting changes while a decision is made, whenever that
\* is, the decision (tier, command and provider) is the one for the store before
\* the change or the one for the store after it (RouteDecide reads the store
\* setting by setting, ResolveCompletion twice).
OneChangeIsAtomic ==
    Made /\ Cardinality(past) <= 2 =>
        \E s \in past, r \in Answers :
            /\ call.class = Decide(s, call.task, call.triage, r)
            /\ call.cmd = s.cmd[call.class]
            /\ call.source \in {"triage", "triage-escalated"} =>
                 IF s.active \in s.spec THEN call.provider = s.active /\ call.declared
                 ELSE call.provider = Shipped /\ ~call.declared

\* However many settings change meanwhile, what stands throughout is kept: an
\* override wins, a pin that stands is the tier, and unless a pin decided, no
\* decision is below a floor that stands, nor below deep reasoning when the
\* task is risky by every vocabulary there was.
StandingSettingsHold ==
    Made =>
        IF call.task.at # {} THEN call.class = Mentioned(call.task)
        ELSE /\ \A t \in Tier : (\A s \in past : s.pin = t) => call.class = t
             /\ (\A s \in past : s.pin \notin Tier) =>
                  /\ \A t \in Tier : (\A s \in past : s.floor = t) => Rank[call.class] >= Rank[t]
                  /\ (\A s \in past : Hits(s, call.task, "risk")) => Rank[call.class] >= 2

\* The model is asked, and believed, only when nothing cheaper decides: no
\* override, at some moment no pin, and for each class at some moment no keyword.
TriageIsEarned ==
    (call # Unset /\ (call.pc \in {"active", "spec", "reply"}
                       \/ call.source \in {"triage", "triage-escalated"})) =>
        /\ call.triage /\ call.task.at = {}
        /\ \E s \in past : s.pin \notin Tier
        /\ \A c \in ByWords : \E s \in past : ~Hits(s, call.task, c)

\* An answer the model was not sure of, or that is not in the shape it was asked
\* for, buys a dearer tier than the one it names, up to deep reasoning.
UnsureSpendsMore ==
    (Made /\ call.source \in {"triage", "triage-escalated"}
          /\ ~(call.reply.tier \in Tier /\ call.reply.sure)) =>
        LET named == Tier \cap IF call.reply.tier \in Tier THEN {call.reply.tier} ELSE call.reply.words
        IN  /\ \A t \in named \ {"elevate"} : Rank[call.class] >= Rank[t]
            /\ Rank[call.class] >= 2 \/ \E t \in named : Rank[call.class] > Rank[t]

\* Seeding changes no decision: as long as users have changed nothing, however
\* much of a seeding is done, undone by failures or repeated, tasks go where they
\* go over an empty store and completions to the shipped provider.
SeedingKeepsDecisions ==
    Made /\ writes = 0 =>
        /\ \E r \in Answers : call.class = Decide(Unseeded, call.task, call.triage, r)
        /\ call.provider \in {Unset, Shipped}
        /\ call.cmd # "own"

\* The top tier is a deliberate choice: somebody mentions it, pins it or sets it
\* as the floor.
ElevateIsDeliberate ==
    Made /\ call.class = "elevate" =>
        call.task.at # {} \/ \E s \in past : "elevate" \in {s.pin, s.floor}
=============================================================================
