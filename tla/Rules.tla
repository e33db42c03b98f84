------------------------------- MODULE Rules -------------------------------
(***************************************************************************)
(* The rules of a store as agents meet them: the patterns that are denied  *)
(* (GatePatterns, gate.go), what CLAUDE.md tells of them (dropSettings,    *)
(* claudemd.go), how strictly a rule applies (enforcement.go) and which    *)
(* modes are on, while users and SeedFloor change the rules.               *)
(*                                                                         *)
(* Three places decide by a rule's key whether it is a setting, and they   *)
(* do not decide alike; what a key looks like to them is its form:         *)
(*   "setting"  begins with setting/                                       *)
(*   "Setting"  does so once folded to lower case and trimmed              *)
(*   "settings" begins with setting, and not with setting/                 *)
(*   "plain"    does neither                                               *)
(* and its last segment the leaf.  A body is the pattern it stands for,    *)
(* a directory and its expansion being one.                                *)
(***************************************************************************)
EXTENDS Integers

CONSTANTS
    Id,          \* identifiers, numbered in List's order
    SeedId,      \* the one dispatcher-mode is seeded under
    Leaf,        \* last segments of keys
    SoftLeaf,    \* DefaultRuleTiers, all soft
    Dispatcher,  \* dispatcher-mode
    Body,        \* bodies of rules
    On,          \* the affirmative one
    Blank,       \* no body
    None,        \* no record
    Commits,     \* what users commit
    MaxCommits   \* bound: changes of the rules

Form == {"setting", "Setting", "settings", "plain"}
Enf  == {"hard", "soft", "advisory", "none"}
Rule == [kind : {"gate-rule", "convention"}, form : Form, leaf : Leaf,
         body : Body \cup {Blank}, enf : Enf]

\* A pattern: a body, or the key of a rule without one.
Pattern == [body : Body, key : {None}] \cup [body : {Blank}, key : Form \X Leaf]

ASSUME IdsAreNat == Id \subseteq Nat /\ SeedId \in Id
ASSUME LeavesAreThere == SoftLeaf \subseteq Leaf /\ Dispatcher \in SoftLeaf
ASSUME BodiesAreThere == On \in Body /\ Blank \notin Body
ASSUME NoneIsNothing == None \notin Rule
ASSUME CommitsAreRules == Commits \subseteq Rule
ASSUME BoundIsNat == MaxCommits \in Nat

VARIABLES
    rules,   \* rules[i]: the record under an identifier
    commits  \* counter of the bounded actions

rvars == <<rules, commits>>

TypeOK ==
    /\ rules \in [Id -> Rule \cup {None}]
    /\ commits \in 0 .. MaxCommits

RInit == rules = [i \in Id |-> None] /\ commits = 0

-----------------------------------------------------------------------------
(* Reading the rules: operators of a map R from identifiers to records. *)

Gates(R) == {i \in Id : R[i] # None /\ R[i].kind = "gate-rule"}

\* The first of some identifiers in List's order.
First(I) == CHOOSE i \in I : \A j \in I : i <= j

PatternOf(r) == IF r.body = Blank THEN [body |-> Blank, key |-> <<r.form, r.leaf>>]
                ELSE [body |-> r.body, key |-> None]

\* GatePatterns skips whatever begins with "setting".
GatePatterns(R) == {PatternOf(R[i]) : i \in {j \in Gates(R) : R[j].form \notin {"setting", "settings"}}}

\* Duplicates dropped before settings are, and empty bodies taken for duplicates.
ToldHastily(R) ==
    {PatternOf(R[i]) : i \in {j \in Gates(R) :
        R[j].form # "setting" /\ \A k \in Gates(R) : R[k].body = R[j].body => j <= k}}

\* dropSettings drops the settings, and then what an earlier rule says.
ToldGates(R) ==
    LET kept == {i \in Gates(R) : R[i].form # "setting"}
    IN  {PatternOf(R[i]) : i \in {j \in kept :
            R[j].body = Blank \/ \A k \in kept : R[k].body = R[j].body => j <= k}}

IsSettingKey(r) == r.form \in {"setting", "Setting"}

\* A derivation that knows a setting by its exact spelling only.
TierExact(r) ==
    IF r.enf # "none" THEN r.enf
    ELSE IF r.kind # "gate-rule" THEN "advisory"
    ELSE IF r.form # "setting" THEN "hard"
    ELSE IF r.leaf \in SoftLeaf THEN "soft" ELSE "advisory"

\* The explicit tier, or else one derived from kind and key.
Tier(r) ==
    IF r.enf # "none" THEN r.enf
    ELSE IF r.kind # "gate-rule" THEN "advisory"
    ELSE IF ~IsSettingKey(r) THEN "hard"
    ELSE IF r.leaf \in SoftLeaf THEN "soft" ELSE "advisory"

\* RuleTier: the explicit tier of the first record that has one and the name.
RuleTier(R, name) ==
    LET said == {i \in Id : R[i] # None /\ R[i].enf # "none" /\ R[i].leaf = name}
    IN  IF said # {} THEN R[First(said)].enf
        ELSE IF name \in SoftLeaf THEN "soft" ELSE "advisory"

SoftRuleNames(R) ==
    SoftLeaf \cup {R[i].leaf : i \in {j \in Id : R[j] # None /\ R[j].enf = "soft"}}

\* DispatcherModeOn and its likes: the first gate rule with exactly that key.
ModeOn(R, leaf) ==
    LET found == {i \in Gates(R) : R[i].form = "setting" /\ R[i].leaf = leaf}
    IN  found # {} /\ R[First(found)].body = On

-----------------------------------------------------------------------------
(* The rules change. *)

Becomes(i, r) ==
    /\ commits < MaxCommits /\ commits' = commits + 1
    /\ rules' = [rules EXCEPT ![i] = r]

Commit(i, r) == Becomes(i, r)

DeleteRule(i) == rules[i] # None /\ Becomes(i, None)

SeedRule == [kind |-> "gate-rule", form |-> "setting", leaf |-> Dispatcher, body |-> On, enf |-> "soft"]

\* SeedFloor switches dispatcher-mode on.
Seed == Becomes(SeedId, SeedRule)

RNext ==
    \/ Seed
    \/ \E i \in Id, r \in Commits : Commit(i, r)
    \/ \E i \in Id : DeleteRule(i)

RSpec == RInit /\ [][RNext]_rvars

-----------------------------------------------------------------------------
(* Properties. *)

\* What is denied is told, whatever the keys and the duplicates, and what is
\* told is denied but for keys like "settings.json": dropSettings takes them for
\* gates, GatePatterns for settings.
ToldIsDenied ==
    /\ GatePatterns(rules) \subseteq ToldGates(rules)
    /\ ToldGates(rules) \ GatePatterns(rules)
         \subseteq {PatternOf(rules[i]) : i \in {j \in Gates(rules) : rules[j].form = "settings"}}

\* Every rule that may be overridden is among those the override command names.
SoftIsListed == \A name \in Leaf : RuleTier(rules, name) = "soft" => name \in SoftRuleNames(rules)

\* The three derivations of a tier agree: the tier found for a setting by its name
\* (RuleTier) is the one its record has (Tier), derived or explicit, if no other
\* record bears the name; and what is soft is listed (SoftRuleNames).
TiersAgree ==
    /\ \A i \in Gates(rules) :
         /\ IsSettingKey(rules[i])
         /\ \A j \in Id : rules[j] # None /\ rules[j].leaf = rules[i].leaf => j = i
         => RuleTier(rules, rules[i].leaf) = Tier(rules[i])
    /\ SoftIsListed

\* The floor takes effect: right after a seeding dispatcher-mode is on and soft,
\* unless a record that comes earlier bears its name.
SeedTakesEffect ==
    [][Seed /\ (\A i \in Id : i < SeedId /\ rules[i] # None => rules[i].leaf # Dispatcher) =>
         ModeOn(rules, Dispatcher)' /\ RuleTier(rules, Dispatcher)' = "soft"]_rvars
=============================================================================
