--------------------------- MODULE Contract_proofs -------------------------
(***************************************************************************)
(* Proofs about Rules, for any identifiers, names, bodies and commits, and *)
(* about the managed block of Contract, for any documents and bounds.      *)
(*                                                                         *)
(* What is told, denied, named and tiered is a function of the rules, so   *)
(* the types are all the induction there is for them; those theorems rest  *)
(* on lemmas about the functions for any map from identifiers to records.  *)
(* What a splice does depends on what it finds: the document has always    *)
(* had one pair of markers, in order, or none (DocInv).                    *)
(***************************************************************************)
EXTENDS Contract, WellFoundedInduction, FiniteSetTheorems, SequenceTheorems, TLAPS


\* List's order has a first among any identifiers.
LEMMA FirstIsFirst ==
    ASSUME NEW I, I \subseteq Id, I # {}
    PROVE  First(I) \in I /\ \A j \in I : First(I) <= j
<1> DEFINE R == {p \in Nat \X Nat : p[1] < p[2]}
<1>1. I \subseteq Nat
    BY IdsAreNat
<1>2. IsWellFoundedOn(R, Nat)
    BY NatLessThanWellFounded DEF OpToRel
<1> HIDE DEF R
<1>3. PICK i \in I : \A j \in I : ~(<<j, i>> \in R)
    BY <1>1, <1>2, WFMin
<1>4. \A j \in I : i <= j
    <2> SUFFICES ASSUME NEW j \in I PROVE i <= j
        OBVIOUS
    <2>1. i \in Nat /\ j \in Nat
        BY <1>1
    <2>2. j < i => <<j, i>> \in R
        BY <2>1 DEF R
    <2> QED
        BY <1>3, <2>1, <2>2
<1> QED
    BY <1>4 DEF First

-----------------------------------------------------------------------------
(* Types. *)

LEMMA SeedRuleIsRule == SeedRule \in Rule
    BY LeavesAreThere, BodiesAreThere DEF SeedRule, Rule, Form, Enf

LEMMA TypeStep == TypeOK /\ [RNext]_rvars => TypeOK'
<1> SUFFICES ASSUME TypeOK, [RNext]_rvars PROVE TypeOK'
    OBVIOUS
<1>1. ASSUME NEW i \in Id, NEW r \in Rule \cup {None}, Becomes(i, r) PROVE TypeOK'
    BY <1>1, BoundIsNat DEF TypeOK, Becomes
<1>2. CASE Seed
    BY <1>1, <1>2, SeedRuleIsRule, IdsAreNat DEF Seed
<1>3. ASSUME NEW i \in Id, NEW r \in Commits, Commit(i, r) PROVE TypeOK'
    BY <1>1, <1>3, CommitsAreRules DEF Commit
<1>4. ASSUME NEW i \in Id, DeleteRule(i) PROVE TypeOK'
    BY <1>1, <1>4 DEF DeleteRule
<1>5. CASE UNCHANGED rvars
    BY <1>5 DEF TypeOK, rvars
<1> QED
    BY <1>2, <1>3, <1>4, <1>5 DEF RNext

\* The rules are records under identifiers, whatever is committed, removed and
\* seeded.
THEOREM TypeCorrect == RSpec => []TypeOK
<1>1. RInit => TypeOK
    BY BoundIsNat DEF RInit, TypeOK
<1> QED
    BY <1>1, TypeStep, PTL DEF RSpec

-----------------------------------------------------------------------------
(* Denied and told. *)

\* Dropping duplicates drops no pattern.
LEMMA DedupeKeepsPatterns ==
    ASSUME NEW i \in Gates(rules), rules[i].form # "setting"
    PROVE  PatternOf(rules[i]) \in ToldGates(rules)
<1> DEFINE kept == {j \in Gates(rules) : rules[j].form # "setting"}
           same == {j \in kept : rules[j].body = rules[i].body}
<1>1. CASE rules[i].body = Blank
    BY <1>1 DEF ToldGates
<1>2. CASE rules[i].body # Blank
    <2>1. same \subseteq Id /\ same # {}
        BY DEF Gates
    <2>2. First(same) \in same /\ \A k \in same : First(same) <= k
        BY <2>1, FirstIsFirst
    <2>3. PatternOf(rules[First(same)]) = PatternOf(rules[i])
        BY <1>2, <2>2 DEF PatternOf
    <2>4. PatternOf(rules[First(same)]) \in ToldGates(rules)
        BY <2>2 DEF ToldGates
    <2> QED
        BY <2>3, <2>4
<1> QED
    BY <1>1, <1>2

LEMMA ToldAndDenied == ToldIsDenied
<1>1. GatePatterns(rules) \subseteq ToldGates(rules)
    BY DedupeKeepsPatterns DEF GatePatterns
<1>2. ASSUME NEW p \in ToldGates(rules) \ GatePatterns(rules)
      PROVE  p \in {PatternOf(rules[i]) : i \in {j \in Gates(rules) : rules[j].form = "settings"}}
    <2>1. PICK i \in Gates(rules) : rules[i].form # "setting" /\ p = PatternOf(rules[i])
        BY DEF ToldGates
    <2>2. rules[i].form = "settings"
        BY <2>1 DEF GatePatterns
    <2> QED
        BY <2>1, <2>2
<1> QED
    BY <1>1, <1>2 DEF ToldIsDenied

\* CLAUDE.md tells every denied pattern, and nothing that is not denied but for
\* keys like "settings.json", for any rules.
THEOREM ToldIsDeniedAlways == RSpec => []ToldIsDenied
    BY ToldAndDenied, PTL

-----------------------------------------------------------------------------
(* Tiers. *)

LEMMA TiersOfSettings ==
    ASSUME TypeOK, NEW i \in Gates(rules), IsSettingKey(rules[i]),
           \A j \in Id : rules[j] # None /\ rules[j].leaf = rules[i].leaf => j = i
    PROVE  RuleTier(rules, rules[i].leaf) = Tier(rules[i])
<1> DEFINE said == {j \in Id : rules[j] # None /\ rules[j].enf # "none"
                                 /\ rules[j].leaf = rules[i].leaf}
<1>1. i \in Id /\ rules[i] # None /\ rules[i].kind = "gate-rule"
    BY DEF Gates
<1>2. CASE rules[i].enf # "none"
    <2>1. said = {i}
        BY <1>1, <1>2
    <2>2. First(said) = i
        BY <2>1, <1>1, FirstIsFirst
    <2>3. RuleTier(rules, rules[i].leaf) = rules[i].enf
        BY <2>1, <2>2 DEF RuleTier
    <2> QED
        BY <1>2, <2>3 DEF Tier
<1>3. CASE rules[i].enf = "none"
    <2>1. said = {}
        BY <1>1, <1>3
    <2> QED
        BY <1>1, <1>3, <2>1 DEF RuleTier, Tier
<1> QED
    BY <1>2, <1>3

\* Every overridable rule is among the names the override command lists.
LEMMA OverridableIsListed == SoftIsListed
<1> SUFFICES ASSUME NEW name \in Leaf, RuleTier(rules, name) = "soft"
             PROVE  name \in SoftRuleNames(rules)
    BY DEF SoftIsListed
<1> DEFINE said == {i \in Id : rules[i] # None /\ rules[i].enf # "none"
                                 /\ rules[i].leaf = name}
<1>1. CASE said # {}
    <2>1. First(said) \in said
        BY <1>1, FirstIsFirst
    <2>2. rules[First(said)].enf = "soft"
        BY <1>1 DEF RuleTier
    <2> QED
        BY <2>1, <2>2 DEF SoftRuleNames
<1>2. CASE said = {}
    BY <1>2 DEF RuleTier, SoftRuleNames
<1> QED
    BY <1>1, <1>2

\* The tier found by name is the record's own, if no other bears the name, and
\* every overridable rule is listed.
THEOREM TiersAgreeAlways == RSpec => []TiersAgree
<1>1. TypeOK => TiersAgree
    BY TiersOfSettings, OverridableIsListed DEF TiersAgree
<1> QED
    BY <1>1, TypeCorrect, PTL

\* A seeding puts dispatcher-mode in force unless an earlier record has its name.
THEOREM SeedTakesEffectAlways == RSpec => SeedTakesEffect
<1> DEFINE Unclaimed == \A i \in Id : i < SeedId /\ rules[i] # None => rules[i].leaf # Dispatcher
<1>1. TypeOK /\ Seed /\ Unclaimed => ModeOn(rules, Dispatcher)' /\ RuleTier(rules, Dispatcher)' = "soft"
    <2> SUFFICES ASSUME TypeOK, Seed, Unclaimed
                 PROVE  ModeOn(rules', Dispatcher) /\ RuleTier(rules', Dispatcher) = "soft"
        BY DEF ModeOn, RuleTier, Gates
    <2>1. SeedId \in Id /\ Id \subseteq Nat
        BY IdsAreNat
    <2>2. rules' = [rules EXCEPT ![SeedId] = SeedRule] /\ rules'[SeedId] = SeedRule
        BY <2>1 DEF Seed, Becomes, TypeOK
    <2>3. SeedRule # None
        BY SeedRuleIsRule, NoneIsNothing
    <2>4. \A i \in Id : rules'[i] # None /\ rules'[i].leaf = Dispatcher => SeedId <= i
        BY <2>1, <2>2 DEF TypeOK
    <2>5. ASSUME NEW I, I \subseteq Id, SeedId \in I,
                 \A i \in I : rules'[i] # None /\ rules'[i].leaf = Dispatcher
          PROVE  First(I) = SeedId
        <3>1. First(I) \in I /\ \A j \in I : First(I) <= j
            BY <2>5, FirstIsFirst
        <3>2. SeedId <= First(I) /\ First(I) <= SeedId /\ First(I) \in Nat /\ SeedId \in Nat
            BY <2>1, <2>4, <2>5, <3>1
        <3> QED
            BY <3>2
    <2>6. ModeOn(rules', Dispatcher)
        <3> DEFINE found == {i \in Gates(rules') : rules'[i].form = "setting" /\ rules'[i].leaf = Dispatcher}
        <3>1. SeedId \in found /\ found \subseteq Id
            BY <2>1, <2>2, <2>3 DEF Gates, SeedRule
        <3>2. First(found) = SeedId
            BY <2>5, <3>1 DEF Gates
        <3> QED
            BY <2>2, <3>1, <3>2 DEF ModeOn, SeedRule
    <2>7. RuleTier(rules', Dispatcher) = "soft"
        <3> DEFINE said == {i \in Id : rules'[i] # None /\ rules'[i].enf # "none"
                                         /\ rules'[i].leaf = Dispatcher}
        <3>1. SeedId \in said
            BY <2>1, <2>2, <2>3 DEF SeedRule
        <3>2. First(said) = SeedId
            BY <2>5, <3>1
        <3> QED
            BY <2>2, <3>1, <3>2 DEF RuleTier, SeedRule
    <2> QED
        BY <2>6, <2>7
<1> QED
    BY <1>1, TypeCorrect, PTL DEF RSpec, SeedTakesEffect
-----------------------------------------------------------------------------
(***************************************************************************)
(* Contract: the lines at some places of a document, the frame that a pair *)
(* of markers makes, and what splices and edits do to it.                  *)
(***************************************************************************)


\* A function gives the places in their order.
Lists(f, n, K) ==
    /\ n \in Nat /\ f \in [1 .. n -> K] /\ K \subseteq Nat
    /\ \A k \in K : \E i \in 1 .. n : f[i] = k
    /\ \A i, j \in 1 .. n : i < j => f[i] < f[j]

\* The lines at some places, when the places are known in their order.
LEMMA AtInOrder ==
    ASSUME NEW d, NEW K, NEW n, NEW f, Lists(f, n, K)
    PROVE  At(d, K) = [i \in 1 .. n |-> d[f[i]]]
<1> USE DEF Lists
<1> DEFINE Below(k) == {j \in K : j <= k}
<1>1. \A i, j \in 1 .. n : f[i] <= f[j] <=> i <= j
    <2> SUFFICES ASSUME NEW i \in 1 .. n, NEW j \in 1 .. n PROVE f[i] <= f[j] <=> i <= j
        OBVIOUS
    <2>1. f[i] \in Nat /\ f[j] \in Nat
        OBVIOUS
    <2>2. (i < j => f[i] < f[j]) /\ (j < i => f[j] < f[i])
        OBVIOUS
    <2>3. i = j => f[i] = f[j]
        OBVIOUS
    <2> HIDE DEF Below
    <2> QED
        BY <2>1, <2>2, <2>3
<1>2. ASSUME NEW i \in 0 .. n, NEW T, T = {f[x] : x \in 1 .. i}
      PROVE  IsFiniteSet(T) /\ Cardinality(T) = i
    <2> DEFINE g == [x \in 1 .. i |-> f[x]]
    <2>1. \A x \in 1 .. i : x \in 1 .. n /\ g[x] = f[x] /\ g[x] \in T
        BY <1>2
    <2>4. g \in [1 .. i -> T]
        BY <2>1
    <2> HIDE DEF g
    <2>2. \A x, y \in 1 .. i : g[x] = g[y] => x = y
        <3> SUFFICES ASSUME NEW x \in 1 .. i, NEW y \in 1 .. i, f[x] = f[y] PROVE x = y
            BY <2>1
        <3>3. f[x] \in Nat /\ x \in 1 .. n /\ y \in 1 .. n
            BY <2>1
        <3>1. f[x] <= f[y] /\ f[y] <= f[x]
            BY <3>3
        <3>2. x <= y /\ y <= x
            BY <1>1, <3>1, <3>3
        <3> QED
            BY <3>2
    <2>3. \A t \in T : \E x \in 1 .. i : g[x] = t
        BY <1>2, <2>1
    <2>5. g \in Bijection(1 .. i, T)
        BY <2>2, <2>3, <2>4 DEF Bijection, Injection, Surjection, IsInjective
    <2>6. ExistsBijection(1 .. i, T)
        BY <2>5 DEF ExistsBijection
    <2>7. IsFiniteSet(1 .. i) /\ Cardinality(1 .. i) = i
        <3>1. 1 \in Int /\ i \in Int /\ i >= 0
            OBVIOUS
        <3>2. Cardinality(1 .. i) = IF 1 > i THEN 0 ELSE i - 1 + 1
            BY <3>1, FS_Interval
        <3> QED
            BY <3>1, <3>2, FS_Interval
    <2> QED
        BY <2>6, <2>7, FS_Bijection
<1>3. Cardinality(K) = n
    <2>1. \A x \in 1 .. n : f[x] \in K
        OBVIOUS
    <2>2. K = {f[x] : x \in 1 .. n}
        BY <2>1
    <2>3. n \in 0 .. n
        OBVIOUS
    <2> QED
        BY <1>2, <2>2, <2>3
<1>4. ASSUME NEW i \in 1 .. n PROVE Cardinality(Below(f[i])) = i
    <2>1. Below(f[i]) = {f[x] : x \in 1 .. i}
        <3>1. ASSUME NEW k \in Below(f[i]) PROVE \E x \in 1 .. i : f[x] = k
            <4>1. PICK x \in 1 .. n : f[x] = k
                OBVIOUS
            <4>2. x <= i
                BY <1>1, <4>1
            <4> QED
                BY <4>1, <4>2
        <3>2. ASSUME NEW x \in 1 .. i PROVE f[x] \in Below(f[i])
            <4>1. x \in 1 .. n /\ x <= i
                OBVIOUS
            <4> QED
                BY <1>1, <4>1
        <3> HIDE DEF Below
        <3> QED
            BY <3>1, <3>2
    <2>2. i \in 0 .. n
        OBVIOUS
    <2> QED
        BY <1>2, <2>1, <2>2
<1>5. ASSUME NEW i \in 1 .. n
      PROVE  (CHOOSE k \in K : Cardinality({j \in K : j <= k}) = i) = f[i]
    <2>1. \A k \in K : Cardinality(Below(k)) = i <=> k = f[i]
        <3> TAKE k \in K
        <3>1. PICK x \in 1 .. n : f[x] = k
            OBVIOUS
        <3>2. Cardinality(Below(k)) = x
            BY <1>4, <3>1
        <3>3. x = i => k = f[i]
            BY <3>1
        <3>4. k = f[i] => Cardinality(Below(k)) = i
            BY <1>4
        <3> HIDE DEF Below
        <3> QED
            BY <3>2, <3>3, <3>4
    <2>2. f[i] \in K
        OBVIOUS
    <2> QED
        BY <2>1, <2>2
<1>6. \A i \in 1 .. n : d[CHOOSE k \in K : Cardinality({j \in K : j <= k}) = i] = d[f[i]]
    BY <1>5
<1>7. [i \in 1 .. n |-> d[CHOOSE k \in K : Cardinality({j \in K : j <= k}) = i]] = [i \in 1 .. n |-> d[f[i]]]
    BY <1>6, Zenon
<1>8. At(d, K) = [i \in 1 .. n |-> d[CHOOSE k \in K : Cardinality({j \in K : j <= k}) = i]]
    BY <1>3, Zenon DEF At
<1> QED
    BY <1>7, <1>8, Zenon
-----------------------------------------------------------------------------

\* The lines before some place and after another one.
LEMMA AroundBlock ==
    ASSUME NEW X, NEW d \in Seq(X), NEW a \in Nat, NEW e \in Nat, a <= e, e <= Len(d)
    PROVE  At(d, (1 .. a) \cup (e + 1 .. Len(d))) = SubSeq(d, 1, a) \o SubSeq(d, e + 1, Len(d))
<1> DEFINE K == (1 .. a) \cup (e + 1 .. Len(d))
           n == a + Len(d) - e
           f == [i \in 1 .. n |-> IF i <= a THEN i ELSE i + e - a]
           p == SubSeq(d, 1, a)
           s == SubSeq(d, e + 1, Len(d))
<1>1. Len(d) \in Nat /\ n \in Nat /\ K \subseteq Nat
    OBVIOUS
<1>2. f \in [1 .. n -> K]
    OBVIOUS
<1>3. \A k \in K : \E i \in 1 .. n : f[i] = k
    <2> TAKE k \in K
    <2>1. CASE k <= a
        <3>1. k \in 1 .. n /\ f[k] = k
            BY <2>1
        <3> QED
            BY <3>1
    <2>2. CASE k > a
        <3>1. k - e + a \in 1 .. n /\ k - e + a > a
            BY <2>2
        <3>2. f[k - e + a] = k
            BY <3>1
        <3> QED
            BY <3>1, <3>2
    <2> QED
        BY <2>1, <2>2
<1>4. \A i, j \in 1 .. n : i < j => f[i] < f[j]
    OBVIOUS
<1>5. \A i \in 1 .. n : f[i] = IF i <= a THEN i ELSE i + e - a
    OBVIOUS
<1>6. Len(p) = a /\ Len(s) = Len(d) - e /\ p \in Seq(X) /\ s \in Seq(X)
    OBVIOUS
<1>7. (\A i \in 1 .. a : p[i] = d[i]) /\ \A i \in 1 .. Len(d) - e : s[i] = d[i + e]
    OBVIOUS
<1>11. n = a + Len(d) - e
    OBVIOUS
<1> HIDE DEF K, f, p, s, n
<1>8. At(d, K) = [i \in 1 .. n |-> d[f[i]]]
    <2>1. Lists(f, n, K)
        BY <1>1, <1>2, <1>3, <1>4 DEF Lists
    <2> QED
        BY <2>1, AtInOrder
<1>9. p \o s = [i \in 1 .. n |-> IF i <= a THEN p[i] ELSE s[i - a]]
    <2>1. p \o s \in Seq(X) /\ Len(p \o s) = n
        BY <1>1, <1>6, <1>11
    <2>2. \A i \in 1 .. n : (p \o s)[i] = IF i <= a THEN p[i] ELSE s[i - a]
        BY <1>1, <1>6, <1>11
    <2>4. p \o s \in [1 .. n -> X]
        BY <2>1, LenProperties
    <2>3. p \o s = [i \in 1 .. n |-> (p \o s)[i]]
        BY <2>4
    <2> QED
        BY <2>2, <2>3
<1>10. \A i \in 1 .. n : d[f[i]] = IF i <= a THEN p[i] ELSE s[i - a]
    <2> TAKE i \in 1 .. n
    <2>1. CASE i <= a
        BY <1>5, <1>7, <2>1
    <2>2. CASE i > a
        <3>1. i - a \in 1 .. Len(d) - e /\ f[i] = (i - a) + e
            BY <1>1, <1>5, <1>11, <2>2
        <3> QED
            BY <1>7, <2>2, <3>1
    <2> QED
        BY <2>1, <2>2
<1> QED
    BY <1>8, <1>9, <1>10 DEF K, p, s

LEMMA AtBlock ==
    ASSUME NEW d, NEW b \in Nat, d[b + 1] = Begin, d[b + 3] = End
    PROVE  At(d, b + 1 .. b + 3) = <<Begin, d[b + 2], End>>
<1> DEFINE f == [i \in 1 .. 3 |-> b + i]
<1>1. f \in [1 .. 3 -> b + 1 .. b + 3] /\ b + 1 .. b + 3 \subseteq Nat
    OBVIOUS
<1>2. \A k \in b + 1 .. b + 3 : \E i \in 1 .. 3 : f[i] = k
    <2> TAKE k \in b + 1 .. b + 3
    <2>1. k - b \in 1 .. 3 /\ f[k - b] = k
        OBVIOUS
    <2> QED
        BY <2>1
<1>3. \A i, j \in 1 .. 3 : i < j => f[i] < f[j]
    OBVIOUS
<1>4. \A i \in 1 .. 3 : f[i] = b + i
    OBVIOUS
<1>7. 3 \in Nat
    OBVIOUS
<1> HIDE DEF f
<1>5. At(d, b + 1 .. b + 3) = [i \in 1 .. 3 |-> d[f[i]]]
    <2>1. Lists(f, 3, b + 1 .. b + 3)
        BY <1>1, <1>2, <1>3, <1>7 DEF Lists
    <2> QED
        BY <2>1, AtInOrder
<1>6. d[f[1]] = Begin /\ d[f[2]] = d[b + 2] /\ d[f[3]] = End
    BY <1>4
<1> QED
    BY <1>5, <1>6
-----------------------------------------------------------------------------
\* What a document is made of when no body contains a marker, and that without
\* the markers.
Item    == {Begin, End, Header} \cup {Told(t) : t \in SUBSET Pattern} \cup {Mine(n) : n \in Nat}
Content == Item \ {Begin, End}

LEMMA ItemsDiffer ==
    /\ Begin # End /\ Begin \in Item /\ End \in Item /\ Header \in Content
    /\ \A t \in SUBSET Pattern : Told(t) \in Content
    /\ \A n \in Nat : Mine(n) \in Content
<1>1. Begin # End /\ Header # Begin /\ Header # End
    BY DEF Begin, End, Header
<1>2. \A t : Told(t) # Begin /\ Told(t) # End
    <2> TAKE t
    <2>1. Len(Told(t)) = 2 /\ Len(Begin) = 1 /\ Len(End) = 1
        BY DEF Told, Begin, End
    <2> QED
        BY <2>1
<1>3. \A n : Mine(n) # Begin /\ Mine(n) # End
    <2> TAKE n
    <2>1. Len(Mine(n)) = 2 /\ Len(Begin) = 1 /\ Len(End) = 1
        BY DEF Mine, Begin, End
    <2> QED
        BY <2>1
<1> QED
    BY <1>1, <1>2, <1>3 DEF Item, Content

\* One pair of markers; no marker at all.
Framed(d, b, e) ==
    /\ b \in 1 .. Len(d) /\ e \in 1 .. Len(d) /\ b < e
    /\ Where(d, Begin) = {b} /\ Where(d, End) = {e}

Bare(d) == Where(d, Begin) = {} /\ Where(d, End) = {}

\* The block of a framed document is its frame.
LEMMA Frame ==
    ASSUME NEW d \in Seq(Item), NEW b, NEW e, Framed(d, b, e)
    PROVE  /\ Managed(d) = b .. e
           /\ At(d, Unmanaged(d)) = SubSeq(d, 1, b - 1) \o SubSeq(d, e + 1, Len(d))
<1>1. /\ b \in Nat /\ e \in Nat /\ 1 <= b /\ b < e /\ e <= Len(d) /\ Len(d) \in Nat /\ DOMAIN d = 1 .. Len(d)
      /\ Where(d, Begin) = {b} /\ Where(d, End) = {e}
    BY DEF Framed
<1>2. Managed(d) = b .. e
    BY <1>1 DEF Managed
<1>3. Unmanaged(d) = (1 .. b - 1) \cup (e + 1 .. Len(d))
    BY <1>1, <1>2 DEF Unmanaged
<1>4. b - 1 \in Nat /\ b - 1 <= e
    BY <1>1
<1>5. At(d, (1 .. b - 1) \cup (e + 1 .. Len(d))) = SubSeq(d, 1, b - 1) \o SubSeq(d, e + 1, Len(d))
    BY <1>1, <1>4, AroundBlock
<1> QED
    BY <1>2, <1>3, <1>5

LEMMA NoFrame ==
    ASSUME NEW d \in Seq(Item), Bare(d)
    PROVE  At(d, Unmanaged(d)) = d
<1>1. Len(d) \in Nat /\ DOMAIN d = 1 .. Len(d)
    OBVIOUS
<1>2. Unmanaged(d) = (1 .. Len(d)) \cup (Len(d) + 1 .. Len(d))
    BY <1>1 DEF Unmanaged, Managed, Bare
<1>3. At(d, (1 .. Len(d)) \cup (Len(d) + 1 .. Len(d))) = SubSeq(d, 1, Len(d)) \o SubSeq(d, Len(d) + 1, Len(d))
    <2>1. Len(d) <= Len(d)
        BY <1>1
    <2> QED
        BY <1>1, <2>1, AroundBlock
<1>4. SubSeq(d, 1, Len(d)) = d /\ SubSeq(d, Len(d) + 1, Len(d)) = <<>>
    BY SubSeqFull, SubSeqEmpty, <1>1
<1>5. d \o <<>> = d
    BY ConcatEmptySeq
<1> QED
    BY <1>2, <1>3, <1>4, <1>5

\* What a splice builds is framed, and is what it was built from.
LEMMA Spliced ==
    ASSUME NEW p \in Seq(Content), NEW s \in Seq(Content), NEW t \in SUBSET Pattern,
           NEW D, D = p \o <<Begin, Told(t), End>> \o s
    PROVE  /\ D \in Seq(Item) /\ Framed(D, Len(p) + 1, Len(p) + 3)
           /\ At(D, Managed(D)) = <<Begin, Told(t), End>>
           /\ At(D, Unmanaged(D)) = p \o s
<1> DEFINE blk == <<Begin, Told(t), End>>
           b   == Len(p)
<1>1. /\ Told(t) \in Content /\ Told(t) \in Item /\ Told(t) # Begin /\ Told(t) # End
      /\ Begin # End /\ Begin \in Item /\ End \in Item
    BY ItemsDiffer DEF Content
<1>2. blk \in Seq(Item) /\ Len(blk) = 3 /\ blk[1] = Begin /\ blk[2] = Told(t) /\ blk[3] = End
    BY <1>1
<1>3. p \in Seq(Item) /\ s \in Seq(Item) /\ b \in Nat /\ Len(s) \in Nat
    BY SeqMonotonic DEF Content
<1>4. /\ \A i \in 1 .. b : p[i] # Begin /\ p[i] # End
      /\ \A i \in 1 .. Len(s) : s[i] # Begin /\ s[i] # End
    BY DEF Content
<1> HIDE DEF blk
<1>5. /\ p \o blk \in Seq(Item) /\ Len(p \o blk) = b + 3
      /\ \A i \in 1 .. b + 3 : (p \o blk)[i] = IF i <= b THEN p[i] ELSE blk[i - b]
    <2>1. /\ p \o blk \in Seq(Item) /\ Len(p \o blk) = b + Len(blk)
          /\ \A i \in 1 .. b + Len(blk) : (p \o blk)[i] = IF i <= b THEN p[i] ELSE blk[i - b]
        BY <1>2, <1>3, ConcatProperties
    <2> QED
        BY <1>2, <2>1
<1>6. /\ D \in Seq(Item) /\ Len(D) = b + 3 + Len(s)
      /\ \A i \in 1 .. b + 3 + Len(s) : D[i] = IF i <= b + 3 THEN (p \o blk)[i] ELSE s[i - (b + 3)]
    BY <1>3, <1>5, ConcatProperties DEF blk
<1> HIDE DEF b
<1>7. /\ \A i \in 1 .. b : D[i] = p[i]
      /\ D[b + 1] = Begin /\ D[b + 2] = Told(t) /\ D[b + 3] = End
      /\ \A i \in 1 .. Len(s) : D[b + 3 + i] = s[i]
    <2>1. ASSUME NEW i \in 1 .. b PROVE D[i] = p[i]
        BY <1>3, <1>5, <1>6
    <2>2. ASSUME NEW i \in 1 .. 3 PROVE D[b + i] = blk[i]
        <3> DEFINE k == b + i
        <3>1. k \in 1 .. b + 3 /\ k \in 1 .. b + 3 + Len(s) /\ ~(k <= b) /\ k <= b + 3 /\ k - b = i
            BY <1>3
        <3> HIDE DEF k
        <3>2. (p \o blk)[k] = blk[k - b]
            BY <1>5, <3>1
        <3>3. D[k] = (p \o blk)[k]
            BY <1>6, <3>1
        <3> QED
            BY <3>1, <3>2, <3>3 DEF k
    <2>3. ASSUME NEW i \in 1 .. Len(s) PROVE D[b + 3 + i] = s[i]
        <3>1. b + 3 + i \in 1 .. b + 3 + Len(s) /\ ~(b + 3 + i <= b + 3) /\ (b + 3 + i) - (b + 3) = i
            BY <1>3
        <3> QED
            BY <1>6, <3>1
    <2> QED
        <3>1. 1 \in 1 .. 3 /\ 2 \in 1 .. 3 /\ 3 \in 1 .. 3
            OBVIOUS
        <3> QED
            BY <1>2, <2>1, <2>2, <2>3, <3>1
<1>8. ASSUME NEW i \in 1 .. Len(D), i # b + 1, i # b + 3 PROVE D[i] # Begin /\ D[i] # End
    <2>1. CASE i <= b
        BY <1>3, <1>4, <1>7, <2>1 DEF b
    <2>2. CASE i = b + 2
        BY <1>1, <1>7, <2>2
    <2>3. CASE i > b + 3
        <3>1. i - (b + 3) \in 1 .. Len(s) /\ b + 3 + (i - (b + 3)) = i
            BY <1>3, <1>6, <2>3
        <3> QED
            BY <1>4, <1>7, <3>1
    <2> QED
        BY <1>3, <1>8, <2>1, <2>2, <2>3
<1>9. Framed(D, b + 1, b + 3)
    <2>1. DOMAIN D = 1 .. Len(D) /\ b + 1 \in 1 .. Len(D) /\ b + 3 \in 1 .. Len(D)
        BY <1>3, <1>6
    <2>2. Where(D, Begin) = {b + 1} /\ Where(D, End) = {b + 3}
        BY <1>1, <1>7, <1>8, <2>1 DEF Where
    <2>3. b + 1 < b + 3
        BY <1>3
    <2> QED
        BY <2>1, <2>2, <2>3, Zenon DEF Framed
<1>10. /\ Managed(D) = b + 1 .. b + 3
       /\ At(D, Unmanaged(D)) = SubSeq(D, 1, (b + 1) - 1) \o SubSeq(D, (b + 3) + 1, Len(D))
    BY <1>6, <1>9, Frame
<1>11. At(D, Managed(D)) = blk
    BY <1>3, <1>7, <1>10, AtBlock DEF blk
<1>12. SubSeq(D, 1, (b + 1) - 1) = p
    <2>1. (b + 1) - 1 = b
        BY <1>3
    <2>2. /\ SubSeq(D, 1, b) \in Seq(Item) /\ Len(SubSeq(D, 1, b)) = b
          /\ \A i \in 1 .. b : SubSeq(D, 1, b)[i] = D[i]
        BY <1>3, <1>6
    <2> QED
        BY <1>3, <1>7, <2>1, <2>2, SeqEqual DEF b
<1>13. SubSeq(D, (b + 3) + 1, Len(D)) = s
    <2> DEFINE r == SubSeq(D, (b + 3) + 1, Len(D))
    <2>1. /\ r \in Seq(Item) /\ Len(r) = Len(s)
          /\ \A i \in 1 .. Len(s) : r[i] = D[b + 3 + i]
        BY <1>3, <1>6
    <2> HIDE DEF r
    <2>2. r = s
        BY <1>3, <1>7, <2>1, SeqEqual
    <2> QED
        BY <2>2 DEF r
<1> QED
    BY <1>6, <1>9, <1>10, <1>11, <1>12, <1>13 DEF b, blk
-----------------------------------------------------------------------------
\* What a splice needs.
Marked(d) == Bare(d) \/ \E b, e \in 1 .. Len(d) : Framed(d, b, e)

\* The markers of a document are those of another one, and in their order.
Moves(f, d, D) ==
    /\ \A i \in 1 .. Len(d) : d[i] \in {Begin, End} => f[i] \in 1 .. Len(D) /\ D[f[i]] = d[i]
    /\ \A i, j \in 1 .. Len(d) : d[i] \in {Begin, End} /\ d[j] \in {Begin, End} /\ i < j => f[i] < f[j]
    /\ \A i \in 1 .. Len(D) : D[i] \in {Begin, End} => \E j \in 1 .. Len(d) : f[j] = i /\ d[j] = D[i]

LEMMA MarkersMove ==
    ASSUME NEW d \in Seq(Item), NEW D \in Seq(Item), NEW f, Marked(d), Moves(f, d, D)
    PROVE  Marked(D)
<1> USE DEF Moves
<1>1. DOMAIN d = 1 .. Len(d) /\ DOMAIN D = 1 .. Len(D)
    OBVIOUS
<1>2. CASE Bare(d)
    <2>1. Bare(D)
        BY <1>1, <1>2 DEF Bare, Where
    <2> QED
        BY <2>1 DEF Marked
<1>3. CASE \E b, e \in 1 .. Len(d) : Framed(d, b, e)
    <2>1. PICK b \in 1 .. Len(d), e \in 1 .. Len(d) : Framed(d, b, e)
        BY <1>3
    <2>2. /\ d[b] = Begin /\ d[e] = End /\ b < e
          /\ \A i \in 1 .. Len(d) : (d[i] = Begin => i = b) /\ (d[i] = End => i = e)
        BY <1>1, <2>1 DEF Framed, Where
    <2>3. f[b] \in 1 .. Len(D) /\ f[e] \in 1 .. Len(D) /\ D[f[b]] = Begin /\ D[f[e]] = End /\ f[b] < f[e]
        <3>1. d[b] \in {Begin, End} /\ d[e] \in {Begin, End} /\ b < e
            BY <2>2
        <3>2. f[b] < f[e]
            BY <3>1
        <3>3. f[b] \in 1 .. Len(D) /\ f[e] \in 1 .. Len(D) /\ D[f[b]] = d[b] /\ D[f[e]] = d[e]
            BY <3>1
        <3> QED
            BY <2>2, <3>2, <3>3
    <2>4. \A i \in 1 .. Len(D) : (D[i] = Begin => i = f[b]) /\ (D[i] = End => i = f[e])
        <3> SUFFICES ASSUME NEW i \in 1 .. Len(D), D[i] \in {Begin, End}
                     PROVE  (D[i] = Begin => i = f[b]) /\ (D[i] = End => i = f[e])
            OBVIOUS
        <3>1. PICK j \in 1 .. Len(d) : f[j] = i /\ d[j] = D[i]
            OBVIOUS
        <3> QED
            BY <2>2, <3>1
    <2>5. Where(D, Begin) = {f[b]} /\ Where(D, End) = {f[e]}
        BY <1>1, <2>3, <2>4 DEF Where
    <2>6. Framed(D, f[b], f[e])
        BY <2>3, <2>5 DEF Framed
    <2> QED
        BY <2>3, <2>6 DEF Marked
<1> QED
    BY <1>2, <1>3 DEF Marked

LEMMA Inserted ==
    ASSUME NEW d \in Seq(Item), Marked(d), NEW x \in Content, NEW k \in 1 .. Len(d) + 1
    PROVE  InsertAt(d, k, x) \in Seq(Item) /\ Marked(InsertAt(d, k, x))
<1> DEFINE D == InsertAt(d, k, x)
           p == SubSeq(d, 1, k - 1)
           s == SubSeq(d, k, Len(d))
           f == [i \in 1 .. Len(d) |-> IF i < k THEN i ELSE i + 1]
<1>1. Len(d) \in Nat /\ k \in Nat /\ x \in Item /\ x \notin {Begin, End}
    BY DEF Content
<1>2. /\ p \in Seq(Item) /\ Len(p) = k - 1 /\ \A i \in 1 .. k - 1 : p[i] = d[i]
      /\ s \in Seq(Item) /\ Len(s) = Len(d) - k + 1 /\ \A i \in 1 .. Len(d) - k + 1 : s[i] = d[k + i - 1]
    OBVIOUS
<1>3. D = p \o <<x>> \o s
    BY DEF InsertAt
<1>4. \A i \in 1 .. Len(d) : f[i] = IF i < k THEN i ELSE i + 1
    OBVIOUS
<1> HIDE DEF D, p, s, f
<1>5. /\ D \in Seq(Item) /\ Len(D) = Len(d) + 1 /\ D[k] = x
      /\ \A i \in 1 .. Len(d) : f[i] \in 1 .. Len(D) /\ D[f[i]] = d[i]
    <2> DEFINE q == p \o <<x>>
    <2>1. q \in Seq(Item) /\ Len(q) = k /\ q[k] = x /\ \A i \in 1 .. k - 1 : q[i] = d[i]
        BY <1>1, <1>2
    <2> HIDE DEF q
    <2>2. /\ D \in Seq(Item) /\ Len(D) = Len(d) + 1
          /\ \A i \in 1 .. Len(d) + 1 : D[i] = IF i <= k THEN q[i] ELSE s[i - k]
        <3>1. /\ q \o s \in Seq(Item) /\ Len(q \o s) = Len(q) + Len(s)
              /\ \A i \in 1 .. Len(q) + Len(s) : (q \o s)[i] = IF i <= Len(q) THEN q[i] ELSE s[i - Len(q)]
            BY <1>2, <2>1, ConcatProperties
        <3>2. Len(q) + Len(s) = Len(d) + 1 /\ Len(q) = k
            BY <1>1, <1>2, <2>1
        <3>3. D = q \o s
            BY <1>3 DEF q
        <3> QED
            BY <3>1, <3>2, <3>3
    <2>3. D[k] = x
        BY <1>1, <2>1, <2>2
    <2>4. ASSUME NEW i \in 1 .. Len(d) PROVE f[i] \in 1 .. Len(D) /\ D[f[i]] = d[i]
        <3>1. CASE i < k
            BY <1>1, <1>4, <2>1, <2>2, <3>1
        <3>2. CASE ~(i < k)
            <4>1. f[i] = i + 1 /\ i + 1 \in 1 .. Len(d) + 1 /\ ~(i + 1 <= k)
                BY <1>1, <1>4, <3>2
            <4>2. D[i + 1] = s[i + 1 - k]
                BY <2>2, <4>1
            <4>3. i + 1 - k \in 1 .. Len(d) - k + 1 /\ k + (i + 1 - k) - 1 = i
                BY <1>1, <3>2
            <4>4. s[i + 1 - k] = d[i]
                BY <1>2, <4>3
            <4> QED
                BY <2>2, <4>1, <4>2, <4>4
        <3> QED
            BY <3>1, <3>2
    <2> QED
        BY <2>2, <2>3, <2>4
<1>6. \A i, j \in 1 .. Len(d) : i < j => f[i] < f[j]
    BY <1>1, <1>4
<1>7. ASSUME NEW i \in 1 .. Len(D), i # k PROVE \E j \in 1 .. Len(d) : f[j] = i
    <2>1. CASE i < k
        BY <1>1, <1>4, <1>5, <2>1
    <2>2. CASE i > k
        <3>1. i - 1 \in 1 .. Len(d) /\ f[i - 1] = i
            BY <1>1, <1>4, <1>5, <2>2
        <3> QED
            BY <3>1
    <2> QED
        BY <1>1, <1>7, <2>1, <2>2
<1>8. \A i \in 1 .. Len(D) : D[i] \in {Begin, End} => \E j \in 1 .. Len(d) : f[j] = i /\ d[j] = D[i]
    <2> SUFFICES ASSUME NEW i \in 1 .. Len(D), D[i] \in {Begin, End}
                 PROVE  \E j \in 1 .. Len(d) : f[j] = i /\ d[j] = D[i]
        OBVIOUS
    <2>1. i # k
        BY <1>1, <1>5
    <2>2. PICK j \in 1 .. Len(d) : f[j] = i
        BY <1>7, <2>1
    <2> QED
        BY <1>5, <2>2
<1>9. Marked(D)
    <2>1. Moves(f, d, D)
        BY <1>5, <1>6, <1>8 DEF Moves
    <2> QED
        BY <1>5, <2>1, MarkersMove
<1> QED
    BY <1>5, <1>9 DEF D

\* A document without some lines of another one.
IsWithout(D, d, j, c) ==
    /\ D \in Seq(Item) /\ Len(D) = Len(d) - c
    /\ \A i \in 1 .. Len(D) : D[i] = d[IF i < j THEN i ELSE i + c]

LEMMA CutOut ==
    ASSUME NEW d \in Seq(Item), NEW j \in 1 .. Len(d), NEW k \in j .. Len(d), NEW c, c = k - j + 1,
           NEW D, D = SubSeq(d, 1, j - 1) \o SubSeq(d, k + 1, Len(d))
    PROVE  IsWithout(D, d, j, c)
<1> DEFINE p == SubSeq(d, 1, j - 1)
           s == SubSeq(d, k + 1, Len(d))
<1>1. Len(d) \in Nat /\ j \in Nat /\ k \in Nat /\ j <= k /\ k <= Len(d) /\ j >= 1
    OBVIOUS
<1>2. /\ p \in Seq(Item) /\ Len(p) = j - 1 /\ \A i \in 1 .. j - 1 : p[i] = d[i]
      /\ s \in Seq(Item) /\ Len(s) = Len(d) - k /\ \A i \in 1 .. Len(d) - k : s[i] = d[k + i]
    OBVIOUS
<1> HIDE DEF p, s
<1>3. /\ D \in Seq(Item) /\ Len(D) = Len(p) + Len(s)
      /\ \A i \in 1 .. Len(p) + Len(s) : D[i] = IF i <= Len(p) THEN p[i] ELSE s[i - Len(p)]
    BY <1>2, ConcatProperties DEF p, s
<1>4. Len(p) = j - 1 /\ Len(p) + Len(s) = Len(d) - c /\ c \in Nat /\ c = k - j + 1
    BY <1>1, <1>2
<1>5. ASSUME NEW i \in 1 .. Len(D) PROVE D[i] = d[IF i < j THEN i ELSE i + c]
    <2> DEFINE P == Len(p)
               S == Len(s)
               L == Len(d)
    <2>3. i \in 1 .. P + S /\ P = j - 1 /\ P + S = L - c /\ c = k - j + 1 /\ L \in Nat /\ S = L - k
        BY <1>1, <1>2, <1>3, <1>4
    <2>4. D[i] = IF i <= P THEN p[i] ELSE s[i - P]
        BY <1>3, <2>3
    <2> HIDE DEF P, S, L
    <2>1. CASE i < j
        <3>1. i <= P /\ i \in 1 .. j - 1
            BY <1>1, <2>1, <2>3
        <3> QED
            BY <1>2, <2>1, <2>4, <3>1
    <2>2. CASE ~(i < j)
        <3> DEFINE x == i - P
        <3>1. ~(i <= P) /\ x \in 1 .. L - k /\ k + x = i + c
            BY <1>1, <2>2, <2>3
        <3>2. D[i] = s[x]
            BY <2>4, <3>1
        <3> HIDE DEF x
        <3>3. s[x] = d[k + x]
            BY <1>2, <3>1 DEF L
        <3> QED
            BY <2>2, <3>1, <3>2, <3>3
    <2> QED
        BY <2>1, <2>2
<1> QED
    BY <1>3, <1>4, <1>5 DEF IsWithout

LEMMA Removed ==
    ASSUME NEW d \in Seq(Item), Marked(d), NEW k \in 1 .. Len(d), d[k] \notin {Begin, End}
    PROVE  RemoveAt(d, k) \in Seq(Item) /\ Marked(RemoveAt(d, k))
<1> DEFINE D == RemoveAt(d, k)
           f == [i \in 1 .. Len(d) |-> IF i < k THEN i ELSE i - 1]
<1>1. Len(d) \in Nat /\ k \in Nat /\ k \in k .. Len(d) /\ 1 = k - k + 1
    OBVIOUS
<1>2. D = SubSeq(d, 1, k - 1) \o SubSeq(d, k + 1, Len(d))
    BY DEF RemoveAt
<1>3. \A i \in 1 .. Len(d) : f[i] = IF i < k THEN i ELSE i - 1
    OBVIOUS
<1> HIDE DEF D, f
<1>4. /\ D \in Seq(Item) /\ Len(D) = Len(d) - 1
      /\ \A i \in 1 .. Len(D) : D[i] = d[IF i < k THEN i ELSE i + 1]
    <2>1. PICK c : c = k - k + 1
        OBVIOUS
    <2>2. k \in k .. Len(d)
        BY <1>1
    <2>3. IsWithout(D, d, k, c)
        BY <1>2, <2>1, <2>2, CutOut
    <2>4. c = 1
        BY <1>1, <2>1
    <2> QED
        BY <2>3, <2>4 DEF IsWithout
<1>5. ASSUME NEW i \in 1 .. Len(d), i # k PROVE f[i] \in 1 .. Len(D) /\ D[f[i]] = d[i]
    <2>3. Len(D) = Len(d) - 1 /\ f[i] = IF i < k THEN i ELSE i - 1
        BY <1>3, <1>4
    <2>1. CASE i < k
        <3>1. f[i] = i /\ i \in 1 .. Len(D)
            BY <1>1, <2>1, <2>3
        <3> QED
            BY <1>4, <2>1, <3>1
    <2>2. CASE i > k
        <3>1. f[i] = i - 1 /\ i - 1 \in 1 .. Len(D) /\ ~(i - 1 < k) /\ (i - 1) + 1 = i
            BY <1>1, <2>2, <2>3
        <3> QED
            BY <1>4, <3>1
    <2> QED
        BY <1>1, <1>5, <2>1, <2>2
<1>6. \A i, j \in 1 .. Len(d) : i # k /\ j # k /\ i < j => f[i] < f[j]
    BY <1>1, <1>3
<1>7. ASSUME NEW i \in 1 .. Len(D) PROVE \E j \in 1 .. Len(d) : f[j] = i /\ d[j] = D[i]
    <2>3. Len(D) = Len(d) - 1
        BY <1>4
    <2>1. CASE i < k
        <3>1. i \in 1 .. Len(d)
            BY <1>1, <2>3
        <3>2. f[i] = i /\ D[i] = d[i]
            BY <1>3, <1>4, <2>1, <3>1
        <3> QED
            BY <3>1, <3>2
    <2>2. CASE ~(i < k)
        <3>1. i + 1 \in 1 .. Len(d) /\ ~(i + 1 < k) /\ (i + 1) - 1 = i
            BY <1>1, <2>2, <2>3
        <3>2. f[i + 1] = i /\ D[i] = d[i + 1]
            BY <1>3, <1>4, <2>2, <3>1
        <3> QED
            BY <3>1, <3>2
    <2> QED
        BY <2>1, <2>2
<1>8. Marked(D)
    <2>1. \A i \in 1 .. Len(d) : d[i] \in {Begin, End} => i # k
        OBVIOUS
    <2>2. \A i \in 1 .. Len(d) : d[i] \in {Begin, End} => f[i] \in 1 .. Len(D) /\ D[f[i]] = d[i]
        BY <1>5, <2>1
    <2>3. \A i, j \in 1 .. Len(d) : d[i] \in {Begin, End} /\ d[j] \in {Begin, End} /\ i < j => f[i] < f[j]
        BY <1>6, <2>1
    <2>4. Moves(f, d, D)
        BY <1>7, <2>2, <2>3 DEF Moves
    <2> QED
        BY <1>4, <2>4, MarkersMove
<1> QED
    BY <1>4, <1>8 DEF D
LEMMA AllContent ==
    ASSUME NEW d \in Seq(Item), \A i \in 1 .. Len(d) : d[i] \in Content
    PROVE  d \in Seq(Content)
<1>1. d \in [1 .. Len(d) -> Item] /\ Len(d) \in Nat
    BY LenProperties
<1>2. d \in [1 .. Len(d) -> Content]
    BY <1>1
<1> QED
    BY <1>1, <1>2, SeqDef

LEMMA BlockAlone ==
    ASSUME TypeOK, Quoting = {}
    PROVE  /\ ToldGates(rules) \in SUBSET Pattern
           /\ Block(rules) = <<Begin, Told(ToldGates(rules)), End>>
<1>1. ASSUME NEW i \in Gates(rules) PROVE PatternOf(rules[i]) \in Pattern
    <2>1. rules[i] \in Rule
        BY <1>1 DEF Gates, TypeOK
    <2> QED
        BY <2>1 DEF PatternOf, Pattern, Rule
<1>2. ToldGates(rules) \subseteq Pattern
    BY <1>1 DEF ToldGates
<1> QED
    BY <1>2 DEF Block

\* A splice into a document with one pair of markers or none.
LEMMA SpliceKeeps ==
    ASSUME NEW d \in Seq(Item), Marked(d), NEW t \in SUBSET Pattern,
           NEW D, D = Splice(d, <<Begin, Told(t), End>>)
    PROVE  /\ D \in Seq(Item) /\ Marked(D)
           /\ At(D, Managed(D)) = <<Begin, Told(t), End>>
           /\ At(D, Unmanaged(D)) = IF d = <<>> THEN <<Header>> ELSE At(d, Unmanaged(d))
<1> DEFINE blk == <<Begin, Told(t), End>>
<1>1. ASSUME NEW p \in Seq(Content), NEW s \in Seq(Content), D = p \o blk \o s
      PROVE  /\ D \in Seq(Item) /\ Marked(D)
             /\ At(D, Managed(D)) = blk /\ At(D, Unmanaged(D)) = p \o s
    <2>1. /\ D \in Seq(Item) /\ Framed(D, Len(p) + 1, Len(p) + 3)
          /\ At(D, Managed(D)) = blk /\ At(D, Unmanaged(D)) = p \o s
        BY <1>1, Spliced
    <2> QED
        BY <2>1 DEF Marked, Framed
<1>2. /\ Begin \in Item /\ End \in Item /\ Told(t) \in Item /\ blk \in Seq(Item)
      /\ <<>> \in Seq(Content) /\ <<>> \in Seq(Item) /\ Header \in Content
    BY ItemsDiffer DEF Content
<1>3. Len(d) \in Nat /\ DOMAIN d = 1 .. Len(d) /\ \A i \in 1 .. Len(d) : d[i] \in Item
    OBVIOUS
<1> HIDE DEF blk
<1>4. CASE d = <<>>
    <2> DEFINE p == <<Header>>
    <2>1. p \in Seq(Content) /\ p \in Seq(Item)
        BY <1>2 DEF Content
    <2>2. D = p \o blk
        BY <1>4 DEF Splice, blk
    <2> HIDE DEF p
    <2>3. p \o blk \in Seq(Item)
        BY <1>2, <2>1
    <2>4. D = p \o blk \o <<>> /\ p \o <<>> = p
        BY <2>1, <2>2, <2>3, ConcatEmptySeq
    <2>5. /\ D \in Seq(Item) /\ Marked(D)
          /\ At(D, Managed(D)) = blk /\ At(D, Unmanaged(D)) = p \o <<>>
        BY <1>1, <1>2, <2>1, <2>4
    <2> QED
        BY <1>4, <2>4, <2>5 DEF p, blk
<1>5. CASE d # <<>> /\ Bare(d)
    <2>1. D = d \o blk
        BY <1>5 DEF Splice, Bare, blk
    <2>2. d \in Seq(Content)
        BY <1>3, <1>5, AllContent DEF Bare, Where, Content
    <2>3. d \o blk \in Seq(Item)
        BY <1>2
    <2>4. D = d \o blk \o <<>> /\ d \o <<>> = d
        BY <2>1, <2>3, ConcatEmptySeq
    <2>5. /\ D \in Seq(Item) /\ Marked(D)
          /\ At(D, Managed(D)) = blk /\ At(D, Unmanaged(D)) = d \o <<>>
        BY <1>1, <1>2, <2>2, <2>4
    <2>6. At(d, Unmanaged(d)) = d
        BY <1>5, NoFrame
    <2> QED
        BY <1>5, <2>4, <2>5, <2>6 DEF blk
<1>6. CASE d # <<>> /\ \E b, e \in 1 .. Len(d) : Framed(d, b, e)
    <2>1. PICK b \in 1 .. Len(d), e \in 1 .. Len(d) : Framed(d, b, e)
        BY <1>6
    <2>2. b \in Nat /\ e \in Nat /\ b < e /\ 1 <= b /\ e <= Len(d) /\ Where(d, Begin) = {b} /\ Where(d, End) = {e}
        BY <1>3, <2>1 DEF Framed
    <2>3. First({b}) = b /\ First({e}) = e
        BY <2>2 DEF First
    <2> DEFINE p == SubSeq(d, 1, b - 1)
               s == SubSeq(d, e + 1, Len(d))
    <2>4. D = p \o blk \o s
        BY <1>6, <2>2, <2>3 DEF Splice, blk
    <2>5. \A i \in 1 .. Len(d) : i # b /\ i # e => d[i] \in Content
        BY <1>3, <2>2 DEF Where, Content
    <2>6. p \in Seq(Content)
        <3>1. p \in Seq(Item) /\ Len(p) = b - 1 /\ \A i \in 1 .. b - 1 : p[i] = d[i]
            BY <2>2
        <3>2. \A i \in 1 .. b - 1 : i \in 1 .. Len(d) /\ i # b /\ i # e
            BY <2>2
        <3> HIDE DEF p
        <3> QED
            BY <2>5, <3>1, <3>2, AllContent
    <2>7. s \in Seq(Content)
        <3>1. s \in Seq(Item) /\ Len(s) = Len(d) - e /\ \A i \in 1 .. Len(d) - e : s[i] = d[i + e]
            BY <2>2
        <3>2. \A i \in 1 .. Len(d) - e : i + e \in 1 .. Len(d) /\ i + e # b /\ i + e # e
            BY <2>2
        <3> HIDE DEF s
        <3> QED
            BY <2>5, <3>1, <3>2, AllContent
    <2>8. /\ D \in Seq(Item) /\ Marked(D)
          /\ At(D, Managed(D)) = blk /\ At(D, Unmanaged(D)) = p \o s
        BY <1>1, <2>4, <2>6, <2>7
    <2>9. At(d, Unmanaged(d)) = p \o s
        BY <2>1, Frame
    <2> QED
        BY <1>6, <2>8, <2>9 DEF blk
<1> QED
    BY <1>4, <1>5, <1>6 DEF Marked

-----------------------------------------------------------------------------
\* The inductive invariant.
DocInv == TypeOK /\ doc \in Seq(Item) /\ edits \in Nat /\ Marked(doc)

LEMMA DocInit == Init => DocInv
<1> SUFFICES ASSUME Init PROVE DocInv
    OBVIOUS
<1>1. TypeOK
    BY BoundIsNat DEF Init, RInit, TypeOK
<1>2. doc = <<>> /\ edits = 0
    BY DEF Init
<1>3. Bare(doc)
    BY <1>2 DEF Bare, Where
<1> QED
    BY <1>1, <1>2, <1>3 DEF DocInv, Marked
LEMMA DocStep ==
    ASSUME MarkersKept = TRUE, Quoting = {}, DocInv, [Next]_vars
    PROVE  DocInv'
<1> DEFINE told == ToldGates(rules)
<1>1. TypeOK /\ doc \in Seq(Item) /\ edits \in Nat /\ Marked(doc) /\ Len(doc) \in Nat
    BY DEF DocInv
<1>2. CASE Refresh
    <2>1. told \in SUBSET Pattern /\ doc' = Splice(doc, <<Begin, Told(told), End>>)
        BY <1>1, <1>2, BlockAlone DEF Refresh
    <2>2. doc' \in Seq(Item) /\ Marked(doc')
        BY <1>1, <2>1, SpliceKeeps
    <2>3. TypeOK' /\ edits' \in Nat
        BY <1>1, <1>2 DEF Refresh, rvars, TypeOK
    <2> QED
        BY <2>2, <2>3 DEF DocInv, Marked, Bare, Framed, Where
<1>3. CASE RNext /\ UNCHANGED <<doc, edits>>
    <2>1. TypeOK'
        BY <1>1, <1>3, TypeStep
    <2> QED
        BY <1>1, <1>3, <2>1 DEF DocInv, Marked, Bare, Framed, Where
<1>4. ASSUME NEW d \in Seq(Item), Marked(d), Edited(d) PROVE DocInv'
    <2>1. doc' = d /\ edits' = edits + 1 /\ TypeOK'
        BY <1>1, <1>4 DEF Edited, rvars, TypeOK
    <2> QED
        BY <1>1, <1>4, <2>1 DEF DocInv, Marked, Bare, Framed, Where
<1>5. ASSUME NEW k \in 1 .. Len(doc) + 1, WriteLine(k) PROVE DocInv'
    <2>1. Mine(edits + 1) \in Content
        BY <1>1, ItemsDiffer
    <2>2. /\ InsertAt(doc, k, Mine(edits + 1)) \in Seq(Item)
          /\ Marked(InsertAt(doc, k, Mine(edits + 1)))
        BY <1>1, <2>1, Inserted
    <2> QED
        BY <1>4, <1>5, <2>2 DEF WriteLine
<1>6. ASSUME NEW k \in DOMAIN doc, DeleteLine(k) PROVE DocInv'
    <2>1. k \in 1 .. Len(doc) /\ doc[k] \notin {Begin, End}
        BY <1>1, <1>6 DEF DeleteLine
    <2>2. RemoveAt(doc, k) \in Seq(Item) /\ Marked(RemoveAt(doc, k))
        BY <1>1, <2>1, Removed
    <2> QED
        BY <1>4, <1>6, <2>2 DEF DeleteLine
<1>7. ASSUME NEW j \in DOMAIN doc, NEW k \in DOMAIN doc, j < k, DeleteBlock(j, k) PROVE DocInv'
    <2> DEFINE D == SubSeq(doc, 1, j - 1) \o SubSeq(doc, k + 1, Len(doc))
    <2>1. PICK c : c = k - j + 1
        OBVIOUS
    <2>2. j \in 1 .. Len(doc) /\ k \in j .. Len(doc)
        BY <1>1, <1>7
    <2>3. IsWithout(D, doc, j, c)
        BY <1>1, <2>1, <2>2, CutOut
    <2>4. Edited(D) /\ Where(doc, Begin) \cup Where(doc, End) \subseteq j .. k
        BY <1>7 DEF DeleteBlock
    <2> HIDE DEF D
    <2>5. D \in Seq(Item)
        BY <2>3 DEF IsWithout
    <2>6. ASSUME NEW i \in 1 .. Len(D) PROVE D[i] # Begin /\ D[i] # End
        <3> DEFINE x == IF i < j THEN i ELSE i + c
        <3>1. D[i] = doc[x] /\ Len(D) = Len(doc) - c
            BY <2>3 DEF IsWithout
        <3>2. x \in 1 .. Len(doc) /\ x \notin j .. k
            <4>1. Len(doc) \in Nat /\ j \in Nat /\ k \in Nat /\ 1 <= j /\ j <= k /\ k <= Len(doc)
                BY <1>1, <2>2
            <4>2. Len(D) = Len(doc) - c /\ c = k - j + 1
                BY <2>1, <2>3 DEF IsWithout
            <4> DEFINE L == Len(doc)
                       M == Len(D)
            <4>3. /\ L \in Nat /\ j \in Nat /\ k \in Nat /\ 1 <= j /\ j <= k /\ k <= L
                  /\ M = L - c /\ c = k - j + 1 /\ i \in 1 .. M
                BY <4>1, <4>2
            <4> HIDE DEF L, M
            <4>4. CASE i < j
                <5>1. x = i
                    BY <4>4
                <5>2. i \in 1 .. L /\ i \notin j .. k
                    BY <4>3, <4>4
                <5> QED
                    BY <5>1, <5>2 DEF L
            <4>5. CASE ~(i < j)
                <5>1. x = i + c
                    BY <4>5
                <5>2. i + c \in 1 .. L /\ i + c \notin j .. k
                    BY <4>3, <4>5
                <5> QED
                    BY <5>1, <5>2 DEF L
            <4> QED
                BY <4>4, <4>5
        <3> HIDE DEF x
        <3>3. x \notin Where(doc, Begin) /\ x \notin Where(doc, End) /\ x \in DOMAIN doc
            BY <1>1, <2>4, <3>2
        <3> QED
            BY <3>1, <3>3 DEF Where
    <2>7. Marked(D)
        BY <2>5, <2>6 DEF Marked, Bare, Where
    <2> QED
        BY <1>4, <2>4, <2>5, <2>7
<1>8. CASE UNCHANGED vars
    <2>1. TypeOK' /\ doc' = doc /\ edits' = edits
        BY <1>1, <1>8 DEF vars, rvars, TypeOK
    <2> QED
        BY <1>1, <2>1 DEF DocInv, Marked, Bare, Framed, Where
<1> QED
    BY <1>2, <1>3, <1>5, <1>6, <1>7, <1>8 DEF Next

\* A document whose user leaves the markers alone has one pair of them, the begin
\* marker first, or none, whatever else is written, deleted and refreshed.
THEOREM MarkersStayPaired ==
    ASSUME MarkersKept = TRUE, Quoting = {}
    PROVE  Spec => []DocInv
<1>1. DocInv /\ [Next]_vars => DocInv'
    BY DocStep
<1> QED
    BY <1>1, DocInit, PTL DEF Spec

LEMMA RefreshKeeps ==
    ASSUME Quoting = {}, DocInv, Refresh
    PROVE  /\ At(doc', Unmanaged(doc')) = IF doc = <<>> THEN <<Header>> ELSE At(doc, Unmanaged(doc))
           /\ At(doc', Managed(doc')) = <<Begin, Told(ToldGates(rules)), End>>
<1>1. TypeOK /\ doc \in Seq(Item) /\ Marked(doc)
    BY DEF DocInv
<1>2. ToldGates(rules) \in SUBSET Pattern /\ doc' = Splice(doc, <<Begin, Told(ToldGates(rules)), End>>)
    BY <1>1, BlockAlone DEF Refresh
<1> QED
    BY <1>1, <1>2, SpliceKeeps

\* A refresh touches nothing outside the markers, as long as users leave them
\* alone and no rule's body contains one.
THEOREM UserTextKeptAlways ==
    ASSUME MarkersKept = TRUE, Quoting = {}
    PROVE  Spec => UserTextKept
<1>1. DocInv /\ Refresh => At(doc', Unmanaged(doc'))
                             = IF doc = <<>> THEN <<Header>> ELSE At(doc, Unmanaged(doc))
    BY RefreshKeeps
<1> QED
    BY <1>1, MarkersStayPaired, PTL DEF Spec, UserTextKept

\* Under the same conditions a refresh leaves one block, which tells the gates of
\* the moment.
THEOREM BlockIsCurrentAlways ==
    ASSUME MarkersKept = TRUE, Quoting = {}
    PROVE  Spec => BlockIsCurrent
<1>1. DocInv /\ Refresh => At(doc', Managed(doc')) = <<Begin, Told(ToldGates(rules)), End>>
    BY RefreshKeeps
<1> QED
    BY <1>1, MarkersStayPaired, PTL DEF Spec, BlockIsCurrent

\* Seen from the rules, editing and refreshing documents is nothing: the theorems
\* about Rules hold of Contract.
THEOREM ContractImplementsRules == Spec => RSpec
<1>1. Init => RInit
    BY DEF Init
<1>2. [Next]_vars => [RNext]_rvars
    BY DEF Next, Refresh, WriteLine, DeleteLine, DeleteBlock, Edited, vars
<1> QED
    BY <1>1, <1>2, PTL DEF Spec, RSpec
=============================================================================
