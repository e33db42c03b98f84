--------------------------- MODULE Routing_proofs --------------------------
(***************************************************************************)
(* Proofs about Routing and Dispatch, for any vocabularies, tasks,         *)
(* providers, answers, messages and bounds.                                *)
(*                                                                         *)
(* A decision's promises speak of all stores there were while it was made, *)
(* a set that grows under it.  The invariant therefore says, for every     *)
(* read already done, what the value read has to do with the stores since  *)
(* the call: with one of them (it was the store then), and so with all of  *)
(* them where they agree.                                                  *)
(***************************************************************************)
EXTENDS Dispatch, FiniteSetTheorems, TLAPS

LEMMA Ranks ==
    /\ Rank["cheap-fast"] = 0 /\ Rank["default"] = 1
    /\ Rank["deep-reasoning"] = 2 /\ Rank["elevate"] = 3
    /\ \A t \in Tier : Rank[t] \in 0 .. 3 /\ RankOf(t) = Rank[t]
    BY DEF Rank, Tier, RankOf

LEMMA Names == Unset \notin Tier /\ Typo \notin Tier /\ Unset \notin Reply
    BY NothingIsNoName

LEMMA SettingsAreTiers == \A x \in Setting : x \in Tier \/ x = Unset \/ x = Typo
    BY DEF Setting

-----------------------------------------------------------------------------
(* The operators of the ladder. *)

\* An override is one of the tiers mentioned.
LEMMA MentionedIsMentioned ==
    ASSUME NEW task \in Task, task.at # {}
    PROVE  Mentioned(task) \in task.at /\ Mentioned(task) \in Tier
<1>1. task.at \subseteq Tier
    BY TasksHaveWords
<1>2. \E t \in task.at : \A u \in task.at : Rank[t] <= Rank[u]
    <2>1. CASE "cheap-fast" \in task.at
        BY <1>1, <2>1, Ranks
    <2>2. CASE "cheap-fast" \notin task.at /\ "default" \in task.at
        BY <1>1, <2>2, Ranks DEF Tier
    <2>3. CASE task.at \cap {"cheap-fast", "default"} = {} /\ "deep-reasoning" \in task.at
        BY <1>1, <2>3, Ranks DEF Tier
    <2>4. CASE task.at \cap {"cheap-fast", "default", "deep-reasoning"} = {}
        BY <1>1, <2>4, Ranks DEF Tier
    <2> QED
        BY <2>1, <2>2, <2>3, <2>4
<1> QED
    BY <1>1, <1>2 DEF Mentioned

\* An escalation ends at a tier below the top one.
LEMMA EscalateIsTier ==
    ASSUME NEW c \in Tier
    PROVE  Escalate(c) \in Tier
<1>1. RankOf(c) \in 0 .. 3
    BY Ranks
<1>2. Len(TierByRank) = 3 /\ \A i \in 1 .. 3 : TierByRank[i] \in Tier
    BY DEF TierByRank, Tier
<1> QED
    BY <1>1, <1>2 DEF Escalate

\* A reply is read as a tier or as none.
LEMMA ParseIsTier ==
    ASSUME NEW r \in Reply
    PROVE  Parse(r).tier \in Tier \cup {Unset} /\ Parse(r).confident \in BOOLEAN
    BY RepliesSpeak DEF Parse, Tier

\* What a step of the ladder keeps of the call it continues.
SameRequest(k, r) == r.task = k.task /\ r.triage = k.triage

LEMMA ResolvedFreely ==
    ASSUME NEW k \in Call, NEW class \in Tier, NEW source \in Source
    PROVE  LET r == Resolved(k, class, source, FALSE) IN
           /\ r \in Call /\ r.pc = "cmd" /\ r.source = source /\ SameRequest(k, r)
           /\ r.floor = k.floor /\ r.hits = k.hits /\ r.class = class
<1>1. Resolved(k, class, source, FALSE) = [k EXCEPT !.pc = "cmd", !.source = source, !.class = class]
    BY DEF Resolved
<1> QED
    BY <1>1 DEF Call, Pc, SameRequest

LEMMA ResolvedToFloor ==
    ASSUME NEW k \in Call, NEW class \in Tier, NEW source \in Source
    PROVE  LET r == Resolved(k, class, source, TRUE) IN
           /\ r \in Call /\ r.pc = "cmd" /\ r.source = source /\ SameRequest(k, r)
           /\ r.floor = k.floor /\ r.hits = k.hits
           /\ r.class \in Tier /\ (r.floor \in Tier => Rank[r.class] >= Rank[r.floor])
<1> DEFINE c == IF k.floor \in Tier /\ RankOf(class) < RankOf(k.floor) THEN k.floor ELSE class
<1>1. c \in Tier /\ (k.floor \in Tier => Rank[c] >= Rank[k.floor])
    BY Ranks
<1>2. Resolved(k, class, source, TRUE) = [k EXCEPT !.pc = "cmd", !.source = source, !.class = c]
    BY DEF Resolved
<1> HIDE DEF c
<1> QED
    BY <1>1, <1>2 DEF Call, Pc, SameRequest

\* ReadRisk: a floor that is never lowered, and deep reasoning for a risky task.
LEMMA ReadRiskCall ==
    ASSUME NEW k \in Call, NEW s \in Store, k.pc = "risk"
    PROVE  LET r == ReadRisk(k, s) IN
           /\ r \in Call /\ SameRequest(k, r) /\ r.hits = k.hits
           /\ \A t \in Tier : k.floor \in Tier /\ Rank[k.floor] >= Rank[t] =>
                 r.floor \in Tier /\ Rank[r.floor] >= Rank[t]
           /\ Hits(s, k.task, "risk") => r.floor \in Tier /\ Rank[r.floor] >= 2
           /\ IF k.task.at = {} THEN r.pc = "pin" /\ r.source = k.source
              ELSE r.pc = "cmd" /\ r.source = "override" /\ r.class = Mentioned(k.task)
<1> DEFINE risky == Hits(s, k.task, "risk") /\ RankOf("deep-reasoning") > RankOf(k.floor)
           f     == IF risky THEN "deep-reasoning" ELSE k.floor
           next  == [k EXCEPT !.pc = "pin", !.floor = f]
<1>1. k.floor \in Setting /\ k.task \in Task
    BY DEF Call
<1>2. "deep-reasoning" \in Tier /\ RankOf("deep-reasoning") = 2
    BY Ranks DEF Tier
<1>3. f \in Setting
    BY <1>1, <1>2 DEF Setting
<1>4. \A t \in Tier : k.floor \in Tier /\ Rank[k.floor] >= Rank[t] => f \in Tier /\ Rank[f] >= Rank[t]
    BY <1>2, Ranks
<1>5. Hits(s, k.task, "risk") => f \in Tier /\ Rank[f] >= 2
    <2> SUFFICES ASSUME Hits(s, k.task, "risk"), ~risky PROVE k.floor \in Tier /\ Rank[k.floor] >= 2
        BY <1>2, Ranks
    <2>1. ~(2 > RankOf(k.floor))
        BY <1>2
    <2> QED
        BY <2>1, Ranks DEF RankOf
<1> HIDE DEF f
<1>6. next \in Call /\ next.pc = "pin" /\ next.floor = f /\ next.source = k.source
        /\ next.hits = k.hits /\ next.task = k.task /\ next.triage = k.triage
    BY <1>3 DEF Call, Pc
<1> HIDE DEF next
<1>7. ReadRisk(k, s) = IF k.task.at = {} THEN next ELSE Resolved(next, Mentioned(k.task), "override", FALSE)
    BY DEF ReadRisk, next, f
<1>8. CASE k.task.at = {}
    BY <1>4, <1>5, <1>6, <1>7, <1>8 DEF SameRequest
<1>9. CASE k.task.at # {}
    <2>1. Mentioned(k.task) \in Tier
        BY <1>1, <1>9, MentionedIsMentioned
    <2>2. ReadRisk(k, s) = Resolved(next, Mentioned(k.task), "override", FALSE)
        BY <1>7, <1>9
    <2>3. "override" \in Source
        BY DEF Source
    <2>4. LET q == Resolved(next, Mentioned(k.task), "override", FALSE) IN
          /\ q \in Call /\ q.pc = "cmd" /\ q.source = "override" /\ SameRequest(next, q)
          /\ q.floor = next.floor /\ q.hits = next.hits /\ q.class = Mentioned(k.task)
        BY <1>6, <2>1, <2>3, ResolvedFreely, Zenon
    <2> DEFINE r == ReadRisk(k, s)
    <2>5. /\ r \in Call /\ r.pc = "cmd" /\ r.source = "override" /\ r.class = Mentioned(k.task)
          /\ SameRequest(k, r) /\ r.hits = k.hits /\ r.floor = f
        BY <1>6, <2>2, <2>4 DEF SameRequest
    <2> HIDE DEF r
    <2>6. /\ \A t \in Tier : k.floor \in Tier /\ Rank[k.floor] >= Rank[t] =>
                 r.floor \in Tier /\ Rank[r.floor] >= Rank[t]
          /\ Hits(s, k.task, "risk") => r.floor \in Tier /\ Rank[r.floor] >= 2
        BY <1>4, <1>5, <2>5
    <2> QED
        BY <1>9, <2>5, <2>6 DEF r
<1> QED
    BY <1>8, <1>9
-----------------------------------------------------------------------------
(* The invariant.  P is the set of stores there were during the call k. *)

Asking   == {"active", "spec", "reply"}
OnLadder == {"pin"} \cup ByWords \cup Asking
ByModel  == {"triage", "triage-escalated"}

\* What was read of the floors: the setting, then the vocabulary of risk.
FloorRead(k, P) ==
    \A t \in Tier : (\A s \in P : s.floor = t) => k.floor \in Tier /\ Rank[k.floor] >= Rank[t]
RiskRead(k, P) ==
    (\A s \in P : Hits(s, k.task, "risk")) => k.floor \in Tier /\ Rank[k.floor] >= 2

Unpinned(P) == \E s \in P : s.pin \notin Tier

\* The classes whose vocabulary was read, on the way that passes them all.
Passed(k) ==
    IF k.pc = "cheap-fast" THEN {"deep-reasoning"}
    ELSE IF k.pc = "default" THEN {"deep-reasoning", "cheap-fast"}
    ELSE IF k.pc \in Asking \/ k.source \in ByModel THEN ByWords ELSE {}
WordsRead(k, P) ==
    \A c \in Passed(k) : c \in k.hits \/ \E s \in P : ~Hits(s, k.task, c)

\* Each way to decide has its reason.
Settled(k, P) ==
    /\ k.class \in Tier /\ k.source \in Source
    /\ IF k.source = "override" THEN k.task.at # {} /\ k.class = Mentioned(k.task)
       ELSE IF k.source = "pin" THEN k.task.at = {} /\ \E s \in P : s.pin = k.class
       ELSE k.task.at = {} /\ (k.floor \in Tier => Rank[k.class] >= Rank[k.floor])

CallInv(k, P) ==
    /\ k.pc # "floor" => FloorRead(k, P)
    /\ k.pc \notin {"floor", "risk"} => RiskRead(k, P)
    /\ k.pc \in OnLadder => k.task.at = {}
    /\ k.pc \notin {"cmd", "done"} => k.source = Unset
    /\ k.pc \in OnLadder \ {"pin"} \/ k.source \in {"keyword", "default"} \cup ByModel => Unpinned(P)
    /\ WordsRead(k, P)
    /\ k.pc \in Asking \/ k.source \in ByModel => k.triage /\ k.hits = {} /\ k.task.at = {}
    /\ k.pc \in {"cmd", "done"} => Settled(k, P)

\* A call's facts survive a store that changes under it.
LEMMA CallInvGrows ==
    ASSUME NEW k \in Call, NEW P, NEW Q, P \subseteq Q, CallInv(k, P)
    PROVE  CallInv(k, Q)
<1>1. (FloorRead(k, P) => FloorRead(k, Q)) /\ (RiskRead(k, P) => RiskRead(k, Q))
    BY DEF FloorRead, RiskRead
<1>2. (Unpinned(P) => Unpinned(Q)) /\ (WordsRead(k, P) => WordsRead(k, Q))
    BY DEF Unpinned, WordsRead
<1>3. Settled(k, P) => Settled(k, Q)
    BY DEF Settled
<1> QED
    BY <1>1, <1>2, <1>3 DEF CallInv

\* The floors read depend on the floor and the task only.
LEMMA SameFloors ==
    ASSUME NEW k, NEW r, NEW P, r.floor = k.floor, r.task = k.task
    PROVE  (FloorRead(k, P) => FloorRead(r, P)) /\ (RiskRead(k, P) => RiskRead(r, P))
    BY DEF FloorRead, RiskRead

LEMMA SourcesDiffer ==
    /\ Unset \notin Source
    /\ ByModel \subseteq Source /\ {"override", "pin", "keyword", "default"} \subseteq Source
    BY NothingIsNoName DEF Source, ByModel

\* A decision below the pin is at its floor.
LEMMA SettlesAtFloor ==
    ASSUME NEW k \in Call, NEW class \in Tier, NEW source \in {"keyword", "default"} \cup ByModel, NEW P,
           k.task.at = {}, FloorRead(k, P), RiskRead(k, P), Unpinned(P),
           source \in ByModel =>
               k.triage /\ k.hits = {} /\ \A c \in ByWords : \E s \in P : ~Hits(s, k.task, c)
    PROVE  Resolved(k, class, source, TRUE) \in Call /\ CallInv(Resolved(k, class, source, TRUE), P)
<1> DEFINE r == Resolved(k, class, source, TRUE)
<1>1. source \in Source /\ source \notin {"override", "pin"}
    BY SourcesDiffer DEF ByModel
<1>2. /\ r \in Call /\ r.pc = "cmd" /\ r.source = source /\ SameRequest(k, r)
      /\ r.floor = k.floor /\ r.hits = k.hits
      /\ r.class \in Tier /\ (r.floor \in Tier => Rank[r.class] >= Rank[r.floor])
    BY <1>1, ResolvedToFloor
<1> HIDE DEF r
<1>3. FloorRead(r, P) /\ RiskRead(r, P)
    BY <1>2, SameFloors DEF SameRequest
<1>4. Settled(r, P)
    BY <1>1, <1>2 DEF Settled, SameRequest
<1>5. WordsRead(r, P)
    BY <1>2 DEF WordsRead, Passed, SameRequest, Asking
<1>6. r.pc \notin OnLadder /\ r.pc \notin Asking /\ r.pc \in {"cmd", "done"}
    BY <1>2 DEF OnLadder, Asking, ByWords
<1>7. r.source \in ByModel => r.triage /\ r.hits = {} /\ r.task.at = {}
    BY <1>2 DEF SameRequest
<1>8. CallInv(r, P)
    BY <1>3, <1>4, <1>5, <1>6, <1>7 DEF CallInv
<1> QED
    BY <1>2, <1>8 DEF r

LEMMA FloorStep ==
    ASSUME NEW k \in Call, NEW s \in Store, NEW P, s \in P, k.pc = "floor", CallInv(k, P)
    PROVE  ReadFloor(k, s) \in Call /\ CallInv(ReadFloor(k, s), P)
<1> DEFINE r == ReadFloor(k, s)
<1>1. s.floor \in Setting
    BY DEF Store
<1>2. /\ r \in Call /\ r.pc = "risk" /\ r.floor = s.floor /\ r.source = k.source
      /\ r.task = k.task /\ r.hits = k.hits
    BY <1>1 DEF ReadFloor, Call, Pc
<1> HIDE DEF r
<1>3. k.source = Unset /\ Unset \notin Source
    BY SourcesDiffer DEF CallInv
<1>4. FloorRead(r, P)
    BY <1>2, Ranks DEF FloorRead
<1>5. WordsRead(r, P)
    BY <1>2, <1>3, SourcesDiffer DEF WordsRead, Passed, Asking
<1>6. CallInv(r, P)
    BY <1>2, <1>3, <1>4, <1>5, SourcesDiffer DEF CallInv, OnLadder, Asking, ByWords
<1> QED
    BY <1>2, <1>6 DEF r

LEMMA RiskStep ==
    ASSUME NEW k \in Call, NEW s \in Store, NEW P, s \in P, k.pc = "risk", CallInv(k, P)
    PROVE  ReadRisk(k, s) \in Call /\ CallInv(ReadRisk(k, s), P)
<1> DEFINE r == ReadRisk(k, s)
<1>1. /\ r \in Call /\ SameRequest(k, r) /\ r.hits = k.hits
      /\ \A t \in Tier : k.floor \in Tier /\ Rank[k.floor] >= Rank[t] =>
            r.floor \in Tier /\ Rank[r.floor] >= Rank[t]
      /\ Hits(s, k.task, "risk") => r.floor \in Tier /\ Rank[r.floor] >= 2
      /\ IF k.task.at = {} THEN r.pc = "pin" /\ r.source = k.source
         ELSE r.pc = "cmd" /\ r.source = "override" /\ r.class = Mentioned(k.task)
    BY ReadRiskCall
<1> HIDE DEF r
<1>2. k.source = Unset /\ FloorRead(k, P) /\ k.task \in Task
    BY DEF CallInv, Call
<1>3. FloorRead(r, P) /\ RiskRead(r, P)
    BY <1>1, <1>2 DEF FloorRead, RiskRead, SameRequest
<1>4. CASE k.task.at = {}
    <2>1. r.pc = "pin" /\ r.source = Unset /\ r.task.at = {}
        BY <1>1, <1>2, <1>4 DEF SameRequest
    <2>2. WordsRead(r, P)
        BY <2>1, SourcesDiffer DEF WordsRead, Passed, Asking
    <2>3. CallInv(r, P)
        BY <1>3, <2>1, <2>2, SourcesDiffer DEF CallInv, OnLadder, Asking, ByWords
    <2> QED
        BY <1>1, <2>3 DEF r
<1>5. CASE k.task.at # {}
    <2>1. r.pc = "cmd" /\ r.source = "override" /\ r.task = k.task /\ r.class = Mentioned(r.task)
        BY <1>1, <1>5 DEF SameRequest
    <2>2. Settled(r, P)
        BY <1>2, <1>5, <2>1, MentionedIsMentioned, SourcesDiffer DEF Settled
    <2>3. WordsRead(r, P)
        BY <2>1 DEF WordsRead, Passed, Asking, ByModel
    <2>4. CallInv(r, P)
        BY <1>3, <2>1, <2>2, <2>3 DEF CallInv, OnLadder, Asking, ByWords, ByModel
    <2> QED
        BY <1>1, <2>4 DEF r
<1> QED
    BY <1>4, <1>5

LEMMA PinStep ==
    ASSUME NEW k \in Call, NEW s \in Store, NEW P, s \in P, k.pc = "pin", CallInv(k, P)
    PROVE  ReadPin(k, s) \in Call /\ CallInv(ReadPin(k, s), P)
<1> DEFINE r == ReadPin(k, s)
<1>1. /\ k.source = Unset /\ k.task.at = {} /\ FloorRead(k, P) /\ RiskRead(k, P)
      /\ "pin" \in OnLadder
    BY DEF CallInv, OnLadder
<1>2. CASE s.pin \in Tier
    <2>1. r = Resolved(k, s.pin, "pin", FALSE) /\ "pin" \in Source
        BY <1>2, SourcesDiffer DEF ReadPin
    <2>7. LET q == Resolved(k, s.pin, "pin", FALSE) IN
          /\ q \in Call /\ q.pc = "cmd" /\ q.source = "pin" /\ SameRequest(k, q)
          /\ q.floor = k.floor /\ q.hits = k.hits /\ q.class = s.pin
        BY <1>2, <2>1, ResolvedFreely, Zenon
    <2> HIDE DEF r
    <2>2. /\ r \in Call /\ r.pc = "cmd" /\ r.source = "pin" /\ SameRequest(k, r)
          /\ r.floor = k.floor /\ r.hits = k.hits /\ r.class = s.pin
        BY <2>1, <2>7
    <2>3. FloorRead(r, P) /\ RiskRead(r, P)
        BY <1>1, <2>2, SameFloors DEF SameRequest
    <2>4. Settled(r, P)
        BY <1>1, <1>2, <2>1, <2>2 DEF Settled, SameRequest
    <2>5. WordsRead(r, P)
        BY <2>2 DEF WordsRead, Passed, Asking, ByModel
    <2>6. CallInv(r, P)
        BY <2>2, <2>3, <2>4, <2>5 DEF CallInv, OnLadder, Asking, ByWords, ByModel
    <2> QED
        BY <2>2, <2>6 DEF r
<1>3. CASE s.pin \notin Tier
    <2>1. /\ r \in Call /\ r.pc = "deep-reasoning" /\ r.floor = k.floor /\ r.source = k.source
          /\ r.task = k.task /\ r.hits = k.hits
        BY <1>3 DEF ReadPin, Call, Pc
    <2> HIDE DEF r
    <2>2. FloorRead(r, P) /\ RiskRead(r, P)
        BY <1>1, <2>1, SameFloors
    <2>3. Unpinned(P)
        BY <1>3 DEF Unpinned
    <2>4. WordsRead(r, P)
        BY <1>1, <2>1, SourcesDiffer DEF WordsRead, Passed, Asking
    <2>5. CallInv(r, P)
        BY <1>1, <2>1, <2>2, <2>3, <2>4, SourcesDiffer DEF CallInv, Asking
    <2> QED
        BY <2>1, <2>5 DEF r
<1> QED
    BY <1>2, <1>3

\* The three vocabularies, one after the other, and what follows the last.
LEMMA WordsStep ==
    ASSUME NEW k \in Call, NEW s \in Store, NEW P, s \in P, k.pc \in ByWords, CallInv(k, P)
    PROVE  ReadWords(k, s) \in Call /\ CallInv(ReadWords(k, s), P)
<1> DEFINE hits == IF Hits(s, k.task, k.pc) THEN k.hits \cup {k.pc} ELSE k.hits
           next == [k EXCEPT !.hits = hits]
<1>1. /\ k.source = Unset /\ k.task.at = {} /\ FloorRead(k, P) /\ RiskRead(k, P) /\ Unpinned(P)
      /\ WordsRead(k, P)
    BY DEF CallInv, OnLadder, ByWords
<1>2. /\ hits \subseteq ByWords /\ k.hits \subseteq hits
      /\ k.pc \in hits \/ ~Hits(s, k.task, k.pc)
    BY DEF Call
<1> HIDE DEF hits
<1>3. /\ next \in Call /\ next.pc = k.pc /\ next.hits = hits /\ next.floor = k.floor
      /\ next.task = k.task /\ next.triage = k.triage /\ next.source = k.source
    BY <1>2 DEF Call
<1> HIDE DEF next
<1>4. ReadWords(k, s) = IF k.pc = "deep-reasoning" THEN [next EXCEPT !.pc = "cheap-fast"]
                        ELSE IF k.pc = "cheap-fast" THEN [next EXCEPT !.pc = "default"]
                        ELSE Classified(next)
    BY DEF ReadWords, next, hits
<1>5. FloorRead(next, P) /\ RiskRead(next, P)
    BY <1>1, <1>3, SameFloors
<1>6. \A c \in Passed(k) \cup {k.pc} : c \in hits \/ \E u \in P : ~Hits(u, k.task, c)
    BY <1>1, <1>2 DEF WordsRead
<1>7. CASE k.pc \in {"deep-reasoning", "cheap-fast"}
    <2> DEFINE r == ReadWords(k, s)
    <2>1. /\ r \in Call /\ r.pc = (IF k.pc = "deep-reasoning" THEN "cheap-fast" ELSE "default")
          /\ r.hits = hits /\ r.floor = k.floor /\ r.task = k.task /\ r.source = Unset
        BY <1>1, <1>3, <1>4, <1>7 DEF Call, Pc
    <2> HIDE DEF r
    <2>2. FloorRead(r, P) /\ RiskRead(r, P)
        BY <1>1, <2>1, SameFloors
    <2>3. Passed(r) \subseteq Passed(k) \cup {k.pc}
        BY <1>7, <2>1 DEF Passed
    <2>4. WordsRead(r, P)
        BY <1>6, <2>1, <2>3 DEF WordsRead
    <2>5. r.pc \notin {"cmd", "done"} \cup Asking /\ r.source \notin ByModel
        BY <2>1, SourcesDiffer DEF Asking
    <2>6. CallInv(r, P)
        BY <1>1, <2>1, <2>2, <2>4, <2>5 DEF CallInv
    <2> QED
        BY <2>1, <2>6 DEF r
<1>8. CASE k.pc = "default"
    <2>1. ReadWords(k, s) = Classified(next) /\ next.task.at = {}
        BY <1>1, <1>3, <1>4, <1>8
    <2>2. \A c \in ByWords : c \in hits \/ \E u \in P : ~Hits(u, k.task, c)
        BY <1>6, <1>8 DEF Passed, ByWords
    <2>3. {"keyword", "default"} \cap ByModel = {} /\ {"deep-reasoning", "cheap-fast", "default"} \subseteq Tier
        BY DEF ByModel, Tier
    <2>4. \A c \in {"deep-reasoning", "cheap-fast", "default"}, source \in {"keyword", "default"} :
             /\ Resolved(next, c, source, TRUE) \in Call
             /\ CallInv(Resolved(next, c, source, TRUE), P)
        BY <1>1, <1>3, <1>5, <2>1, <2>3, SettlesAtFloor
    <2>5. CASE hits = {} /\ k.triage
        <3> DEFINE r == [next EXCEPT !.pc = "active"]
        <3>1. Classified(next) = r
            BY <1>3, <2>5 DEF Classified
        <3>2. /\ r \in Call /\ r.pc = "active" /\ r.hits = {} /\ r.floor = k.floor /\ r.task = k.task
              /\ r.source = Unset /\ r.triage
            BY <1>1, <1>3, <2>5 DEF Call, Pc
        <3> HIDE DEF r
        <3>3. FloorRead(r, P) /\ RiskRead(r, P)
            BY <1>1, <3>2, SameFloors
        <3>4. WordsRead(r, P)
            BY <2>2, <2>5, <3>2 DEF WordsRead, Passed, Asking
        <3>5. CallInv(r, P)
            BY <1>1, <3>2, <3>3, <3>4 DEF CallInv
        <3> QED
            BY <2>1, <3>1, <3>2, <3>5
    <2>6. CASE ~(hits = {} /\ k.triage)
        <3>1. \E c \in {"deep-reasoning", "cheap-fast", "default"}, source \in {"keyword", "default"} :
                 Classified(next) = Resolved(next, c, source, TRUE)
            BY <1>2, <1>3, <2>6 DEF Classified, ByWords
        <3> QED
            BY <2>1, <2>4, <3>1
    <2> QED
        BY <2>5, <2>6
<1> QED
    BY <1>7, <1>8 DEF ByWords

\* Finding the provider changes nothing the decision rests on.
LEMMA ProviderSteps ==
    ASSUME NEW k \in Call, NEW s \in Store, NEW P, CallInv(k, P), NEW r,
           \/ k.pc = "active" /\ r = ReadActive(k, s)
           \/ k.pc = "spec" /\ r = ReadSpec(k, s)
    PROVE  r \in Call /\ CallInv(r, P)
<1>1. k.pc \in Asking /\ k.source = Unset
    BY DEF CallInv, Asking
<1>2. s.active \in Provider \cup {Unset} /\ k.provider \in Provider \cup {Unset} /\ Shipped \in Provider
    BY ShippedIsProvider DEF Store, Call
<1>3. /\ r \in Call /\ r.pc \in {"spec", "reply"} /\ r.hits = k.hits /\ r.floor = k.floor
      /\ r.task = k.task /\ r.source = k.source /\ r.triage = k.triage
    <2>1. CASE k.pc = "active" /\ r = ReadActive(k, s)
        BY <1>2, <2>1 DEF ReadActive, Call, Pc
    <2>2. CASE k.pc = "spec" /\ r = ReadSpec(k, s)
        <3> DEFINE p == IF k.provider \in s.spec THEN k.provider ELSE Shipped
                   d == k.provider \in s.spec
        <3>1. p \in Provider \cup {Unset} /\ d \in BOOLEAN
            BY <1>2
        <3>2. r = [[[k EXCEPT !.pc = "reply"] EXCEPT !.declared = d] EXCEPT !.provider = p]
            BY <2>2 DEF ReadSpec
        <3> HIDE DEF p, d
        <3> QED
            BY <3>1, <3>2 DEF Call, Pc
    <2> QED
        BY <2>1, <2>2
<1>4. r.pc \in Asking /\ r.pc \in OnLadder \ {"pin"} /\ k.pc \in OnLadder \ {"pin"}
    BY <1>1, <1>3 DEF Asking, OnLadder
<1>5. (FloorRead(k, P) => FloorRead(r, P)) /\ (RiskRead(k, P) => RiskRead(r, P))
    BY <1>3, SameFloors
<1>6. Passed(r) = Passed(k)
    BY <1>1, <1>3 DEF Passed, Asking
<1>7. WordsRead(k, P) => WordsRead(r, P)
    BY <1>3, <1>6 DEF WordsRead
<1> QED
    BY <1>1, <1>3, <1>4, <1>5, <1>7 DEF CallInv, Asking

LEMMA AnswerStep ==
    ASSUME NEW k \in Call, NEW answer \in Reply, NEW P, k.pc = "reply", CallInv(k, P)
    PROVE  Answered(k, answer) \in Call /\ CallInv(Answered(k, answer), P)
<1> DEFINE next == [k EXCEPT !.reply = answer]
           said == Parse(answer)
<1>1. /\ next \in Call /\ next.floor = k.floor /\ next.task = k.task
      /\ next.triage = k.triage /\ next.hits = k.hits
    BY DEF Call
<1>2. said.tier \in Tier \cup {Unset}
    BY ParseIsTier
<1>3. Answered(k, answer) =
        IF said.tier \notin Tier THEN Resolved(next, "default", "default", TRUE)
        ELSE IF said.confident THEN Resolved(next, said.tier, "triage", TRUE)
        ELSE Resolved(next, Escalate(said.tier), "triage-escalated", TRUE)
    BY DEF Answered
<1> HIDE DEF next, said
<1>4. "reply" \in Asking /\ "reply" \in OnLadder \ {"pin"} /\ "reply" \notin {"cheap-fast", "default"}
    BY DEF Asking, OnLadder
<1>5. /\ k.task.at = {} /\ k.triage /\ k.hits = {}
      /\ FloorRead(k, P) /\ RiskRead(k, P) /\ Unpinned(P) /\ WordsRead(k, P)
    BY <1>4 DEF CallInv
<1>6. \A c \in ByWords : \E s \in P : ~Hits(s, k.task, c)
    BY <1>4, <1>5 DEF WordsRead, Passed
<1>7. FloorRead(next, P) /\ RiskRead(next, P)
    BY <1>1, <1>5, SameFloors
<1>8. \A c \in Tier, source \in {"keyword", "default"} \cup ByModel :
         /\ Resolved(next, c, source, TRUE) \in Call
         /\ CallInv(Resolved(next, c, source, TRUE), P)
    BY <1>1, <1>5, <1>6, <1>7, SettlesAtFloor
<1>9. \E c \in Tier, source \in {"keyword", "default"} \cup ByModel :
         Answered(k, answer) = Resolved(next, c, source, TRUE)
    <2>1. CASE said.tier \notin Tier
        BY <1>3, <2>1 DEF Tier
    <2>2. CASE said.tier \in Tier /\ said.confident
        BY <1>3, <2>2 DEF ByModel
    <2>3. CASE said.tier \in Tier /\ ~said.confident
        BY <1>3, <2>3, EscalateIsTier DEF ByModel
    <2> QED
        BY <2>1, <2>2, <2>3
<1> QED
    BY <1>8, <1>9

LEMMA CmdStep ==
    ASSUME NEW k \in Call, NEW s \in Store, NEW P, k.pc = "cmd", CallInv(k, P)
    PROVE  ReadCmd(k, s) \in Call /\ CallInv(ReadCmd(k, s), P)
<1> DEFINE r == ReadCmd(k, s)
<1>1. Settled(k, P) /\ k.class \in Tier /\ FloorRead(k, P) /\ RiskRead(k, P)
    BY DEF CallInv, Settled
<1>2. s.cmd[k.class] \in Command
    BY <1>1 DEF Store
<1>3. /\ r \in Call /\ r.pc = "done" /\ r.floor = k.floor /\ r.class = k.class /\ r.hits = k.hits
      /\ r.task = k.task /\ r.source = k.source /\ r.triage = k.triage
    BY <1>2 DEF ReadCmd, Call, Pc
<1> HIDE DEF r
<1>4. FloorRead(r, P) /\ RiskRead(r, P) /\ Settled(r, P)
    BY <1>1, <1>3, SameFloors DEF Settled
<1>5. Passed(r) = Passed(k)
    BY <1>3 DEF Passed, Asking
<1>6. WordsRead(r, P)
    BY <1>3, <1>5 DEF CallInv, WordsRead
<1>7. CallInv(r, P)
    BY <1>3, <1>4, <1>6 DEF CallInv, OnLadder, Asking, ByWords
<1> QED
    BY <1>3, <1>7 DEF r

-----------------------------------------------------------------------------
(* Every write leaves a store. *)

LEMMA EditsAreStores ==
    ASSUME NEW s \in Store, NEW e \in Edits(s)
    PROVE  e \in Store
<1>1. CASE e \in {[s EXCEPT !.floor = x] : x \in Setting} \cup {[s EXCEPT !.pin = x] : x \in Setting}
    BY <1>1 DEF Store
<1>2. CASE e \in {[s EXCEPT !.words[c] = w] : c \in WordClass, w \in Vocabulary}
    <2>1. PICK c \in WordClass, w \in Vocabulary : e = [s EXCEPT !.words[c] = w]
        BY <1>2
    <2>2. [s.words EXCEPT ![c] = w] \in [WordClass -> SUBSET Word]
        BY VocabularyIsWords DEF Store
    <2>3. e = [s EXCEPT !.words = [s.words EXCEPT ![c] = w]]
        BY <2>1
    <2> QED
        BY <2>2, <2>3 DEF Store
<1>3. CASE e \in {[s EXCEPT !.cmd[t] = x] : t \in Tier, x \in {"own", Unset}}
    <2>1. PICK t \in Tier, x \in {"own", Unset} : e = [s EXCEPT !.cmd[t] = x]
        BY <1>3
    <2>2. [s.cmd EXCEPT ![t] = x] \in [Tier -> Command]
        BY DEF Store, Command
    <2>3. e = [s EXCEPT !.cmd = [s.cmd EXCEPT ![t] = x]]
        BY <2>1
    <2> QED
        BY <2>2, <2>3 DEF Store
<1>4. CASE \/ e \in {[s EXCEPT !.active = p] : p \in Provider \cup {Unset}}
           \/ e \in {[s EXCEPT !.spec = @ \cup {p}] : p \in Provider}
           \/ e \in {[s EXCEPT !.spec = @ \ {p}] : p \in Provider}
    BY <1>4 DEF Store
<1> QED
    BY <1>1, <1>2, <1>3, <1>4 DEF Edits

LEMMA SeededIsStore ==
    ASSUME NEW s \in Store, NEW i \in 1 .. 10
    PROVE  Seeded(i, s) \in Store
<1>1. CASE i \in 1 .. 4
    <2> DEFINE t == (Append(TierByRank, "elevate"))[i]
    <2>1. t \in Tier
        BY <1>1 DEF TierByRank, Tier
    <2>4. i <= 4
        BY <1>1
    <2>2. Seeded(i, s) = [s EXCEPT !.cmd = [s.cmd EXCEPT ![t] = "shipped"]]
        BY <2>4, Zenon DEF Seeded
    <2> HIDE DEF t
    <2>3. [s.cmd EXCEPT ![t] = "shipped"] \in [Tier -> Command]
        BY <2>1 DEF Store, Command
    <2> QED
        BY <2>2, <2>3 DEF Store
<1>2. CASE i \in {5, 6}
    BY <1>2, ShippedIsProvider DEF Seeded, Store
<1>3. CASE i \in 7 .. 10
    <2> DEFINE c == <<"deep-reasoning", "cheap-fast", "default", "risk">>[i - 6]
    <2>1. c \in WordClass
        BY <1>3 DEF WordClass, ByWords
    <2>2. Seeded(i, s) = [s EXCEPT !.words = [s.words EXCEPT ![c] = BuiltIn[c]]]
        BY <1>3 DEF Seeded
    <2> HIDE DEF c
    <2>3. [s.words EXCEPT ![c] = BuiltIn[c]] \in [WordClass -> SUBSET Word]
        BY <2>1, BuiltInSpeaks DEF Store
    <2> QED
        BY <2>2, <2>3 DEF Store
<1> QED
    BY <1>1, <1>2, <1>3

-----------------------------------------------------------------------------
(* The invariant is inductive. *)

Inv ==
    /\ TypeOK
    /\ Deciding => store \in past
    /\ call # Unset => CallInv(call, past)

LEMMA InitInv == Init => Inv
<1> SUFFICES ASSUME Init PROVE Inv
    OBVIOUS
<1>1. Unseeded \in Store /\ FullySeeded \in Store
    BY BuiltInSpeaks, ShippedIsProvider DEF Unseeded, FullySeeded, Store, Setting, Command
<1>2. TypeOK
    BY <1>1, BoundsAreNat DEF Init, TypeOK
<1> QED
    BY <1>2 DEF Init, Inv, Deciding

\* A changed store joins the stores of the call under way.
LEMMA BecomesKeepsInv ==
    ASSUME Inv, NEW s \in Store, Becomes(s), Changing, UNCHANGED call
    PROVE  /\ store' \in Store /\ past' \in SUBSET Store
           /\ Deciding' => store' \in past'
           /\ call' # Unset => CallInv(call', past')
<1>1. past \subseteq past' /\ past' \in SUBSET Store /\ store' = s
    BY DEF Becomes, Inv, TypeOK
<1>2. Deciding' => s \in past'
    BY DEF Becomes, Deciding
<1>3. call # Unset => call \in Call /\ CallInv(call, past)
    BY DEF Inv, TypeOK
<1>4. call # Unset => CallInv(call, past')
    BY <1>1, <1>3, CallInvGrows
<1> QED
    BY <1>1, <1>2, <1>4

LEMMA WriteKeepsInv == Inv /\ Write => Inv'
<1> SUFFICES ASSUME Inv, Write PROVE Inv'
    OBVIOUS
<1>1. PICK s \in Edits(store) : Becomes(s)
    BY DEF Write
<1>2. s \in Store
    BY <1>1, EditsAreStores DEF Inv, TypeOK
<1>3. /\ store' \in Store /\ past' \in SUBSET Store
      /\ Deciding' => store' \in past'
      /\ call' # Unset => CallInv(call', past')
    BY <1>1, <1>2, BecomesKeepsInv DEF Write
<1>4. TypeOK'
    BY <1>3, BoundsAreNat DEF Write, Bounded, Inv, TypeOK
<1> QED
    BY <1>3, <1>4 DEF Inv

LEMMA SeedKeepsInv == Inv /\ Seed => Inv'
<1> SUFFICES ASSUME Inv, Seed PROVE Inv'
    OBVIOUS
<1>1. seeding \in 1 .. 10 /\ seeding' \in 0 .. 10
    BY DEF Seed, Inv, TypeOK
<1>2. CASE Becomes(Seeded(seeding, store)) /\ UNCHANGED fails
    <2>1. Seeded(seeding, store) \in Store
        BY <1>1, SeededIsStore DEF Inv, TypeOK
    <2>2. /\ store' \in Store /\ past' \in SUBSET Store
          /\ Deciding' => store' \in past'
          /\ call' # Unset => CallInv(call', past')
        BY <1>2, <2>1, BecomesKeepsInv DEF Seed
    <2>3. TypeOK'
        BY <1>1, <1>2, <2>2 DEF Seed, Inv, TypeOK
    <2> QED
        BY <2>2, <2>3 DEF Inv
<1>3. CASE Bounded /\ fails' = fails + 1 /\ UNCHANGED <<store, past>>
    <2>1. TypeOK'
        BY <1>1, <1>3, BoundsAreNat DEF Seed, Bounded, Inv, TypeOK
    <2> QED
        BY <1>3, <2>1 DEF Seed, Inv, Deciding
<1> QED
    BY <1>2, <1>3 DEF Seed

LEMMA StartSeedingKeepsInv == Inv /\ StartSeeding => Inv'
<1> SUFFICES ASSUME Inv, StartSeeding PROVE Inv'
    OBVIOUS
<1>1. TypeOK'
    BY BoundsAreNat DEF StartSeeding, Bounded, Inv, TypeOK
<1> QED
    BY <1>1 DEF StartSeeding, Inv, Deciding

LEMMA AskKeepsInv ==
    ASSUME Inv, NEW task \in Task, NEW triage \in BOOLEAN, Ask(task, triage)
    PROVE  Inv'
<1>1. /\ call' \in Call /\ call'.pc = "floor" /\ call'.source = Unset
    BY DEF Ask, Call, Pc, Setting, Command
<1>2. past' = {store} /\ store' = store /\ store \in Store
    BY DEF Ask, Inv, TypeOK
<1>3. TypeOK'
    BY <1>1, <1>2 DEF Ask, Inv, TypeOK
<1>4. WordsRead(call', past')
    BY <1>1, SourcesDiffer DEF WordsRead, Passed, Asking
<1>5. CallInv(call', past')
    BY <1>1, <1>4, SourcesDiffer DEF CallInv, OnLadder, Asking, ByWords
<1> QED
    BY <1>2, <1>3, <1>5 DEF Inv, Deciding

\* A step of the call under way, whatever it read.
LEMMA GoesKeepsInv ==
    ASSUME Inv, Deciding, NEW k, k \in Call /\ CallInv(k, past), Goes(k)
    PROVE  Inv'
<1>1. TypeOK'
    BY DEF Goes, Inv, TypeOK
<1> QED
    BY <1>1 DEF Goes, Inv, Deciding

LEMMA ReadKeepsInv == Inv /\ Read => Inv'
<1> SUFFICES ASSUME Inv, Read PROVE Inv'
    OBVIOUS
<1>1. /\ Deciding /\ call \in Call /\ CallInv(call, past)
      /\ store \in Store /\ store \in past
    BY DEF Read, Inv, TypeOK, Deciding
<1>2. CASE call.pc = "floor" /\ Goes(ReadFloor(call, store))
    BY <1>1, <1>2, FloorStep, GoesKeepsInv
<1>3. CASE call.pc = "risk" /\ Goes(ReadRisk(call, store))
    BY <1>1, <1>3, RiskStep, GoesKeepsInv
<1>4. CASE call.pc = "pin" /\ Goes(ReadPin(call, store))
    BY <1>1, <1>4, PinStep, GoesKeepsInv
<1>5. CASE call.pc \in ByWords /\ Goes(ReadWords(call, store))
    BY <1>1, <1>5, WordsStep, GoesKeepsInv
<1>6. CASE call.pc = "active" /\ Goes(ReadActive(call, store))
    BY <1>1, <1>6, ProviderSteps, GoesKeepsInv
<1>7. CASE call.pc = "spec" /\ Goes(ReadSpec(call, store))
    BY <1>1, <1>7, ProviderSteps, GoesKeepsInv
<1>8. CASE call.pc = "cmd" /\ Goes(ReadCmd(call, store))
    BY <1>1, <1>8, CmdStep, GoesKeepsInv
<1> QED
    BY <1>2, <1>3, <1>4, <1>5, <1>6, <1>7, <1>8 DEF Read

LEMMA AnswerKeepsInv == Inv /\ Answer => Inv'
<1> SUFFICES ASSUME Inv, Answer PROVE Inv'
    OBVIOUS
<1>1. Deciding /\ call \in Call /\ CallInv(call, past) /\ call.pc = "reply"
    BY DEF Answer, Inv, TypeOK, Deciding
<1>2. PICK r \in Reply : Goes(Answered(call, r))
    BY DEF Answer
<1> QED
    BY <1>1, <1>2, AnswerStep, GoesKeepsInv

LEMMA StepInv == Inv /\ [Next]_vars => Inv'
<1> SUFFICES ASSUME Inv, [Next]_vars PROVE Inv'
    OBVIOUS
<1>1. CASE \E task \in Task, triage \in BOOLEAN : Ask(task, triage)
    BY <1>1, AskKeepsInv
<1>2. CASE UNCHANGED vars
    BY <1>2 DEF vars, Inv, TypeOK, Deciding
<1> QED
    BY <1>1, <1>2, WriteKeepsInv, StartSeedingKeepsInv, SeedKeepsInv, ReadKeepsInv, AnswerKeepsInv DEF Next

THEOREM Invariant == Spec => []Inv
    BY InitInv, StepInv, PTL DEF Spec

-----------------------------------------------------------------------------
(* What follows from it. *)

\* Settings, decisions and the counters keep their ranges (the records the
\* decider builds, step by step, are decisions).
THEOREM TypeCorrect == Spec => []TypeOK
<1>1. Inv => TypeOK
    BY DEF Inv
<1> QED
    BY <1>1, Invariant, PTL

\* A setting that stands throughout a decision is honoured by it, whatever else
\* changes meanwhile (RouteDecide over a store that others write).
THEOREM StandingSettingsHoldAlways == Spec => []StandingSettingsHold
<1>1. Inv => StandingSettingsHold
    <2> SUFFICES ASSUME Inv, Made PROVE StandingSettingsHold
        BY DEF StandingSettingsHold
    <2>1. call \in Call /\ CallInv(call, past) /\ call.pc = "done"
        BY DEF Made, Inv, TypeOK
    <2>2. /\ Settled(call, past) /\ FloorRead(call, past) /\ RiskRead(call, past)
          /\ call.class \in Tier /\ call.source \in Source
        BY <2>1 DEF CallInv, Settled
    <2>3. CASE call.source = "override"
        BY <2>2, <2>3 DEF Settled, StandingSettingsHold
    <2>4. CASE call.source = "pin"
        BY <2>2, <2>4 DEF Settled, StandingSettingsHold
    <2>5. CASE call.source \notin {"override", "pin"}
        <3>1. call.source \in {"keyword", "default"} \cup ByModel
            BY <2>2, <2>5 DEF Source, ByModel
        <3>2. Unpinned(past) /\ call.task.at = {}
            BY <2>1, <2>2, <2>5, <3>1 DEF CallInv, Settled
        <3>3. \A t \in Tier : ~(\A s \in past : s.pin = t)
            BY <3>2 DEF Unpinned
        <3>4. call.floor \in Tier => Rank[call.class] >= Rank[call.floor]
            BY <2>2, <2>5 DEF Settled
        <3>5. \A t \in Tier : (\A s \in past : s.floor = t) => Rank[call.class] >= Rank[t]
            BY <2>2, <3>4, Ranks DEF FloorRead
        <3>6. (\A s \in past : Hits(s, call.task, "risk")) => Rank[call.class] >= 2
            BY <2>2, <3>4, Ranks DEF RiskRead
        <3> QED
            BY <3>2, <3>3, <3>5, <3>6 DEF StandingSettingsHold
    <2> QED
        BY <2>3, <2>4, <2>5
<1> QED
    BY <1>1, Invariant, PTL

\* The model is asked only where the ladder above it decides nothing (RouteDecide).
THEOREM TriageIsEarnedAlways == Spec => []TriageIsEarned
<1>1. Inv => TriageIsEarned
    <2> SUFFICES ASSUME Inv, call # Unset, call.pc \in Asking \/ call.source \in ByModel
                 PROVE  /\ call.triage /\ call.task.at = {}
                        /\ \E s \in past : s.pin \notin Tier
                        /\ \A c \in ByWords : \E s \in past : ~Hits(s, call.task, c)
        BY DEF TriageIsEarned, Asking, ByModel
    <2>1. CallInv(call, past) /\ (call.pc \in Asking => call.pc \in OnLadder \ {"pin"})
        BY DEF Inv, Asking, OnLadder
    <2>2. /\ call.triage /\ call.hits = {} /\ call.task.at = {} /\ Unpinned(past)
          /\ WordsRead(call, past)
        BY <2>1 DEF CallInv
    <2>3. Passed(call) = ByWords
        <3>1. call.pc \notin {"cheap-fast", "default"}
            <4>1. CASE call.pc \in Asking
                BY <4>1 DEF Asking
            <4>2. CASE call.source \in ByModel
                <5>1. call.source # Unset
                    BY <4>2, SourcesDiffer
                <5>2. call.pc \in {"cmd", "done"}
                    BY <2>1, <5>1 DEF CallInv
                <5> QED
                    BY <5>2
            <4> QED
                BY <4>1, <4>2
        <3> QED
            BY <3>1 DEF Passed
    <2> QED
        BY <2>2, <2>3 DEF Unpinned, WordsRead
<1> QED
    BY <1>1, Invariant, PTL

-----------------------------------------------------------------------------
(* One change is atomic.  A call fits a store when all it has read could have  *)
(* been read of that store.  When one setting changes, the stores before and   *)
(* after differ in one aspect, which a decision reads once: until it reads it, *)
(* it fits both, and then it fits the one it read.                             *)

\* What one read of a decision sees of a store.
Aspect == {"floor", "pin", "active", "spec", "cmd"} \cup WordClass

View(s, a) ==
    IF a \in WordClass THEN VocabularyOf(s, a)
    ELSE IF a = "floor" THEN s.floor
    ELSE IF a = "pin" THEN s.pin
    ELSE IF a = "active" THEN s.active
    ELSE IF a = "spec" THEN s.spec ELSE s.cmd

BelowPin == {"keyword", "default"} \cup ByModel

AtFloor(floor, class) == IF floor \in Tier /\ RankOf(class) < RankOf(floor) THEN floor ELSE class

\* The class below the floors, from what the call has found out.
Chosen(k) ==
    IF "deep-reasoning" \in k.hits THEN "deep-reasoning"
    ELSE IF "cheap-fast" \in k.hits THEN "cheap-fast"
    ELSE IF "default" \in k.hits \/ k.reply = Unset THEN "default"
    ELSE IF Parse(k.reply).tier \notin Tier THEN "default"
    ELSE IF Parse(k.reply).confident THEN Parse(k.reply).tier
    ELSE Escalate(Parse(k.reply).tier)

\* A decision follows from the floor, the keywords and the answer it has found.
Traced(k) ==
    /\ k.pc \notin {"cmd", "done"} => k.reply = Unset
    /\ k.pc \notin {"reply", "cmd", "done"} => ~k.declared
    /\ k.reply # Unset => k.hits = {} /\ k.triage
    /\ k.source \in BelowPin =>
         /\ k.class = AtFloor(k.floor, Chosen(k))
         /\ k.hits = {} /\ k.triage => k.reply \in Reply
    /\ k.source \in ByModel => k.reply \in Reply /\ Parse(k.reply).tier \in Tier

\* The classes whose vocabulary has been read, if the way passes them.
Looked(k) ==
    IF k.pc = "cheap-fast" THEN {"deep-reasoning"}
    ELSE IF k.pc = "default" THEN {"deep-reasoning", "cheap-fast"}
    ELSE IF k.pc \in Asking \/ k.source \in BelowPin THEN ByWords ELSE {}

FloorOf(s, task) ==
    IF Hits(s, task, "risk") /\ RankOf("deep-reasoning") > RankOf(s.floor)
    THEN "deep-reasoning" ELSE s.floor

ProviderOf(k, s) ==
    IF s.active \in s.spec THEN k.provider = s.active /\ k.declared
    ELSE k.provider = Shipped /\ ~k.declared

\* Everything read of the ladder could have been read of the store s.
FitsLadder(k, s) ==
    /\ k.pc = "risk" => k.floor = s.floor
    /\ k.pc \notin {"floor", "risk"} => k.floor = FloorOf(s, k.task)
    /\ k.pc \in ByWords \cup Asking \/ k.source \in BelowPin => s.pin \notin Tier
    /\ k.source = "pin" => k.class = s.pin
    /\ k.hits = {c \in Looked(k) : Hits(s, k.task, c)}

\* So could everything read of the integrations and the tier map.
FitsCompletion(k, s) ==
    /\ k.pc = "spec" => k.provider = s.active /\ s.active # Unset
    /\ k.pc = "reply" \/ k.source \in ByModel => ProviderOf(k, s)
    /\ k.pc = "done" => k.cmd = s.cmd[k.class]

Fits(k, s) == FitsLadder(k, s) /\ FitsCompletion(k, s)

Narrow(P) == \A r, s, t \in P : r = s \/ s = t \/ r = t
Adjacent(s, t) == \E a \in Aspect : \A b \in Aspect \ {a} : View(s, b) = View(t, b)

\* Over a store that only seedings have written, the ladder is that of an empty
\* one, and there is no provider but the shipped one.
Pristine(s) ==
    /\ s.floor = Unset /\ s.pin = Unset
    /\ \A c \in WordClass : VocabularyOf(s, c) = BuiltIn[c]
    /\ s.active \in {Unset, Shipped} /\ s.spec \subseteq {Shipped}
    /\ \A t \in Tier : s.cmd[t] # "own"

AtomicInv ==
    call # Unset =>
        /\ Traced(call)
        /\ Narrow(past) => (\A s, t \in past : Adjacent(s, t)) /\ (\E s \in past : Fits(call, s))

SeedingInv ==
    writes = 0 =>
        /\ Pristine(store)
        /\ call # Unset =>
             /\ FitsLadder(call, Unseeded)
             /\ call.provider \in {Unset, Shipped} /\ call.cmd # "own"

-----------------------------------------------------------------------------
(* What each step makes of a call that could have read the store s: it read the *)
(* store t, which shows the same where it looked.                           *)

\* What is left of a call by all that decides it.
SameFinds(k, r) ==
    /\ r.task = k.task /\ r.triage = k.triage /\ r.floor = k.floor /\ r.hits = k.hits
    /\ r.provider = k.provider /\ r.declared = k.declared /\ r.reply = k.reply

LEMMA SourcesApart ==
    /\ Unset \notin BelowPin /\ Unset \notin ByModel /\ ByModel \subseteq BelowPin
    /\ BelowPin \subseteq Source /\ {"override", "pin"} \cap BelowPin = {} /\ Unset # "pin"
    /\ {"keyword", "default"} \cap ByModel = {}
    BY NothingIsNoName DEF BelowPin, ByModel, Source

\* A decision that is raised to the floor.
Floored(k, class, source) ==
    [k EXCEPT !.pc = "cmd", !.source = source, !.class = AtFloor(k.floor, class)]

LEMMA ResolvedIsFloored ==
    ASSUME NEW k, NEW class, NEW source
    PROVE  Resolved(k, class, source, TRUE) = Floored(k, class, source)
    BY DEF Resolved, Floored, AtFloor

LEMMA FlooredFinds ==
    ASSUME NEW k \in Call, NEW class \in Tier, NEW source \in Source
    PROVE  LET r == Floored(k, class, source) IN
           /\ r \in Call /\ SameFinds(k, r) /\ r.pc = "cmd" /\ r.source = source
           /\ r.class = AtFloor(k.floor, class) /\ r.cmd = k.cmd
<1> DEFINE c == AtFloor(k.floor, class)
<1>1. c \in Tier
    BY DEF AtFloor
<1>2. Floored(k, class, source) = [k EXCEPT !.pc = "cmd", !.source = source, !.class = c]
    BY DEF Floored
<1> HIDE DEF c
<1>3. LET r == [k EXCEPT !.pc = "cmd", !.source = source, !.class = c] IN
      /\ r \in Call /\ SameFinds(k, r) /\ r.pc = "cmd" /\ r.source = source /\ r.class = c
      /\ r.cmd = k.cmd
    BY <1>1 DEF Call, Pc, SameFinds
<1> QED
    BY <1>2, <1>3 DEF c

\* A decision below the pin, from what has been read, is what a store that shows
\* all of it gives.
LEMMA SettledFits ==
    ASSUME NEW k \in Call, NEW s, NEW class \in Tier, NEW source \in BelowPin,
           k.floor = FloorOf(s, k.task), s.pin \notin Tier,
           k.hits = {c \in ByWords : Hits(s, k.task, c)},
           NEW r, r = Floored(k, class, source)
    PROVE  SameFinds(k, r) /\ r.pc = "cmd" /\ r.source = source /\ FitsLadder(r, s)
<1>1. source \in Source /\ source # "pin"
    BY SourcesApart
<1>2. SameFinds(k, r) /\ r.pc = "cmd" /\ r.source = source
    BY <1>1, FlooredFinds
<1>3. Looked(r) = ByWords
    BY <1>2 DEF Looked
<1>4. FitsLadder(r, s)
    BY <1>1, <1>2, <1>3 DEF FitsLadder, SameFinds
<1> QED
    BY <1>2, <1>4

LEMMA SettledIsTraced ==
    ASSUME NEW k \in Call, NEW class \in Tier, NEW source \in BelowPin, class = Chosen(k),
           k.reply # Unset => k.hits = {} /\ k.triage,
           k.hits = {} /\ k.triage => k.reply \in Reply,
           source \in ByModel => k.reply \in Reply /\ Parse(k.reply).tier \in Tier,
           NEW r, r = Floored(k, class, source)
    PROVE  Traced(r)
<1>1. source \in Source
    BY SourcesApart
<1>2. /\ SameFinds(k, r) /\ r.pc = "cmd" /\ r.source = source
      /\ r.class = AtFloor(k.floor, class)
    BY <1>1, FlooredFinds
<1>3. Chosen(r) = Chosen(k)
    BY <1>2 DEF Chosen, SameFinds
<1> QED
    BY <1>2, <1>3 DEF Traced, SameFinds

LEMMA FloorFits ==
    ASSUME NEW k \in Call, NEW s, NEW t \in Store, NEW P, k.pc = "floor", CallInv(k, P),
           FitsLadder(k, s), s.floor = t.floor
    PROVE  LET r == ReadFloor(k, t) IN
           FitsLadder(r, s) /\ FitsCompletion(r, s)
<1> DEFINE r == ReadFloor(k, t)
<1>1. t.floor \in Setting /\ k.source = Unset
    BY DEF Store, CallInv
<1>2. r.pc = "risk" /\ r.floor = t.floor /\ r.source = Unset /\ r.task = k.task /\ r.hits = k.hits
    BY <1>1 DEF ReadFloor, Call
<1> HIDE DEF r
<1>3. Looked(k) = {} /\ Looked(r) = {}
    BY <1>1, <1>2, SourcesApart DEF Looked, Asking
<1>4. FitsLadder(r, s)
    BY <1>2, <1>3, SourcesApart DEF FitsLadder, Asking, ByWords
<1>5. FitsCompletion(r, s)
    BY <1>2, SourcesApart DEF FitsCompletion
<1> QED
    BY <1>4, <1>5 DEF r

LEMMA RiskFits ==
    ASSUME NEW k \in Call, NEW s, NEW t \in Store, NEW P, k.pc = "risk", CallInv(k, P),
           FitsLadder(k, s), VocabularyOf(s, "risk") = VocabularyOf(t, "risk")
    PROVE  LET r == ReadRisk(k, t) IN
           FitsLadder(r, s) /\ FitsCompletion(r, s)
<1> DEFINE f == IF Hits(t, k.task, "risk") /\ RankOf("deep-reasoning") > RankOf(k.floor)
                THEN "deep-reasoning" ELSE k.floor
           next == [k EXCEPT !.pc = "pin", !.floor = f]
<1>1. k.source = Unset /\ k.floor = s.floor /\ k.floor \in Setting /\ k.task \in Task
    BY DEF CallInv, FitsLadder, Call
<1>2. f = FloorOf(s, k.task)
    BY <1>1 DEF FloorOf, Hits
<1>3. f \in Setting
    BY <1>1 DEF Setting, Tier
<1>4. ReadRisk(k, t) = IF k.task.at = {} THEN next ELSE Resolved(next, Mentioned(k.task), "override", FALSE)
    BY DEF ReadRisk
<1> HIDE DEF f
<1>5. /\ next \in Call /\ next.pc = "pin" /\ next.floor = f /\ next.source = Unset
      /\ next.task = k.task /\ next.hits = k.hits
    BY <1>1, <1>3 DEF Call, Pc
<1> HIDE DEF next
<1>6. k.hits = {}
    BY <1>1, SourcesApart DEF FitsLadder, Looked, Asking
<1>7. CASE k.task.at = {}
    <2>1. Looked(next) = {}
        BY <1>5, SourcesApart DEF Looked, Asking
    <2>2. FitsLadder(next, s)
        BY <1>2, <1>5, <1>6, <2>1, SourcesApart DEF FitsLadder, Asking, ByWords
    <2>3. FitsCompletion(next, s)
        BY <1>5, SourcesApart DEF FitsCompletion
    <2> QED
        BY <1>4, <1>7, <2>2, <2>3
<1>8. CASE k.task.at # {}
    <2> DEFINE r == Resolved(next, Mentioned(k.task), "override", FALSE)
    <2>1. r = [next EXCEPT !.pc = "cmd", !.source = "override", !.class = Mentioned(k.task)]
        BY DEF Resolved
    <2> HIDE DEF r
    <2>3. SameFinds(next, r) /\ r.pc = "cmd" /\ r.source = "override"
        BY <1>5, <2>1 DEF Call, SameFinds
    <2>4. Looked(r) = {}
        BY <2>3, SourcesApart DEF Looked, Asking
    <2>5. FitsLadder(r, s)
        BY <1>2, <1>5, <1>6, <2>3, <2>4, SourcesApart DEF FitsLadder, SameFinds, Asking, ByWords
    <2>6. FitsCompletion(r, s)
        BY <2>3, SourcesApart DEF FitsCompletion
    <2> QED
        BY <1>4, <1>8, <2>5, <2>6 DEF r
<1> QED
    BY <1>7, <1>8

LEMMA PinFits ==
    ASSUME NEW k \in Call, NEW s, NEW t \in Store, NEW P, k.pc = "pin", CallInv(k, P),
           FitsLadder(k, s), s.pin = t.pin
    PROVE  LET r == ReadPin(k, t) IN
           FitsLadder(r, s) /\ FitsCompletion(r, s)
<1> DEFINE r == ReadPin(k, t)
<1>1. k.source = Unset /\ k.floor = FloorOf(s, k.task)
    BY DEF CallInv, FitsLadder
<1>2. k.hits = {}
    BY <1>1, SourcesApart DEF FitsLadder, Looked, Asking
<1>3. CASE t.pin \in Tier
    <2>1. r = [k EXCEPT !.pc = "cmd", !.source = "pin", !.class = t.pin]
        BY <1>3 DEF ReadPin, Resolved
    <2> HIDE DEF r
    <2>2. SameFinds(k, r) /\ r.pc = "cmd" /\ r.source = "pin" /\ r.class = s.pin
        BY <2>1 DEF Call, SameFinds
    <2>3. Looked(r) = {}
        BY <2>2, SourcesApart DEF Looked, Asking
    <2>4. FitsLadder(r, s)
        BY <1>1, <1>2, <2>2, <2>3, SourcesApart DEF FitsLadder, SameFinds, Asking, ByWords
    <2>5. FitsCompletion(r, s)
        BY <2>2, SourcesApart DEF FitsCompletion
    <2> QED
        BY <2>4, <2>5 DEF r
<1>4. CASE t.pin \notin Tier
    <2>1. /\ r.pc = "deep-reasoning" /\ r.floor = k.floor /\ r.source = Unset /\ r.task = k.task
          /\ r.hits = k.hits
        BY <1>1, <1>4 DEF ReadPin, Call
    <2> HIDE DEF r
    <2>2. Looked(r) = {}
        BY <2>1, SourcesApart DEF Looked, Asking
    <2>3. FitsLadder(r, s)
        BY <1>1, <1>2, <1>4, <2>1, <2>2, SourcesApart DEF FitsLadder
    <2>4. FitsCompletion(r, s)
        BY <2>1, SourcesApart DEF FitsCompletion
    <2> QED
        BY <2>3, <2>4 DEF r
<1> QED
    BY <1>3, <1>4

\* Once the last vocabulary is read, what they say decides, or the model is asked.
LEMMA ClassifiedFinds ==
    ASSUME NEW k \in Call
    PROVE  IF k.hits = {} /\ k.triage THEN Classified(k) = [k EXCEPT !.pc = "active"]
           ELSE \E class \in {"deep-reasoning", "cheap-fast", "default"}, source \in {"keyword", "default"} :
                   /\ Classified(k) = Floored(k, class, source)
                   /\ k.reply = Unset => class = Chosen(k)
<1>1. CASE "deep-reasoning" \in k.hits
    <2>1. Chosen(k) = "deep-reasoning"
        BY <1>1 DEF Chosen
    <2>2. Classified(k) = Resolved(k, "deep-reasoning", "keyword", TRUE)
        BY <1>1, Zenon DEF Classified
    <2> QED
        BY <1>1, <2>1, <2>2, ResolvedIsFloored
<1>2. CASE "deep-reasoning" \notin k.hits /\ "cheap-fast" \in k.hits
    <2>1. Chosen(k) = "cheap-fast"
        BY <1>2 DEF Chosen
    <2>2. Classified(k) = Resolved(k, "cheap-fast", "keyword", TRUE)
        BY <1>2, Zenon DEF Classified
    <2> QED
        BY <1>2, <2>1, <2>2, ResolvedIsFloored
<1>3. CASE "deep-reasoning" \notin k.hits /\ "cheap-fast" \notin k.hits /\ "default" \in k.hits
    <2>1. Chosen(k) = "default"
        BY <1>3 DEF Chosen
    <2>2. Classified(k) = Resolved(k, "default", "keyword", TRUE)
        BY <1>3, Zenon DEF Classified
    <2> QED
        BY <1>3, <2>1, <2>2, ResolvedIsFloored
<1>4. CASE k.hits = {} /\ ~k.triage
    <2>1. k.reply = Unset => Chosen(k) = "default"
        BY <1>4 DEF Chosen
    <2>2. Classified(k) = Resolved(k, "default", "default", TRUE)
        BY <1>4, Zenon DEF Classified
    <2> QED
        BY <1>4, <2>1, <2>2, ResolvedIsFloored
<1>5. CASE k.hits = {} /\ k.triage
    BY <1>5 DEF Classified
<1> QED
    BY <1>1, <1>2, <1>3, <1>4, <1>5 DEF Call, ByWords

LEMMA WordsFits ==
    ASSUME NEW k \in Call, NEW s, NEW t \in Store, NEW P, k.pc \in ByWords, CallInv(k, P),
           FitsLadder(k, s), VocabularyOf(s, k.pc) = VocabularyOf(t, k.pc)
    PROVE  LET r == ReadWords(k, t) IN
           FitsLadder(r, s) /\ FitsCompletion(r, s)
<1> DEFINE hits == IF Hits(t, k.task, k.pc) THEN k.hits \cup {k.pc} ELSE k.hits
           next == [k EXCEPT !.hits = hits]
           r == ReadWords(k, t)
<1>1. k.source = Unset /\ k.floor = FloorOf(s, k.task) /\ s.pin \notin Tier
    BY DEF CallInv, FitsLadder, ByWords
<1>2. hits \subseteq ByWords /\ hits = {c \in Looked(k) \cup {k.pc} : Hits(s, k.task, c)}
    <2>1. Hits(t, k.task, k.pc) = Hits(s, k.task, k.pc)
        BY DEF Hits
    <2>2. k.hits = {c \in Looked(k) : Hits(s, k.task, c)} /\ k.hits \subseteq ByWords
        BY DEF FitsLadder, Call
    <2> QED
        BY <2>1, <2>2
<1>3. r = IF k.pc = "deep-reasoning" THEN [next EXCEPT !.pc = "cheap-fast"]
          ELSE IF k.pc = "cheap-fast" THEN [next EXCEPT !.pc = "default"]
          ELSE Classified(next)
    BY DEF ReadWords
<1> HIDE DEF hits, r
<1>4. /\ next \in Call /\ next.pc = k.pc /\ next.hits = hits /\ next.floor = k.floor
      /\ next.task = k.task /\ next.triage = k.triage /\ next.source = Unset
    BY <1>1, <1>2 DEF Call
<1> HIDE DEF next
<1>5. CASE k.pc \in {"deep-reasoning", "cheap-fast"}
    <2>1. /\ r.pc = (IF k.pc = "deep-reasoning" THEN "cheap-fast" ELSE "default")
          /\ r.hits = hits /\ r.floor = k.floor /\ r.task = k.task /\ r.source = Unset
        BY <1>3, <1>4, <1>5 DEF Call
    <2>2. Looked(r) = Looked(k) \cup {k.pc}
        BY <1>1, <1>5, <2>1, SourcesApart DEF Looked, Asking
    <2>3. FitsLadder(r, s)
        BY <1>1, <1>2, <2>1, <2>2, SourcesApart DEF FitsLadder
    <2>4. FitsCompletion(r, s)
        BY <2>1, SourcesApart DEF FitsCompletion
    <2> QED
        BY <2>3, <2>4 DEF r
<1>6. CASE k.pc = "default"
    <2>1. r = Classified(next)
        BY <1>3, <1>6
    <2>2. Looked(k) \cup {k.pc} = ByWords
        BY <1>6 DEF Looked, ByWords
    <2>3. next.hits = {c \in ByWords : Hits(s, next.task, c)} /\ next.hits \subseteq ByWords
        BY <1>2, <1>4, <2>2
    <2>4. next.floor = FloorOf(s, next.task)
        BY <1>1, <1>4
    <2>5. CASE next.hits = {} /\ next.triage
        <3>1. r = [next EXCEPT !.pc = "active"]
            BY <1>4, <2>1, <2>5, ClassifiedFinds
        <3>2. /\ r.pc = "active" /\ r.hits = next.hits /\ r.floor = k.floor /\ r.task = k.task
              /\ r.source = Unset
            BY <1>4, <3>1 DEF Call
        <3>3. Looked(r) = ByWords
            BY <3>2 DEF Looked, Asking
        <3>4. FitsLadder(r, s)
            BY <1>1, <1>4, <2>3, <3>2, <3>3, SourcesApart DEF FitsLadder
        <3>5. FitsCompletion(r, s)
            BY <3>2, SourcesApart DEF FitsCompletion
        <3> QED
            BY <3>4, <3>5 DEF r
    <2>6. CASE ~(next.hits = {} /\ next.triage)
        <3>1. PICK class \in {"deep-reasoning", "cheap-fast", "default"}, source \in {"keyword", "default"} :
                 r = Floored(next, class, source)
            BY <1>4, <2>1, <2>6, ClassifiedFinds
        <3>2. class \in Tier /\ source \in BelowPin /\ source \notin ByModel
            BY <3>1, SourcesApart DEF Tier, BelowPin
        <3>3. r.pc = "cmd" /\ r.source = source /\ FitsLadder(r, s)
            BY <1>1, <1>4, <2>3, <2>4, <3>1, <3>2, SettledFits
        <3>4. FitsCompletion(r, s)
            BY <3>2, <3>3 DEF FitsCompletion
        <3> QED
            BY <3>3, <3>4 DEF r
    <2> QED
        BY <2>5, <2>6
<1> QED
    BY <1>5, <1>6 DEF ByWords

\* The two reads of ResolveCompletion.
LEMMA ActiveFits ==
    ASSUME NEW k \in Call, NEW s, NEW t \in Store, NEW P, k.pc = "active", CallInv(k, P),
           FitsLadder(k, s)
    PROVE  LET r == ReadActive(k, t) IN
           /\ FitsLadder(r, s)
           /\ s \in Store /\ s.active = t.active /\ ~k.declared => FitsCompletion(r, s)
           /\ r.provider \in {t.active, Shipped} \ {Unset} /\ r.cmd = k.cmd
<1> DEFINE r == ReadActive(k, t)
<1>1. k.source = Unset
    BY DEF CallInv
<1>2. /\ r.task = k.task /\ r.floor = k.floor /\ r.hits = k.hits
      /\ r.source = Unset /\ r.declared = k.declared /\ r.cmd = k.cmd
      /\ IF t.active = Unset THEN r.pc = "reply" /\ r.provider = Shipped
         ELSE r.pc = "spec" /\ r.provider = t.active
    BY <1>1 DEF ReadActive, Call
<1> HIDE DEF r
<1>3. Unset \notin Provider /\ Shipped \in Provider
    BY NothingIsNoName, ShippedIsProvider
<1>4. Looked(r) = Looked(k)
    BY <1>2 DEF Looked, Asking
<1>5. FitsLadder(r, s)
    BY <1>1, <1>2, <1>4, SourcesApart DEF FitsLadder, Asking
<1>6. s \in Store /\ s.active = t.active /\ ~k.declared => FitsCompletion(r, s)
    BY <1>2, <1>3, SourcesApart DEF FitsCompletion, ProviderOf, Store
<1> QED
    BY <1>2, <1>3, <1>5, <1>6 DEF r

LEMMA SpecFits ==
    ASSUME NEW k \in Call, NEW s, NEW t \in Store, NEW P, k.pc = "spec", CallInv(k, P),
           FitsLadder(k, s)
    PROVE  LET r == ReadSpec(k, t) IN
           /\ FitsLadder(r, s)
           /\ FitsCompletion(k, s) /\ s.spec = t.spec => FitsCompletion(r, s)
           /\ r.provider \in {k.provider, Shipped} /\ r.cmd = k.cmd
<1> DEFINE p == IF k.provider \in t.spec THEN k.provider ELSE Shipped
           d == k.provider \in t.spec
           r == ReadSpec(k, t)
<1>1. k.source = Unset
    BY DEF CallInv
<1>2. r = [[[k EXCEPT !.pc = "reply"] EXCEPT !.declared = d] EXCEPT !.provider = p]
    BY DEF ReadSpec
<1> HIDE DEF p, d, r
<1>3. /\ r.task = k.task /\ r.floor = k.floor /\ r.hits = k.hits
      /\ r.source = Unset /\ r.cmd = k.cmd
      /\ r.pc = "reply" /\ r.provider = p /\ r.declared = d
    BY <1>1, <1>2 DEF Call
<1>4. Looked(r) = Looked(k)
    BY <1>3 DEF Looked, Asking
<1>5. FitsLadder(r, s)
    BY <1>1, <1>3, <1>4, SourcesApart DEF FitsLadder, Asking
<1>6. FitsCompletion(k, s) /\ s.spec = t.spec => FitsCompletion(r, s)
    BY <1>3, SourcesApart DEF FitsCompletion, ProviderOf, p, d
<1>7. r.provider \in {k.provider, Shipped}
    BY <1>3 DEF p
<1> QED
    BY <1>3, <1>5, <1>6, <1>7 DEF r

\* What an answer makes of a call that found no keyword.
LEMMA AnsweredFinds ==
    ASSUME NEW k \in Call, NEW answer \in Reply, k.hits = {}
    PROVE  LET next == [k EXCEPT !.reply = answer] IN
           /\ next \in Call /\ next.hits = {} /\ next.reply = answer
           /\ next.task = k.task /\ next.triage = k.triage /\ next.floor = k.floor
           /\ next.provider = k.provider /\ next.declared = k.declared /\ next.cmd = k.cmd
           /\ \E class \in Tier, source \in BelowPin :
                 /\ Answered(k, answer) = Floored(next, class, source)
                 /\ class = Chosen(next)
                 /\ source \in ByModel => Parse(answer).tier \in Tier
<1> DEFINE next == [k EXCEPT !.reply = answer]
           said == Parse(answer)
<1>1. /\ next \in Call /\ next.hits = {} /\ next.reply = answer
      /\ next.task = k.task /\ next.triage = k.triage /\ next.floor = k.floor
      /\ next.provider = k.provider /\ next.declared = k.declared /\ next.cmd = k.cmd
    BY DEF Call
<1>2. said.tier \in Tier \cup {Unset} /\ answer # Unset
    BY ParseIsTier, Names
<1>3. Answered(k, answer) =
        IF said.tier \notin Tier THEN Floored(next, "default", "default")
        ELSE IF said.confident THEN Floored(next, said.tier, "triage")
        ELSE Floored(next, Escalate(said.tier), "triage-escalated")
    BY ResolvedIsFloored DEF Answered
<1>4. Chosen(next) = IF said.tier \notin Tier THEN "default"
                     ELSE IF said.confident THEN said.tier ELSE Escalate(said.tier)
    BY <1>1, <1>2 DEF Chosen
<1>5. \E class \in Tier, source \in BelowPin :
         /\ Answered(k, answer) = Floored(next, class, source)
         /\ class = Chosen(next)
         /\ source \in ByModel => said.tier \in Tier
    <2>1. CASE said.tier \notin Tier
        BY <1>3, <1>4, <2>1, SourcesApart DEF Tier, BelowPin
    <2>2. CASE said.tier \in Tier /\ said.confident
        BY <1>3, <1>4, <2>2 DEF BelowPin, ByModel
    <2>3. CASE said.tier \in Tier /\ ~said.confident
        BY <1>3, <1>4, <2>3, EscalateIsTier DEF BelowPin, ByModel
    <2> QED
        BY <2>1, <2>2, <2>3
<1> QED
    BY <1>1, <1>5

LEMMA AnswerFits ==
    ASSUME NEW k \in Call, NEW s, NEW answer \in Reply, NEW P, k.pc = "reply", CallInv(k, P),
           FitsLadder(k, s)
    PROVE  LET r == Answered(k, answer) IN
           /\ FitsLadder(r, s)
           /\ FitsCompletion(k, s) => FitsCompletion(r, s)
           /\ r.provider = k.provider /\ r.cmd = k.cmd
<1> DEFINE next == [k EXCEPT !.reply = answer]
           r == Answered(k, answer)
<1>1. /\ k.hits = {} /\ k.floor = FloorOf(s, k.task) /\ s.pin \notin Tier
      /\ k.hits = {c \in ByWords : Hits(s, k.task, c)}
    BY DEF CallInv, FitsLadder, Looked, Asking
<1>2. /\ next \in Call /\ next.hits = {}
      /\ next.task = k.task /\ next.floor = k.floor
      /\ next.provider = k.provider /\ next.declared = k.declared /\ next.cmd = k.cmd
    BY <1>1, AnsweredFinds
<1>3. PICK class \in Tier, source \in BelowPin : r = Floored(next, class, source)
    BY <1>1, AnsweredFinds
<1> HIDE DEF next, r
<1>4. next.hits = {c \in ByWords : Hits(s, next.task, c)} /\ next.floor = FloorOf(s, next.task)
    BY <1>1, <1>2
<1>5. SameFinds(next, r) /\ r.pc = "cmd" /\ r.source = source /\ FitsLadder(r, s)
    BY <1>1, <1>2, <1>3, <1>4, SettledFits
<1>6. r.cmd = k.cmd
    BY <1>2, <1>3 DEF Floored, Call
<1>7. FitsCompletion(k, s) => FitsCompletion(r, s)
    BY <1>2, <1>5 DEF FitsCompletion, ProviderOf, SameFinds
<1> QED
    BY <1>2, <1>5, <1>6, <1>7 DEF SameFinds, r

LEMMA CmdFits ==
    ASSUME NEW k \in Call, NEW s, NEW t \in Store, NEW P, k.pc = "cmd", CallInv(k, P),
           FitsLadder(k, s)
    PROVE  LET r == ReadCmd(k, t) IN
           /\ FitsLadder(r, s)
           /\ FitsCompletion(k, s) /\ s.cmd = t.cmd => FitsCompletion(r, s)
           /\ r.provider = k.provider /\ r.cmd = t.cmd[k.class] /\ k.class \in Tier
<1> DEFINE r == ReadCmd(k, t)
<1>1. k.class \in Tier
    BY DEF CallInv, Settled
<1>2. /\ SameFinds(k, r) /\ r.pc = "done" /\ r.source = k.source /\ r.class = k.class
      /\ r.cmd = t.cmd[k.class]
    BY DEF ReadCmd, Call, SameFinds
<1> HIDE DEF r
<1>3. Looked(r) = Looked(k)
    BY <1>2 DEF SameFinds, Looked, Asking
<1>4. FitsLadder(r, s)
    BY <1>2, <1>3 DEF FitsLadder, SameFinds, Asking, ByWords
<1>5. FitsCompletion(k, s) /\ s.cmd = t.cmd => FitsCompletion(r, s)
    BY <1>2 DEF FitsCompletion, ProviderOf, SameFinds
<1> QED
    BY <1>1, <1>2, <1>4, <1>5 DEF r, SameFinds

-----------------------------------------------------------------------------
(* A change of one aspect. *)

\* What a decision has read does not tell apart two stores that differ only in
\* what it reads next.
LEMMA FitsBoth ==
    ASSUME NEW k \in Call, NEW P, CallInv(k, P), NEW s, NEW t, Fits(k, s),
           \A b \in Aspect \ {k.pc} : View(s, b) = View(t, b)
    PROVE  Fits(k, t)
<1>1. /\ \A c \in WordClass \ {k.pc} : VocabularyOf(s, c) = VocabularyOf(t, c)
      /\ k.pc # "floor" => s.floor = t.floor
      /\ k.pc # "pin" => s.pin = t.pin
      /\ k.pc # "active" => s.active = t.active
      /\ k.pc # "spec" => s.spec = t.spec
      /\ k.pc # "cmd" => s.cmd = t.cmd
    BY DEF Aspect, View, WordClass, ByWords
<1>2. \A c \in WordClass \ {k.pc} : Hits(s, k.task, c) = Hits(t, k.task, c)
    BY <1>1 DEF Hits
<1>3. k.pc \notin {"cmd", "done"} => k.source = Unset
    BY DEF CallInv
<1>4. k.pc \notin {"floor", "risk"} => FloorOf(s, k.task) = FloorOf(t, k.task)
    BY <1>1, <1>2 DEF FloorOf, WordClass
<1>5. k.pc \in ByWords \cup Asking \/ k.source \in BelowPin => k.pc # "pin"
    BY <1>3, SourcesApart DEF ByWords, Asking
<1>6. k.source = "pin" => k.pc \in {"cmd", "done"}
    BY <1>3, SourcesApart
<1>7. Looked(k) \subseteq WordClass \ {k.pc}
    BY <1>3, SourcesApart DEF Looked, WordClass, ByWords, Asking
<1>8. FitsLadder(k, t)
    BY <1>1, <1>2, <1>4, <1>5, <1>6, <1>7 DEF Fits, FitsLadder
<1>9. k.pc = "reply" \/ k.source \in ByModel => k.pc \notin {"active", "spec"}
    BY <1>3, SourcesApart
<1>10. FitsCompletion(k, t)
    BY <1>1, <1>9 DEF Fits, FitsCompletion, ProviderOf
<1> QED
    BY <1>8, <1>10 DEF Fits

LEMMA AdjacentIsSymmetric ==
    ASSUME NEW s, NEW t, Adjacent(s, t)
    PROVE  Adjacent(t, s)
    BY DEF Adjacent

LEMMA AdjacentIsReflexive ==
    ASSUME NEW s
    PROVE  Adjacent(s, s)
    BY DEF Adjacent, Aspect

\* A write of a user changes one aspect.
LEMMA EditsAreAdjacent ==
    ASSUME NEW s \in Store, NEW e \in Edits(s)
    PROVE  Adjacent(s, e)
<1> DEFINE Same(a) == \A b \in Aspect \ {a} : View(s, b) = View(e, b)
<1>1. CASE e \in {[s EXCEPT !.floor = x] : x \in Setting}
    <2>1. /\ e.pin = s.pin /\ e.words = s.words /\ e.cmd = s.cmd /\ e.active = s.active
          /\ e.spec = s.spec
        BY <1>1 DEF Store
    <2>2. Same("floor")
        BY <2>1 DEF Aspect, View, VocabularyOf
    <2> QED
        BY <2>2 DEF Adjacent, Aspect
<1>2. CASE e \in {[s EXCEPT !.pin = x] : x \in Setting}
    <2>1. /\ e.floor = s.floor /\ e.words = s.words /\ e.cmd = s.cmd /\ e.active = s.active
          /\ e.spec = s.spec
        BY <1>2 DEF Store
    <2>2. Same("pin")
        BY <2>1 DEF Aspect, View, VocabularyOf
    <2> QED
        BY <2>2 DEF Adjacent, Aspect
<1>3. CASE e \in {[s EXCEPT !.words[c] = w] : c \in WordClass, w \in Vocabulary}
    <2>1. PICK c \in WordClass, w \in Vocabulary : e = [s EXCEPT !.words[c] = w]
        BY <1>3
    <2>2. /\ e.floor = s.floor /\ e.pin = s.pin /\ e.cmd = s.cmd /\ e.active = s.active
          /\ e.spec = s.spec
          /\ \A d \in WordClass \ {c} : e.words[d] = s.words[d]
        BY <2>1 DEF Store
    <2>3. Same(c)
        BY <2>2 DEF Aspect, View, VocabularyOf
    <2> QED
        BY <2>1, <2>3 DEF Adjacent, Aspect
<1>4. CASE e \in {[s EXCEPT !.cmd[t] = x] : t \in Tier, x \in {"own", Unset}}
    <2>1. /\ e.floor = s.floor /\ e.pin = s.pin /\ e.words = s.words /\ e.active = s.active
          /\ e.spec = s.spec
        BY <1>4 DEF Store
    <2>2. Same("cmd")
        BY <2>1 DEF Aspect, View, VocabularyOf
    <2> QED
        BY <2>2 DEF Adjacent, Aspect
<1>5. CASE e \in {[s EXCEPT !.active = p] : p \in Provider \cup {Unset}}
    <2>1. /\ e.floor = s.floor /\ e.pin = s.pin /\ e.words = s.words /\ e.cmd = s.cmd
          /\ e.spec = s.spec
        BY <1>5 DEF Store
    <2>2. Same("active")
        BY <2>1 DEF Aspect, View, VocabularyOf
    <2> QED
        BY <2>2 DEF Adjacent, Aspect
<1>6. CASE \/ e \in {[s EXCEPT !.spec = @ \cup {p}] : p \in Provider}
           \/ e \in {[s EXCEPT !.spec = @ \ {p}] : p \in Provider}
    <2>1. /\ e.floor = s.floor /\ e.pin = s.pin /\ e.words = s.words /\ e.cmd = s.cmd
          /\ e.active = s.active
        BY <1>6 DEF Store
    <2>2. Same("spec")
        BY <2>1 DEF Aspect, View, VocabularyOf
    <2> QED
        BY <2>2 DEF Adjacent, Aspect
<1> QED
    BY <1>1, <1>2, <1>3, <1>4, <1>5, <1>6 DEF Edits

\* So does a Put of a seeding; it keeps a pristine store pristine.
LEMMA SeededIsAdjacent ==
    ASSUME NEW s \in Store, NEW i \in 1 .. 10
    PROVE  Adjacent(s, Seeded(i, s)) /\ (Pristine(s) => Pristine(Seeded(i, s)))
<1> DEFINE e == Seeded(i, s)
           Same(a) == \A b \in Aspect \ {a} : View(s, b) = View(e, b)
<1>1. CASE i \in 1 .. 4
    <2> DEFINE t == (Append(TierByRank, "elevate"))[i]
    <2>1. t \in Tier
        BY <1>1 DEF TierByRank, Tier
    <2>2. e = [s EXCEPT !.cmd = [s.cmd EXCEPT ![t] = "shipped"]]
        <3>1. i <= 4
            BY <1>1
        <3> QED
            BY <3>1, Zenon DEF Seeded
    <2> HIDE DEF t, e
    <2>3. /\ e.floor = s.floor /\ e.pin = s.pin /\ e.words = s.words /\ e.active = s.active
          /\ e.spec = s.spec
          /\ \A u \in Tier : e.cmd[u] \in {s.cmd[u], "shipped"}
        BY <2>1, <2>2 DEF Store
    <2>4. Same("cmd")
        BY <2>3 DEF Aspect, View, VocabularyOf
    <2>5. Pristine(s) => Pristine(e)
        BY <2>3 DEF Pristine, VocabularyOf
    <2> QED
        BY <2>4, <2>5 DEF Adjacent, Aspect, e
<1>2. CASE i = 5
    <2>1. e = [s EXCEPT !.spec = @ \cup {Shipped}]
        BY <1>2 DEF Seeded
    <2> HIDE DEF e
    <2>2. /\ e.floor = s.floor /\ e.pin = s.pin /\ e.words = s.words /\ e.active = s.active
          /\ e.spec = s.spec \cup {Shipped} /\ e.cmd = s.cmd
        BY <2>1 DEF Store
    <2>3. Same("spec")
        BY <2>2 DEF Aspect, View, VocabularyOf
    <2>4. Pristine(s) => Pristine(e)
        BY <2>2 DEF Pristine, VocabularyOf
    <2> QED
        BY <2>3, <2>4 DEF Adjacent, Aspect, e
<1>3. CASE i = 6
    <2>1. e = [s EXCEPT !.active = Shipped]
        BY <1>3 DEF Seeded
    <2> HIDE DEF e
    <2>2. /\ e.floor = s.floor /\ e.pin = s.pin /\ e.words = s.words /\ e.active = Shipped
          /\ e.spec = s.spec /\ e.cmd = s.cmd
        BY <2>1 DEF Store
    <2>3. Same("active")
        BY <2>2 DEF Aspect, View, VocabularyOf
    <2>4. Pristine(s) => Pristine(e)
        BY <2>2 DEF Pristine, VocabularyOf
    <2> QED
        BY <2>3, <2>4 DEF Adjacent, Aspect, e
<1>4. CASE i \in 7 .. 10
    <2> DEFINE c == <<"deep-reasoning", "cheap-fast", "default", "risk">>[i - 6]
    <2>1. c \in WordClass
        BY <1>4 DEF WordClass, ByWords
    <2>2. e = [s EXCEPT !.words = [s.words EXCEPT ![c] = BuiltIn[c]]]
        BY <1>4 DEF Seeded
    <2> HIDE DEF c, e
    <2>3. /\ e.floor = s.floor /\ e.pin = s.pin /\ e.cmd = s.cmd /\ e.active = s.active
          /\ e.spec = s.spec
          /\ \A d \in WordClass \ {c} : e.words[d] = s.words[d]
          /\ e.words[c] = BuiltIn[c]
        BY <2>1, <2>2 DEF Store
    <2>4. Same(c)
        BY <2>3 DEF Aspect, View, VocabularyOf
    <2>5. VocabularyOf(e, c) = BuiltIn[c] /\ \A d \in WordClass \ {c} : VocabularyOf(e, d) = VocabularyOf(s, d)
        BY <2>3 DEF VocabularyOf
    <2>6. Pristine(s) => Pristine(e)
        BY <2>1, <2>3, <2>5 DEF Pristine
    <2> QED
        BY <2>1, <2>4, <2>6 DEF Adjacent, Aspect, e
<1> QED
    BY <1>1, <1>2, <1>3, <1>4

\* A set of at most two.
LEMMA AtMostTwo ==
    ASSUME NEW P, IsFiniteSet(P), Cardinality(P) <= 2
    PROVE  Narrow(P)
<1> SUFFICES ASSUME NEW r \in P, NEW s \in P, NEW t \in P, r # s, s # t, r # t PROVE FALSE
    BY DEF Narrow
<1>1. IsFiniteSet({}) /\ Cardinality({}) = 0
    BY FS_EmptySet
<1>2. IsFiniteSet({r}) /\ Cardinality({r}) = 1
    BY FS_Singleton
<1>3. IsFiniteSet({r} \cup {s}) /\ Cardinality({r} \cup {s}) = 2
    BY <1>2, FS_AddElement
<1>4. Cardinality(({r} \cup {s}) \cup {t}) = 3
    <2> DEFINE Q == {r} \cup {s}
    <2>1. t \notin Q
        OBVIOUS
    <2>2. IsFiniteSet(Q) /\ Cardinality(Q) = 2
        BY <1>3
    <2> HIDE DEF Q
    <2>3. Cardinality(Q \cup {t}) = Cardinality(Q) + 1
        BY <2>1, <2>2, FS_AddElement
    <2> QED
        BY <2>2, <2>3 DEF Q
<1>5. Cardinality(({r} \cup {s}) \cup {t}) <= Cardinality(P)
    BY FS_Subset
<1>6. Cardinality(P) \in Nat
    BY FS_CardinalityType
<1> QED
    BY <1>4, <1>5, <1>6
-----------------------------------------------------------------------------
(* The two invariants are inductive. *)

\* The reads of the ladder leave the provider, the answer and the command alone.
LEMMA LadderKeeps ==
    ASSUME NEW k \in Call, NEW t, NEW r,
           \/ r = ReadFloor(k, t) \/ r = ReadRisk(k, t) \/ r = ReadPin(k, t)
           \/ k.pc \in ByWords /\ r = ReadWords(k, t)
    PROVE  r.provider = k.provider /\ r.declared = k.declared /\ r.reply = k.reply /\ r.cmd = k.cmd
<1> DEFINE Same(q) == /\ q.provider = k.provider /\ q.declared = k.declared
                      /\ q.reply = k.reply /\ q.cmd = k.cmd
<1>1. ASSUME NEW q \in Call, NEW class, NEW source, Same(q)
      PROVE  Same([q EXCEPT !.pc = "cmd", !.source = source, !.class = class])
    BY <1>1 DEF Call
<1>2. ASSUME NEW q \in Call, NEW class, NEW source, Same(q)
      PROVE  Same(Floored(q, class, source))
    <2> DEFINE c == AtFloor(q.floor, class)
    <2>1. Floored(q, class, source) = [q EXCEPT !.pc = "cmd", !.source = source, !.class = c]
        BY DEF Floored
    <2> HIDE DEF c
    <2> QED
        BY <1>1, <1>2, <2>1
<1>3. CASE r = ReadFloor(k, t)
    BY <1>3 DEF ReadFloor, Call
<1>4. CASE r = ReadRisk(k, t)
    <2> DEFINE f == IF Hits(t, k.task, "risk") /\ RankOf("deep-reasoning") > RankOf(k.floor)
                    THEN "deep-reasoning" ELSE k.floor
               next == [k EXCEPT !.pc = "pin", !.floor = f]
    <2>1. \/ r = next
          \/ r = [next EXCEPT !.pc = "cmd", !.source = "override", !.class = Mentioned(k.task)]
        BY <1>4 DEF ReadRisk, Resolved
    <2>2. f \in Setting
        BY DEF Setting, Tier, Call
    <2> HIDE DEF f
    <2>3. next \in Call /\ Same(next)
        BY <2>2 DEF Call, Pc
    <2> HIDE DEF next, Same
    <2>4. Same([next EXCEPT !.pc = "cmd", !.source = "override", !.class = Mentioned(k.task)])
        BY <1>1, <2>3
    <2>5. Same(r)
        BY <2>1, <2>3, <2>4
    <2> QED
        BY <2>5 DEF Same
<1>5. CASE r = ReadPin(k, t)
    <2>1. \/ r = [k EXCEPT !.pc = "deep-reasoning"]
          \/ r = [k EXCEPT !.pc = "cmd", !.source = "pin", !.class = t.pin]
        BY <1>5 DEF ReadPin, Resolved
    <2> QED
        BY <1>1, <2>1 DEF Call
<1>6. CASE k.pc \in ByWords /\ r = ReadWords(k, t)
    <2> DEFINE hits == IF Hits(t, k.task, k.pc) THEN k.hits \cup {k.pc} ELSE k.hits
               next == [k EXCEPT !.hits = hits]
    <2>1. hits \subseteq ByWords
        BY <1>6 DEF Call
    <2>2. \/ r = [next EXCEPT !.pc = "cheap-fast"]
          \/ r = [next EXCEPT !.pc = "default"]
          \/ r = [next EXCEPT !.pc = "active"]
          \/ r = Floored(next, "deep-reasoning", "keyword")
          \/ r = Floored(next, "cheap-fast", "keyword")
          \/ r = Floored(next, "default", "keyword")
          \/ r = Floored(next, "default", "default")
        BY <1>6, ResolvedIsFloored DEF ReadWords, Classified
    <2> HIDE DEF hits
    <2>3. next \in Call /\ Same(next)
        BY <2>1 DEF Call
    <2> HIDE DEF next
    <2>4. ASSUME NEW pc PROVE Same([next EXCEPT !.pc = pc])
        BY <2>3 DEF Call
    <2> HIDE DEF Same
    <2>5. Same(r)
        BY <1>2, <2>2, <2>3, <2>4
    <2> QED
        BY <2>5 DEF Same
<1> QED
    BY <1>3, <1>4, <1>5, <1>6

\* Every step of a decision leaves one that follows from what it has found.
LEMMA ReadsAreTraced ==
    ASSUME NEW k \in Call, NEW t \in Store, NEW P, CallInv(k, P), Traced(k), NEW r,
           \/ k.pc = "floor" /\ r = ReadFloor(k, t)
           \/ k.pc = "risk" /\ r = ReadRisk(k, t)
           \/ k.pc = "pin" /\ r = ReadPin(k, t)
    PROVE  Traced(r)
<1>1. k.source = Unset /\ k.reply = Unset /\ ~k.declared
    BY DEF CallInv, Traced
<1>2. r.reply = Unset /\ ~r.declared
    BY <1>1, LadderKeeps
<1>3. r.source \in {Unset, "override", "pin"}
    <2>1. CASE r = ReadFloor(k, t)
        BY <1>1, <2>1 DEF ReadFloor, Call
    <2>2. CASE k.pc = "risk" /\ r = ReadRisk(k, t)
        BY <1>1, <2>2, ReadRiskCall
    <2>3. CASE r = ReadPin(k, t)
        BY <1>1, <2>3 DEF ReadPin, Resolved, Call
    <2> QED
        BY <2>1, <2>2, <2>3
<1> QED
    BY <1>2, <1>3, SourcesApart DEF Traced

LEMMA WordsAreTraced ==
    ASSUME NEW k \in Call, NEW t \in Store, NEW P, k.pc \in ByWords, CallInv(k, P), Traced(k)
    PROVE  Traced(ReadWords(k, t))
<1> DEFINE hits == IF Hits(t, k.task, k.pc) THEN k.hits \cup {k.pc} ELSE k.hits
           next == [k EXCEPT !.hits = hits]
           r == ReadWords(k, t)
<1>1. k.source = Unset /\ k.reply = Unset /\ ~k.declared
    BY DEF CallInv, Traced, ByWords
<1>2. r.reply = Unset /\ ~r.declared
    BY <1>1, LadderKeeps
<1>3. r = IF k.pc = "deep-reasoning" THEN [next EXCEPT !.pc = "cheap-fast"]
          ELSE IF k.pc = "cheap-fast" THEN [next EXCEPT !.pc = "default"]
          ELSE Classified(next)
    BY DEF ReadWords
<1>4. hits \subseteq ByWords
    BY DEF Call
<1> HIDE DEF hits, r
<1>5. next \in Call /\ next.source = Unset /\ next.reply = Unset
    BY <1>1, <1>4 DEF Call
<1> HIDE DEF next
<1>6. CASE \E pc : r = [next EXCEPT !.pc = pc]
    <2>1. r.source = Unset
        BY <1>5, <1>6 DEF Call
    <2> QED
        BY <1>2, <2>1, SourcesApart DEF Traced, r
<1>7. CASE r = Classified(next) /\ ~(next.hits = {} /\ next.triage)
    <2>1. PICK class \in {"deep-reasoning", "cheap-fast", "default"}, source \in {"keyword", "default"} :
             r = Floored(next, class, source) /\ class = Chosen(next)
        BY <1>5, <1>7, ClassifiedFinds
    <2>2. class \in Tier /\ source \in BelowPin /\ source \notin ByModel
        BY <2>1, SourcesApart DEF Tier, BelowPin
    <2> QED
        BY <1>5, <1>7, <2>1, <2>2, SettledIsTraced DEF r
<1>8. CASE r = Classified(next) /\ next.hits = {} /\ next.triage
    BY <1>5, <1>6, <1>8, ClassifiedFinds
<1> QED
    BY <1>3, <1>6, <1>7, <1>8

LEMMA CompletionIsTraced ==
    ASSUME NEW k \in Call, NEW t \in Store, NEW P, CallInv(k, P), Traced(k), NEW r,
           \/ k.pc = "active" /\ r = ReadActive(k, t)
           \/ k.pc = "spec" /\ r = ReadSpec(k, t)
           \/ k.pc = "cmd" /\ r = ReadCmd(k, t)
           \/ k.pc = "reply" /\ \E answer \in Reply : r = Answered(k, answer)
    PROVE  Traced(r)
<1>1. CASE k.pc = "active" /\ r = ReadActive(k, t)
    <2>1. k.source = Unset /\ k.reply = Unset /\ ~k.declared
        BY <1>1 DEF CallInv, Traced
    <2>2. r.source = Unset /\ r.reply = Unset /\ ~r.declared
        BY <1>1, <2>1 DEF ReadActive, Call
    <2> QED
        BY <2>2, SourcesApart DEF Traced
<1>2. CASE k.pc = "spec" /\ r = ReadSpec(k, t)
    <2> DEFINE p == IF k.provider \in t.spec THEN k.provider ELSE Shipped
               d == k.provider \in t.spec
    <2>1. k.source = Unset /\ k.reply = Unset
        BY <1>2 DEF CallInv, Traced
    <2>2. r = [[[k EXCEPT !.pc = "reply"] EXCEPT !.declared = d] EXCEPT !.provider = p]
        BY <1>2 DEF ReadSpec
    <2> HIDE DEF p, d
    <2>3. r.source = Unset /\ r.reply = Unset /\ r.pc = "reply"
        BY <2>1, <2>2 DEF Call
    <2> QED
        BY <2>3, SourcesApart DEF Traced
<1>3. CASE k.pc = "cmd" /\ r = ReadCmd(k, t)
    <2>1. SameFinds(k, r) /\ r.pc = "done" /\ r.source = k.source /\ r.class = k.class
        BY <1>3 DEF ReadCmd, Call, SameFinds
    <2>2. Chosen(r) = Chosen(k)
        BY <2>1 DEF Chosen, SameFinds
    <2> QED
        BY <1>3, <2>1, <2>2 DEF Traced, SameFinds
<1>4. CASE k.pc = "reply" /\ \E answer \in Reply : r = Answered(k, answer)
    <2>1. PICK answer \in Reply : r = Answered(k, answer)
        BY <1>4
    <2>2. k.hits = {} /\ k.triage
        BY <1>4 DEF CallInv, Asking
    <2> DEFINE next == [k EXCEPT !.reply = answer]
    <2>3. next \in Call /\ next.hits = {} /\ next.triage /\ next.reply = answer
        BY <2>2, AnsweredFinds
    <2>4. PICK class \in Tier, source \in BelowPin :
             /\ r = Floored(next, class, source)
             /\ class = Chosen(next)
             /\ source \in ByModel => Parse(answer).tier \in Tier
        BY <2>1, <2>2, AnsweredFinds
    <2> HIDE DEF next
    <2> QED
        BY <2>3, <2>4, SettledIsTraced
<1> QED
    BY <1>1, <1>2, <1>3, <1>4

\* A store that is read shows what any adjacent store shows, or else that one is
\* as good as it for all that was read before.
LEMMA ReadFits ==
    ASSUME NEW k \in Call, NEW s \in Store, NEW t \in Store, NEW P, CallInv(k, P), Traced(k),
           Fits(k, s), Adjacent(s, t), NEW r,
           \/ k.pc = "floor" /\ r = ReadFloor(k, t)
           \/ k.pc = "risk" /\ r = ReadRisk(k, t)
           \/ k.pc = "pin" /\ r = ReadPin(k, t)
           \/ k.pc \in ByWords /\ r = ReadWords(k, t)
           \/ k.pc = "active" /\ r = ReadActive(k, t)
           \/ k.pc = "spec" /\ r = ReadSpec(k, t)
           \/ k.pc = "cmd" /\ r = ReadCmd(k, t)
    PROVE  Fits(r, s) \/ Fits(r, t)
<1>1. k.pc \in Aspect
    BY DEF Aspect, WordClass, ByWords
<1>2. ASSUME NEW u \in Store, Fits(k, u), View(u, k.pc) = View(t, k.pc)
      PROVE  Fits(r, u)
    <2>1. FitsLadder(k, u) /\ FitsCompletion(k, u)
        BY <1>2 DEF Fits
    <2>2. CASE k.pc = "floor" /\ r = ReadFloor(k, t)
        <3>1. u.floor = t.floor
            BY <1>2, <2>2 DEF View, WordClass, ByWords
        <3> QED
            BY <2>1, <2>2, <3>1, FloorFits DEF Fits
    <2>3. CASE k.pc = "risk" /\ r = ReadRisk(k, t)
        <3>1. VocabularyOf(u, "risk") = VocabularyOf(t, "risk")
            BY <1>2, <2>3 DEF View, WordClass
        <3> QED
            BY <2>1, <2>3, <3>1, RiskFits DEF Fits
    <2>4. CASE k.pc = "pin" /\ r = ReadPin(k, t)
        <3>1. u.pin = t.pin
            BY <1>2, <2>4 DEF View, WordClass, ByWords
        <3> QED
            BY <2>1, <2>4, <3>1, PinFits DEF Fits
    <2>5. CASE k.pc \in ByWords /\ r = ReadWords(k, t)
        <3>1. VocabularyOf(u, k.pc) = VocabularyOf(t, k.pc)
            BY <1>2, <2>5 DEF View, WordClass
        <3> QED
            BY <2>1, <2>5, <3>1, WordsFits DEF Fits
    <2>6. CASE k.pc = "active" /\ r = ReadActive(k, t)
        <3>1. u.active = t.active /\ ~k.declared
            BY <1>2, <2>6 DEF View, WordClass, ByWords, Traced
        <3> QED
            BY <2>1, <2>6, <3>1, ActiveFits DEF Fits
    <2>7. CASE k.pc = "spec" /\ r = ReadSpec(k, t)
        <3>1. u.spec = t.spec
            BY <1>2, <2>7 DEF View, WordClass, ByWords
        <3> QED
            BY <2>1, <2>7, <3>1, SpecFits DEF Fits
    <2>8. CASE k.pc = "cmd" /\ r = ReadCmd(k, t)
        <3>1. u.cmd = t.cmd
            BY <1>2, <2>8 DEF View, WordClass, ByWords
        <3> QED
            BY <2>1, <2>8, <3>1, CmdFits DEF Fits
    <2> QED
        BY <2>2, <2>3, <2>4, <2>5, <2>6, <2>7, <2>8
<1>3. CASE View(s, k.pc) = View(t, k.pc)
    BY <1>2, <1>3
<1>4. CASE View(s, k.pc) # View(t, k.pc)
    <2>1. \A b \in Aspect \ {k.pc} : View(s, b) = View(t, b)
        BY <1>1, <1>4 DEF Adjacent
    <2>2. Fits(k, t)
        BY <2>1, FitsBoth
    <2> QED
        BY <1>2, <2>2
<1> QED
    BY <1>3, <1>4

\* A changed store differs from the one before in one aspect, and as long as there
\* were but two it joins at most one other.
LEMMA BecomesKeepsAtomic ==
    ASSUME Inv, AtomicInv, NEW s \in Store, Adjacent(store, s), Becomes(s), Changing, UNCHANGED call
    PROVE  AtomicInv'
<1> SUFFICES ASSUME call # Unset PROVE AtomicInv'
    BY DEF AtomicInv
<1>1. Deciding /\ store \in past /\ past' = past \cup {s}
    BY DEF Becomes, Changing, Inv
<1>2. Traced(call')
    BY DEF AtomicInv
<1>3. ASSUME Narrow(past') PROVE \A t, u \in past' : Adjacent(t, u)
    <2>1. Narrow(past)
        BY <1>1, <1>3 DEF Narrow
    <2>2. \A t, u \in past : Adjacent(t, u)
        BY <2>1 DEF AtomicInv
    <2>3. Adjacent(s, store) /\ Adjacent(s, s)
        BY AdjacentIsSymmetric, AdjacentIsReflexive
    <2>4. \A t \in past : t = store \/ t = s \/ s = store
        BY <1>1, <1>3 DEF Narrow
    <2>5. \A t \in past : Adjacent(t, s) /\ Adjacent(s, t)
        BY <1>1, <2>2, <2>3, <2>4
    <2> QED
        BY <1>1, <2>2, <2>3, <2>5
<1>4. ASSUME Narrow(past') PROVE \E t \in past' : Fits(call', t)
    <2>1. Narrow(past)
        BY <1>1, <1>4 DEF Narrow
    <2> QED
        BY <1>1, <2>1 DEF AtomicInv
<1> QED
    BY <1>2, <1>3, <1>4 DEF AtomicInv

LEMMA ReadKeepsAtomic == Inv /\ AtomicInv /\ Read => AtomicInv'
<1> SUFFICES ASSUME Inv, AtomicInv, Read PROVE AtomicInv'
    OBVIOUS
<1>1. /\ call \in Call /\ CallInv(call, past) /\ Traced(call) /\ call # Unset
      /\ store \in Store /\ store \in past /\ past \subseteq Store
    BY DEF Read, Inv, TypeOK, Deciding, AtomicInv
<1>2. PICK r : /\ call' = r /\ past' = past
               /\ \/ call.pc = "floor" /\ r = ReadFloor(call, store)
                  \/ call.pc = "risk" /\ r = ReadRisk(call, store)
                  \/ call.pc = "pin" /\ r = ReadPin(call, store)
                  \/ call.pc \in ByWords /\ r = ReadWords(call, store)
                  \/ call.pc = "active" /\ r = ReadActive(call, store)
                  \/ call.pc = "spec" /\ r = ReadSpec(call, store)
                  \/ call.pc = "cmd" /\ r = ReadCmd(call, store)
    BY DEF Read, Goes
<1>3. Traced(r)
    BY <1>1, <1>2, ReadsAreTraced, WordsAreTraced, CompletionIsTraced
<1>4. ASSUME Narrow(past) PROVE \E s \in past : Fits(r, s)
    <2>1. PICK s \in past : Fits(call, s) /\ Adjacent(s, store)
        BY <1>1, <1>4 DEF AtomicInv
    <2>2. Fits(r, s) \/ Fits(r, store)
        BY <1>1, <1>2, <2>1, ReadFits
    <2> QED
        BY <1>1, <2>1, <2>2
<1> QED
    BY <1>1, <1>2, <1>3, <1>4 DEF AtomicInv

LEMMA AnswerKeepsAtomic == Inv /\ AtomicInv /\ Answer => AtomicInv'
<1> SUFFICES ASSUME Inv, AtomicInv, Answer PROVE AtomicInv'
    OBVIOUS
<1>1. /\ call \in Call /\ CallInv(call, past) /\ Traced(call) /\ call # Unset
      /\ call.pc = "reply" /\ past \subseteq Store /\ store \in Store
    BY DEF Answer, Inv, TypeOK, Deciding, AtomicInv
<1>2. PICK answer \in Reply : call' = Answered(call, answer) /\ past' = past
    BY DEF Answer, Goes
<1>3. Traced(call')
    <2> DEFINE r == Answered(call, answer)
    <2>1. \E a \in Reply : r = Answered(call, a)
        OBVIOUS
    <2> HIDE DEF r
    <2>2. Traced(r)
        BY <1>1, <2>1, CompletionIsTraced
    <2> QED
        BY <1>2, <2>2 DEF r
<1>4. \A s \in past : Fits(call, s) => Fits(call', s)
    BY <1>1, <1>2, AnswerFits DEF Fits
<1> QED
    BY <1>1, <1>2, <1>3, <1>4 DEF AtomicInv

LEMMA AskKeepsAtomic ==
    ASSUME Inv, NEW task \in Task, NEW triage \in BOOLEAN, Ask(task, triage)
    PROVE  AtomicInv'
<1>1. /\ call'.pc = "floor" /\ call'.source = Unset /\ call'.hits = {} /\ call'.reply = Unset
      /\ ~call'.declared /\ past' = {store}
    BY DEF Ask
<1>2. Traced(call')
    BY <1>1, SourcesApart DEF Traced
<1>3. Looked(call') = {}
    BY <1>1, SourcesApart DEF Looked, Asking
<1>4. Fits(call', store)
    BY <1>1, <1>3, SourcesApart DEF Fits, FitsLadder, FitsCompletion, ByWords, Asking
<1>5. Adjacent(store, store)
    BY AdjacentIsReflexive
<1> QED
    BY <1>1, <1>2, <1>4, <1>5 DEF AtomicInv

LEMMA StepAtomic == Inv /\ AtomicInv /\ [Next]_vars => AtomicInv'
<1> SUFFICES ASSUME Inv, AtomicInv, [Next]_vars PROVE AtomicInv'
    OBVIOUS
<1>1. CASE Write
    <2>1. PICK s \in Edits(store) : Becomes(s)
        BY <1>1 DEF Write
    <2>2. s \in Store /\ Adjacent(store, s)
        BY <2>1, EditsAreStores, EditsAreAdjacent DEF Inv, TypeOK
    <2> QED
        BY <1>1, <2>1, <2>2, BecomesKeepsAtomic DEF Write
<1>2. CASE Seed
    <2>1. seeding \in 1 .. 10 /\ store \in Store
        BY <1>2 DEF Seed, Inv, TypeOK
    <2>2. CASE Becomes(Seeded(seeding, store))
        <3>1. Seeded(seeding, store) \in Store /\ Adjacent(store, Seeded(seeding, store))
            BY <2>1, SeededIsStore, SeededIsAdjacent
        <3> QED
            BY <1>2, <2>2, <3>1, BecomesKeepsAtomic DEF Seed
    <2>3. CASE UNCHANGED <<store, past>>
        BY <1>2, <2>3 DEF Seed, AtomicInv
    <2> QED
        BY <1>2, <2>2, <2>3 DEF Seed
<1>3. CASE StartSeeding
    BY <1>3 DEF StartSeeding, AtomicInv
<1>4. CASE \E task \in Task, triage \in BOOLEAN : Ask(task, triage)
    BY <1>4, AskKeepsAtomic
<1>5. CASE UNCHANGED vars
    BY <1>5 DEF vars, AtomicInv
<1> QED
    BY <1>1, <1>2, <1>3, <1>4, <1>5, ReadKeepsAtomic, AnswerKeepsAtomic DEF Next

\* Unless a user writes, every step leaves the ladder what it is over an empty store.
LEMMA ReadKeepsSeeding == Inv /\ AtomicInv /\ SeedingInv /\ Read => SeedingInv'
<1> SUFFICES ASSUME Inv, AtomicInv, SeedingInv, Read, writes = 0 PROVE SeedingInv'
    BY DEF Read, Goes, SeedingInv
<1> DEFINE s == Unseeded
           k == call
           t == store
<1>1. k \in Call /\ CallInv(k, past) /\ t \in Store /\ k # Unset /\ Traced(k)
    BY DEF Read, Inv, TypeOK, Deciding, AtomicInv
<1>2. Pristine(t) /\ FitsLadder(k, s) /\ k.provider \in {Unset, Shipped} /\ k.cmd # "own"
    BY <1>1 DEF SeedingInv
<1>3. /\ s.floor = t.floor /\ s.pin = t.pin
      /\ \A c \in WordClass : VocabularyOf(s, c) = VocabularyOf(t, c)
      /\ t.active \in {Unset, Shipped} /\ \A u \in Tier : t.cmd[u] # "own"
    BY <1>2 DEF Pristine, Unseeded, VocabularyOf
<1> HIDE DEF s
<1> DEFINE Good(r) == FitsLadder(r, s) /\ r.provider \in {Unset, Shipped} /\ r.cmd # "own"
<1>4. ASSUME k.pc = "floor" /\ call' = ReadFloor(k, t)
      PROVE  Good(call')
    <2>1. FitsLadder(ReadFloor(k, t), s)
        BY <1>1, <1>2, <1>3, <1>4, FloorFits
    <2> QED
        BY <1>1, <1>2, <1>4, <2>1, LadderKeeps
<1>5. ASSUME k.pc = "risk" /\ call' = ReadRisk(k, t)
      PROVE  Good(call')
    <2>1. FitsLadder(ReadRisk(k, t), s)
        BY <1>1, <1>2, <1>3, <1>5, RiskFits DEF WordClass
    <2> QED
        BY <1>1, <1>2, <1>5, <2>1, LadderKeeps
<1>6. ASSUME k.pc = "pin" /\ call' = ReadPin(k, t)
      PROVE  Good(call')
    <2>1. FitsLadder(ReadPin(k, t), s)
        BY <1>1, <1>2, <1>3, <1>6, PinFits
    <2> QED
        BY <1>1, <1>2, <1>6, <2>1, LadderKeeps
<1>7. ASSUME k.pc \in ByWords /\ call' = ReadWords(k, t)
      PROVE  Good(call')
    <2>1. FitsLadder(ReadWords(k, t), s)
        BY <1>1, <1>2, <1>3, <1>7, WordsFits DEF WordClass
    <2> QED
        BY <1>1, <1>2, <1>7, <2>1, LadderKeeps
<1>8. ASSUME k.pc = "active" /\ call' = ReadActive(k, t)
      PROVE  Good(call')
    BY <1>1, <1>2, <1>3, <1>8, ActiveFits
<1>9. ASSUME k.pc = "spec" /\ call' = ReadSpec(k, t)
      PROVE  Good(call')
    BY <1>1, <1>2, <1>3, <1>9, SpecFits
<1>10. ASSUME k.pc = "cmd" /\ call' = ReadCmd(k, t)
       PROVE  Good(call')
    BY <1>1, <1>2, <1>3, <1>10, CmdFits
<1>11. Good(call')
    BY <1>4, <1>5, <1>6, <1>7, <1>8, <1>9, <1>10 DEF Read, Goes
<1> QED
    BY <1>2, <1>11 DEF Read, Goes, SeedingInv, s

LEMMA StepSeeding == Inv /\ AtomicInv /\ SeedingInv /\ [Next]_vars => SeedingInv'
<1> SUFFICES ASSUME Inv, AtomicInv, SeedingInv, [Next]_vars PROVE SeedingInv'
    OBVIOUS
<1>1. CASE Write
    BY <1>1 DEF Write, SeedingInv, Inv, TypeOK
<1>2. CASE Seed
    <2>1. seeding \in 1 .. 10 /\ store \in Store
        BY <1>2 DEF Seed, Inv, TypeOK
    <2>2. store' \in {store, Seeded(seeding, store)}
        BY <1>2 DEF Seed, Becomes
    <2>3. Pristine(store) => Pristine(store')
        BY <2>1, <2>2, SeededIsAdjacent
    <2> QED
        BY <1>2, <2>3 DEF Seed, SeedingInv
<1>3. CASE StartSeeding
    BY <1>3 DEF StartSeeding, SeedingInv
<1>4. CASE Answer
    <2>1. /\ call \in Call /\ CallInv(call, past) /\ call # Unset /\ call.pc = "reply"
        BY <1>4 DEF Answer, Inv, TypeOK, Deciding
    <2>2. PICK answer \in Reply : call' = Answered(call, answer)
        BY <1>4 DEF Answer, Goes
    <2>3. writes = 0 => FitsLadder(call', Unseeded) /\ call'.provider = call.provider /\ call'.cmd = call.cmd
        BY <2>1, <2>2, AnswerFits DEF SeedingInv
    <2> QED
        BY <1>4, <2>1, <2>3 DEF Answer, Goes, SeedingInv
<1>5. CASE \E task \in Task, triage \in BOOLEAN : Ask(task, triage)
    <2>1. /\ call'.pc = "floor" /\ call'.source = Unset /\ call'.hits = {}
          /\ call'.provider = Unset /\ call'.cmd = Unset
          /\ store' = store /\ writes' = writes
        BY <1>5 DEF Ask
    <2>2. Looked(call') = {}
        BY <2>1, SourcesApart DEF Looked, Asking
    <2>3. FitsLadder(call', Unseeded)
        BY <2>1, <2>2, SourcesApart DEF FitsLadder, ByWords, Asking
    <2> QED
        BY <2>1, <2>3, NothingIsNoName DEF SeedingInv
<1>6. CASE UNCHANGED vars
    BY <1>6 DEF vars, SeedingInv
<1> QED
    BY <1>1, <1>2, <1>3, <1>4, <1>5, <1>6, ReadKeepsSeeding DEF Next

LEMMA InitAtomic == Init => AtomicInv /\ SeedingInv
<1> SUFFICES ASSUME Init PROVE AtomicInv /\ SeedingInv
    OBVIOUS
<1>1. Pristine(Unseeded) /\ Pristine(FullySeeded)
    BY NothingIsNoName DEF Pristine, Unseeded, FullySeeded, VocabularyOf
<1> QED
    BY <1>1 DEF Init, AtomicInv, SeedingInv

\* The stores of a decision are finitely many.
LEMMA StepFinite == IsFiniteSet(past) /\ [Next]_vars => IsFiniteSet(past')
<1> SUFFICES ASSUME IsFiniteSet(past), [Next]_vars PROVE IsFiniteSet(past')
    OBVIOUS
<1>1. past' = past \/ \E s : past' = past \cup {s} \/ past' = {s}
    BY DEF Next, vars, Write, StartSeeding, Seed, Becomes, Read, Answer, Goes, Ask
<1> QED
    <2>1. ASSUME NEW s PROVE IsFiniteSet(past \cup {s}) /\ IsFiniteSet({s})
        BY FS_AddElement, FS_Singleton
    <2> QED
        BY <1>1, <2>1

THEOREM DecisionInvariant == Spec => [](Inv /\ AtomicInv /\ SeedingInv /\ IsFiniteSet(past))
<1> DEFINE I == Inv /\ AtomicInv /\ SeedingInv /\ IsFiniteSet(past)
<1>1. Init => I
    BY InitInv, InitAtomic, FS_EmptySet DEF Init
<1>2. I /\ [Next]_vars => I'
    BY StepInv, StepAtomic, StepSeeding, StepFinite
<1> QED
    BY <1>1, <1>2, PTL DEF Spec

-----------------------------------------------------------------------------
(* What follows from them. *)

Highest(tiers) == CHOOSE t \in tiers : \A u \in tiers : Rank[u] <= Rank[t]

\* The tier raised to the floor found is the highest of it and all floors.
LEMMA FloorIsHighest ==
    ASSUME NEW s \in Store, NEW task, NEW class \in Tier, NEW floors,
           floors = ({s.floor} \cap Tier) \cup IF Hits(s, task, "risk") THEN {"deep-reasoning"} ELSE {}
    PROVE  AtFloor(FloorOf(s, task), class) = Highest(floors \cup {class})
<1> DEFINE top == AtFloor(FloorOf(s, task), class)
           all == floors \cup {class}
           IsTop(t) == \A u \in all : Rank[u] <= Rank[t]
<1>1. \A t, u \in Tier : Rank[t] = Rank[u] => t = u
    BY DEF Rank, Tier
<1>2. all \subseteq Tier /\ "deep-reasoning" \in Tier
    BY DEF Tier
<1>3. top \in all /\ IsTop(top)
    <2>1. RankOf(Unset) = 1 /\ RankOf(Typo) = 1
        BY Names DEF RankOf
    <2>2. s.floor \in Tier \/ RankOf(s.floor) = 1
        BY <2>1, SettingsAreTiers DEF Store
    <2>3. RankOf(class) \in 0 .. 3 /\ \A t \in Tier : RankOf(t) = Rank[t] /\ Rank[t] \in 0 .. 3
        BY Ranks
    <2>4. CASE Hits(s, task, "risk") /\ 2 > RankOf(s.floor)
        <3>1. FloorOf(s, task) = "deep-reasoning" /\ all = ({s.floor} \cap Tier) \cup {"deep-reasoning", class}
            BY <2>4, <2>3, <1>2, Ranks DEF FloorOf
        <3> QED
            BY <1>2, <2>2, <2>3, <2>4, <3>1, Ranks DEF AtFloor
    <2>5. CASE Hits(s, task, "risk") /\ ~(2 > RankOf(s.floor))
        <3>1. s.floor \in Tier
            BY <2>2, <2>5
        <3>2. FloorOf(s, task) = s.floor /\ all = {s.floor, "deep-reasoning", class}
            BY <2>5, <2>3, <1>2, <3>1, Ranks DEF FloorOf
        <3> QED
            BY <1>2, <2>3, <2>5, <3>1, <3>2, Ranks DEF AtFloor
    <2>6. CASE ~Hits(s, task, "risk")
        <3>1. FloorOf(s, task) = s.floor /\ all = ({s.floor} \cap Tier) \cup {class}
            BY <2>6 DEF FloorOf
        <3> QED
            BY <1>2, <2>3, <3>1 DEF AtFloor
    <2> QED
        BY <2>4, <2>5, <2>6
<1>4. \A t \in all : IsTop(t) => t = top
    <2> SUFFICES ASSUME NEW t \in all, IsTop(t) PROVE t = top
        OBVIOUS
    <2>1. Rank[t] <= Rank[top] /\ Rank[top] <= Rank[t]
        BY <1>3
    <2>2. t \in Tier /\ top \in Tier
        BY <1>2, <1>3
    <2> QED
        BY <1>1, <2>1, <2>2, Ranks
<1> HIDE DEF top, all
<1>5. top = CHOOSE t \in all : IsTop(t)
    BY <1>3, <1>4
<1> QED
    BY <1>5 DEF top, all, Highest

\* A decision that a store could have been read for is the store's.
LEMMA FitsDecide ==
    ASSUME NEW k \in Call, NEW s \in Store, NEW P, k.pc = "done", CallInv(k, P), Traced(k),
           FitsLadder(k, s)
    PROVE  \E r \in IF k.reply = Unset THEN Reply ELSE {k.reply} :
               k.class = Decide(s, k.task, k.triage, r)
<1>1. /\ k.class \in Tier /\ k.source \in Source
      /\ IF k.source = "override" THEN k.task.at # {} /\ k.class = Mentioned(k.task)
         ELSE k.task.at = {}
    BY DEF CallInv, Settled
<1>2. Reply # {}
    BY RepliesSpeak
<1>3. CASE k.source = "override"
    BY <1>1, <1>2, <1>3 DEF Decide
<1>4. CASE k.source = "pin"
    <2>1. k.class = s.pin /\ k.task.at = {}
        BY <1>1, <1>4 DEF FitsLadder
    <2> QED
        BY <1>1, <1>2, <2>1 DEF Decide
<1>5. CASE k.source \notin {"override", "pin"}
    <2>1. k.source \in BelowPin
        BY <1>1, <1>5 DEF BelowPin, ByModel, Source
    <2>2. /\ k.task.at = {} /\ s.pin \notin Tier /\ k.floor = FloorOf(s, k.task)
          /\ k.class = AtFloor(k.floor, Chosen(k))
          /\ k.reply # Unset => k.hits = {} /\ k.triage
          /\ k.hits = {} /\ k.triage => k.reply \in Reply
        BY <1>1, <1>5, <2>1 DEF FitsLadder, Traced
    <2>3. Looked(k) = ByWords
        BY <2>1 DEF Looked
    <2>4. k.hits = {c \in ByWords : Hits(s, k.task, c)}
        BY <2>3 DEF FitsLadder
    <2>5. PICK r \in IF k.reply = Unset THEN Reply ELSE {k.reply} : r \in Reply
        BY <1>2 DEF Call
    <2> DEFINE said == Parse(r)
               chosen == IF k.hits = {} /\ k.triage /\ said.tier # Unset
                         THEN IF said.confident THEN said.tier ELSE Escalate(said.tier)
                         ELSE IF "deep-reasoning" \in k.hits THEN "deep-reasoning"
                         ELSE IF "cheap-fast" \in k.hits THEN "cheap-fast" ELSE "default"
               floors == ({s.floor} \cap Tier)
                           \cup IF Hits(s, k.task, "risk") THEN {"deep-reasoning"} ELSE {}
    <2>6. said.tier \in Tier \cup {Unset} /\ Unset \notin Tier /\ Unset \notin Reply
        BY <2>5, ParseIsTier, Names
    <2>7. chosen = Chosen(k)
        <3>1. CASE k.reply = Unset
            <4>1. ~(k.hits = {} /\ k.triage)
                BY <2>2, <2>6, <3>1
            <4> QED
                BY <3>1, <4>1 DEF Chosen
        <3>2. CASE k.reply # Unset
            <4>1. r = k.reply /\ k.hits = {} /\ k.triage
                BY <2>2, <2>5, <3>2
            <4> QED
                BY <2>6, <3>2, <4>1 DEF Chosen
        <3> QED
            BY <3>1, <3>2
    <2>8. chosen \in Tier
        BY <2>6, EscalateIsTier DEF Tier
    <2>9. Decide(s, k.task, k.triage, r) = Highest(floors \cup {chosen})
        BY <2>2, <2>4 DEF Decide, Highest
    <2>10. floors = ({s.floor} \cap Tier) \cup IF Hits(s, k.task, "risk") THEN {"deep-reasoning"} ELSE {}
        OBVIOUS
    <2> HIDE DEF chosen, floors
    <2>11. AtFloor(FloorOf(s, k.task), chosen) = Highest(floors \cup {chosen})
        BY <2>8, <2>10, FloorIsHighest
    <2>12. k.class = Decide(s, k.task, k.triage, r)
        BY <2>2, <2>7, <2>9, <2>11
    <2> QED
        BY <2>12
<1> QED
    BY <1>3, <1>4, <1>5

\* A decision during which one setting changes is the one for the store before
\* the change or for the store after it (RouteDecide and ResolveCompletion read
\* the settings one by one).
THEOREM OneChangeIsAtomicAlways == Spec => []OneChangeIsAtomic
<1>1. Inv /\ AtomicInv /\ IsFiniteSet(past) => OneChangeIsAtomic
    <2> SUFFICES ASSUME Inv, AtomicInv, IsFiniteSet(past), Made, Cardinality(past) <= 2
                 PROVE  \E s \in past, r \in Answers :
                           /\ call.class = Decide(s, call.task, call.triage, r)
                           /\ call.cmd = s.cmd[call.class]
                           /\ call.source \in ByModel => ProviderOf(call, s)
        BY DEF OneChangeIsAtomic, ByModel, ProviderOf
    <2>1. Narrow(past)
        BY AtMostTwo
    <2>2. PICK s \in past : Fits(call, s)
        BY <2>1 DEF AtomicInv, Made
    <2>3. /\ call \in Call /\ s \in Store /\ call.pc = "done" /\ CallInv(call, past) /\ Traced(call)
        BY DEF Made, Inv, TypeOK, AtomicInv
    <2>4. PICK r \in Answers : call.class = Decide(s, call.task, call.triage, r)
        BY <2>2, <2>3, FitsDecide DEF Fits, Answers
    <2>5. call.cmd = s.cmd[call.class] /\ (call.source \in ByModel => ProviderOf(call, s))
        BY <2>2, <2>3 DEF Fits, FitsCompletion
    <2> QED
        BY <2>4, <2>5
<1> QED
    BY <1>1, DecisionInvariant, PTL

\* As long as users have written nothing, seeding or not, a decision is the one
\* for an empty store, by the shipped provider (SeedFloor during RouteDecide).
THEOREM SeedingKeepsDecisionsAlways == Spec => []SeedingKeepsDecisions
<1>1. Inv /\ AtomicInv /\ SeedingInv => SeedingKeepsDecisions
    <2> SUFFICES ASSUME Inv, AtomicInv, SeedingInv, Made, writes = 0
                 PROVE  /\ \E r \in Answers : call.class = Decide(Unseeded, call.task, call.triage, r)
                        /\ call.provider \in {Unset, Shipped} /\ call.cmd # "own"
        BY DEF SeedingKeepsDecisions
    <2>1. /\ call \in Call /\ call # Unset /\ call.pc = "done" /\ CallInv(call, past) /\ Traced(call)
        BY DEF Made, Inv, TypeOK, AtomicInv
    <2>2. FitsLadder(call, Unseeded) /\ call.provider \in {Unset, Shipped} /\ call.cmd # "own"
        BY <2>1 DEF SeedingInv
    <2>3. Unseeded \in Store
        BY DEF Unseeded, Store, Setting, Command
    <2> QED
        BY <2>1, <2>2, <2>3, FitsDecide DEF Answers
<1> QED
    BY <1>1, DecisionInvariant, PTL

LEMMA EscalateRanks ==
    /\ Rank[Escalate("cheap-fast")] = 1 /\ Rank[Escalate("default")] = 2
    /\ Rank[Escalate("deep-reasoning")] = 2 /\ Rank[Escalate("elevate")] = 2
<1>1. Len(TierByRank) = 3 /\ TierByRank[2] = "default" /\ TierByRank[3] = "deep-reasoning"
    BY DEF TierByRank
<1>2. /\ RankOf("cheap-fast") = 0 /\ RankOf("default") = 1
      /\ RankOf("deep-reasoning") = 2 /\ RankOf("elevate") = 3
    BY Ranks DEF Tier
<1>3. /\ Escalate("cheap-fast") = "default" /\ Escalate("default") = "deep-reasoning"
      /\ Escalate("deep-reasoning") = "deep-reasoning" /\ Escalate("elevate") = "deep-reasoning"
    BY <1>1, <1>2 DEF Escalate
<1> QED
    BY <1>3, Ranks

\* An answer in doubt buys a dearer tier than it names (ParseTierReply and the
\* escalation of RouteDecide).
THEOREM UnsureSpendsMoreAlways == Spec => []UnsureSpendsMore
<1>1. Inv /\ AtomicInv => UnsureSpendsMore
    <2> DEFINE reply == call.reply
               named == Tier \cap IF reply.tier \in Tier THEN {reply.tier} ELSE reply.words
               said == Parse(reply)
    <2> SUFFICES ASSUME Inv, AtomicInv, Made, call.source \in ByModel,
                        ~(reply.tier \in Tier /\ reply.sure)
                 PROVE  /\ \A t \in named \ {"elevate"} : Rank[call.class] >= Rank[t]
                        /\ Rank[call.class] >= 2 \/ \E t \in named : Rank[call.class] > Rank[t]
        BY DEF UnsureSpendsMore, ByModel
    <2>1. Traced(call) /\ call.source \in BelowPin
        BY SourcesApart DEF Made, AtomicInv
    <2>2. /\ reply \in Reply /\ said.tier \in Tier /\ reply # Unset /\ call.hits = {}
          /\ call.class = AtFloor(call.floor, Chosen(call))
        BY <2>1, Names DEF Traced
    <2>3. ~said.confident
        BY DEF Parse
    <2>4. Chosen(call) = Escalate(said.tier)
        BY <2>2, <2>3 DEF Chosen
    <2>5. Rank[call.class] \in 0 .. 3 /\ Rank[call.class] >= Rank[Escalate(said.tier)]
        <3>1. Escalate(said.tier) \in Tier
            BY <2>2, EscalateIsTier
        <3>2. call.class \in Tier
            BY <2>2, <2>4, <3>1 DEF AtFloor
        <3>3. RankOf(call.class) >= RankOf(Escalate(said.tier))
            BY <2>2, <2>4, <3>1, Ranks DEF AtFloor
        <3> QED
            BY <3>1, <3>2, <3>3, Ranks
    <2>6. reply.words \subseteq Tier
        BY <2>2, RepliesSpeak
    <2>7. CASE reply.tier \in Tier
        <3>1. said.tier = reply.tier /\ named = {reply.tier}
            BY <2>7 DEF Parse
        <3> HIDE DEF named, said
        <3> QED
            BY <2>2, <2>5, <3>1, EscalateRanks, Ranks DEF Tier
    <2>8. CASE reply.tier \notin Tier
        <3>1. named = reply.words
            BY <2>6, <2>8
        <3>2. said.tier = IF "deep-reasoning" \in reply.words THEN "deep-reasoning"
                          ELSE IF "cheap-fast" \in reply.words THEN "cheap-fast"
                          ELSE IF "default" \in reply.words THEN "default" ELSE Unset
            BY <2>8 DEF Parse
        <3> HIDE DEF named, said
        <3>3. CASE "deep-reasoning" \in reply.words
            BY <2>5, <2>6, <3>1, <3>2, <3>3, EscalateRanks, Ranks DEF Tier
        <3>4. CASE "deep-reasoning" \notin reply.words /\ "cheap-fast" \in reply.words
            BY <2>5, <2>6, <3>1, <3>2, <3>4, EscalateRanks, Ranks DEF Tier
        <3>5. CASE reply.words \cap {"deep-reasoning", "cheap-fast"} = {}
            <4>1. said.tier = "default"
                BY <2>2, <3>2, <3>5, Names
            <4> QED
                BY <2>5, <2>6, <3>1, <3>5, <4>1, EscalateRanks, Ranks DEF Tier
        <3> QED
            BY <3>3, <3>4, <3>5
    <2> QED
        BY <2>7, <2>8
<1> QED
    BY <1>1, DecisionInvariant, PTL

-----------------------------------------------------------------------------
(***************************************************************************)
(* Dispatch.  While the loop runs, the fragment being built is the run of  *)
(* lines just taken, from a delimiter on, and the fragments ended before   *)
(* it are the tasks of the lines before it (CutUpTo).                      *)
(***************************************************************************)

\* The lines before the fragment being built.
Start == taken - Len(cur)

\* A fragment that was ended is a run of lines that opens at the first only, says
\* something and ends before a delimiter or with the message.
IsTask(q) ==
    /\ q \in Seq(Nat) /\ Len(q) > 0 /\ q[1] >= 1 /\ Last(q) <= Len(msg)
    /\ \A a \in 1 .. Len(q) : q[a] = q[1] + a - 1
    /\ \A a \in 1 .. Len(q) : msg[q[a]].opens # "rule" /\ (a > 1 => msg[q[a]].opens = "nothing")
    /\ \E a \in 1 .. Len(q) : Says(q[a])
    /\ Last(q) < Len(msg) => msg[Last(q) + 1].opens # "nothing"

\* The tasks of the first lines of the message.
CutUpTo(T, n) ==
    /\ T \in Seq(Seq(Nat))
    /\ \A i \in 1 .. Len(T) : IsTask(T[i]) /\ Last(T[i]) <= n
    /\ \A i, j \in 1 .. Len(T) : i < j => Last(T[i]) < T[j][1]
    /\ \A l \in 1 .. n : Says(l) /\ msg[l].opens # "rule" =>
          \E i \in 1 .. Len(T) : \E a \in 1 .. Len(T[i]) : T[i][a] = l

\* What holds between two lines.
Loop ==
    /\ taken \in 0 .. Len(msg) /\ cur \in Seq(Nat) /\ Len(cur) <= taken
    /\ \A a \in 1 .. Len(cur) : cur[a] = Start + a
    /\ \A n \in Start + 1 .. taken : msg[n].opens # "rule" /\ (n > Start + 1 => msg[n].opens = "nothing")
    /\ delimited <=> \E n \in 1 .. taken : msg[n].opens # "nothing"
    /\ CutUpTo(tasks, Start)

SplitInv ==
    /\ msg \in Seq(Line)
    /\ stage = "received" => Loop
    /\ EveryLineOnce /\ CutAtDelimiters

LEMMA TaskEnds ==
    ASSUME NEW q, IsTask(q)
    PROVE  q[1] \in Nat /\ Last(q) \in Nat /\ Len(q) \in Nat /\ Len(q) > 0
<1>1. q \in Seq(Nat) /\ Len(q) > 0
    BY DEF IsTask
<1> QED
    BY <1>1 DEF Last

LEMMA InitSplit == DInit => SplitInv
<1> SUFFICES ASSUME DInit PROVE SplitInv
    OBVIOUS
<1>1. msg \in Seq(Line) /\ Len(msg) \in Nat
    BY MessagesAreLines DEF DInit
<1>2. cur = <<>> /\ taken = 0 /\ tasks = <<>> /\ stage = "received"
    BY DEF DInit
<1>3. Start = 0
    <2>1. Len(<<>>) = 0
        OBVIOUS
    <2>2. Len(cur) = 0
        BY <1>2, <2>1, Zenon
    <2>3. taken = 0
        BY <1>2
    <2> QED
        BY <2>2, <2>3 DEF Start
<1>4. CutUpTo(tasks, 0)
    BY <1>2 DEF CutUpTo
<1>5. Loop
    BY <1>1, <1>2, <1>3, <1>4 DEF DInit, Loop
<1> QED
    BY <1>1, <1>2, <1>5 DEF SplitInv, EveryLineOnce, CutAtDelimiters

\* Ending the fragment where the next line is a delimiter, or there is none, cuts
\* all lines taken.
LEMMA FlushCuts ==
    ASSUME msg \in Seq(Line), Loop, taken = Len(msg) \/ msg[taken + 1].opens # "nothing"
    PROVE  CutUpTo(Flushed, taken)
<1> DEFINE c == Len(cur)
           N == Len(tasks)
<1>1. /\ c \in Nat /\ taken \in Nat /\ Start \in Nat /\ Start <= taken /\ Len(msg) \in Nat
      /\ Start + c = taken /\ taken <= Len(msg) /\ cur \in Seq(Nat)
    BY DEF Loop, Start
<1>2. \A a \in 1 .. c : cur[a] = Start + a
    BY DEF Loop
<1>3. \A n \in Start + 1 .. taken : msg[n].opens # "rule" /\ (n > Start + 1 => msg[n].opens = "nothing")
    BY DEF Loop
<1>4. /\ tasks \in Seq(Seq(Nat)) /\ N \in Nat
      /\ \A i \in 1 .. N : IsTask(tasks[i]) /\ Last(tasks[i]) <= Start
      /\ \A i, j \in 1 .. N : i < j => Last(tasks[i]) < tasks[j][1]
      /\ \A l \in 1 .. Start : Says(l) /\ msg[l].opens # "rule" =>
            \E i \in 1 .. N : \E a \in 1 .. Len(tasks[i]) : tasks[i][a] = l
    BY DEF Loop, CutUpTo
<1>5. \A i \in 1 .. N : Last(tasks[i]) \in Nat
    BY <1>4, TaskEnds
<1>6. ToSet(cur) = {cur[a] : a \in 1 .. c}
    BY <1>1 DEF ToSet
<1>7. ASSUME NEW l \in 1 .. taken, l > Start PROVE l - Start \in 1 .. c /\ cur[l - Start] = l
    <2>1. l - Start \in 1 .. c
        BY <1>1, <1>7
    <2> QED
        BY <1>1, <1>2, <2>1
<1> HIDE DEF c
<1>8. CASE \E n \in ToSet(cur) : Says(n)
    <2> DEFINE T == Append(tasks, cur)
    <2>1. Flushed = T
        BY <1>8 DEF Flushed
    <2>2. PICK b \in 1 .. c : Says(cur[b])
        BY <1>6, <1>8
    <2>3. IsTask(cur) /\ cur[1] = Start + 1 /\ Last(cur) = taken
        <3>1. c > 0 /\ cur[1] = Start + 1 /\ Last(cur) = taken
            <4>1. b >= 1 /\ b <= c
                BY <1>1, <2>2
            <4>2. c > 0
                BY <1>1, <4>1
            <4>3. 1 \in 1 .. c /\ c \in 1 .. c
                BY <1>1, <4>2
            <4>4. cur[1] = Start + 1 /\ Last(cur) = Start + c
                BY <1>2, <4>3 DEF Last, c
            <4> QED
                BY <1>1, <4>2, <4>4
        <3>2. \A a \in 1 .. c : cur[a] = cur[1] + a - 1 /\ cur[a] \in Start + 1 .. taken
            BY <1>1, <1>2, <3>1
        <3>3. ASSUME NEW a \in 1 .. c
              PROVE  msg[cur[a]].opens # "rule" /\ (a > 1 => msg[cur[a]].opens = "nothing")
            <4>1. cur[a] \in Start + 1 .. taken /\ (a > 1 => cur[a] > Start + 1)
                BY <1>1, <1>2
            <4> QED
                BY <1>3, <4>1
        <3> QED
            BY <1>1, <2>2, <3>1, <3>2, <3>3 DEF IsTask, c
    <2>4. /\ T \in Seq(Seq(Nat)) /\ Len(T) = N + 1
          /\ \A i \in 1 .. N : T[i] = tasks[i]
          /\ T[N + 1] = cur
        BY <1>1, <1>4
    <2> HIDE DEF T, N
    <2>5. \A i \in 1 .. Len(T) : IsTask(T[i]) /\ Last(T[i]) <= taken
        <3> TAKE i \in 1 .. Len(T)
        <3>1. CASE i \in 1 .. N
            BY <1>1, <1>4, <1>5, <2>4, <3>1
        <3>2. CASE i = N + 1
            BY <1>1, <2>3, <2>4, <3>2 DEF c
        <3> QED
            BY <1>4, <2>4, <3>1, <3>2
    <2>6. \A i, j \in 1 .. Len(T) : i < j => Last(T[i]) < T[j][1]
        <3> SUFFICES ASSUME NEW i \in 1 .. Len(T), NEW j \in 1 .. Len(T), i < j
                     PROVE  Last(T[i]) < T[j][1]
            OBVIOUS
        <3>1. i \in 1 .. N
            BY <1>4, <2>4
        <3>2. CASE j \in 1 .. N
            BY <1>4, <2>4, <3>1, <3>2
        <3>3. CASE j = N + 1
            <4>1. T[i] = tasks[i] /\ T[j] = cur
                BY <2>4, <3>1, <3>3
            <4> QED
                BY <1>1, <1>4, <1>5, <2>3, <3>1, <4>1
        <3> QED
            BY <1>4, <2>4, <3>2, <3>3
    <2>7. ASSUME NEW l \in 1 .. taken, Says(l), msg[l].opens # "rule"
          PROVE  \E i \in 1 .. Len(T) : \E a \in 1 .. Len(T[i]) : T[i][a] = l
        <3>1. CASE l <= Start
            <4>1. PICK i \in 1 .. N : \E a \in 1 .. Len(tasks[i]) : tasks[i][a] = l
                <5>1. l \in 1 .. Start
                    BY <1>1, <3>1
                <5> QED
                    BY <1>4, <2>7, <5>1
            <4>2. i \in 1 .. Len(T) /\ T[i] = tasks[i]
                BY <1>4, <2>4, <4>1
            <4> QED
                BY <4>1, <4>2
        <3>2. CASE l > Start
            <4>1. l - Start \in 1 .. c /\ cur[l - Start] = l
                BY <1>7, <3>2
            <4>2. N + 1 \in 1 .. Len(T) /\ T[N + 1] = cur
                BY <1>4, <2>4
            <4> QED
                BY <4>1, <4>2 DEF c
        <3>3. l <= Start \/ l > Start
            BY <1>1
        <3> QED
            BY <3>1, <3>2, <3>3
    <2> QED
        BY <2>1, <2>4, <2>5, <2>6, <2>7 DEF CutUpTo
<1>9. CASE ~ \E n \in ToSet(cur) : Says(n)
    <2>1. Flushed = tasks
        BY <1>9 DEF Flushed
    <2>2. \A l \in 1 .. taken : Says(l) => l \in 1 .. Start
        <3> SUFFICES ASSUME NEW l \in 1 .. taken, l > Start PROVE ~Says(l)
            BY <1>1
        <3>1. l - Start \in 1 .. c /\ cur[l - Start] = l
            BY <1>7
        <3> QED
            BY <1>6, <1>9, <3>1
    <2>3. \A i \in 1 .. N : IsTask(tasks[i]) /\ Last(tasks[i]) <= taken
        BY <1>1, <1>4, <1>5
    <2>4. \A l \in 1 .. taken : Says(l) /\ msg[l].opens # "rule" =>
            \E i \in 1 .. N : \E a \in 1 .. Len(tasks[i]) : tasks[i][a] = l
        BY <1>4, <2>2
    <2> QED
        BY <1>4, <2>1, <2>3, <2>4 DEF CutUpTo
<1> QED
    BY <1>8, <1>9

LEMMA CutGrows ==
    ASSUME NEW T, NEW m \in Nat, NEW n \in Nat, CutUpTo(T, m), m <= n,
           \A l \in m + 1 .. n : Says(l) => msg[l].opens = "rule"
    PROVE  CutUpTo(T, n)
<1>1. \A i \in 1 .. Len(T) : Last(T[i]) \in Nat /\ Last(T[i]) <= m
    BY TaskEnds DEF CutUpTo
<1>2. \A i \in 1 .. Len(T) : IsTask(T[i]) /\ Last(T[i]) <= n
    BY <1>1 DEF CutUpTo
<1>3. ASSUME NEW l \in 1 .. n, Says(l), msg[l].opens # "rule"
      PROVE  \E i \in 1 .. Len(T) : \E a \in 1 .. Len(T[i]) : T[i][a] = l
    <2>1. l \in 1 .. m
        BY <1>3
    <2> QED
        BY <1>3, <2>1 DEF CutUpTo
<1> QED
    BY <1>2, <1>3 DEF CutUpTo

LEMMA TakeLineKeepsLoop ==
    ASSUME msg \in Seq(Line), Loop, TakeLine
    PROVE  Loop'
<1> DEFINE n == taken + 1
<1>1. /\ taken \in Nat /\ taken < Len(msg) /\ Len(msg) \in Nat /\ taken' = n /\ msg' = msg
      /\ Len(cur) \in Nat /\ Start \in Nat /\ Start + Len(cur) = taken /\ cur \in Seq(Nat)
    BY DEF TakeLine, Loop, Start
<1>2. /\ \A a \in 1 .. Len(cur) : cur[a] = Start + a
      /\ \A l \in Start + 1 .. taken : msg[l].opens # "rule" /\ (l > Start + 1 => msg[l].opens = "nothing")
      /\ CutUpTo(tasks, Start)
    BY DEF Loop
<1>3. delimited <=> \E l \in 1 .. taken : msg[l].opens # "nothing"
    BY Zenon DEF Loop
<1>4. CutUpTo(tasks', Start') => CutUpTo(tasks, Start)'
    BY <1>1 DEF CutUpTo, IsTask, Says
<1>5. CASE msg[n].opens = "rule" /\ tasks' = Flushed /\ cur' = <<>> /\ delimited' = TRUE
    <2>1. Len(cur') = 0
        <3>1. Len(<<>>) = 0
            OBVIOUS
        <3> QED
            BY <1>5, <3>1, Zenon
    <2>2. Start' = n
        BY <1>1, <2>1 DEF Start
    <2>3. CutUpTo(Flushed, taken)
        BY <1>5, FlushCuts
    <2>4. CutUpTo(Flushed, n)
        BY <1>1, <1>5, <2>3, CutGrows
    <2>5. CutUpTo(tasks, Start)'
        BY <1>4, <1>5, <2>2, <2>4
    <2>6. delimited' <=> \E l \in 1 .. taken' : msg'[l].opens # "nothing"
        <3>1. n \in 1 .. taken' /\ msg'[n].opens # "nothing"
            BY <1>1, <1>5
        <3> QED
            BY <1>5, <3>1, Zenon
    <2>7. \A l \in Start' + 1 .. taken' : FALSE
        BY <1>1, <2>2
    <2>8. taken' \in 0 .. Len(msg') /\ cur' \in Seq(Nat) /\ Len(cur') <= taken'
        BY <1>1, <1>5, <2>1
    <2>9. \A a \in 1 .. Len(cur') : FALSE
        BY <2>1
    <2> QED
        BY <2>5, <2>6, <2>7, <2>8, <2>9, Zenon DEF Loop
<1>6. CASE msg[n].opens = "item" /\ tasks' = Flushed /\ cur' = <<n>> /\ delimited' = TRUE
    <2>1. cur' \in Seq(Nat) /\ Len(cur') = 1 /\ cur'[1] = n
        BY <1>1, <1>6
    <2>2. Start' = taken
        BY <1>1, <2>1 DEF Start
    <2>3. CutUpTo(Flushed, taken)
        BY <1>6, FlushCuts
    <2>4. CutUpTo(tasks, Start)'
        BY <1>4, <1>6, <2>2, <2>3
    <2>5. delimited' <=> \E l \in 1 .. taken' : msg'[l].opens # "nothing"
        <3>1. n \in 1 .. taken' /\ msg'[n].opens # "nothing"
            BY <1>1, <1>6
        <3> QED
            BY <1>6, <3>1, Zenon
    <2>6. \A l \in Start' + 1 .. taken' :
             msg'[l].opens # "rule" /\ (l > Start' + 1 => msg'[l].opens = "nothing")
        BY <1>1, <1>6, <2>2
    <2>7. taken' \in 0 .. Len(msg') /\ Len(cur') <= taken'
        BY <1>1, <2>1
    <2>8. \A a \in 1 .. Len(cur') : cur'[a] = Start' + a
        BY <1>1, <2>1, <2>2
    <2> QED
        BY <2>1, <2>4, <2>5, <2>6, <2>7, <2>8, Zenon DEF Loop
<1>7. CASE msg[n].opens = "nothing" /\ cur' = Append(cur, n) /\ UNCHANGED <<tasks, delimited>>
    <2>1. /\ cur' \in Seq(Nat) /\ Len(cur') = Len(cur) + 1 /\ cur'[Len(cur) + 1] = n
          /\ \A a \in 1 .. Len(cur) : cur'[a] = cur[a]
        BY <1>1, <1>7
    <2>2. Start' = Start
        BY <1>1, <2>1 DEF Start
    <2>3. CutUpTo(tasks, Start)'
        BY <1>2, <1>4, <1>7, <2>2
    <2>4. (\E l \in 1 .. taken : msg[l].opens # "nothing") <=> \E l \in 1 .. taken' : msg'[l].opens # "nothing"
        <3>1. \A l \in 1 .. taken : l \in 1 .. taken'
            BY <1>1
        <3>2. \A l \in 1 .. taken' : l \in 1 .. taken \/ l = n
            BY <1>1
        <3> QED
            BY <1>1, <1>7, <3>1, <3>2
    <2>5. delimited' <=> \E l \in 1 .. taken' : msg'[l].opens # "nothing"
        BY <1>3, <1>7, <2>4, Zenon
    <2>6. \A l \in Start' + 1 .. taken' :
             msg'[l].opens # "rule" /\ (l > Start' + 1 => msg'[l].opens = "nothing")
        <3> SUFFICES ASSUME NEW l \in Start + 1 .. n
                     PROVE  msg[l].opens # "rule" /\ (l > Start + 1 => msg[l].opens = "nothing")
            BY <1>1, <2>2
        <3>1. l \in Start + 1 .. taken \/ l = n
            BY <1>1
        <3> QED
            BY <1>2, <1>7, <3>1
    <2>7. taken' \in 0 .. Len(msg') /\ Len(cur') <= taken'
        BY <1>1, <2>1
    <2>8. \A a \in 1 .. Len(cur') : cur'[a] = Start' + a
        <3> SUFFICES ASSUME NEW a \in 1 .. Len(cur) + 1 PROVE cur'[a] = Start + a
            BY <2>1, <2>2
        <3>1. a \in 1 .. Len(cur) \/ a = Len(cur) + 1
            BY <1>1
        <3> QED
            BY <1>1, <1>2, <2>1, <3>1
    <2> QED
        BY <2>1, <2>3, <2>5, <2>6, <2>7, <2>8, Zenon DEF Loop
<1> QED
    BY <1>1, <1>5, <1>6, <1>7 DEF TakeLine

\* The tasks of a message with a delimiter, one of which says something.
LEMMA CutTasks ==
    ASSUME msg \in Seq(Line), CutUpTo(tasks, Len(msg)), tasks # <<>>
    PROVE  EveryLineOnce /\ CutAtDelimiters
<1> DEFINE N == Len(tasks)
<1>1. /\ tasks \in Seq(Seq(Nat)) /\ N \in Nat /\ N > 0 /\ DOMAIN tasks = 1 .. N
      /\ Len(msg) \in Nat /\ DOMAIN msg = 1 .. Len(msg)
    BY DEF CutUpTo
<1>2. /\ \A i \in 1 .. N : IsTask(tasks[i])
      /\ \A i, j \in 1 .. N : i < j => Last(tasks[i]) < tasks[j][1]
      /\ \A l \in 1 .. Len(msg) : Says(l) /\ msg[l].opens # "rule" =>
            \E i \in 1 .. N : \E a \in 1 .. Len(tasks[i]) : tasks[i][a] = l
    BY DEF CutUpTo
<1> HIDE DEF N
<1>3. ASSUME NEW i \in 1 .. N
      PROVE  LET q == tasks[i] IN
             /\ DOMAIN q = 1 .. Len(q) /\ ToSet(q) = {q[a] : a \in 1 .. Len(q)}
             /\ q[1] \in Nat /\ q[1] >= 1 /\ Len(q) \in Nat /\ Last(q) = q[1] + Len(q) - 1
             /\ ToSet(q) = q[1] .. Last(q) /\ Last(q) \in Nat /\ ToSet(q) \subseteq 1 .. Len(msg)
             /\ \A a \in 1 .. Len(q) : q[a] = q[1] + a - 1
             /\ \A l \in ToSet(q) : msg[l].opens # "rule" /\ (l > q[1] => msg[l].opens = "nothing")
             /\ \E l \in ToSet(q) : Says(l)
             /\ Last(q) < Len(msg) => msg[Last(q) + 1].opens # "nothing"
    <2> DEFINE q == tasks[i]
    <2>1. IsTask(q)
        BY <1>2
    <2> HIDE DEF q
    <2>2. /\ q \in Seq(Nat) /\ Len(q) \in Nat /\ Len(q) > 0 /\ DOMAIN q = 1 .. Len(q)
          /\ q[1] \in Nat /\ q[1] >= 1 /\ Last(q) \in Nat /\ Last(q) <= Len(msg)
        <3>1. q \in Seq(Nat) /\ Len(q) > 0 /\ q[1] >= 1 /\ Last(q) <= Len(msg)
            BY <2>1 DEF IsTask
        <3>2. q[1] \in Nat /\ Last(q) \in Nat /\ Len(q) \in Nat
            BY <2>1, TaskEnds
        <3>3. DOMAIN q = 1 .. Len(q)
            BY <3>1
        <3> QED
            BY <3>1, <3>2, <3>3
    <2>3. \A a \in 1 .. Len(q) : q[a] = q[1] + a - 1
        BY <2>1 DEF IsTask
    <2>4. ToSet(q) = {q[a] : a \in 1 .. Len(q)}
        BY <2>2 DEF ToSet
    <2>5. Last(q) = q[1] + Len(q) - 1
        BY <2>2, <2>3 DEF Last
    <2>6. ASSUME NEW l \in q[1] .. Last(q) PROVE l \in ToSet(q)
        <3>1. l - q[1] + 1 \in 1 .. Len(q)
            BY <2>2, <2>5
        <3>2. q[l - q[1] + 1] = l
            BY <2>2, <2>3, <3>1
        <3> QED
            BY <2>4, <3>1, <3>2
    <2>7. ASSUME NEW a \in 1 .. Len(q)
          PROVE  /\ q[a] \in q[1] .. Last(q)
                 /\ msg[q[a]].opens # "rule" /\ (q[a] > q[1] => msg[q[a]].opens = "nothing")
        <3>1. q[a] = q[1] + a - 1
            BY <2>3
        <3>2. q[a] \in q[1] .. Last(q) /\ (q[a] > q[1] => a > 1)
            BY <2>2, <2>5, <3>1
        <3> QED
            BY <2>1, <3>2 DEF IsTask
    <2>8. ToSet(q) = q[1] .. Last(q)
        BY <2>4, <2>6, <2>7
    <2>11. q[1] .. Last(q) \subseteq 1 .. Len(msg)
        BY <1>1, <2>2
    <2>9. \A l \in ToSet(q) : msg[l].opens # "rule" /\ (l > q[1] => msg[l].opens = "nothing")
        BY <2>4, <2>7
    <2>10. (\E l \in ToSet(q) : Says(l)) /\ (Last(q) < Len(msg) => msg[Last(q) + 1].opens # "nothing")
        BY <2>1, <2>4 DEF IsTask
    <2> QED
        BY <2>2, <2>3, <2>4, <2>5, <2>8, <2>9, <2>10, <2>11 DEF q
<1>4. Tasking = {n \in Speaking : msg[n].opens # "rule"} /\ Speaking = {n \in 1 .. Len(msg) : Says(n)}
    <2>3. 1 \in 1 .. N
        BY <1>1
    <2>1. PICK l \in ToSet(tasks[1]) : Says(l)
        BY <1>3, <2>3
    <2>2. l \in 1 .. Len(msg) /\ msg[l].opens # "rule"
        BY <1>3, <2>3
    <2> QED
        BY <1>1, <2>1, <2>2 DEF Tasking, Speaking
<1>5. \A n \in Speaking : (\E i \in 1 .. N : n \in ToSet(tasks[i])) <=> n \in Tasking
    <2> TAKE n \in Speaking
    <2>1. n \in 1 .. Len(msg) /\ Says(n)
        BY <1>4
    <2>2. CASE msg[n].opens # "rule"
        <3>1. PICK i \in 1 .. N : \E a \in 1 .. Len(tasks[i]) : tasks[i][a] = n
            BY <1>2, <2>1, <2>2
        <3>2. n \in ToSet(tasks[i])
            BY <1>3, <3>1
        <3> QED
            BY <1>4, <2>2, <3>2
    <2>3. CASE msg[n].opens = "rule"
        BY <1>3, <1>4, <2>3
    <2> QED
        BY <2>2, <2>3
<1>6. ASSUME NEW i \in 1 .. N, NEW j \in 1 .. N, NEW a \in 1 .. Len(tasks[i]), NEW b \in 1 .. Len(tasks[j]),
             i < j \/ (i = j /\ a < b)
      PROVE  tasks[i][a] < tasks[j][b]
    <2> DEFINE x == tasks[i][a]
               y == tasks[j][b]
               m == Last(tasks[i])
    <2>1. /\ tasks[i][1] \in Nat /\ Len(tasks[i]) \in Nat /\ a \in Nat /\ 1 <= a /\ a <= Len(tasks[i])
          /\ tasks[j][1] \in Nat /\ Len(tasks[j]) \in Nat /\ b \in Nat /\ 1 <= b
        <3>1. Len(tasks[i]) \in Nat /\ Len(tasks[j]) \in Nat /\ tasks[i][1] \in Nat /\ tasks[j][1] \in Nat
            BY <1>3
        <3> QED
            BY <3>1
    <2>2. x = tasks[i][1] + a - 1 /\ y = tasks[j][1] + b - 1 /\ m = tasks[i][1] + Len(tasks[i]) - 1
        BY <1>3
    <2>3. i < j => m < tasks[j][1]
        BY <1>2
    <2>4. i = j => tasks[i][1] = tasks[j][1]
        OBVIOUS
    <2> HIDE DEF x, y, m
    <2> DEFINE u == tasks[i][1]
               v == tasks[j][1]
               c == Len(tasks[i])
    <2>5. u \in Nat /\ v \in Nat /\ c \in Nat
        BY <2>1
    <2>6. a \in Nat /\ b \in Nat /\ a <= c /\ 1 <= b
        BY <2>1
    <2>7. x = u + a - 1 /\ y = v + b - 1 /\ m = u + c - 1
        BY <2>2
    <2>8. m < v \/ (u = v /\ a < b)
        BY <1>6, <2>3, <2>4
    <2> HIDE DEF u, v, c
    <2>9. x < y
        BY <2>5, <2>6, <2>7, <2>8
    <2> QED
        BY <2>9 DEF x, y
<1>7. \A i \in 1 .. N : ToSet(tasks[i]) \cap Tasking # {}
    <2> TAKE i \in 1 .. N
    <2>1. PICK l \in ToSet(tasks[i]) : Says(l)
        BY <1>3
    <2>2. l \in 1 .. Len(msg) /\ msg[l].opens # "rule"
        BY <1>3
    <2> QED
        BY <1>4, <2>1, <2>2
<1>8. EveryLineOnce
    BY <1>1, <1>3, <1>5, <1>6, <1>7 DEF EveryLineOnce
<1>9. \A j, k \in Tasking : j < k =>
         ((\E i \in 1 .. N : {j, k} \subseteq ToSet(tasks[i]))
                <=> (\A n \in (j + 1) .. k : msg[n].opens = "nothing"))
    <2> SUFFICES ASSUME NEW j \in Tasking, NEW k \in Tasking, j < k
                 PROVE  (\E i \in 1 .. N : {j, k} \subseteq ToSet(tasks[i]))
                           <=> (\A n \in (j + 1) .. k : msg[n].opens = "nothing")
        OBVIOUS
    <2>1. j \in 1 .. Len(msg) /\ k \in 1 .. Len(msg) /\ j \in Nat /\ k \in Nat
        BY <1>1, <1>4
    <2>2. ASSUME NEW i \in 1 .. N, {j, k} \subseteq ToSet(tasks[i]), NEW n \in (j + 1) .. k
          PROVE  msg[n].opens = "nothing"
        <3>1. tasks[i][1] <= j /\ k <= Last(tasks[i]) /\ tasks[i][1] \in Nat /\ Last(tasks[i]) \in Nat
            BY <1>3, <2>2
        <3>2. n \in tasks[i][1] .. Last(tasks[i]) /\ n > tasks[i][1]
            BY <2>1, <3>1
        <3> QED
            BY <1>3, <3>2
    <2>3. ASSUME \A n \in (j + 1) .. k : msg[n].opens = "nothing"
          PROVE  \E i \in 1 .. N : {j, k} \subseteq ToSet(tasks[i])
        <3>1. PICK i \in 1 .. N : j \in ToSet(tasks[i])
            BY <1>4, <1>5
        <3>2. tasks[i][1] <= j /\ j <= Last(tasks[i]) /\ Last(tasks[i]) \in Int /\ tasks[i][1] \in Nat
            BY <1>3, <3>1
        <3>3. k <= Last(tasks[i])
            <4> SUFFICES ASSUME k > Last(tasks[i]) PROVE FALSE
                BY <2>1, <3>2
            <4>1. Last(tasks[i]) + 1 \in (j + 1) .. k /\ Last(tasks[i]) < Len(msg)
                BY <1>1, <2>1, <3>2
            <4> QED
                BY <1>3, <2>3, <4>1
        <3>4. k \in tasks[i][1] .. Last(tasks[i])
            BY <2>1, <3>2, <3>3
        <3> QED
            BY <1>3, <3>1, <3>4
    <2> QED
        BY <2>2, <2>3
<1>10. CutAtDelimiters
    <2>1. DOMAIN tasks = 1 .. N
        BY <1>1
    <2>2. \A j, k \in Tasking : j < k =>
             ((\E i \in DOMAIN tasks : {j, k} \subseteq ToSet(tasks[i]))
                    <=> (\A n \in (j + 1) .. k : msg[n].opens = "nothing"))
        BY <1>9, <2>1
    <2> QED
        BY <2>2, Zenon DEF CutAtDelimiters
<1> QED
    BY <1>8, <1>10

\* A message that is one task, or none.
LEMMA WholeTasks ==
    ASSUME msg \in Seq(Line),
           \/ tasks = <<Lines>>
           \/ tasks = <<>> /\ \A n \in 1 .. Len(msg) : ~Says(n),
           Tasking = Speaking,
           (\A n \in Speaking : msg[n].opens = "rule") \/ (\A n \in 1 .. Len(msg) : msg[n].opens = "nothing")
    PROVE  EveryLineOnce /\ CutAtDelimiters
<1>1. Len(msg) \in Nat /\ DOMAIN msg = 1 .. Len(msg) /\ Speaking \subseteq 1 .. Len(msg)
    BY DEF Speaking
<1>2. CASE tasks = <<>> /\ \A n \in 1 .. Len(msg) : ~Says(n)
    <2>1. Speaking = {} /\ DOMAIN tasks = {}
        BY <1>1, <1>2 DEF Speaking
    <2> QED
        BY <2>1 DEF EveryLineOnce, CutAtDelimiters
<1>3. CASE tasks = <<Lines>>
    <2>1. DOMAIN tasks = {1} /\ tasks[1] = Lines
        BY <1>3
    <2>2. DOMAIN Lines = 1 .. Len(msg) /\ (\A a \in 1 .. Len(msg) : Lines[a] = a) /\ ToSet(Lines) = 1 .. Len(msg)
        BY <1>1 DEF Lines, ToSet
    <2>6. \A n \in Speaking : (\E i \in DOMAIN tasks : n \in ToSet(tasks[i])) /\ n \in Tasking
        BY <1>1, <2>1, <2>2
    <2>7. \A i, j \in DOMAIN tasks : \A a \in DOMAIN tasks[i], b \in DOMAIN tasks[j] :
             i < j \/ (i = j /\ a < b) => tasks[i][a] < tasks[j][b]
        BY <2>1, <2>2
    <2>8. Speaking # {} => \A i \in DOMAIN tasks : ToSet(tasks[i]) \cap Tasking # {}
        BY <1>1, <2>1, <2>2
    <2>3. EveryLineOnce
        BY <2>6, <2>7, <2>8, Zenon DEF EveryLineOnce
    <2>4. CASE \A n \in 1 .. Len(msg) : msg[n].opens = "nothing"
        <3>1. \A j, k \in Tasking : j < k => \A n \in (j + 1) .. k : msg[n].opens = "nothing"
            BY <1>1, <2>4
        <3>2. \A j, k \in Tasking : {j, k} \subseteq ToSet(tasks[1])
            BY <1>1, <2>1, <2>2
        <3> QED
            BY <2>1, <2>3, <3>1, <3>2 DEF CutAtDelimiters
    <2>5. CASE \A n \in Speaking : msg[n].opens = "rule"
        BY <2>3, <2>5 DEF CutAtDelimiters
    <2> QED
        BY <2>4, <2>5
<1> QED
    BY <1>2, <1>3

\* The two outcomes, as the step after Finish finds them.
CutDone   == msg \in Seq(Line) /\ CutUpTo(tasks, Len(msg)) /\ tasks # <<>>
WholeDone ==
    /\ msg \in Seq(Line)
    /\ \/ tasks = <<Lines>>
       \/ tasks = <<>> /\ \A n \in 1 .. Len(msg) : ~Says(n)
    /\ Tasking = Speaking
    /\ (\A n \in Speaking : msg[n].opens = "rule") \/ (\A n \in 1 .. Len(msg) : msg[n].opens = "nothing")

LEMMA DoneNext == (CutDone \/ WholeDone)' => (EveryLineOnce /\ CutAtDelimiters)'
<1>1. CutDone \/ WholeDone => EveryLineOnce /\ CutAtDelimiters
    BY CutTasks, WholeTasks DEF CutDone, WholeDone
<1> QED
    BY <1>1, PTL

\* Ending the loop: the last fragment is flushed, or the message is one task.
LEMMA FinishKeepsSplit ==
    ASSUME msg \in Seq(Line), Loop, Finish
    PROVE  (EveryLineOnce /\ CutAtDelimiters)'
<1>1. Len(msg) \in Nat /\ DOMAIN msg = 1 .. Len(msg) /\ taken = Len(msg) /\ msg' = msg
    BY DEF Finish
<1>2. CutUpTo(Flushed, Len(msg))
    BY <1>1, FlushCuts
<1>3. delimited <=> \E n \in 1 .. Len(msg) : msg[n].opens # "nothing"
    BY <1>1, Zenon DEF Loop
<1>4. /\ Lines' = Lines /\ Speaking' = Speaking /\ Tasking' = Tasking
      /\ Speaking = {n \in 1 .. Len(msg) : Says(n)} /\ \A n : Says(n)' <=> Says(n)
    BY <1>1 DEF Lines, Speaking, Tasking, Says
<1>5. CASE delimited /\ Flushed # <<>>
    <2>1. tasks' = Flushed
        BY <1>5, Zenon DEF Finish
    <2>2. CutUpTo(tasks', Len(msg))
        BY <1>2, <2>1
    <2>3. CutDone'
        BY <1>1, <1>5, <2>1, <2>2 DEF CutDone, CutUpTo, IsTask, Says
    <2> QED
        BY <2>3, DoneNext
<1>6. CASE ~(delimited /\ Flushed # <<>>)
    <2>1. tasks' = IF \E n \in DOMAIN msg : Says(n) \/ msg[n].opens # "nothing" THEN <<Lines>> ELSE <<>>
        BY <1>6, Zenon DEF Finish
    <2>2. tasks' = <<Lines>> \/ (tasks' = <<>> /\ \A n \in 1 .. Len(msg) : ~Says(n))
        BY <1>1, <2>1
    <2>3. CASE ~delimited
        <3>1. \A n \in 1 .. Len(msg) : msg[n].opens = "nothing"
            BY <1>3, <2>3, Zenon
        <3>2. Tasking = Speaking
            BY <1>4, <3>1 DEF Tasking
        <3>3. WholeDone'
            BY <1>1, <1>4, <2>2, <3>1, <3>2 DEF WholeDone
        <3> QED
            BY <3>3, DoneNext
    <2>4. CASE Flushed = <<>>
        <3>1. \A n \in Speaking : msg[n].opens = "rule"
            <4>1. Len(Flushed) = 0
                BY <2>4
            <4> QED
                BY <1>2, <1>4, <4>1 DEF CutUpTo
        <3>2. Tasking = Speaking
            BY <3>1 DEF Tasking
        <3>3. WholeDone'
            BY <1>1, <1>4, <2>2, <3>1, <3>2 DEF WholeDone
        <3> QED
            BY <3>3, DoneNext
    <2> QED
        BY <1>6, <2>3, <2>4, Zenon
<1> QED
    BY <1>5, <1>6, Zenon

LEMMA StepSplit == SplitInv /\ [DNext]_dvars => SplitInv'
<1> SUFFICES ASSUME SplitInv, [DNext]_dvars PROVE SplitInv'
    OBVIOUS
<1>1. CASE TakeLine
    <2>1. Loop'
        BY <1>1, TakeLineKeepsLoop DEF SplitInv, TakeLine
    <2>2. msg' = msg /\ stage' = "received"
        BY <1>1 DEF TakeLine
    <2> QED
        BY <2>1, <2>2 DEF SplitInv, EveryLineOnce, CutAtDelimiters
<1>2. CASE Finish
    <2>1. (EveryLineOnce /\ CutAtDelimiters)'
        BY <1>2, FinishKeepsSplit DEF SplitInv, Finish
    <2>2. msg' = msg /\ stage' = "split"
        BY <1>2 DEF Finish
    <2> QED
        BY <2>1, <2>2 DEF SplitInv
<1>3. CASE Pick
    <2>1. msg' = <<>> /\ stage' = "routed"
        BY <1>3 DEF Pick
    <2> QED
        BY <2>1 DEF SplitInv, EveryLineOnce, CutAtDelimiters
<1>4. CASE Decides
    <2>1. msg' = msg /\ stage = "routed" /\ stage' = "routed"
        BY <1>4 DEF Decides
    <2> QED
        BY <2>1 DEF SplitInv, EveryLineOnce, CutAtDelimiters
<1>5. CASE UNCHANGED dvars
    <2>1. msg' = msg /\ stage' = stage /\ taken' = taken /\ cur' = cur /\ tasks' = tasks /\ delimited' = delimited
        BY <1>5, Zenon DEF dvars, loop
    <2>2. EveryLineOnce' /\ CutAtDelimiters'
        BY <2>1 DEF SplitInv, EveryLineOnce, CutAtDelimiters, Speaking, Tasking, Says
    <2>3. stage = "received" => Loop'
        <3>1. CutUpTo(tasks, Start) => CutUpTo(tasks, Start)'
            BY <2>1 DEF CutUpTo, IsTask, Says, Start
        <3>2. SUFFICES ASSUME Loop PROVE Loop'
            BY DEF SplitInv
        <3>3. Start' = Start
            BY <2>1 DEF Start
        <3> QED
            BY <2>1, <3>1, <3>2, <3>3, Zenon DEF Loop
    <2> QED
        BY <2>1, <2>2, <2>3 DEF SplitInv
<1> QED
    BY <1>1, <1>2, <1>3, <1>4, <1>5 DEF DNext

\* Splitting a message loses, repeats and reorders none of its lines.
THEOREM EveryLineOnceAlways == DSpec => []EveryLineOnce
<1>1. DSpec => []SplitInv
    BY InitSplit, StepSplit, PTL DEF DSpec
<1>2. SplitInv => EveryLineOnce
    BY DEF SplitInv
<1> QED
    BY <1>1, <1>2, PTL

\* A message is cut at its explicit delimiters, and nowhere else.
THEOREM CutAtDelimitersAlways == DSpec => []CutAtDelimiters
<1>1. DSpec => []SplitInv
    BY InitSplit, StepSplit, PTL DEF DSpec
<1>2. SplitInv => CutAtDelimiters
    BY DEF SplitInv
<1> QED
    BY <1>1, <1>2, PTL

\* The decider behind Decompose behaves as it does alone: what Routing's theorems
\* state holds of a message's task.
THEOREM DispatchImplementsRouting == DSpec => Spec
<1>1. DInit => Init
    BY DEF DInit
<1>2. [DNext]_dvars => [Next]_vars
    BY DEF DNext, TakeLine, Finish, Pick, Decides, dvars
<1> QED
    BY <1>1, <1>2, PTL DEF DSpec, Spec
=============================================================================
