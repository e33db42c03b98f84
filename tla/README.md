# projx-store: a TLA+ verification project

projx-store keeps the *declared knowledge* of coding agents (conventions,
decisions, gate rules, notes) as records in small stores, merges stores of
several machines, and decides which records an agent's context is given in
each turn of a conversation. The specifications in this directory model the
parts of it whose correctness depends on the order in which things happen.

Contents: [inventory](#inventory), [modules](#modules),
[runs](#runs), [what the violation runs show](#disagreements),
[fairness](#fairness), [proofs](#proofs), [plan](#plan),
[what is not modelled](#not-modelled).

## Inventory

| Component | State | Operations | Depends on |
|---|---|---|---|
| Records and write clock (`store.go`) | `lastStamp`, one per process | `stamp`, `Filter.match` | wall clock |
| `Mem` (`memory.go`) | a map by ID | Put, Get, Delete, List | `stamp` |
| `SQLite` (`sqlite.go`, `conn*.go`) | a table, shared by processes | Open, Close, Put, Get, Delete, List | `stamp`, migrations |
| Migrations (`migrate.go`, `migrations/`) | schema, `schema_version`, sow's ledger | `migrate`, `adoptLegacyVersion` | the sow library |
| Merge (`merge.go`) | none (pure) | Merge, Apply, ExportJSON, ImportJSON, ListAll | `stamp` (Apply) |
| Workspace (`workspace.go`) | up to three stores | Put, Get, Delete, List over levels | any Store |
| Session lifecycle (`session.go`, `capture.go`) | one Checkpoint per session | SessionContext, SessionSuggest | CheckpointStore, preamble |
| Preamble (`preamble.go`) | none | floor, task slice, delta, rankAndCap | Store.List, SelectorFunc |
| Routing (`routing.go`, `dispatch.go`, `modelreply.go`) | settings and route records | RouteDecide, Decompose, ParseTierReply | Store, triage model |
| Gates and tiers (`gate.go`, `gate_match.go`, `enforcement.go`) | gate records | GatePatterns, GateDenied, Tier, RuleTier | Store |
| Seeding (`seed.go`, `integration.go`, `provenance.go`) | floor records | SeedFloor, ResolveCompletion | Store.Put |
| Rendering (`export.go`, `claudemd.go`) | CLAUDE.md's managed block | Export, SpliceManagedBlock | Store.List |

How they interact. Components call each other synchronously; there are no
goroutines. Concurrency comes from outside: several agents (processes) share
one SQLite file, several sessions share one store, and several machines
exchange export blobs. No operation holds a lock or a transaction over more
than one statement, so every sequence of calls is open to interleaving: an
import between its ListAll and its last Put, a refill between its two readings
of the store, an Open between two migration steps.

What is hard, and what makes each part correct:

- *Clock.* Stamps order writes across processes and machines, but are issued
  by per-process counters. A local write should be newer than what it replaces.
- *Merge.* Duplicates in any order, ties, zero stamps. The newest record wins,
  ties keep the base, nothing is dropped unreported, repeating is harmless.
- *Replication.* Stale exports, imports cut off and retried, deletes without
  tombstones, agents writing meanwhile. An import regresses nothing, the brains
  converge, ties reach a human.
- *Session.* The checkpoint says what the agent has in context; compactions
  empty that context, files get lost, records change. What is suppressed must
  be there; what does not fit must come later; the nudge must be right.
- *Slice.* Two passes with a share per repo, an exemption for the focused one
  and an overall cap. No slot wasted, no repo crowded out.
- *Levels.* Faces with different levels share stores, levels appear, a Delete
  stops half-way, a Get and an import read one level after the other. No write
  may be dropped, what was deleted must be gone, what is there must be found.
- *Migration.* Two mechanisms (counter, ledger), several processes, statements
  that fail. Open must return only over the whole schema, and in the end must
  return.
- *Routing.* A decision reads some ten settings one by one and asks a model in
  between, while users change settings and the store is seeded, in part if a
  Put fails. What stands throughout must be honoured, one change must count as
  made before or after, and an answer the model is unsure of must not save.
- *Rules.* Three places decide by three different prefixes of a key whether a
  gate rule is a setting. What is denied must be told, and the tiers found by
  name and by record must agree.
- *Managed block.* Its user edits the document it is in. The text outside must
  survive, and there must be one block, which is current.
- *Dispatch.* Items, separators and blank lines in any order. No line is lost,
  repeated or joined to another task.

`PROJECT.json` lists each such hazard at its line, with the properties that
address it or the reason why none does yet.

## Modules

| Module | Models | Composes |
|---|---|---|
| `Records` | Record, the clock `stamp`, Put's stamping rule, Merge's decision for one ID | |
| `Merge` (`MCMerge`, `Merge_proofs`) | `Merge`, one action per branch of its two loops | `Records` |
| `LwwMap` | abstract specification: a map per brain, changed by a stamped write, a delete, or the adoption of a strictly newer written record | `Records` |
| `Replication` (`MCReplication`, `Replication_proofs`) | brains that Put, Delete, Export, Import, settle conflicts and restart | `Records`, implements `LwwMap` |
| `Slice` (`MCSlice`, `Slice_proofs`) | the two passes of `rankAndCap` | |
| `Session` (`Session_proofs`) | `SessionContext`, `SessionSuggest`, checkpoints, and the commits of others | `Records` |
| `Workspace` (`Workspace_proofs`) | Put, Get, List and Delete of the composition of up to three levels, shared by several faces, and imports over it | |
| `Migrate` (`Migrate_proofs`) | `Open`, `migrate`, `adoptLegacyVersion`, and sow as `migrate.go` uses it | |
| `Routing` (`Routing_proofs`) | `RouteDecide` read by read, `ResolveCompletion`, `ParseTierReply`, `SeedFloor` | |
| `Dispatch` (`MCDispatch`, `Routing_proofs`) | `Decompose` line by line, and the decision about one of its tasks | `Routing` |
| `Rules` (`Contract_proofs`) | `GatePatterns`, `dropSettings`, the three derivations of a tier, the modes, over rules that change | |
| `Contract` (`MCContract`, `Contract_proofs`) | `SpliceManagedBlock` over a document that its user edits | `Rules` |

**Records.** Content stands for the fields `sameContent` compares; they are
only ever compared as a whole. `Absent` is what a store answers for an ID it
does not hold. `MergeEntry` is Merge's effect on one ID
(`MergeIsEntrywise` proves it of the loops).

**Merge.** `Index` and `IndexDone` are the loop over base, `Add`, `Dedupe` and
`Settle` the three branches of the loop over incoming. `Settle` has the three
arms of the switch, through `Resolution`. The slices are sequences, so an ID may occur several
times and in any order. `byID` is Go's map; the sorted slice `Merged` is its
range.

**Replication.** `store[b]` is a machine's database and `last[b]` its process's
`lastStamp`. `Import` reads the store once and leaves the merged records in
`todo`; `PutMerged` puts them one at a time, in any order, while (`Interleave`)
others may write. A restart loses `last`, `todo` and the conflicts not yet
settled, but neither the database nor the exports. Clocks of different brains
are independent and may go back: `now` is any member of `Clock` at any time.
`authored` and `touched` are history variables. Fields of the model that stand
for switches: `Legacy` (rows from before the stamps), `Interleave`,
`ListFails` (List answers nil on an error, one of the bounded faults; what
such an import knows nothing of counts as `touched`). The caller of Merge is not in the
repository; it is modelled from merge.go:10 and merge.go:103.

**Slice.** A record is its position in the ranked list, a group its repo.
The list is any sequence of groups in which the focused one leads, which is
what `focusBoost` and the stable sort produce. `Balance` and `Fill` are the
loop bodies, `EndPass` the end or the `break` of a loop.

**Session.** `cp[s]` is the saved Checkpoint, in which a stamp 0 in `seen` is
an ID not in the map. `Start`, `Compact`, `Turn` and `RefillShow`/`RefillMark`
are the cases of `SessionContext` in the order of its early returns, `Stop` is
`SessionSuggest`, `Lose` is a file that is lost or corrupt. `ctx`, `floor` and
`since` are history: what the agent really has in its context, and what was
really committed after an @remember. `Listed` is `dropSettings`: of records
with one body only the first is rendered, so duplicates come and go with
commits and deletes. A slice is any `CapN` of the candidates; `Slice` says
which. The law sections are re-sent whole in every turn and need no
checkpoint, so they are left out. The store changes
between the two readings of a refill as at any other time, and a refill may be
by a model, asked twice; `refill[s].upto` is history too, the stamp up to which
such a refill may have been wrong. Switches: `KeepFloorMark` (no checkpoint lost
between a compaction and its refill), `OneClock` (all commits are stamped by one
process).

**Workspace.** `store[l]` is the store of a level, `levels[f]` the levels that
are not nil in the Workspace of face f; the global one always is there. `Put`
is one statement of one store, chosen by `Owning`. `Begin`, `DeleteLevel`,
`DeleteFails` and `Deleted` are the loop of Delete, `BeginGet`, `GetLevel`,
`GetFails` and `GetMisses` that of Get: other faces write and delete between
two levels. A store that fails answers a Get as if it had nothing. A List, and
the base an import merges into, is taken at one instant; an import is `Put` of
what `Merged` makes of one incoming record, which is compared with the last of
the copies List gives. A face gets a level it did not have (`Appear`) only
while it is not in a call, since it composes its Workspace then; levels do not
go away under a face that has written to them, because the code keeps a record
where it was put. `wanted` is the caller: what it was asked to delete and has
had no nil answer for. `from` of a call is history: what a Get would have
answered when it began, or the last Put before a Delete. Of a record its scope,
stamp, writer and number are kept; all faces share one clock here
(`Replication` has the other case).

**Migrate.** `schema` is the set of steps whose SQL has run, `ledger` what
sow_migrations lists, `counter` the old schema_version. `Begin`, `Count`,
`CountFails`, `Adopt` and `Adopted` are `adoptLegacyVersion`; `Plan`, `Run`
and `Mark` are sow's Up, which is external: it runs the missing steps in order,
enters each in the ledger after it ran, and stops at the first failure. A step
whose column is there already fails (migrate.go:56). `Fault` ends an Open
between any two statements. `torn` is history: a fault fell between a step and
its ledger entry (migrate.go:47) or between two entries of an adoption
(migrate.go:72), after which no Open need succeed again.

**Routing.** `store` is what the decider reads of the store: floor, pin, the
four vocabularies, the tier map, the active integration and the declared ones.
A decision (`call`) goes through its reads in the code's order, `pc` naming the
next one; each is one List or Get of the store as it is then. `Write` is any
commit or delete of a setting by a user, `Seed` the next of SeedFloor's Puts
(those of keys the decider does not read are left out), which may fail and is
then skipped. The store changes only before or during a decision, since one
that is made reads no more. A word is a keyword and the fact that a text
contains it; an absent setting and an empty one are read alike, as in the code.
`Reply` is what a model may answer: the JSON shape or bare words. `past` is
history: the stores there were since the call began.

**Dispatch.** A message is a sequence of lines, a line what it opens with and
what the rest says. `taken`, `cur` and `delimited` are the variables of
Decompose's loop and `tasks` its result; a fragment is the numbers of its lines.
`TakeLine` is the body of the loop, `Flushed` its closure, `Finish` what follows
the loop, with the two fallbacks. Tasks are decided
independently, so `Pick` follows one of them to the decider of `Routing`.

**Rules.** A key is its form, in which the three tests for a setting differ,
and its last segment. `ToldGates` is dropSettings (settings out, then what an
earlier rule already says), `GatePatterns` what is denied, `Tier`, `RuleTier`
and `SoftRuleNames` the three derivations of a tier. Rules are committed,
deleted and seeded in any order.

**Contract.** The document is a sequence of markers, the rendered gates and
lines of the user's. `Refresh` renders the block and splices it, `WriteLine`,
`DeleteLine` and `DeleteBlock` are the user. Switches: `MarkersKept` (the user
does not delete one marker and leave the other), `Quoting` (bodies that contain
the end marker).

## Runs

| Run | Bounds | Shows |
|---|---|---|
| `merge` | 2 IDs, 2 contents, stamps 0..2, base of up to 2 and incoming of up to 3 records | the five invariants of Merge |
| `replication` | 2 brains, 2 IDs, 2 contents, clock {1, 2}, 2 local writes, 2 restarts or failing listings, writes during imports | no regress by an import that saw the store, convergence, ties reported |
| `replication_refines` | as above with 3 local writes, none during an import, 1 restart, no failing listing | refinement of `LwwMap`, stamps authored |
| `slice` | 3 repos and none, slices of 4, shares of 2, up to 7 matched | the four properties of the selection |
| `session` | 2 records, 2 bodies (one of them blank), slices of 1, 2 commits or deletions, 2 compactions or starts, 1 loss, 2 @remembers | lifecycle properties, also over refills that are disturbed; overflow drains |
| `workspace` | 2 faces, 3 levels, 1 ID, 2 writes or imports, 2 requests to delete or get, 1 failing statement | no write dropped, deletes complete and finish, a Get falls back to nothing older, an import replaces what it compared with |
| `migrate` | 2 processes, 5 steps, 2 faults, every counter 0..6 and every ledger prefix | schema and ledger, everybody opens unless a fault left the ledger torn |
| `routing` | messages of up to 5 lines; a keyword per class and one of the project's own, 2 integrations; 2 changes of the store (writes, seedings and failing Puts together), at most 3 stores during a decision | decisions under change, splitting |
| `contract` | 3 identifiers, 13 rules a user may commit, 3 changes of rules, 3 edits of the document, 4 of both together | gates and tiers, the block and the text around it |
| `local_writes`, `adoption_cut`, `elevate_triaged` | small | a violation each, [below](#disagreements) |

Why the bounds are enough. *merge*: three incoming records of one ID make every
pair of branches follow each other, over a base that has none, one or two of
the ID; three stamps give less, equal, greater and zero. *replication*: two
writes on two brains give every order of two stamps, ties included, and a third
(in the refinement) a write on top of an exchange; one restart is enough to
lose a pending import and the clock, and a second fault follows or precedes it. *slice*: seven matched records over three
repos exceed both the slice (4) and the shares (2), and leave leftovers of each
kind; the code's 12 and 4 have the same order. *session*: two records over
slices of one make every slice overflow; over a store that already holds
either record, two commits give a change and a deletion, or a deletion and a
re-commit, before, within and after a refill; two compactions give a refill
after one that was disturbed; sessions share nothing but the store, which changes
by arbitrary commits, so one session stands for each of many. *workspace*: the
code treats identifiers independently, so one is enough; two writes put it on
two levels before, during and after a call, which is what a Get, a Delete or an
import can confuse. *migrate*: two
processes can meet at every statement, and five is the number of migrations. *routing*: two changes of
the store are one before and one during a decision, two during it, or a seeding
and a Put of it that fails; three stores bound only
how many Puts of one seeding fall within the decision, which may begin at any
of them. Five lines hold two tasks with a separator and blank lines around.
*contract*: three identifiers order a rule before, at and after the seeded one;
four changes are enough to refresh, write on both sides of the block, cut it
out and refresh again.

The deadlock check is off in `merge` and `slice`, where a function returns; in
`routing` and `elevate_triaged`, where a blank message has no task and the
changes of the store are used up; and in `workspace`, where all writes and
requests are made and answered.
`SYMMETRY` is used in safety runs only.

<a name="disagreements"></a>
### Disagreements between the code and its comments

Three runs are expected to find a violation; each checks what a comment of the
code says.

- `local_writes`: stamps are increasing per process, not "per store"
  (store.go:98-99). After an import from a clock that is ahead, or a restart,
  a local write may be older than what it replaces, and the next merge undoes it.
- `adoption_cut`: an adoption cut off half-way is never taken up again, and Up
  then re-runs a step the old counter vouches for, which fails (migrate.go:55-57).
- `elevate_triaged`: a model that answers elevate, surely, gets it, although
  the top tier is "DELIBERATE only" (routing.go:21, 163-164): the triage's
  answer is checked against all tiers (routing.go:294).

Two more are reached by a switch of the module, without a run of their own:

- `Legacy` of `Replication`: an import stamps rows from before the stamps as if
  they were written now (sqlite.go:41), and such a row then replaces another
  machine's real write. store.go:101-102 says that merges and imports preserve
  the value so that last-write-wins holds across machines.
- `KeepFloorMark` of `Session`: a checkpoint lost after a compaction loses that
  the floor is due; the protocol does not come back, which is more than "a
  little redundant context" (session.go:34-35).

Read from the code while modelling, and visible in the definitions:

- A refill computes the text and the seen map independently (session.go:74-75).
  What is committed in between, or named by a model only in the second of its
  answers, is suppressed without having been injected, against "mark ONLY what we
  actually inject as seen" (preamble.go:539). SeenIsShown bounds the damage: the
  next version of the record is sent.
- List answers nil when its query fails (sqlite.go:111), and an import then
  overwrites what is newer. ImportNeverRegresses excepts these imports; brains
  that keep exchanging converge nevertheless.
- A compaction drops a pending @remember, so no Stop nudges for it (session.go:52).
- A Put under a changed scope leaves the old copy on its level. Get prefers the
  one on the finer level whatever its age (workspace.go:63), and an import over
  two copies may replace the newer (merge.go:62); ImportKeepsNewest and
  GetIsMonotone except exactly this. List orders two such copies by an unstable
  sort (workspace.go:97).
- An unsure answer elevate is lowered to deep reasoning by the escalation
  (routing.go:177-183).
- A key that begins with "setting" but not "setting/" is told and hard, but not
  denied (gate.go:15); one spelled "Setting/" is a setting for its tier and a
  gate for the denial. An advisory gate rule is denied like any other.
- SoftRuleNames lists a default even if a record makes it hard.
- Reseeding puts the shipped records over what a user made of them (seed.go:28).
- A splice into a document with a marker deleted, or with an end marker quoted in
  a rule's body, appends a second block or leaves a remnant
  (`MarkersKept`, `Quoting`).
- Text on a separator line ("--- text") belongs to no task (dispatch.go:48); an
  override in a header line applies to the header's task only.

The switches are off in the passing runs, so that those show what holds
otherwise.

## Fairness

- `Replication!Exchange`: weak fairness of Export and of the Puts of a running
  import (a caller's loop goes on unless its process ends), and strong fairness
  of each Import, which a running import disables again and again: brains that
  are kept in step are exchanged repeatedly. The library does not schedule
  exchanges; convergence is conditional on somebody making them. No fairness of
  edits, deletes, settlements and restarts.
- `Session!Asking`: the session keeps sending messages that make everything
  relevant, and a call that is running ends. No fairness of commits,
  compactions or losses, which are bounded and so stop.
- `Workspace!Retrying`: a Delete that was asked for is called, runs on, and is
  called again if it failed; this is the caller's part, and DeletesFinish says
  that it is enough. A Get runs on, since a face in a Get deletes nothing. No
  fairness of writes and faults.
- `Migrate!Retrying`: a call of Open runs on, and a process whose Open failed
  tries again. No fairness of faults and Close.
- `Routing`, `Dispatch`, `Rules`, `Contract`, `Slice` and `Merge` state no
  fairness: their properties are about what is true when something is done.

## Proofs

TLAPS checks every theorem for all values of the constants that satisfy the
modules' assumptions; TLC has checked the same formulas, and what is not a type
of each inductive invariant, on the instances above. Every safety property of
the passing runs, invariant or about steps, is a theorem.

- `Merge_proofs`: TypeOK and the five invariants of Merge, for slices of any
  length. `MergeEntryIsNewest` is the lemma about one ID; NewestWins and
  BaseKeepsTies are inductive given the types once the consumed set of a step
  is related to that of its predecessor, one lemma each for the loop over base
  and the loop over incoming. ReimportIsNoop follows from NewestWins and from
  the first of equally new records being kept. `MergeIsEntrywise` adds that, when
  the incoming slice names no ID twice (a store lists a record once), the
  finished loops hold for each ID the `MergeEntry` of what the two slices say of
  it; `Import` of Replication takes a merge in that form. What a slice says of
  an ID is that of its last item naming it, so base may repeat one.
- `Replication_proofs`: TypeOK; `ImportNeverRegressesAlways`, by the invariant that what an import still has to put for an ID
  that is not in `touched` is the store's entry, or newer; `StampsAreAuthoredAlways` (no legacy
  rows), by extending it to exports, pending imports and conflicts, all of
  which hold authored records only; and `ImplementsLwwMap` (no legacy rows, no
  failing list, no write during an import), step by step: Edit and Settle are
  Writes, Delete is a Delete, a PutMerged is an Adopt or a stutter, all else
  stutters.
- `Session_proofs`: TypeOK (with the existence of the high-water mark, by
  well-founded induction on the naturals); `FloorIsThereOrDueAlways` (assuming
  KeepFloorMark); `NudgeIffUncommittedAlways` (assuming OneClock), by the
  invariant that the mark separates what was committed since the @remember from
  the rest; `SeenIsShownAlways` (assuming OneClock), by
  the invariant that a refill which will select the same again has shown what it
  will mark, and that every stamp in the store was issued, so that a disturbed
  refill can be wrong about no later one. KeepFloorMark is the negation of a
  case above; without OneClock a deleted and re-committed record may get its old
  stamp.
- `Slice_proofs`: the four properties, for lists of any length, any repos and any
  caps, by two facts: what the first pass leaves out belongs to a repo that has
  used up its share, and has for good; and the second pass leaves nothing out as
  it goes. That the slice is within its cap is part of the invariant.
- `Workspace_proofs`: TypeOK; `WritesStayListedAlways`, by the invariant that
  every face has the global level and that a record lies on a level its writer
  has, its scope's or the global one;
  `DeleteIsCompleteAlways`, by the invariant that on the levels a Delete has
  passed there is nothing older than the Delete; `GetIsMonotoneAlways`, by the
  invariant that a Get that owes a record still has it, or a later one, on a
  level to come, and that nothing put since is numbered below it; and
  `ImportKeepsNewestAlways`, because a level that is the only one to hold the
  identifier is the one that was compared.
- `Migrate_proofs`: TypeOK, `LedgerIsTrueAlways` and `OpenMeansCurrentAlways`
  for any number of processes and steps and faults anywhere, by the invariant
  that what a process has not on its list any more is in the schema, and that a
  step it is about to enter has run.
- `Routing_proofs`, about a decision: TypeOK; `StandingSettingsHoldAlways` and
  `TriageIsEarnedAlways`, for any vocabularies, integrations, tasks and answers
  and any number of changes, by an invariant that says, for every read that is
  done, what the value read has to do with the stores since the call began: the
  floor read is that of one of them, the risk floor is applied if every one of
  them makes the task risky, a class was passed over only if in one of them it
  has no keyword of the task.
  `OneChangeIsAtomicAlways` needs more, a single store for all reads together
  (`AtomicInv`): as long as there were at most two stores, they differ in one
  aspect only (`Adjacent`: every change of the store, a seeding's Put included,
  touches one thing a decision reads), and one of them would have answered
  everything read so far (`Fits`). A read that sees the newer store after others
  saw the older one is harmless when the aspect it reads did not change, since
  then the older store answers it too; and when it did change, no read before
  it was of that aspect, so the newer store answers those. ResolveCompletion
  reads the integrations twice, which is why the active one and the declared
  ones are aspects of their own. At the end, what fits is what `Decide` says.
  `SeedingKeepsDecisionsAlways` has its own part (`SeedingInv`): while no user
  wrote, the store is pristine for the decider however far a seeding got, and
  the decision fits the empty one. `UnsureSpendsMoreAlways` is a property of
  `Parse` and of the escalation, carried to the end of the call. All rest on
  one theorem, `DecisionInvariant`.
- `Routing_proofs`, about splitting: `EveryLineOnceAlways` and
  `CutAtDelimitersAlways`, for messages of any length, by the invariant of the
  loop (`Loop`): the fragment being built is the run of lines just taken, which
  opens at its first line only, and the fragments ended are the tasks of the
  lines before it (`CutUpTo`: runs of lines that say something, begin and end at
  delimiters, in order, and together hold every line that speaks and is no
  separator). `DispatchImplementsRouting` carries the theorems about the
  decider alone to the one behind Decompose.
- `Contract_proofs`, about rules: TypeOK; `ToldIsDeniedAlways`, `TiersAgreeAlways` and
  `SeedTakesEffectAlways`. They are functions of the rules, so the types are the
  only induction; the work is in the first of several records in List's order.
- `Contract_proofs`, about the block: `UserTextKeptAlways` and
  `BlockIsCurrentAlways`, for documents of any length and any edits, assuming
  `MarkersKept` and that no body is in `Quoting`; with either negated they are
  false, as said above. The invariant is that a document has one pair of
  markers, the begin marker first, or none (`MarkersStayPaired`): a splice makes
  such a document of such a document, inserting and deleting lines moves its
  markers without reordering them, and cutting the block out takes both. What a
  refresh keeps is then a statement about `Splice`: a lemma says what the lines
  at given places are when the places are known in order (`AtInOrder`), and
  outside one pair of markers they are what precedes and what follows it.
  `ContractImplementsRules` carries the theorems about the rules to `Contract`.

Only model-checked: the liveness properties Converges, TiesReachReview,
OverflowDrains, DeletesFinish and EventuallyOpens (liveness under fairness, and
ENABLED, are outside what the prover does), and the violations. Nothing here is
proved by induction over data: folds over records are written as sets and
functions, and the loops that build sequences (Merge, rankAndCap, Decompose) are
steps of their modules, so that the induction is over behaviours.

## Plan

Done in this order, by importance: `Records`, `Merge`, `Replication` with
`LwwMap`, `Slice`, `Session`, `Migrate`, `Workspace`; then `Routing` with
`Dispatch`, `Rules` with `Contract`, the reads and imports of `Workspace`, and
the proofs of `Slice`, `Workspace` and `Rules`, of `Routing` and `Dispatch`, and
of `Contract`. Left:

1. The abstract specification of `Workspace`: one map, which the levels
   implement as long as every record keeps its scope and all faces have the
   same levels.
2. Safety parts of the liveness properties that the prover can reach: that
   what a Delete, an import or an Open still has to do never grows.
3. The runs stay few, one per question; cases that a comment gets wrong remain
   as switches of their modules.

## Not modelled

Rendering (preamble text, Markdown export, the wording and the other sections of
the CLAUDE.md block, provenance labels, the argument list of a completion
command): it keeps no state, and no property here is about wording. Text
parsing below the level of lines and answers (tokens and scoring, the keys in a
selector's reply, glob matching and the normalisation of paths, which is the
doublestar library's work): a word, a pattern or a relevant record stands for
its result. The classifiers without a store (`Classify`, `Route`), kept for old
callers. The directive and the command list of a worker, which are texts read
from one record. SQL filters, drivers and column decoding: pure I/O behind one
interface, whose failures are faults of `Migrate` and `Replication`. sow,
SQLite, the models, the hooks that call SessionContext, the editors of
CLAUDE.md and the callers of Merge are outside the repository; sow is modelled by
its use, the others by letting what they do happen in any order.
