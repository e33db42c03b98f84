------------------------------ MODULE Dispatch -----------------------------
(***************************************************************************)
(* What becomes of a message: Decompose (dispatch.go) cuts it into tasks   *)
(* at explicit delimiters, and the decider (Routing) gives each task its   *)
(* tier.  The tasks of a message are decided independently, so one of them *)
(* is followed.                                                            *)
(*                                                                         *)
(* A line is what it opens with and what the rest of it says.  What        *)
(* cleanTaskFragment strips (markers, fillers) says nothing.               *)
(***************************************************************************)
EXTENDS Routing, SequencesExt

CONSTANTS
    Text,     \* what a line may say, as words and mentions
    Message   \* messages

\* A line opens a new task ("item": bullet, number, TASK:, STEP:), separates two
\* ("rule": --- or ===) or does neither; it says a text or nothing.
Line == [opens : {"item", "rule", "nothing"}, says : Text \cup {Unset}]

ASSUME TextsSpeak == Text \subseteq [words : SUBSET Word, at : SUBSET Tier] /\ Unset \notin Text
ASSUME MessagesAreLines == Message \subseteq Seq(Line)

VARIABLES
    msg,        \* the message
    taken,      \* how many of its lines the loop has taken
    cur,        \* the fragment being built, the numbers of its lines
    delimited,  \* a delimiter was seen
    tasks,      \* the tasks, each the numbers of its lines
    stage,      \* "received", "split" or "routed"
    job         \* the task that is followed

loop  == <<taken, cur, delimited>>
dvars == <<vars, msg, loop, tasks, stage, job>>

DInit ==
    /\ Init
    /\ msg \in Message /\ tasks = <<>> /\ stage = "received" /\ job = Unset
    /\ taken = 0 /\ cur = <<>> /\ delimited = FALSE

-----------------------------------------------------------------------------
(* Decompose. *)

Says(n) == msg[n].says # Unset

\* A fragment that says nothing is no task.
Flushed == IF \E n \in ToSet(cur) : Says(n) THEN Append(tasks, cur) ELSE tasks

\* An item that does not end the fragment before it.
TakeLineUnflushed ==
    /\ stage = "received" /\ taken < Len(msg) /\ taken' = taken + 1
    /\ \/ msg[taken'].opens = "rule" /\ tasks' = Flushed /\ cur' = <<>> /\ delimited' = TRUE
       \/ msg[taken'].opens = "item" /\ cur' = Append(cur, taken') /\ delimited' = TRUE
            /\ UNCHANGED tasks
       \/ msg[taken'].opens = "nothing" /\ cur' = Append(cur, taken') /\ UNCHANGED <<tasks, delimited>>
    /\ UNCHANGED <<vars, msg, stage, job>>

\* The body of the loop.
TakeLine ==
    /\ stage = "received" /\ taken < Len(msg) /\ taken' = taken + 1
    /\ \/ msg[taken'].opens = "rule" /\ tasks' = Flushed /\ cur' = <<>> /\ delimited' = TRUE
       \/ msg[taken'].opens = "item" /\ tasks' = Flushed /\ cur' = <<taken'>> /\ delimited' = TRUE
       \/ msg[taken'].opens = "nothing" /\ cur' = Append(cur, taken') /\ UNCHANGED <<tasks, delimited>>
    /\ UNCHANGED <<vars, msg, stage, job>>

Lines == [n \in DOMAIN msg |-> n]

\* The last fragment is not flushed.
FinishUnflushed ==
    /\ stage = "received" /\ taken = Len(msg) /\ stage' = "split"
    /\ tasks' = IF tasks # <<>> THEN tasks ELSE <<Lines>>
    /\ taken' = 0 /\ cur' = <<>> /\ delimited' = FALSE
    /\ UNCHANGED <<vars, msg, job>>

\* Without a delimiter, and when no fragment says anything, the message is the
\* task, unless it is blank.
Finish ==
    /\ stage = "received" /\ taken = Len(msg) /\ stage' = "split"
    /\ tasks' = IF delimited /\ Flushed # <<>> THEN Flushed
                ELSE IF \E n \in DOMAIN msg : Says(n) \/ msg[n].opens # "nothing" THEN <<Lines>>
                ELSE <<>>
    /\ taken' = 0 /\ cur' = <<>> /\ delimited' = FALSE
    /\ UNCHANGED <<vars, msg, job>>

\* What the decider is given of a task.
Fragment(lines) ==
    LET said == {msg[n].says : n \in {k \in ToSet(lines) : Says(k)}}
    IN  [words |-> UNION {t.words : t \in said}, at |-> UNION {t.at : t \in said}]

\* One of the tasks goes to the decider.
Pick ==
    /\ stage = "split"
    /\ \E lines \in ToSet(tasks) : job' = Fragment(lines)
    /\ stage' = "routed" /\ msg' = <<>> /\ tasks' = <<>>
    /\ UNCHANGED <<vars, loop>>

Decides ==
    /\ stage = "routed"
    /\ Next
    /\ call' # Unset => call'.task = job
    /\ UNCHANGED <<msg, loop, tasks, stage, job>>

DNext == TakeLine \/ Finish \/ Pick \/ Decides

DSpec == DInit /\ [][DNext]_dvars

-----------------------------------------------------------------------------
(* Properties. *)

\* Lines of a message that say something to a task: a separator's text is not
\* part of any, unless the message says nothing else.
Speaking == {n \in DOMAIN msg : Says(n)}
Tasking  == IF \E n \in Speaking : msg[n].opens # "rule"
            THEN {n \in Speaking : msg[n].opens # "rule"} ELSE Speaking

\* Splitting loses, repeats and reorders nothing: the lines that speak to a task,
\* and no separator's text, are in the tasks, the lines of the tasks, one task
\* after the other, are in their order, and each task says something.
EveryLineOnce ==
    stage = "split" =>
        /\ \A n \in Speaking : (\E i \in DOMAIN tasks : n \in ToSet(tasks[i])) <=> n \in Tasking
        /\ \A i, j \in DOMAIN tasks : \A a \in DOMAIN tasks[i], b \in DOMAIN tasks[j] :
             i < j \/ (i = j /\ a < b) => tasks[i][a] < tasks[j][b]
        /\ Speaking # {} => \A i \in DOMAIN tasks : ToSet(tasks[i]) \cap Tasking # {}

\* A message is cut at explicit delimiters only, and at each of them: two lines
\* are of one task exactly when no item begins and no separator stands between.
CutAtDelimiters ==
    stage = "split" /\ (\E n \in Speaking : msg[n].opens # "rule") =>
        \A j, k \in Tasking :
            j < k => ((\E i \in DOMAIN tasks : {j, k} \subseteq ToSet(tasks[i]))
                        <=> (\A n \in (j + 1) .. k : msg[n].opens = "nothing"))
=============================================================================
