----------------------------- MODULE ParallelMap -----------------------------
(***************************************************************************)
(* The bounded worker pool of internal/backtestes/parallel.go: a feeder    *)
(* hands task indices to the workers over an unbuffered channel, results   *)
(* go to a channel with room for all of them, a closer waits for the       *)
(* workers, and the caller drains the results.  The context may end at any *)
(* time.                                                                   *)
(***************************************************************************)
EXTENDS Integers, FiniteSets

CONSTANTS
  NTasks,     \* length of tasks
  NWorkers    \* EvaluationWorkers, cut to the number of tasks

ASSUME PoolAssumption == NTasks \in Nat \ {0} /\ NWorkers \in 1 .. NTasks

Task == 1 .. NTasks
Worker == 1 .. NWorkers
NoTask == 0

VARIABLES
  pmFails,     \* the tasks that return an error
  pmNext,      \* the feeder's next index; NTasks + 1 when all are handed out
  pmOpen,      \* whether the jobs channel is open
  pmHolds,     \* the index each worker runs
  pmAlive,     \* workers that have not called wg.Done
  pmResults,   \* indices waiting in the results channel
  pmClosed,    \* whether the results channel is closed
  pmCompleted, \* indices the caller has drained
  pmDone,      \* ctx.Done()
  pmRan,       \* how often each task ran (history)
  pmReturn     \* what the caller returned

pmVars == <<pmFails, pmNext, pmOpen, pmHolds, pmAlive, pmResults, pmClosed,
            pmCompleted, pmDone, pmRan, pmReturn>>

Pending == [kind |-> "pending", task |-> NoTask]

PmTypeOK ==
  /\ pmFails \subseteq Task /\ pmNext \in 1 .. NTasks + 1 /\ pmOpen \in BOOLEAN
  /\ pmHolds \in [Worker -> Task \union {NoTask}] /\ pmAlive \subseteq Worker
  /\ pmResults \subseteq Task /\ pmClosed \in BOOLEAN /\ pmCompleted \subseteq Task
  /\ pmDone \in BOOLEAN /\ pmRan \in [Task -> Nat]
  /\ pmReturn \in [kind : {"pending", "values", "error", "context", "stopped"},
                   task : Task \union {NoTask}]

PmInit ==
  /\ pmFails \in SUBSET Task
  /\ pmNext = 1 /\ pmOpen = TRUE /\ pmHolds = [w \in Worker |-> NoTask] /\ pmAlive = Worker
  /\ pmResults = {} /\ pmClosed = FALSE /\ pmCompleted = {} /\ pmDone = FALSE
  /\ pmRan = [t \in Task |-> 0] /\ pmReturn = Pending

\* Mutant: the feeder's loop runs one index too far.
HandOutPastTheEnd(w) ==
  /\ pmOpen /\ pmNext <= NTasks + 1 /\ w \in pmAlive /\ pmHolds[w] = NoTask
  /\ pmNext' = pmNext + 1
  /\ pmHolds' = [pmHolds EXCEPT ![w] = pmNext]
  /\ UNCHANGED <<pmFails, pmOpen, pmAlive, pmResults, pmClosed, pmCompleted, pmDone, pmRan, pmReturn>>

\* The unbuffered send and the worker's receive are one step.  A worker that
\* sees the context ended after the receive returns and drops the index.
HandOut(w) ==
  /\ pmOpen /\ pmNext <= NTasks /\ w \in pmAlive /\ pmHolds[w] = NoTask
  /\ pmNext' = pmNext + 1
  /\ IF pmDone THEN pmAlive' = pmAlive \ {w} /\ UNCHANGED <<pmHolds, pmRan>>
     ELSE /\ pmHolds' = [pmHolds EXCEPT ![w] = pmNext]
          /\ pmRan' = [pmRan EXCEPT ![pmNext] = @ + 1]
          /\ UNCHANGED pmAlive
  /\ UNCHANGED <<pmFails, pmOpen, pmResults, pmClosed, pmCompleted, pmDone, pmReturn>>

\* Mutant: the feeder blocks on the send alone.
FeederThroughOnly == pmNext > NTasks
\* The feeder is through, or gives up when the context ends.
FeederThrough == pmNext > NTasks \/ pmDone

FeederEnds ==
  /\ pmOpen /\ FeederThrough
  /\ pmOpen' = FALSE
  /\ UNCHANGED <<pmFails, pmNext, pmHolds, pmAlive, pmResults, pmClosed, pmCompleted,
                 pmDone, pmRan, pmReturn>>

\* The task ends, in any order, and its result always finds room.
TaskEnds(w) ==
  /\ pmHolds[w] # NoTask
  /\ pmResults' = pmResults \union {pmHolds[w]}
  /\ pmHolds' = [pmHolds EXCEPT ![w] = NoTask]
  /\ UNCHANGED <<pmFails, pmNext, pmOpen, pmAlive, pmClosed, pmCompleted, pmDone,
                 pmRan, pmReturn>>

\* A worker leaves the range over the closed jobs channel.
PoolWorkerExits(w) ==
  /\ ~pmOpen /\ w \in pmAlive /\ pmHolds[w] = NoTask
  /\ pmAlive' = pmAlive \ {w}
  /\ UNCHANGED <<pmFails, pmNext, pmOpen, pmHolds, pmResults, pmClosed, pmCompleted,
                 pmDone, pmRan, pmReturn>>

\* wg.Wait() has returned.
AllLeft == pmAlive = {}

CloseResults ==
  /\ ~pmClosed /\ AllLeft
  /\ pmClosed' = TRUE
  /\ UNCHANGED <<pmFails, pmNext, pmOpen, pmHolds, pmAlive, pmResults, pmCompleted,
                 pmDone, pmRan, pmReturn>>

Drain(t) ==
  /\ pmReturn = Pending /\ t \in pmResults
  /\ pmResults' = pmResults \ {t} /\ pmCompleted' = pmCompleted \union {t}
  /\ UNCHANGED <<pmFails, pmNext, pmOpen, pmHolds, pmAlive, pmClosed, pmDone,
                 pmRan, pmReturn>>

\* Mutant: the error that arrived is reported, whichever task it is of.
FirstErrorArrived(done) == CHOOSE t \in done \intersect pmFails : \A s \in done \intersect pmFails : s <= t
\* Errors are looked up in task order once everything has drained.
FirstError(done) == CHOOSE t \in done \intersect pmFails : \A s \in done \intersect pmFails : t <= s

Answer ==
  CASE pmDone -> [kind |-> "context", task |-> NoTask]
    [] ~pmDone /\ pmCompleted = Task /\ pmFails # {} -> [kind |-> "error", task |-> FirstError(pmCompleted)]
    [] ~pmDone /\ pmCompleted = Task /\ pmFails = {} -> [kind |-> "values", task |-> NoTask]
    [] OTHER -> [kind |-> "stopped", task |-> NoTask]

Return ==
  /\ pmReturn = Pending /\ pmClosed /\ pmResults = {}
  /\ pmReturn' = Answer
  /\ UNCHANGED <<pmFails, pmNext, pmOpen, pmHolds, pmAlive, pmResults, pmClosed,
                 pmCompleted, pmDone, pmRan>>

CtxEnds ==
  /\ ~pmDone /\ pmReturn = Pending
  /\ pmDone' = TRUE
  /\ UNCHANGED <<pmFails, pmNext, pmOpen, pmHolds, pmAlive, pmResults, pmClosed,
                 pmCompleted, pmRan, pmReturn>>

PmStep ==
  \/ \E w \in Worker : HandOut(w) \/ TaskEnds(w) \/ PoolWorkerExits(w)
  \/ FeederEnds \/ CloseResults \/ Return
  \/ \E t \in Task : Drain(t)
PmNext == PmStep \/ CtxEnds

\* The goroutines are scheduled and every task returns.
PmFairness == WF_pmVars(PmStep)
PmSpec == PmInit /\ [][PmNext]_pmVars /\ PmFairness

-----------------------------------------------------------------------------
\* Whatever the order of completion, the answer is the one of a sequential
\* loop over the tasks: all values when none fails, else the error of the
\* first task that fails; each task has then run exactly once.  Only the end
\* of the context gives another answer.
SequentialAnswer ==
  pmReturn # Pending /\ pmReturn.kind # "context" =>
    /\ \A t \in Task : pmRan[t] = 1
    /\ pmReturn = IF pmFails = {} THEN [kind |-> "values", task |-> NoTask]
                  ELSE [kind |-> "error", task |-> CHOOSE t \in pmFails : \A s \in pmFails : t <= s]

\* The caller returns, with or without a context that ends, and leaves no
\* goroutine behind.
PoolReturns == <>(pmReturn # Pending /\ pmAlive = {} /\ ~pmOpen)

\* The pool is a sequential loop to its caller: the same answer, and an end.
PoolIsSequential == [](PmTypeOK /\ SequentialAnswer) /\ PoolReturns
=============================================================================
