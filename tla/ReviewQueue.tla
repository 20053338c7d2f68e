----------------------------- MODULE ReviewQueue -----------------------------
(***************************************************************************)
(* The wheel runner and its LLM audits: internal/wheelrun/runner.go and    *)
(* internal/llmreview/gate.go.                                             *)
(*                                                                         *)
(* One goroutine, the pass, walks the watchlist for ever.  An ALERT is     *)
(* persisted, becomes the baseline that holds back repeats of itself, and  *)
(* is handed to a bounded queue; workers take it from there, ask the model *)
(* and append the disposition.  Pass and workers share the baseline and    *)
(* the in-flight set under reviewMu, which is released between any two of  *)
(* the steps below.                                                        *)
(*                                                                         *)
(* What Evaluate decides for a symbol is any candidate.  The time of an    *)
(* ALERT is kept as how old it is against repeatAlertWindow and, for a     *)
(* closing one, closeAlertCooldown.                                        *)
(***************************************************************************)
EXTENDS Integers, Sequences, FiniteSets

CONSTANTS
    Symbol,      \* wheel bindings of the watchlist
    Contract,    \* option contracts a decision may choose
    Closing,     \* whether Evaluate may choose to buy back a held leg
    MaxSignals,  \* bound on the ALERT rows of a behaviour
    Worker,      \* the review workers
    QueueDepth,  \* capacity of reviewCh
    Faults,      \* what may go wrong: "store" appends, "review" calls, "panic"s, "cancel"
    None         \* no baseline, no decision, no task

ASSUME ConstantsAssumption ==
    /\ MaxSignals \in Nat
    /\ QueueDepth \in Nat
    /\ Closing \in BOOLEAN
    /\ Worker # {}
    /\ Faults \subseteq {"store", "review", "panic", "cancel"}
    /\ None \notin Symbol \cup Contract \cup Nat

Id == 1 .. MaxSignals

\* A decision to alert: a contract to sell, or a held leg to buy back.
Decision == [symbol : Symbol, contract : Contract, close : {FALSE, Closing}]

VARIABLES
    (* durable: PostgreSQL *)
    alerts,     \* the ALERT rows, by id
    acts,       \* kinds of review action appended for a row
    (* the clock and the run's context *)
    age,        \* of a row: 0 inside repeatAlertWindow, 1 past it, 2 past closeAlertCooldown
    cancelled,  \* ctx is done
    (* the runner *)
    lastAlert,  \* a symbol's suppression baseline: its last row and its last closing row
    inflight,   \* reviewInflight
    reviewCh,   \* ids of the queued rows
    closed,     \* reviewCh is closed
    pass,       \* where the pass is
    decision,   \* what the pass decided for the symbol it is at, or None between two
    pc,         \* where a worker is
    task        \* the row a worker audits

store   == <<alerts, acts>>
world   == <<age, cancelled>>
passing == <<pass, decision>>
workers == <<pc, task>>
vars    == <<store, world, lastAlert, inflight, reviewCh, closed, passing, workers>>

Verdict == {"LLM_REVIEW", "REJECTED"}
Busy    == {"gate", "wait", "again", "clear", "release"}

Rows      == DOMAIN alerts
newest    == Len(alerts)
SymOf(i)  == alerts[i].symbol
Queued    == {reviewCh[k] : k \in DOMAIN reviewCh}
Running   == {task[w] : w \in {v \in Worker : pc[v] \in Busy}}

TypeOK ==
    /\ alerts \in Seq(Decision) /\ newest <= MaxSignals
    /\ acts \in [Id -> SUBSET (Verdict \cup {"LLM_REVIEW_FAILED"})]
    /\ age \in [Id -> 0 .. 2]
    /\ lastAlert \in [Symbol -> {None} \cup [at : Rows, closeAt : Rows \cup {None}]]
    /\ inflight \subseteq Symbol
    /\ reviewCh \in Seq(Rows) /\ Len(reviewCh) <= QueueDepth
    /\ cancelled \in BOOLEAN /\ closed \in BOOLEAN
    /\ pass \in {"next", "append", "commit", "enqueue", "send", "drop", "dropClear", "returned"}
    /\ decision \in IF pass \in {"next", "returned"} THEN {None} ELSE Decision
    /\ pc \in [Worker -> {"idle", "exited"} \cup Busy]
    /\ task \in [Worker -> Rows \cup {None}]
    /\ \A w \in Worker : pc[w] \in Busy => task[w] # None

Init ==
    /\ alerts = <<>> /\ acts = [i \in Id |-> {}]
    /\ age = [i \in Id |-> 0] /\ cancelled = FALSE
    /\ lastAlert = [y \in Symbol |-> None]
    /\ inflight = {} /\ reviewCh = <<>> /\ closed = FALSE
    /\ pass = "next" /\ decision = None
    /\ pc = [w \in Worker |-> "idle"] /\ task = [w \in Worker |-> None]

-----------------------------------------------------------------------------
(* The pass: runSymbol from Evaluate on *)

\* suppressRepeatAlert: the baseline holds back the same contract; buying back has a
\* cooldown of its own.
Suppressed(d) ==
    LET last == lastAlert[d.symbol]
    IN  /\ last # None
        /\ IF d.close THEN last.closeAt # None /\ age[last.closeAt] < 2
                      ELSE alerts[last.at].contract = d.contract /\ age[last.at] < 1

\* Evaluate decides to alert, and suppressRepeatAlert lets it pass.  A HOLD, decided
\* or made of a repeat, leaves nothing that is read here; under a done context the
\* reads before Evaluate fail.
RunSymbol(d) ==
    /\ pass = "next" /\ ~cancelled /\ newest < MaxSignals
    /\ ~Suppressed(d)
    /\ decision' = d
    /\ pass' = "append"
    /\ UNCHANGED <<store, world, lastAlert, inflight, reviewCh, closed, workers>>

\* runSymbol returns.
EndTurn == pass' = "next" /\ decision' = None

\* validateSignal: an ALERT needs a candidate, and takeProfitSignal returns none.
ValidSignal(d) == ~d.close

\* AppendSignal; an error ends the symbol's turn before the baseline is written.  A
\* done context is such an error.
AppendSignal ==
    /\ pass = "append"
    /\ \/ /\ ValidSignal(decision) /\ ~cancelled
          /\ alerts' = Append(alerts, decision)
          /\ pass' = "commit"
          /\ UNCHANGED decision
       \/ /\ ~ValidSignal(decision) \/ "store" \in Faults \/ cancelled
          /\ EndTurn
          /\ UNCHANGED alerts
    /\ UNCHANGED <<acts, world, lastAlert, inflight, reviewCh, closed, workers>>

CommitAlertBaseline ==
    /\ pass = "commit"
    /\ LET last == lastAlert[decision.symbol]
           closeAt == IF decision.close THEN newest ELSE IF last = None THEN None ELSE last.closeAt
       IN  lastAlert' = [lastAlert EXCEPT ![decision.symbol] = [at |-> newest, closeAt |-> closeAt]]
    /\ pass' = "enqueue"
    /\ UNCHANGED <<store, world, inflight, reviewCh, closed, decision, workers>>

\* enqueueReview: a symbol with an audit on its way gets no second one.
MarkInflight ==
    /\ pass = "enqueue"
    /\ IF decision.symbol \in inflight
       THEN EndTurn /\ UNCHANGED inflight
       ELSE /\ pass' = "send" /\ inflight' = inflight \cup {decision.symbol}
            /\ UNCHANGED decision
    /\ UNCHANGED <<store, world, lastAlert, reviewCh, closed, workers>>

\* Mutant of SendReview: one audit too many fits in the queue.
SendReviewOverfull ==
    /\ pass = "send"
    /\ IF Len(reviewCh) <= QueueDepth
       THEN reviewCh' = Append(reviewCh, newest) /\ EndTurn
       ELSE pass' = "drop" /\ UNCHANGED <<reviewCh, decision>>
    /\ UNCHANGED <<store, world, lastAlert, inflight, closed, workers>>

\* The non-blocking send.
SendReview ==
    /\ pass = "send"
    /\ IF Len(reviewCh) < QueueDepth
       THEN reviewCh' = Append(reviewCh, newest) /\ EndTurn
       ELSE pass' = "drop" /\ UNCHANGED <<reviewCh, decision>>
    /\ UNCHANGED <<store, world, lastAlert, inflight, closed, workers>>

\* Mutant of DropReview: the dropped audit keeps its symbol marked.
DropKeepsMark ==
    /\ pass = "drop"
    /\ pass' = "dropClear"
    /\ UNCHANGED <<store, world, lastAlert, inflight, reviewCh, closed, decision, workers>>

DropReview ==
    /\ pass = "drop"
    /\ inflight' = inflight \ {decision.symbol}
    /\ pass' = "dropClear"
    /\ UNCHANGED <<store, world, lastAlert, reviewCh, closed, decision, workers>>

DropClears ==
    /\ pass = "dropClear"
    /\ lastAlert' = [lastAlert EXCEPT ![decision.symbol] = None]
    /\ EndTurn
    /\ UNCHANGED <<store, world, inflight, reviewCh, closed, workers>>

-----------------------------------------------------------------------------
(* The workers: reviewWorker, reviewAlert and RecordLLMGate *)

TakeTask(w) ==
    /\ pc[w] = "idle" /\ reviewCh # <<>>
    /\ task' = [task EXCEPT ![w] = Head(reviewCh)]
    /\ reviewCh' = Tail(reviewCh)
    /\ pc' = [pc EXCEPT ![w] = "gate"]
    /\ UNCHANGED <<store, world, lastAlert, inflight, closed, passing>>

\* Mutant of Gate: a failed call is recorded as the model's rejection.
GateRejectsFailures(w, disposition) ==
    /\ disposition = "LLM_REVIEW_FAILED" => "review" \in Faults \/ cancelled
    /\ \/ acts' = [acts EXCEPT ![task[w]] =
                       @ \cup {IF disposition = "LLM_REVIEW" THEN disposition ELSE "REJECTED"}]
       \/ ("store" \in Faults \/ cancelled) /\ UNCHANGED acts

\* One call of RecordLLMGate: the disposition is returned whether or not it could be
\* appended.  A done context fails the call.
Gate(w, disposition) ==
    /\ disposition = "LLM_REVIEW_FAILED" => "review" \in Faults \/ cancelled
    /\ \/ acts' = [acts EXCEPT ![task[w]] = @ \cup {disposition}]
       \/ ("store" \in Faults \/ cancelled) /\ UNCHANGED acts

\* The first audit.  Only a failed call is repeated, after a pause.
ReviewAlert(w) ==
    /\ pc[w] = "gate"
    /\ \/ /\ \E d \in Verdict : Gate(w, d)
          /\ pc' = [pc EXCEPT ![w] = "release"]
       \/ /\ Gate(w, "LLM_REVIEW_FAILED")
          /\ pc' = [pc EXCEPT ![w] = "wait"]
    /\ UNCHANGED <<alerts, world, lastAlert, inflight, reviewCh, closed, passing, task>>

\* Mutant of Pause: the pause ends with the context only.
PauseUntilCancelled(w) ==
    /\ pc[w] = "wait" /\ cancelled
    /\ pc' = [pc EXCEPT ![w] = "release"]
    /\ UNCHANGED <<store, world, lastAlert, inflight, reviewCh, closed, passing, task>>

Pause(w) ==
    /\ pc[w] = "wait"
    /\ \/ pc' = [pc EXCEPT ![w] = "again"]
       \/ cancelled /\ pc' = [pc EXCEPT ![w] = "release"]
    /\ UNCHANGED <<store, world, lastAlert, inflight, reviewCh, closed, passing, task>>

ReviewAgain(w) ==
    /\ pc[w] = "again"
    /\ \/ /\ \E d \in Verdict : Gate(w, d)
          /\ pc' = [pc EXCEPT ![w] = "release"]
       \/ /\ Gate(w, "LLM_REVIEW_FAILED")
          /\ pc' = [pc EXCEPT ![w] = "clear"]
    /\ UNCHANGED <<alerts, world, lastAlert, inflight, reviewCh, closed, passing, task>>

\* recover: a panic of the audit clears the baseline like a failure.
Panic(w) ==
    /\ "panic" \in Faults
    /\ pc[w] \in {"gate", "again"}
    /\ pc' = [pc EXCEPT ![w] = "clear"]
    /\ UNCHANGED <<store, world, lastAlert, inflight, reviewCh, closed, passing, task>>

ClearSuppression(w) ==
    /\ pc[w] = "clear"
    /\ lastAlert' = [lastAlert EXCEPT ![SymOf(task[w])] = None]
    /\ pc' = [pc EXCEPT ![w] = "release"]
    /\ UNCHANGED <<store, world, inflight, reviewCh, closed, passing, task>>

ReleaseSymbol(w) ==
    /\ pc[w] = "release"
    /\ inflight' = inflight \ {SymOf(task[w])}
    /\ pc' = [pc EXCEPT ![w] = "idle"]
    /\ task' = [task EXCEPT ![w] = None]
    /\ UNCHANGED <<store, world, lastAlert, reviewCh, closed, passing>>

\* Mutant of WorkerExits: the worker looks at the closing, not at the queue.
WorkerExitsAtClose(w) ==
    /\ pc[w] = "idle" /\ closed
    /\ pc' = [pc EXCEPT ![w] = "exited"]
    /\ UNCHANGED <<store, world, lastAlert, inflight, reviewCh, closed, passing, task>>

\* The range over a closed and drained channel ends.
WorkerExits(w) ==
    /\ pc[w] = "idle" /\ closed /\ reviewCh = <<>>
    /\ pc' = [pc EXCEPT ![w] = "exited"]
    /\ UNCHANGED <<store, world, lastAlert, inflight, reviewCh, closed, passing, task>>

-----------------------------------------------------------------------------
(* The clock, the context and Close *)

\* Time passes; of two rows the older one leaves a window first.
WindowExpires(i) ==
    LET oldest(k) == IF alerts[k].close THEN 2 ELSE 1
    IN  /\ i \in Rows /\ age[i] < oldest(i)
        /\ \A k \in 1 .. i - 1 : age[k] > age[i] \/ age[k] = oldest(k)
        /\ age' = [age EXCEPT ![i] = @ + 1]
        /\ UNCHANGED <<store, cancelled, lastAlert, inflight, reviewCh, closed, passing, workers>>

Cancel ==
    /\ "cancel" \in Faults /\ ~cancelled
    /\ cancelled' = TRUE
    /\ UNCHANGED <<store, age, lastAlert, inflight, reviewCh, closed, passing, workers>>

\* Mutant of CloseQueue: Close waits for the workers before it closes the channel.
CloseAfterWait ==
    /\ cancelled /\ pass = "next" /\ ~closed
    /\ \A w \in Worker : pc[w] = "exited"
    /\ closed' = TRUE
    /\ UNCHANGED <<store, world, lastAlert, inflight, reviewCh, passing, workers>>

\* Run sees the done context between two passes; its deferred Close closes the channel.
CloseQueue ==
    /\ cancelled /\ pass = "next" /\ ~closed
    /\ closed' = TRUE
    /\ UNCHANGED <<store, world, lastAlert, inflight, reviewCh, passing, workers>>

\* reviewWG.Wait has returned, and with it Close and Run.
CloseReturns ==
    /\ closed /\ pass = "next" /\ \A w \in Worker : pc[w] = "exited"
    /\ pass' = "returned"
    /\ UNCHANGED <<store, world, lastAlert, inflight, reviewCh, closed, decision, workers>>

-----------------------------------------------------------------------------

PassStep ==
    \/ AppendSignal \/ CommitAlertBaseline \/ MarkInflight \/ SendReview
    \/ DropReview \/ DropClears \/ CloseQueue \/ CloseReturns

WorkerStep(w) ==
    \/ TakeTask(w) \/ ReviewAlert(w) \/ Pause(w) \/ ReviewAgain(w) \/ Panic(w)
    \/ ClearSuppression(w) \/ ReleaseSymbol(w) \/ WorkerExits(w)

Next ==
    \/ \E d \in Decision : RunSymbol(d)
    \/ PassStep
    \/ \E w \in Worker : WorkerStep(w)
    \/ \E i \in Id : WindowExpires(i)
    \/ Cancel

Spec == Init /\ [][Next]_vars

\* The goroutines are scheduled; an LLM call ends by the timeout of its client.
FairSpec == Spec /\ WF_vars(PassStep) /\ \A w \in Worker : WF_vars(WorkerStep(w))

-----------------------------------------------------------------------------
(* Properties *)

\* reviewInflight names exactly the symbols with one audit queued, running or about
\* to be queued, and never two: its updates by the pass and by the workers, in locked
\* sections of their own, neither leak a symbol nor let a second audit in.
InflightIsExact ==
    /\ inflight = {SymOf(i) : i \in Queued \cup Running}
                  \cup (IF pass \in {"send", "drop"} THEN {decision.symbol} ELSE {})
    /\ \A i, j \in Queued \cup Running : SymOf(i) = SymOf(j) => i = j
    /\ Cardinality(Queued) = Len(reviewCh)
    /\ \A v, w \in Worker : pc[v] \in Busy /\ pc[w] \in Busy /\ task[v] = task[w] => v = w

\* A verdict that was recorded is final: no audit of its row is queued or running any
\* more but the one that releases the symbol, so no row is ever both approved and
\* rejected, though a failed call is repeated.
VerdictEndsAudit ==
    \A i \in Rows : acts[i] \cap Verdict # {} =>
        i \notin Queued /\ \A w \in Worker : task[w] = i => pc[w] = "release"

\* Close returns with the queue drained and every symbol released ("stops the review
\* workers after queued audits complete").
CloseDrains == pass = "returned" => reviewCh = <<>> /\ inflight = {}

\* The queue's books are exact at every point of a pass and its workers: what is
\* marked is what is audited, and a closed queue is drained.
AuditsAreExact ==
    /\ TypeOK
    /\ InflightIsExact
    /\ CloseDrains

\* No symbol stays marked for ever, whatever fails, panics or is cancelled: one that
\* did would never be audited again.
InflightEnds == \A y \in Symbol : (y \in inflight) ~> (y \notin inflight)

\* A cancelled run comes to its end: Close does not wait for ever for a worker.
CancelEnds == cancelled ~> (pass = "returned")

\* Every audit comes to its end, and so does the runner.
AuditsEnd == InflightEnds /\ CancelEnds

(* What comments and documents say, and the code does not do *)

\* WHEEL_STRATEGY.md: the payload of a closing ALERT is persisted
\* (close_position/close_qty/close_quote); a healthy store takes it.
CloseIsPersisted ==
    [][pass = "append" /\ decision.close /\ ~cancelled => alerts' # alerts]_pass
=============================================================================
