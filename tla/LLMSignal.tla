------------------------------ MODULE LLMSignal ------------------------------
(***************************************************************************)
(* How a decision of the language model becomes an ALERT: the scheduled    *)
(* llmstrategy.Runner and the handler of POST /v1/wheel/llm-signal, both   *)
(* of which end in llmsignal.Service.Submit, for one symbol.  The wheel    *)
(* runner, the buttons and the fills of OrderConfirm are the world around  *)
(* them: they add to the same tables.                                      *)
(*                                                                         *)
(* A contract stands for the pair of contract and direction, which is what *)
(* validate compares.  Every store call is an action.                      *)
(***************************************************************************)
EXTENDS Integers, Sequences, FiniteSets, FiniteSetsExt

CONSTANTS
  Contract,     \* what a decision may name
  Wheel,        \* contracts the wheel strategy may have orders for
  Request,      \* concurrent HTTP requests
  Scheduler,    \* the goroutine of the llmstrategy runner
  MaxSignals,   \* bound on the rows of the symbol
  MaxDaily,     \* Policy.MaxDailySignals, taken equal for both callers
  Faults,       \* subset of {"read", "store", "restart"}
  None

ASSUME ConstantsAssumption ==
  /\ MaxSignals \in Nat
  /\ MaxDaily \in Nat \ {0}
  /\ IsFiniteSet(Request)
  /\ Scheduler \notin Request
  /\ Faults \subseteq {"read", "store", "restart"}
  /\ None \notin Contract \cup Wheel

Proc == Request \cup {Scheduler}
\* NO, REJECTED and FILL are one action here, CLOSED: each of them ends a
\* pending order, and FILL, which comes after CONFIRM only, is the one that does
\* not dispose of a signal by itself.  LLM_REVIEW_FAILED is read by no query.
Action == {"LLM_REVIEW", "CONFIRM", "CLOSED"}
Stage == {"idle", "list", "generate", "validate", "count", "append", "gate"}

VARIABLES
  signals,   \* wheel_signals: the ALERT rows of the symbol, by id
  last,      \* the largest id
  acts,      \* wheel_signal_actions: the actions of each row
  claims,    \* a yes is being served ("placing") or was ("done")
  recent,    \* rows of the last 15 minutes, the window of dedupe and of yes
  today,     \* rows since midnight UTC
  pc,        \* the next step of each submission
  open,      \* contracts of the pending orders it read; None is Go's nil
  choice,    \* the contract it decided on
  listed,    \* the rows of the day it read for the quota
  row,       \* the id of the row it appended
  resting,   \* contracts with a pending order of the wheel strategy
  blind,     \* submissions that a failed read has misled
  late       \* rows that were confirmed after their window had gone by

store == <<signals, last, acts, claims, recent, today, resting>>
local == <<pc, open, choice, listed, row>>
vars == <<store, local, blind, late>>

Row == [contract : Contract, by : {"runner", "request", "misled"}]

TypeOK ==
  /\ last \in 0..MaxSignals
  /\ signals \in [1..last -> Row]
  /\ acts \in [1..last -> SUBSET Action]
  /\ claims \in [1..last -> {"none", "placing", "done"}]
  /\ recent \subseteq 1..last
  /\ today \subseteq 1..last
  /\ pc \in [Proc -> Stage]
  /\ open \in [Proc -> (SUBSET (Contract \cup Wheel)) \cup {None}]
  /\ choice \in [Proc -> Contract \cup {None}]
  /\ listed \in [Proc -> SUBSET (1..last)]
  /\ row \in [Proc -> 0..last]
  /\ resting \subseteq Wheel
  /\ blind \subseteq Proc
  /\ late \subseteq 1..last

Init ==
  /\ last = 0
  /\ signals = <<>>
  /\ acts = <<>>
  /\ claims = <<>>
  /\ recent = {}
  /\ today = {}
  /\ pc = [p \in Proc |-> "idle"]
  /\ open = [p \in Proc |-> None]
  /\ choice = [p \in Proc |-> None]
  /\ listed = [p \in Proc |-> {}]
  /\ row = [p \in Proc |-> 0]
  /\ resting = {}
  /\ blind = {}
  /\ late = {}

------------------------------------------------------------------------------
\* What the queries of the store see.

\* HasRecentUndisposedSignal: a failed review is no disposition.
Undisposed(r) == acts[r] \cap {"CONFIRM", "CLOSED"} = {}
HasRecentUndisposedSignal == \E r \in recent : Undisposed(r)

\* The predicate of ListPendingOrders.
IsPending(r) == "CONFIRM" \in acts[r] /\ "CLOSED" \notin acts[r]
PendingRows == {r \in 1..last : IsPending(r)}

\* Rows that passed the gate.
Approved(rows) == {r \in rows : "LLM_REVIEW" \in acts[r]}

------------------------------------------------------------------------------
\* Submissions.

Goto(p, stage) == pc' = [pc EXCEPT ![p] = stage]

\* The submission returns; what it held goes with its stack.
Return(p) ==
  /\ Goto(p, "idle")
  /\ open' = [open EXCEPT ![p] = None]
  /\ choice' = [choice EXCEPT ![p] = None]
  /\ listed' = [listed EXCEPT ![p] = {}]
  /\ row' = [row EXCEPT ![p] = 0]
  /\ blind' = blind \ {p}

\* The pass of the runner goes on with the symbol unless an ALERT of the last
\* 15 minutes is undisposed; the error of the query skips the symbol as well.
Dedupe ==
  /\ pc[Scheduler] = "idle"
  /\ ~ HasRecentUndisposedSignal
  /\ Goto(Scheduler, "list")
  /\ UNCHANGED <<store, open, choice, listed, row, blind, late>>

\* A request names its contract; quotes and accounts are there.  Nothing asks
\* for undisposed signals here.
Receive(p) ==
  /\ pc[p] = "idle"
  /\ Goto(p, "list")
  /\ \E c \in Contract : choice' = [choice EXCEPT ![p] = c]
  /\ UNCHANGED <<store, open, listed, row, blind, late>>

\* The slice that ListPendingOrders returns for the orders whose signal it could
\* load: it is declared without elements, so it is nil when no order is pending.
Declared(orders, contracts) == IF orders = {} THEN None ELSE contracts

\* ListPendingOrders.  An order whose GetSignal fails is kept without contract.
ListPendingOrders(p) ==
  LET pending == {signals[r].contract : r \in PendingRows} \cup resting
  IN /\ pc[p] = "list"
     /\ \E loaded \in SUBSET pending :
          /\ loaded = pending \/ "read" \in Faults
          /\ open' = [open EXCEPT ![p] = Declared(pending, loaded)]
          /\ blind' = IF loaded = pending THEN blind ELSE blind \cup {p}
     /\ Goto(p, IF p = Scheduler THEN "generate" ELSE "validate")
     /\ UNCHANGED <<store, choice, listed, row, late>>

\* The query fails: no decision without it.
ListFails(p) ==
  /\ "read" \in Faults
  /\ pc[p] = "list"
  /\ Return(p)
  /\ UNCHANGED <<store, late>>

\* The snapshot is taken and the model asked, for up to three minutes.
Generate ==
  /\ pc[Scheduler] = "generate"
  /\ \E c \in Contract : choice' = [choice EXCEPT ![Scheduler] = c]
  /\ Goto(Scheduler, "validate")
  /\ UNCHANGED <<store, open, listed, row, blind, late>>

\* No snapshot, no decision, or a contract that is not in the snapshot: a HOLD
\* row is written, which no query of this module returns.
GenerateFails ==
  /\ pc[Scheduler] = "generate"
  /\ Return(Scheduler)
  /\ UNCHANGED <<store, late>>

\* Normalize, validate or ListSignals turns the decision down: always without
\* a declaration or with an order for the same contract, and for its data in
\* any other case.
Refuse(p) ==
  /\ pc[p] = "validate"
  /\ Return(p)
  /\ UNCHANGED <<store, late>>

\* Mutant: the pending orders are declared and not compared.
AcceptAnyContract(p) ==
  /\ pc[p] = "validate"
  /\ open[p] # None
  /\ listed' = [listed EXCEPT ![p] = today]
  /\ open' = [open EXCEPT ![p] = None]
  /\ Goto(p, "count")
  /\ UNCHANGED <<store, choice, row, blind, late>>

\* The decision is well-formed, and ListSignals returns the ALERTs of the day.
Accept(p) ==
  /\ pc[p] = "validate"
  /\ open[p] # None
  /\ choice[p] \notin open[p]
  /\ listed' = [listed EXCEPT ![p] = today]
  /\ open' = [open EXCEPT ![p] = None]
  /\ Goto(p, "count")
  /\ UNCHANGED <<store, choice, row, blind, late>>

\* Mutant: the quota is compared with > instead of >=.
CountOneMore(p) ==
  /\ pc[p] = "count"
  /\ \/ Return(p)
     \/ /\ Cardinality(Approved(listed[p])) <= MaxDaily
        /\ Goto(p, "append")
        /\ listed' = [listed EXCEPT ![p] = {}]
        /\ UNCHANGED <<open, choice, row, blind>>
  /\ UNCHANGED <<store, late>>

\* HasAction for each listed row; a row whose read fails is not counted.  Rows
\* of the wheel strategy count as well, so the quota may be spent without ours.
CountQuota(p) ==
  /\ pc[p] = "count"
  /\ \E counted \in SUBSET Approved(listed[p]) :
       /\ counted = Approved(listed[p]) \/ "read" \in Faults
       /\ \/ Return(p)
          \/ /\ Cardinality(counted) < MaxDaily
             /\ Goto(p, "append")
             /\ listed' = [listed EXCEPT ![p] = {}]
             /\ blind' = IF counted = Approved(listed[p]) THEN blind ELSE blind \cup {p}
             /\ UNCHANGED <<open, choice, row>>
  /\ UNCHANGED <<store, late>>

\* One new ALERT row.
AppendSignal(p) ==
  LET by == IF p \in blind THEN "misled" ELSE IF p = Scheduler THEN "runner" ELSE "request"
  IN /\ pc[p] = "append"
     /\ last < MaxSignals
     /\ last' = last + 1
     /\ signals' = Append(signals, [contract |-> choice[p], by |-> by])
     /\ acts' = Append(acts, {})
     /\ claims' = Append(claims, "none")
     /\ recent' = recent \cup {last'}
     /\ today' = today \cup {last'}
     /\ row' = [row EXCEPT ![p] = last']
     /\ Goto(p, "gate")
     /\ UNCHANGED <<open, choice, listed, resting, blind, late>>

\* Mutant: the error is overlooked and a row that does not exist is reviewed.
AppendUnchecked(p) ==
  /\ "store" \in Faults
  /\ pc[p] = "append"
  /\ row' = [row EXCEPT ![p] = last + 1]
  /\ Goto(p, "gate")
  /\ UNCHANGED <<store, open, choice, listed, blind, late>>

\* The insert fails, and Submit returns its error.
AppendFails(p) ==
  /\ "store" \in Faults
  /\ pc[p] = "append"
  /\ Return(p)
  /\ UNCHANGED <<store, late>>

Record(r, a) == acts' = [acts EXCEPT ![r] = @ \cup {a}]

\* RecordLLMGate: one review, one action, no retry.
Gate(p) ==
  /\ pc[p] = "gate"
  /\ \E a \in {"LLM_REVIEW", "CLOSED"} : Record(row[p], a)
  /\ Return(p)
  /\ UNCHANGED <<signals, last, claims, recent, today, resting, late>>

\* The review fails, which no query sees, or its action is not stored.
GateFails(p) ==
  /\ pc[p] = "gate"
  /\ Return(p)
  /\ UNCHANGED <<store, late>>

------------------------------------------------------------------------------
\* The world.

\* An order of the wheel strategy becomes pending, or no longer is.
WheelOrder ==
  /\ \E c \in Wheel :
       resting' = IF c \in resting THEN resting \ {c} ELSE resting \cup {c}
  /\ UNCHANGED <<signals, last, acts, claims, recent, today, local, blind, late>>

\* A yes on an approved, recent card claims its signal; neither a no nor a
\* REJECTED stands in its way.
Claim ==
  /\ \E r \in recent :
       /\ "LLM_REVIEW" \in acts[r]
       /\ claims[r] = "none"
       /\ claims' = [claims EXCEPT ![r] = "placing"]
  /\ UNCHANGED <<signals, last, acts, recent, today, resting, local, blind, late>>

\* The order is placed and the CONFIRM appended, or nothing was placed and the
\* press ends in a REJECTED.
Confirm ==
  /\ \E r \in 1..last, a \in {"CONFIRM", "CLOSED"} :
       /\ claims[r] = "placing"
       /\ Record(r, a)
       /\ claims' = [claims EXCEPT ![r] = "done"]
       /\ late' = IF a = "CONFIRM" /\ r \notin recent THEN late \cup {r} ELSE late
  /\ UNCHANGED <<signals, last, recent, today, resting, local, blind>>

\* A no on a card.
Decline ==
  /\ \E r \in 1..last : "LLM_REVIEW" \in acts[r] /\ Record(r, "CLOSED")
  /\ UNCHANGED <<signals, last, claims, recent, today, resting, local, blind, late>>

\* The fill watcher records the fill.
Fill ==
  /\ \E r \in 1..last : "CONFIRM" \in acts[r] /\ Record(r, "CLOSED")
  /\ UNCHANGED <<signals, last, claims, recent, today, resting, local, blind, late>>

\* Time: the oldest row leaves the window; the day ends.
Age ==
  /\ recent # {}
  /\ recent' = recent \ {Min(recent)}
  /\ UNCHANGED <<signals, last, acts, claims, today, resting, local, blind, late>>

NextDay ==
  /\ today # {}
  /\ today' = {}
  /\ UNCHANGED <<signals, last, acts, claims, recent, resting, local, blind, late>>

\* The process restarts: submissions and presses are lost, the tables stay.
Restart ==
  /\ "restart" \in Faults
  /\ pc' = [p \in Proc |-> "idle"]
  /\ open' = [p \in Proc |-> None]
  /\ choice' = [p \in Proc |-> None]
  /\ listed' = [p \in Proc |-> {}]
  /\ row' = [p \in Proc |-> 0]
  /\ blind' = {}
  /\ claims' = [r \in 1..last |-> IF claims[r] = "placing" THEN "done" ELSE claims[r]]
  /\ UNCHANGED <<signals, last, acts, recent, today, resting, late>>

Next ==
  \/ Dedupe \/ Generate \/ GenerateFails
  \/ \E p \in Request : Receive(p)
  \/ \E p \in Proc :
       \/ ListPendingOrders(p) \/ ListFails(p)
       \/ Refuse(p) \/ Accept(p) \/ CountQuota(p)
       \/ AppendSignal(p) \/ AppendFails(p)
       \/ Gate(p) \/ GateFails(p)
  \/ WheelOrder \/ Claim \/ Confirm \/ Decline \/ Fill
  \/ Age \/ NextDay \/ Restart

Spec == Init /\ [][Next]_vars

------------------------------------------------------------------------------
\* The quota of a day is checked before the review and spent after it, by
\* submissions that do not know of each other: it is exceeded by at most the
\* submissions that were on their way when it was reached, and by nothing
\* else, as long as the reads succeed (service.go:318-343).
QuotaOvershoot ==
  Cardinality({r \in Approved(today) : signals[r].by # "misled"}) <= MaxDaily + Cardinality(Proc) - 1

\* A row is in play while a person may be asked about it or its order is
\* listed as open.
InPlay(r) == (r \in recent /\ Undisposed(r)) \/ IsPending(r)

\* The runner never has two rows for one contract in play at once: what it
\* read before the model's three minutes still protects it when it appends.
\* The exceptions are a pending order whose row could not be loaded, and an
\* order whose CONFIRM came when its row had already left the window
\* (runner.go:114-132, service.go:230-237).
NoStackedRows ==
  \A r, s \in 1..last :
    /\ r < s
    /\ signals[r].contract = signals[s].contract
    /\ signals[r].by = "runner" /\ signals[s].by = "runner"
    /\ InPlay(r) /\ InPlay(s)
    => r \in late

\* The rows of a symbol: well-formed, and never two of the runner's in play.
RowsAreSound == TypeOK /\ NoStackedRows

\* A query that found no pending order declares so: a decision that reaches
\* the checks, always after the query, is not turned down as undeclared
\* (store.go:1000-1002).
QueriedIsDeclared == \A p \in Proc : pc[p] = "validate" => open[p] # None

==============================================================================
