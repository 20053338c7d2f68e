--------------------------- MODULE SnapshotRecorder ---------------------------
(***************************************************************************)
(* internal/wheelrun/snapshot_recorder.go: the bounded side channel that   *)
(* carries the quotes of a pass to option_quote_snapshots, and a backtest  *)
(* that reads the table meanwhile.  A batch is one snapshot_key; its       *)
(* records are inserted one statement at a time.                           *)
(***************************************************************************)
EXTENDS Integers, Sequences

CONSTANTS
    Pass,        \* goroutines that evaluate a symbol and record its quotes
    BatchSize,   \* records of a batch
    MaxBatches,  \* bound on the batches recorded
    QueueSize    \* capacity of the channel

ASSUME RecorderAssumption ==
    BatchSize \in Nat \ {0} /\ MaxBatches \in Nat /\ QueueSize \in Nat \ {0}

VARIABLES
    srPc,       \* pass -> control point
    srMu,       \* passes (or the closer, 0) inside the mutex
    srClosed,   \* w.closed; the channel is closed with it
    srQueue,    \* the channel: batch numbers
    srSent,     \* batches the channel has accepted, in order
    srNext,     \* number of the next batch
    srBatch,    \* the batch the worker writes, 0 for none
    srRow,      \* records of it that were tried
    srRows,     \* the table: pairs <<batch, record>>, in the order of the inserts
    srTried,    \* batches whose records were all tried
    srDone,     \* the worker has returned
    srCloser,   \* "idle", "waiting" or "returned"
    srPanic     \* a send on the closed channel

srVars == <<srPc, srMu, srClosed, srQueue, srSent, srNext, srBatch, srRow, srRows, srTried,
            srDone, srCloser, srPanic>>

SrTypeOK ==
    /\ srPc \in [Pass -> {"collect", "checked"}]
    /\ srMu \subseteq Pass /\ srClosed \in BOOLEAN /\ srDone \in BOOLEAN
    /\ srNext \in 1 .. MaxBatches + 1 /\ srBatch \in 0 .. MaxBatches /\ srRow \in 0 .. BatchSize
    /\ srCloser \in {"idle", "waiting", "returned"}

SrInit ==
    /\ srPc = [p \in Pass |-> "collect"] /\ srMu = {} /\ srClosed = FALSE
    /\ srQueue = <<>> /\ srSent = <<>> /\ srNext = 1 /\ srBatch = 0 /\ srRow = 0
    /\ srRows = <<>> /\ srTried = <<>> /\ srDone = FALSE /\ srCloser = "idle" /\ srPanic = FALSE

SrGoto(p, label) == srPc' = [srPc EXCEPT ![p] = label]
srWorker == <<srBatch, srRow, srRows, srTried, srDone>>

\* Mutant: the flag is read before the mutex would be taken.
EnqueueChecksUnlocked(p) ==
    /\ srPc[p] = "collect" /\ srNext <= MaxBatches /\ ~srClosed
    /\ SrGoto(p, "checked")
    /\ UNCHANGED <<srMu, srClosed, srQueue, srSent, srNext, srWorker, srCloser, srPanic>>

\* enqueue takes the mutex and looks at the flag; after close it is a no-op.
EnqueueChecks(p) ==
    /\ srPc[p] = "collect" /\ srNext <= MaxBatches /\ srMu = {} /\ ~srClosed
    /\ srMu' = {p} /\ SrGoto(p, "checked")
    /\ UNCHANGED <<srClosed, srQueue, srSent, srNext, srWorker, srCloser, srPanic>>

\* The non-blocking send: a full queue drops the batch.
EnqueueSends(p) ==
    /\ srPc[p] = "checked"
    /\ srNext' = srNext + 1
    /\ srPanic' = (srPanic \/ srClosed)
    /\ IF srClosed \/ Len(srQueue) = QueueSize THEN UNCHANGED <<srQueue, srSent>>
       ELSE srQueue' = Append(srQueue, srNext) /\ srSent' = Append(srSent, srNext)
    /\ srMu' = srMu \ {p} /\ SrGoto(p, "collect")
    /\ UNCHANGED <<srClosed, srWorker, srCloser>>

\* Mutant: the worker leaves as soon as the recorder is closed.
WorkerReceivesWhileOpen ==
    /\ ~srDone /\ srBatch = 0
    /\ IF srClosed THEN srDone' = TRUE /\ UNCHANGED <<srBatch, srRow, srQueue>>
       ELSE /\ srQueue # <<>> /\ srBatch' = Head(srQueue) /\ srRow' = 0
            /\ srQueue' = Tail(srQueue) /\ UNCHANGED srDone
    /\ UNCHANGED <<srPc, srMu, srClosed, srSent, srNext, srRows, srTried, srCloser, srPanic>>

\* run's range over the channel: what is buffered comes first, also after close.
WorkerReceives ==
    /\ ~srDone /\ srBatch = 0
    /\ IF srQueue # <<>>
       THEN /\ srBatch' = Head(srQueue) /\ srRow' = 0
            /\ srQueue' = Tail(srQueue) /\ UNCHANGED srDone
       ELSE srClosed /\ srDone' = TRUE /\ UNCHANGED <<srBatch, srRow, srQueue>>
    /\ UNCHANGED <<srPc, srMu, srClosed, srSent, srNext, srRows, srTried, srCloser, srPanic>>

\* Mutant: one record more than the batch has is asked for.
AppendPastTheEnd ==
    /\ srBatch # 0 /\ srRow <= BatchSize
    /\ srRow' = srRow + 1
    /\ UNCHANGED <<srPc, srMu, srClosed, srQueue, srSent, srNext, srBatch, srRows, srTried,
                   srDone, srCloser, srPanic>>

\* AppendQuoteSnapshot of the next record; one that is refused is logged and the
\* rest of the batch goes on.
AppendQuoteSnapshot ==
    /\ srBatch # 0 /\ srRow < BatchSize
    /\ srRow' = srRow + 1
    /\ srRows' \in {srRows, Append(srRows, <<srBatch, srRow + 1>>)}
    /\ UNCHANGED <<srPc, srMu, srClosed, srQueue, srSent, srNext, srBatch, srTried, srDone,
                   srCloser, srPanic>>

BatchEnds ==
    /\ srBatch # 0 /\ srRow = BatchSize
    /\ srTried' = Append(srTried, srBatch) /\ srBatch' = 0 /\ srRow' = 0
    /\ UNCHANGED <<srPc, srMu, srClosed, srQueue, srSent, srNext, srRows, srDone, srCloser, srPanic>>

\* close: the flag and the channel under the mutex, then the wait for the worker.
CloseRecorder ==
    /\ srCloser = "idle" /\ srMu = {}
    /\ srClosed' = TRUE /\ srCloser' = "waiting"
    /\ UNCHANGED <<srPc, srMu, srQueue, srSent, srNext, srWorker, srPanic>>

RecorderReturns ==
    /\ srCloser = "waiting" /\ srDone
    /\ srCloser' = "returned"
    /\ UNCHANGED <<srPc, srMu, srClosed, srQueue, srSent, srNext, srWorker, srPanic>>

SrNext ==
    \/ \E p \in Pass : EnqueueChecks(p) \/ EnqueueSends(p)
    \/ WorkerReceives \/ AppendQuoteSnapshot \/ BatchEnds
    \/ CloseRecorder \/ RecorderReturns

SrSpec == SrInit /\ [][SrNext]_srVars

-----------------------------------------------------------------------------
(* Properties *)

\* "makes close and enqueue race-free": no order of a pass and close ends in a
\* send on the closed channel, which would end the process.
NoSendOnClosed == ~srPanic

\* When close returns, every record of every batch that was accepted has been
\* tried, batches in their order and none mixed with another: the last quotes of
\* a stopping process are not lost.
CloseFlushesSnapshots ==
    /\ srCloser = "returned" => srTried = srSent
    /\ \A i, j \in DOMAIN srRows : i < j => srRows[i][1] <= srRows[j][1]

\* Recording and closing in any order lose nothing that was accepted and end
\* nothing.
RecorderIsSafe ==
    /\ SrTypeOK
    /\ NoSendOnClosed
    /\ CloseFlushesSnapshots

\* A reader never sees part of a batch (doc/API.md calls a snapshot key atomic).
\* It does while the worker is between two records, or after one was refused.
SnapshotKeyIsAtomic ==
    \A i \in DOMAIN srRows : \A k \in 1 .. BatchSize :
        \E j \in DOMAIN srRows : srRows[j] = <<srRows[i][1], k>>
=============================================================================
