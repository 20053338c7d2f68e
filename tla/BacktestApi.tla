----------------------------- MODULE BacktestApi -----------------------------
(***************************************************************************)
(* POST /v1/backtests (internal/httpapi/backtests_exec.go): one backtest,  *)
(* or one per row of the watchlist, run and saved one after another under  *)
(* a mutex that refuses a second request instead of queueing it.  Requests *)
(* are concurrent, may time out and may be cut off by their client.        *)
(***************************************************************************)
EXTENDS Integers, Sequences, FiniteSets

CONSTANTS
    BtRequest,    \* concurrent requests
    BtSymbol,     \* symbols, in their order: 1 .. n
    WithData,     \* symbols a backtest has bars and option data for
    NoRequest     \* nobody

ASSUME BacktestApiAssumption ==
    /\ WithData \subseteq BtSymbol /\ BtSymbol \subseteq Nat /\ IsFiniteSet(BtSymbol)
    /\ NoRequest \notin BtRequest

VARIABLES
    btPc,       \* request -> control point
    btItems,    \* request -> symbols still to be run
    btAsked,    \* request -> the symbols it was accepted for
    btLock,     \* the mutex: its holder or NoRequest
    btDone,     \* request -> whether its context has ended
    btRows,     \* backtest_results: [symbol, by] in insertion order
    btReply     \* request -> status of its answer, 0 before it

btVars == <<btPc, btItems, btAsked, btLock, btDone, btRows, btReply>>

BtTypeOK ==
    /\ btPc \in [BtRequest -> {"start", "list", "lock", "run", "save", "load", "end"}]
    /\ btLock \in BtRequest \cup {NoRequest}
    /\ btDone \in [BtRequest -> BOOLEAN]
    /\ btReply \in [BtRequest -> {0, 201, 409, 422, 503}]
    /\ \A r \in BtRequest : Len(btItems[r]) <= Len(btAsked[r])

BtInit ==
    /\ btPc = [r \in BtRequest |-> "start"]
    /\ btItems = [r \in BtRequest |-> <<>>] /\ btAsked = [r \in BtRequest |-> <<>>]
    /\ btLock = NoRequest
    /\ btDone = [r \in BtRequest |-> FALSE]
    /\ btRows = <<>>
    /\ btReply = [r \in BtRequest |-> 0]

BtGoto(r, label) == btPc' = [btPc EXCEPT ![r] = label]

\* An answer is written and the handler returns; its defer releases the mutex.
Reply(r, status) ==
    /\ btReply' = [btReply EXCEPT ![r] = status]
    /\ btLock' = IF btLock = r THEN NoRequest ELSE btLock
    /\ BtGoto(r, "end")

Accept(r, items) ==
    /\ btItems' = [btItems EXCEPT ![r] = items]
    /\ btAsked' = [btAsked EXCEPT ![r] = items]

\* handle: the body is read, and the two forms are told apart.
Handle(r) ==
    /\ btPc[r] = "start"
    /\ \/ BtGoto(r, "list") /\ UNCHANGED <<btItems, btAsked, btLock, btReply>>
       \/ \E s \in BtSymbol : Accept(r, <<s>>) /\ BtGoto(r, "lock") /\ UNCHANGED <<btLock, btReply>>
       \/ Reply(r, 422) /\ UNCHANGED <<btItems, btAsked>>
    /\ UNCHANGED <<btDone, btRows>>

\* The rows of a watchlist, in symbol order.
InOrder(S) ==
    [i \in 1 .. Cardinality(S) |-> CHOOSE s \in S : Cardinality({t \in S : t < s}) = i - 1]

\* execWatchlist up to the mutex: some watchlist is read, an empty one refused.
ListWatchlist(r) ==
    /\ btPc[r] = "list"
    /\ \/ \E S \in SUBSET BtSymbol \ {{}} :
            Accept(r, InOrder(S)) /\ BtGoto(r, "lock") /\ UNCHANGED <<btLock, btReply>>
       \/ Reply(r, 422) /\ UNCHANGED <<btItems, btAsked>>
       \/ Reply(r, 503) /\ UNCHANGED <<btItems, btAsked>>
    /\ UNCHANGED <<btDone, btRows>>

\* TryLock.
TryLock(r) ==
    /\ btPc[r] = "lock"
    /\ IF btLock = NoRequest
       THEN btLock' = r /\ BtGoto(r, "run") /\ UNCHANGED btReply
       ELSE Reply(r, 409)
    /\ UNCHANGED <<btItems, btAsked, btDone, btRows>>

\* The execution deadline passes or the client goes away: the context ends.
ContextEnds(r) ==
    /\ btPc[r] \in {"run", "save", "load"} /\ ~btDone[r]
    /\ btDone' = [btDone EXCEPT ![r] = TRUE]
    /\ UNCHANGED <<btPc, btItems, btAsked, btLock, btRows, btReply>>

\* RunOne up to SaveResult: the run, and the look at the context after it.
RunBacktest(r) ==
    /\ btPc[r] = "run" /\ btItems[r] # <<>>
    /\ \/ /\ Head(btItems[r]) \in WithData /\ ~btDone[r]
          /\ BtGoto(r, "save") /\ UNCHANGED <<btLock, btReply>>
       \/ Reply(r, 503)
    /\ UNCHANGED <<btItems, btAsked, btDone, btRows>>

\* Mutant: the mutex is released between the rows of a batch.
SaveResultReleases(r) ==
    /\ btPc[r] = "save"
    /\ ~btDone[r]
    /\ btRows' = Append(btRows, [symbol |-> Head(btItems[r]), by |-> r])
    /\ BtGoto(r, "load")
    /\ btLock' = NoRequest
    /\ UNCHANGED <<btItems, btAsked, btDone, btReply>>

\* SaveResult: one insert, which an ended context refuses.
SaveResult(r) ==
    /\ btPc[r] = "save"
    /\ \/ /\ ~btDone[r]
          /\ btRows' = Append(btRows, [symbol |-> Head(btItems[r]), by |-> r])
          /\ BtGoto(r, "load") /\ UNCHANGED <<btLock, btReply>>
       \/ Reply(r, 503) /\ UNCHANGED btRows
    /\ UNCHANGED <<btItems, btAsked, btDone>>

\* LoadResult reads the row back; a failure is answered like any other, though
\* the row stays.
LoadResult(r) ==
    /\ btPc[r] = "load"
    /\ \/ /\ ~btDone[r]
          /\ btItems' = [btItems EXCEPT ![r] = Tail(@)]
          /\ BtGoto(r, "run") /\ UNCHANGED <<btLock, btReply>>
       \/ Reply(r, 503) /\ UNCHANGED btItems
    /\ UNCHANGED <<btAsked, btDone, btRows>>

\* Every row has been run.
ReplyRuns(r) ==
    /\ btPc[r] = "run" /\ btItems[r] = <<>>
    /\ Reply(r, 201)
    /\ UNCHANGED <<btItems, btAsked, btDone, btRows>>

BtStep(r) ==
    Handle(r) \/ ListWatchlist(r) \/ TryLock(r) \/ RunBacktest(r) \/ SaveResult(r)
      \/ LoadResult(r) \/ ReplyRuns(r)

BtNext == \E r \in BtRequest : BtStep(r) \/ ContextEnds(r)

BtSpec == BtInit /\ [][BtNext]_btVars

-----------------------------------------------------------------------------
(* Properties *)

RowsOf(r) == {i \in DOMAIN btRows : btRows[i].by = r}

\* "One run at a time: the mutex covers the whole batch": the results a request
\* saves stand next to one another in the table and are the rows it was accepted
\* for, in symbol order and without a gap, up to the one it failed at; a request
\* answered 201 has saved them all, and a refused one none.
BatchIsUnbroken ==
    \A r \in BtRequest : \E before \in 0 .. Len(btRows), n \in 0 .. Len(btAsked[r]) :
        /\ RowsOf(r) = before + 1 .. before + n
        /\ \A i \in 1 .. n : btRows[before + i].symbol = btAsked[r][i]
        /\ btReply[r] = 201 => n = Len(btAsked[r])
        /\ btReply[r] \in {409, 422} => n = 0

\* Batches are whole, however requests, time limits and failures interleave.
BatchesAreWhole == BtTypeOK /\ BatchIsUnbroken

\* The comment of RunOne, "A canceled context aborts before persisting anything",
\* as a caller reads it: a single backtest answered with an error has left no row.
ErrorLeavesNoRow ==
    \A r \in BtRequest : (btReply[r] = 503 /\ Len(btAsked[r]) = 1) => RowsOf(r) = {}
=============================================================================
