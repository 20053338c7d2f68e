----------------------------- MODULE ChunkedRun -----------------------------
(***************************************************************************)
(* One database-backed backtest, read at once (Prepare and RunPrepared of  *)
(* internal/backtestexec) or chunk by chunk (RunChunked).  The chunked run *)
(* issues a query per chunk with no transaction around them, so bars may   *)
(* be ingested between two chunks.                                         *)
(*                                                                         *)
(* A bar's replay is abstracted to what it consumes: the stored row that   *)
(* QueryBars selects for its timestamp and the quote batch latestQuoteBatch*)
(* shows to the strategy.  The session is a deterministic function of that *)
(* sequence (BacktestSession), so equal sequences are equal results.       *)
(***************************************************************************)
EXTENDS Integers, Sequences, FiniteSets

CONSTANTS
  BarRows,      \* rows the bars table may hold: [ts, source]
  SnapBatches,  \* quote batches the snapshot table may hold: [at, source]
  RunOptions,   \* Options: [from, to, quoteFrom, limit, size]
  Lookback,     \* QuoteMaxAge, or IVRankWindow when min_iv_rank is set
  MaxIngests    \* bound: rows ingested while the chunked run is under way

NoTime == 0     \* the zero time.Time; real times are positive

ASSUME ChunkedAssumption ==
  /\ IsFiniteSet(BarRows) /\ BarRows \subseteq [ts : Nat \ {NoTime}, source : STRING]
  /\ SnapBatches \subseteq [at : Nat \ {NoTime}, source : STRING]
  /\ RunOptions \subseteq [from : Nat, to : Nat, quoteFrom : Nat,
                           limit : Nat \ {0}, size : Nat \ {0}]
  /\ Lookback \in Nat /\ MaxIngests \in Nat

VARIABLES
  ckTable, ckSnaps,  \* the bars and option_quote_snapshots tables
  ckOpt,             \* the run's Options and chunk size
  ckPc,              \* "probe", "chunks", "done", "nobars", "error"
  ckCur, ckTo,       \* cursor and upper end
  ckQuotes,          \* fullOpts: batches loaded once
  ckRemaining,       \* what is left of Limit
  ckBars,            \* what the session has processed, in order
  ckHashed,          \* batches the source hash has buffered
  ckCounted,         \* batches the data-quality summary has counted
  ckIngests          \* rows ingested since the run began

ckVars == <<ckTable, ckSnaps, ckOpt, ckPc, ckCur, ckTo, ckQuotes, ckRemaining,
            ckBars, ckHashed, ckCounted, ckIngests>>

-----------------------------------------------------------------------------
\* Window bounds of the queries; a zero bound is no bound.
AtOrAfter(t, lo) == lo = NoTime \/ t >= lo
AtOrBefore(t, hi) == hi = NoTime \/ t <= hi
StrictlyBefore(t, hi) == hi = NoTime \/ t < hi

\* DISTINCT ON (ts) with futu first, then tencent.
BarRank(source) == CASE source = "futu" -> 0 [] source = "tencent" -> 1 [] OTHER -> 2
SelectedRows(rows) ==
  {r \in rows : \A s \in rows : s.ts = r.ts => BarRank(r.source) <= BarRank(s.source)}

\* Of the providers ranked last at most one holds a row of a timestamp, so that the
\* order of their names, the query's last criterion, never decides.
ASSUME ProvidersApart ==
  \A r, s \in BarRows : r.ts = s.ts /\ BarRank(r.source) = BarRank(s.source) => r = s

FirstRows(rows, limit) ==
  {r \in rows : Cardinality({s \in rows : s.ts < r.ts}) < limit}

\* QueryBars: [from, to], and QueryBarsExclusiveEnd: [from, to).
QueryBars(rows, from, to, limit) ==
  FirstRows(SelectedRows({r \in rows : AtOrAfter(r.ts, from) /\ AtOrBefore(r.ts, to)}), limit)
QueryBarsExclusiveEnd(rows, from, to, limit) ==
  FirstRows(SelectedRows({r \in rows : AtOrAfter(r.ts, from) /\ StrictlyBefore(r.ts, to)}), limit)

\* preferQuoteBatch: at one instant Futu wins over the HKEX projection.
BatchRank(source) == CASE source = "futu" -> 3 [] source = "hkex" -> 2 [] OTHER -> 1
Newer(b, c) == b.at > c.at \/ (b.at = c.at /\ BatchRank(b.source) > BatchRank(c.source))

\* QueryUnderlyingQuoteSnapshots keeps the newest `limit` batches of the
\* window (ids of one instant are taken in the order of BatchRank).
QuerySnapshots(batches, since, until, limit) ==
  LET window == {b \in batches : AtOrAfter(b.at, since) /\ AtOrBefore(b.at, until)}
  IN {b \in window : Cardinality({c \in window : Newer(c, b)}) < limit}

NoQuotes == [at |-> NoTime, source |-> "none"]
LatestQuoteBatch(batches, ts) ==
  LET seen == {b \in batches : b.at <= ts}
  IN IF seen = {} THEN NoQuotes ELSE CHOOSE b \in seen : \A c \in seen \ {b} : Newer(b, c)

QuoteRangeStart(from) ==
  IF from = NoTime THEN NoTime
  ELSE IF from > Lookback THEN from - Lookback ELSE NoTime
QuoteFrom(o) == IF o.quoteFrom # NoTime THEN o.quoteFrom ELSE QuoteRangeStart(o.from)

\* Replay of rows against the loaded batches: what each bar consumes.
Replay(rows, batches) ==
  [i \in 1 .. Cardinality(rows) |->
     LET r == CHOOSE r \in rows : Cardinality({s \in rows : s.ts < r.ts}) = i - 1
     IN [ts |-> r.ts, source |-> r.source, batch |-> LatestQuoteBatch(batches, r.ts)]]

\* Prepare and RunPrepared: the whole window in one read of each table.
Prepare(rows, snaps, o) ==
  LET bars == QueryBars(rows, o.from, o.to, o.limit)
      quotes == QuerySnapshots(snaps, QuoteFrom(o), o.to, o.limit)
  IN [bars |-> Replay(bars, quotes), hashed |-> quotes, counted |-> quotes]

-----------------------------------------------------------------------------
CkTypeOK ==
  /\ ckTable \subseteq BarRows /\ ckSnaps \subseteq SnapBatches /\ ckOpt \in RunOptions
  /\ ckPc \in {"probe", "chunks", "done", "nobars", "error"}
  /\ ckCur \in Nat /\ ckTo \in Nat /\ ckRemaining \in Nat
  /\ ckQuotes \subseteq ckSnaps /\ ckHashed \subseteq ckQuotes /\ ckCounted \subseteq ckQuotes
  /\ \A i \in DOMAIN ckBars : [ts |-> ckBars[i].ts, source |-> ckBars[i].source] \in BarRows
  /\ ckIngests \in 0 .. MaxIngests

CkInit ==
  /\ ckTable \in SUBSET BarRows /\ ckSnaps \in SUBSET SnapBatches /\ ckOpt \in RunOptions
  /\ ckPc = "probe" /\ ckCur = NoTime /\ ckTo = NoTime /\ ckQuotes = {}
  /\ ckRemaining = ckOpt.limit /\ ckBars = <<>>
  /\ ckHashed = {} /\ ckCounted = {} /\ ckIngests = 0

\* The queries refuse a window whose start is after its end.
BadWindow(o) == o.from # NoTime /\ o.to # NoTime /\ o.from > o.to

MinTs(rows) == CHOOSE t \in {r.ts : r \in rows} : \A r \in rows : t <= r.ts
MaxTs(rows) == CHOOSE t \in {r.ts : r \in rows} : \A r \in rows : t >= r.ts

\* probeBarRange, then the one load of the snapshots.
Probe ==
  /\ ckPc = "probe"
  /\ LET first == QueryBars(ckTable, NoTime, ckOpt.to, 1)
         from == IF ckOpt.from # NoTime THEN ckOpt.from ELSE MinTs(first)
         tail == {r \in ckTable : r.ts >= from}
         empty == \/ ckOpt.from = NoTime /\ first = {}
                  \/ ckOpt.to = NoTime /\ tail = {}
         to == IF ckOpt.to # NoTime THEN ckOpt.to ELSE MaxTs(tail)
     IN IF empty \/ BadWindow(ckOpt)
        THEN ckPc' = (IF empty THEN "nobars" ELSE "error") /\ UNCHANGED <<ckCur, ckTo, ckQuotes>>
        ELSE /\ ckPc' = "chunks" /\ ckCur' = from /\ ckTo' = to
             /\ ckQuotes' = QuerySnapshots(ckSnaps, QuoteFrom(ckOpt), to, ckOpt.limit)
  /\ UNCHANGED <<ckTable, ckSnaps, ckOpt, ckRemaining, ckBars, ckHashed, ckCounted, ckIngests>>

\* chunkEnd.
ChunkEnd(cur, to, size) ==
  [next |-> IF cur + size > to THEN to ELSE cur + size, final |-> cur + size >= to]

\* Mutant: a boundary bar is read by both chunks.
ReadChunkClosed(end) == QueryBars(ckTable, ckCur, end.next, ckRemaining)
\* Mutant: a boundary bar is skipped when the row itself was processed before.
ReadChunkSkipsSeen(end) ==
  FirstRows({r \in QueryBars(ckTable, ckCur, end.next, Cardinality(BarRows)) :
               \A i \in DOMAIN ckBars : ckBars[i].ts = r.ts => ckBars[i].source # r.source},
            ckRemaining)
\* The chunk's bars: closed at the end of the window, half-open before it.
ReadChunk(end) ==
  IF end.final THEN QueryBars(ckTable, ckCur, end.next, ckRemaining)
  ELSE QueryBarsExclusiveEnd(ckTable, ckCur, end.next, ckRemaining)

\* addOwnedBatches and addBatches: those at or after ownedFrom not yet seen.
Owned(from) == {b \in ckQuotes : AtOrAfter(b.at, from)}

\* The first chunk with data owns the batches before the window too.
OwnedFrom == IF ckBars = <<>> THEN QuoteFrom(ckOpt) ELSE ckCur

Chunk ==
  /\ ckPc = "chunks"
  /\ LET end == ChunkEnd(ckCur, ckTo, ckOpt.size)
         rows == ReadChunk(end)
         bars == ckBars \o Replay(rows, ckQuotes)
         left == ckRemaining - Cardinality(rows)
     IN /\ ckBars' = bars /\ ckRemaining' = left /\ ckCur' = end.next
        /\ IF rows = {} THEN UNCHANGED <<ckHashed, ckCounted>>
           ELSE /\ ckHashed' = ckHashed \union Owned(OwnedFrom)
                /\ ckCounted' = ckCounted \union Owned(OwnedFrom)
        /\ ckPc' = IF left > 0 /\ ~end.final THEN "chunks"
                   ELSE IF bars = <<>> THEN "nobars" ELSE "done"
  /\ UNCHANGED <<ckTable, ckSnaps, ckOpt, ckTo, ckQuotes, ckIngests>>

\* A query fails or the context ends: no outcome, nothing is saved.
ChunkFails ==
  /\ ckPc \in {"probe", "chunks"}
  /\ ckPc' = "error"
  /\ UNCHANGED <<ckTable, ckSnaps, ckOpt, ckCur, ckTo, ckQuotes, ckRemaining, ckBars,
                 ckHashed, ckCounted, ckIngests>>

\* An ingest commits a row between two queries of the run.
IngestRow(r) ==
  /\ ckPc = "chunks" /\ ckIngests < MaxIngests /\ r \notin ckTable
  /\ ckTable' = ckTable \union {r} /\ ckIngests' = ckIngests + 1
  /\ UNCHANGED <<ckSnaps, ckOpt, ckPc, ckCur, ckTo, ckQuotes, ckRemaining, ckBars,
                 ckHashed, ckCounted>>

CkNext == Probe \/ Chunk \/ ChunkFails \/ \E r \in BarRows : IngestRow(r)
CkSpec == CkInit /\ [][CkNext]_ckVars

-----------------------------------------------------------------------------
Outcome == [bars |-> ckBars, hashed |-> ckHashed, counted |-> ckCounted]

\* RunChunked ends with the outcome Run has for the same window: the same
\* bars with the same quotes, the same hashed and counted batches, and
\* ErrNoBars exactly when Run has none.  The window must name its end, or no
\* batch may be newer than the last bar (see ChunkedIsSingleRun).
BoundedChunkedIsSingleRun ==
  ckIngests = 0 /\ (ckOpt.to # NoTime \/ \A b \in ckSnaps : b.at <= ckTo) =>
    /\ ckPc = "done" => Outcome = Prepare(ckTable, ckSnaps, ckOpt)
    /\ ckPc = "nobars" => Prepare(ckTable, ckSnaps, ckOpt).bars = <<>>

\* "the Result and sourceHash are byte-identical to Run for the same window".
ChunkedIsSingleRun ==
  ckIngests = 0 /\ ckPc = "done" => Outcome = Prepare(ckTable, ckSnaps, ckOpt)

\* Rows ingested between two chunks never make the session see a timestamp
\* twice or out of order, and never more bars than Limit.
BarsOnceInOrder ==
  /\ \A i, j \in DOMAIN ckBars : i < j => ckBars[i].ts < ckBars[j].ts
  /\ Len(ckBars) <= ckOpt.limit

\* Cutting a run into chunks is invisible: it replays what a single run does, and
\* ingestion between the chunks neither repeats nor reorders a bar.
ChunkingIsInvisible ==
  /\ CkTypeOK
  /\ BoundedChunkedIsSingleRun
  /\ BarsOnceInOrder
=============================================================================
