--------------------------- MODULE ResearchProofs ---------------------------
(***************************************************************************)
(* Proofs about the research side: what becomes of a backtest's report,    *)
(* the batches of the backtest API, the evolution search with its worker   *)
(* pool, and the run of a backtest in chunks.                              *)
(***************************************************************************)
EXTENDS ReportFlow, BacktestApi, ParallelMap, EvolutionSearch, ChunkedRun,
        FiniteSetTheorems, WellFoundedInduction, TLAPS

-----------------------------------------------------------------------------
(* The report, its cache and its message *)

CacheRow == [result : Results, data : BOOLEAN, sample : BOOLEAN, human : BOOLEAN,
             state : {"APPROVED", "RESEARCH"}]

\* A row of the cache says of its result what is true of it.
Evidenced(row) ==
    LET x == row.result
    IN  /\ row \in CacheRow
        /\ "json" \in files[x]
        /\ row.data => (x.strategy = "wheel" => x.cycle /\ x.ready > 0)
        /\ row.sample => x.kind = "es_train" /\ x.beats
        /\ row.state = "APPROVED" => row.data /\ row.sample

\* A push holds the lock of its report and sends only while there is no marker;
\* until then every message is accounted for by the nonce that is remembered or
\* by a window that has closed.
RpInv ==
    /\ RpTypeOK
    /\ rpResult \in [Command -> Results]
    /\ \A c \in Command : rpPc[c] \in {"html", "cache"} => "json" \in files[rpResult[c]]
    /\ \A c \in Command : rpPc[c] \in {"stat", "send", "mark"} => flock[rpResult[c]] = c
    /\ \A c \in Command : rpPc[c] \in {"send", "mark"} => rpResult[c] \notin marker
    /\ \A c \in Command : rpPc[c] = "mark" => visible[rpResult[c]] >= 1
    /\ \A c \in Command : rpPc[c] \in {"sent", "already"} => rpResult[c] \in marker
    /\ \A x \in Results : x \in marker => visible[x] >= 1 /\ visible[x] <= 1 + windows[x]
    /\ \A x \in Results : x \notin marker =>
          visible[x] = windows[x] + (IF x \in nonceOpen THEN 1 ELSE 0)
    /\ cacheRow # NoReport => Evidenced(cacheRow)
    /\ approver # NoReport => Evidenced(approver) /\ approver.data /\ approver.sample

\* strategyCacheRecord: the gates of a row are those of its result.
LEMMA RecordEvidenced ==
    ASSUME NEW x \in Results, "json" \in files[x]
    PROVE  Evidenced(StrategyCacheRecord(Build(x), FALSE))
<1> DEFINE row == StrategyCacheRecord(Build(x), FALSE)
           q   == NormalizeDataQuality(x, Summary(x))
           c   == Capability(x, q)
<1>1. Build(x) = [result |-> x, kind |-> x.kind, capability |-> c,
                  hasReturn |-> x.strategy # "wheel" \/ c = "RESEARCH_ONLY"]
  BY DEF Build
<1>2. c = "RESEARCH_ONLY" => (x.strategy = "wheel" => x.cycle /\ x.ready > 0)
  <2> SUFFICES ASSUME c = "RESEARCH_ONLY", x.strategy = "wheel" PROVE x.cycle /\ x.ready > 0
    OBVIOUS
  <2>1. q.cycle /\ q.ready > 0
    BY DEF Capability
  <2>2. q.cycle = Summary(x).cycle /\ q.ready = Summary(x).ready
    BY DEF NormalizeDataQuality, Summary
  <2>3. Summary(x).cycle = (x.strategy = "wheel" /\ x.cycle) /\ Summary(x).ready = x.ready
    BY DEF Summary
  <2> QED
    BY <2>1, <2>2, <2>3
<1> HIDE DEF c
<1>3. row = [result |-> x, data |-> (c = "RESEARCH_ONLY"),
             sample |-> (x.kind = "es_train" /\ x.beats), human |-> FALSE, state |-> "RESEARCH"]
  BY <1>1 DEF StrategyCacheRecord
<1>4. x.beats \in BOOLEAN
  BY ReportAssumption
<1> DEFINE data   == c = "RESEARCH_ONLY"
           sample == x.kind = "es_train" /\ x.beats
<1>5. data \in BOOLEAN /\ sample \in BOOLEAN
  BY <1>4
<1>6. row = [result |-> x, data |-> data, sample |-> sample, human |-> FALSE, state |-> "RESEARCH"]
  BY <1>3
<1>7. (data => (x.strategy = "wheel" => x.cycle /\ x.ready > 0))
      /\ (sample => x.kind = "es_train" /\ x.beats)
  BY <1>2
<1> HIDE DEF data, sample, row
<1>8. /\ row \in CacheRow /\ row.result = x /\ row.data = data /\ row.sample = sample
      /\ row.state = "RESEARCH"
  BY <1>5, <1>6 DEF CacheRow
<1>9. Evidenced(row)
  BY <1>7, <1>8 DEF Evidenced
<1> QED
  BY <1>9 DEF row

\* A step that writes a file of a report takes nothing from what rests on the files.
LEMMA FileStep ==
    ASSUME RpInv, NEW c \in Command, rpPc[c] \in {"json", "html"},
           NEW p \in {"html", "cache", "failed"}, rpPc' = [rpPc EXCEPT ![c] = p],
           files' \in [Results -> {{}, {"json"}, {"json", "html"}}],
           \A x \in Results : "json" \in files[x] => "json" \in files'[x],
           p # "failed" => "json" \in files'[rpResult[c]],
           UNCHANGED <<rpResult, cacheVars, pushVars>>
    PROVE  RpInv'
<1>1. /\ UNCHANGED <<rpResult, cacheRow, approver, approvals, flock, marker, visible, nonceOpen, windows>>
      /\ \A d \in Command : rpPc'[d] = rpPc[d] \/ (d = c /\ rpPc'[d] = p)
  BY DEF RpInv, RpTypeOK, cacheVars, pushVars
<1>2. RpTypeOK'
  BY <1>1 DEF RpInv, RpTypeOK
<1>3. \A d \in Command : rpPc'[d] \in {"html", "cache"} => "json" \in files'[rpResult'[d]]
  BY <1>1 DEF RpInv
<1>4. ASSUME NEW row, Evidenced(row) PROVE Evidenced(row)'
  BY <1>4 DEF Evidenced, CacheRow
<1>5. (cacheRow # NoReport => Evidenced(cacheRow))'
  BY <1>1, <1>4 DEF RpInv
<1>6. (approver # NoReport => Evidenced(approver) /\ approver.data /\ approver.sample)'
  BY <1>1, <1>4 DEF RpInv
<1> QED
  BY <1>1, <1>2, <1>3, <1>5, <1>6 DEF RpInv

\* Every step of a command, of Discord and of an approval preserves the invariant.
LEMMA RpInvStep == RpInv /\ [RpNext]_rpVars => RpInv'
<1> SUFFICES ASSUME RpInv, [RpNext]_rpVars PROVE RpInv'
  OBVIOUS
<1> USE ReportAssumption DEF RpGoto, RpTypeOK, cacheVars, pushVars
<1>1. ASSUME NEW c \in Command, BuildReport(c) PROVE RpInv'
  BY <1>1 DEF BuildReport, RpInv, Evidenced
<1>2. ASSUME NEW c \in Command, WriteJSON(c) PROVE RpInv'
  <2>1. /\ files' \in [Results -> {{}, {"json"}, {"json", "html"}}]
        /\ \A x \in Results : "json" \in files[x] => "json" \in files'[x]
    BY <1>2 DEF WriteJSON, RpInv
  <2>2. rpPc' = [rpPc EXCEPT ![c] = "html"] => "json" \in files'[rpResult[c]]
    BY <1>2 DEF WriteJSON, RpInv
  <2> QED
    BY <1>2, <2>1, <2>2, FileStep DEF WriteJSON
<1>3. ASSUME NEW c \in Command, WriteHTML(c) PROVE RpInv'
  <2>1. /\ files' \in [Results -> {{}, {"json"}, {"json", "html"}}]
        /\ \A x \in Results : "json" \in files[x] => "json" \in files'[x]
    BY <1>3 DEF WriteHTML, RpInv
  <2>2. "json" \in files'[rpResult[c]]
    BY <1>3, <2>1 DEF WriteHTML, RpInv
  <2> QED
    BY <1>3, <2>1, <2>2, FileStep DEF WriteHTML
<1>4. ASSUME NEW c \in Command, CacheReport(c) PROVE RpInv'
  <2> DEFINE row == StrategyCacheRecord(Build(rpResult[c]), FALSE)
  <2>1. rpResult[c] \in Results /\ "json" \in files[rpResult[c]]
    BY <1>4 DEF CacheReport, RpInv
  <2>2. Evidenced(row)
    BY <2>1, RecordEvidenced
  <2> HIDE DEF row
  <2>3. cacheRow' = cacheRow \/ cacheRow' = row
    BY <1>4 DEF CacheReport, UpsertStrategyCache, row
  <2>4. /\ UNCHANGED <<rpResult, files, approver, approvals, flock, marker, visible, nonceOpen, windows>>
        /\ rpPc' = [rpPc EXCEPT ![c] = "lock"] \/ rpPc' = [rpPc EXCEPT ![c] = "failed"]
    BY <1>4 DEF CacheReport
  <2>5. row.state \in {"APPROVED", "RESEARCH"}
    BY <2>2 DEF Evidenced, CacheRow
  <2>6. (cacheRow # NoReport => Evidenced(cacheRow))' /\ (cacheRow # NoReport =>
            cacheRow.state \in {"APPROVED", "RESEARCH"})'
    BY <2>2, <2>3, <2>4, <2>5 DEF RpInv, Evidenced
  <2> QED
    BY <2>4, <2>6 DEF RpInv, Evidenced
<1>5. ASSUME NEW c \in Command, AcquireFileLock(c) PROVE RpInv'
  BY <1>5 DEF AcquireFileLock, RpInv, Evidenced
<1>6. ASSUME NEW c \in Command, StatMarker(c) PROVE RpInv'
  BY <1>6 DEF StatMarker, Release, RpInv, Evidenced
<1>7. ASSUME NEW c \in Command, CreateMessage(c) PROVE RpInv'
  <2> PICK x \in Results : x = rpResult[c]
    BY DEF RpInv
  <2>1. /\ rpPc[c] = "send" /\ x \notin marker /\ flock[x] = c
        /\ UNCHANGED <<rpResult, files, cacheRow, approver, approvals, marker, windows>>
    BY <1>7 DEF CreateMessage, RpInv
  <2>2. \/ /\ visible' = [visible EXCEPT ![x] = IF x \in nonceOpen THEN @ ELSE @ + 1]
           /\ nonceOpen' = nonceOpen \cup {x}
           /\ visible[x] = windows[x] + (IF x \in nonceOpen THEN 1 ELSE 0)
        \/ UNCHANGED <<visible, nonceOpen>> /\ rpPc' = [rpPc EXCEPT ![c] = "failed"]
    BY <1>7, <2>1 DEF CreateMessage, MessageAccepted, RpInv
  <2>3. /\ visible' \in [Results -> Nat] /\ nonceOpen' \subseteq Results
        /\ \A y \in Results : visible'[y] >= visible[y]
        /\ \A y \in Results \ {x} : visible'[y] = visible[y] /\ (y \in nonceOpen' <=> y \in nonceOpen)
        /\ visible'[x] = windows[x] + (IF x \in nonceOpen' THEN 1 ELSE 0)
        /\ rpPc'[c] = "mark" => visible'[x] >= 1
    <3>1. CASE UNCHANGED <<visible, nonceOpen>> /\ rpPc' = [rpPc EXCEPT ![c] = "failed"]
      BY <2>1, <3>1 DEF RpInv
    <3>2. CASE /\ visible' = [visible EXCEPT ![x] = IF x \in nonceOpen THEN @ ELSE @ + 1]
               /\ nonceOpen' = nonceOpen \cup {x}
               /\ visible[x] = windows[x] + (IF x \in nonceOpen THEN 1 ELSE 0)
      <4>1. windows[x] \in Nat /\ visible \in [Results -> Nat]
        BY DEF RpInv
      <4> QED
        BY <3>2, <4>1 DEF RpInv
    <3> QED
      BY <2>2, <3>1, <3>2
  <2>4. \/ rpPc' = [rpPc EXCEPT ![c] = "mark"] /\ UNCHANGED flock
        \/ rpPc' = [rpPc EXCEPT ![c] = "failed"] /\ Release(c)
    BY <1>7 DEF CreateMessage
  <2>5. /\ flock' \in [Results -> Command \cup {NoReport}]
        /\ \A d \in Command \ {c}, y \in Results : flock[y] = d => flock'[y] = d
        /\ rpPc'[c] = "mark" => flock'[x] = c
    BY <2>1, <2>4 DEF Release, RpInv
  <2>6. \A d \in Command : rpPc'[d] = rpPc[d] \/ (d = c /\ rpPc'[d] \in {"mark", "failed"})
    BY <2>4 DEF RpInv
  <2>7. RpTypeOK'
    BY <2>1, <2>3, <2>4, <2>5 DEF RpInv
  <2>8. \A d \in Command : rpPc'[d] \in {"stat", "send", "mark"} => flock'[rpResult'[d]] = d
    <3> SUFFICES ASSUME NEW d \in Command, rpPc'[d] \in {"stat", "send", "mark"}
                 PROVE  flock'[rpResult'[d]] = d
      OBVIOUS
    <3>1. CASE d = c
      <4>1. rpPc'[c] = "mark"
        BY <2>4, <3>1 DEF RpInv
      <4> QED
        BY <2>1, <2>5, <3>1, <4>1
    <3>2. CASE d # c
      <4>1. rpPc[d] \in {"stat", "send", "mark"} /\ rpResult[d] \in Results
        BY <2>6, <3>2 DEF RpInv
      <4> QED
        BY <2>1, <2>5, <3>2, <4>1 DEF RpInv
    <3> QED
      BY <3>1, <3>2
  <2>9. \A y \in Results : y \notin marker' =>
            visible'[y] = windows'[y] + (IF y \in nonceOpen' THEN 1 ELSE 0)
    BY <2>1, <2>3 DEF RpInv
  <2>10. \A y \in Results : y \in marker' => visible'[y] >= 1 /\ visible'[y] <= 1 + windows'[y]
    BY <2>1, <2>3 DEF RpInv
  <2>11. \A d \in Command : rpPc'[d] = "mark" => visible'[rpResult'[d]] >= 1
    BY <2>1, <2>3, <2>6 DEF RpInv
  <2> QED
    BY <2>1, <2>6, <2>7, <2>8, <2>9, <2>10, <2>11 DEF RpInv, Evidenced
<1>8. ASSUME NEW c \in Command, WriteMarker(c) PROVE RpInv'
  BY <1>8 DEF WriteMarker, Release, RpInv, Evidenced
<1>9. ASSUME NEW c \in Command, KillCommand(c) PROVE RpInv'
  BY <1>9 DEF KillCommand, Release, RpInv, Evidenced
<1>10. ASSUME NEW x \in Results, NonceExpires(x) PROVE RpInv'
  BY <1>10 DEF NonceExpires, RpInv, Evidenced
<1>11. CASE ApproveReads
  BY <1>11 DEF ApproveReads, RpInv, Evidenced
<1>12. CASE ApproveWrites
  <2> DEFINE row == [approver EXCEPT !.human = TRUE, !.state = "APPROVED"]
  <2>1. Evidenced(approver) /\ approver.data /\ approver.sample
    BY <1>12 DEF ApproveWrites, RpInv
  <2>2. /\ row \in CacheRow /\ row.result = approver.result /\ row.data = approver.data
        /\ row.sample = approver.sample
    BY <2>1 DEF Evidenced, CacheRow
  <2>3. cacheRow' = cacheRow \/ cacheRow' = row
    BY <1>12 DEF ApproveWrites, UpsertStrategyCache
  <2>4. approver' = NoReport /\ UNCHANGED <<rpPc, rpResult, files, approvals, flock, marker,
                                            visible, nonceOpen, windows>>
    BY <1>12 DEF ApproveWrites
  <2> HIDE DEF row
  <2>5. Evidenced(row) /\ row.state \in {"APPROVED", "RESEARCH"}
    BY <2>1, <2>2 DEF Evidenced, CacheRow
  <2>6. (cacheRow # NoReport => Evidenced(cacheRow))' /\ (cacheRow # NoReport =>
            cacheRow.state \in {"APPROVED", "RESEARCH"})'
    BY <2>3, <2>4, <2>5 DEF RpInv, Evidenced
  <2> QED
    BY <2>4, <2>6 DEF RpInv, Evidenced
<1>13. CASE UNCHANGED rpVars
  BY <1>13 DEF rpVars, RpInv, Evidenced
<1> QED
  BY <1>1, <1>2, <1>3, <1>4, <1>5, <1>6, <1>7, <1>8, <1>9, <1>10, <1>11, <1>12, <1>13 DEF RpNext

\* Build, ApproveStrategyCache and Push: however commands, kills, approvals and lost
\* answers interleave, an approved row has its evidence, a marked report was
\* delivered, and a second message needs a nonce window that closed unmarked.
THEOREM ReportsHonest == RpSpec => []ReportsAreHonest
<1>1. RpInit => RpInv
  BY ReportAssumption DEF RpInit, RpInv, RpTypeOK
<1>2. RpInv => ReportsAreHonest
  <2> SUFFICES ASSUME RpInv PROVE ReportsAreHonest
    OBVIOUS
  <2>1. RpTypeOK
    BY DEF RpInv
  <2>2. ApprovedIsEvidenced
    BY DEF RpInv, ApprovedIsEvidenced, Evidenced
  <2>3. OneMessagePerReport
    <3> SUFFICES ASSUME NEW x \in Results PROVE visible[x] <= 1 + windows[x]
      BY DEF OneMessagePerReport
    <3>1. MaxWindows \in Nat
      BY ReportAssumption
    <3>2. visible[x] \in Nat /\ windows[x] \in 0 .. MaxWindows
      BY <2>1 DEF RpTypeOK
    <3>3. CASE x \in marker
      BY <3>3 DEF RpInv
    <3>4. CASE x \notin marker
      <4>1. visible[x] = windows[x] + (IF x \in nonceOpen THEN 1 ELSE 0)
        BY <3>4 DEF RpInv
      <4> QED
        BY <3>1, <3>2, <4>1
    <3> QED
      BY <3>3, <3>4
  <2>4. MarkedIsDelivered
    BY DEF RpInv, MarkedIsDelivered
  <2> QED
    BY <2>1, <2>2, <2>3, <2>4 DEF ReportsAreHonest
<1> QED
  BY <1>1, <1>2, RpInvStep, PTL DEF RpSpec

-----------------------------------------------------------------------------
(* The batches of the backtest API *)

\* Whatever stands in an accepted list.
Listed == BtSymbol \cup {InOrder(S)[i] : S \in SUBSET BtSymbol, i \in Nat}

\* The rows of a request are n in number, after the first `before` of the table.
Block(r, before, n) ==
    /\ RowsOf(r) = before + 1 .. before + n
    /\ \A i \in 1 .. n : btRows[before + i].symbol = btAsked[r][i]

Running(r) == btPc[r] \in {"run", "save", "load"}

\* How many of the accepted symbols have been saved while the request runs.
SavedCount(r) ==
    Len(btAsked[r]) - Len(btItems[r]) + (IF btPc[r] = "load" THEN 1 ELSE 0)

\* A request that has not begun has no row; the rows of one that runs are the last of
\* the table; one that has ended left its rows where they were.
Placed(r) ==
    \E before \in 0 .. Len(btRows), n \in 0 .. Len(btAsked[r]) :
        /\ Block(r, before, n)
        /\ btPc[r] \in {"start", "list", "lock"} => n = 0
        /\ Running(r) => n = SavedCount(r) /\ before + n = Len(btRows)
        /\ btReply[r] = 201 => n = Len(btAsked[r])
        /\ btReply[r] \in {409, 422} => n = 0

\* One that runs holds the mutex, and what it has still to run is the rest of its list.
Handled(r) ==
    /\ btPc[r] # "end" => btReply[r] = 0
    /\ btPc[r] = "lock" => btItems[r] = btAsked[r]
    /\ Running(r) => btLock = r
    /\ btPc[r] \in {"save", "load"} => btItems[r] # <<>>
    /\ Running(r) => \A j \in 1 .. Len(btItems[r]) :
          btItems[r][j] = btAsked[r][Len(btAsked[r]) - Len(btItems[r]) + j]

BtInv ==
    /\ BtTypeOK
    /\ btAsked \in [BtRequest -> Seq(Listed)] /\ btItems \in [BtRequest -> Seq(Listed)]
    /\ btRows \in Seq([symbol : Listed, by : BtRequest])
    /\ \A r \in BtRequest : Handled(r) /\ Placed(r)

\* The list of a watchlist is a sequence.
LEMMA InOrderIsSeq == ASSUME NEW S \in SUBSET BtSymbol PROVE InOrder(S) \in Seq(Listed)
<1>1. Cardinality(S) \in Nat
  BY BacktestApiAssumption, FS_Subset, FS_CardinalityType
<1> DEFINE ranked(i) == CHOOSE s \in S : Cardinality({u \in S : u < s}) = i - 1
<1>2. InOrder(S) = [i \in 1 .. Cardinality(S) |-> ranked(i)]
  BY DEF InOrder
<1> HIDE DEF ranked
<1>3. \A i \in 1 .. Cardinality(S) : InOrder(S)[i] \in Listed
  BY DEF Listed
<1>4. InOrder(S) \in [1 .. Cardinality(S) -> Listed]
  BY <1>2, <1>3
<1> QED
  BY <1>1, <1>4

\* The rest of a list starts one place later.
LEMMA OneFurther ==
    ASSUME NEW a \in Nat, NEW k \in Nat \ {0}, NEW j \in 1 .. k - 1
    PROVE  j + 1 \in 1 .. k /\ a - k + (j + 1) = a - (k - 1) + j
  OBVIOUS

\* A step of one request that writes no row leaves what is known of another one.
LEMMA OthersKept ==
    ASSUME BtInv, NEW q \in BtRequest, UNCHANGED btRows,
           btPc'[q] = btPc[q], btItems'[q] = btItems[q], btAsked'[q] = btAsked[q],
           btReply'[q] = btReply[q], Running(q) => btLock' = btLock
    PROVE  Handled(q)' /\ Placed(q)'
<1>1. RowsOf(q)' = RowsOf(q) /\ (Running(q)' <=> Running(q)) /\ SavedCount(q)' = SavedCount(q)
  BY DEF RowsOf, Running, SavedCount
<1>2. \A b, n : Block(q, b, n)' <=> Block(q, b, n)
  BY <1>1 DEF Block
<1>3. Handled(q) /\ Placed(q)
  BY DEF BtInv
<1>4. Handled(q)'
  BY <1>1, <1>3 DEF Handled
<1>5. Placed(q)'
  <2>1. PICK b \in 0 .. Len(btRows), n \in 0 .. Len(btAsked[q]) :
             /\ Block(q, b, n)
             /\ btPc[q] \in {"start", "list", "lock"} => n = 0
             /\ Running(q) => n = SavedCount(q) /\ b + n = Len(btRows)
             /\ btReply[q] = 201 => n = Len(btAsked[q])
             /\ btReply[q] \in {409, 422} => n = 0
    BY <1>3 DEF Placed
  <2>2. b \in 0 .. Len(btRows') /\ n \in 0 .. Len(btAsked'[q]) /\ Block(q, b, n)'
    BY <1>2, <2>1
  <2>3. /\ btPc'[q] \in {"start", "list", "lock"} => n = 0
        /\ Running(q)' => n = SavedCount(q)' /\ b + n = Len(btRows')
        /\ btReply'[q] = 201 => n = Len(btAsked'[q])
        /\ btReply'[q] \in {409, 422} => n = 0
    BY <1>1, <2>1
  <2> QED
    BY <2>2, <2>3 DEF Placed
<1> QED
  BY <1>4, <1>5

\* Whoever runs is alone, so the end of one request takes the mutex from no other.
LEMMA OneRuns ==
    ASSUME BtInv, NEW r \in BtRequest, NEW q \in BtRequest, q # r, Running(q)
    PROVE  btLock # r /\ ~Running(r)
BY DEF BtInv, Handled

\* A request that is answered keeps its rows.
LEMMA ReplyKeeps ==
    ASSUME BtInv, NEW r \in BtRequest, NEW status \in {409, 422, 503}, Reply(r, status),
           UNCHANGED <<btItems, btAsked, btRows, btDone>>,
           status \in {409, 422} => btPc[r] \in {"start", "list", "lock"}
    PROVE  BtInv'
<1>1. /\ btPc' = [btPc EXCEPT ![r] = "end"] /\ btReply' = [btReply EXCEPT ![r] = status]
      /\ btLock' = IF btLock = r THEN NoRequest ELSE btLock
  BY DEF Reply, BtGoto
<1>2. BtTypeOK' /\ \A q \in BtRequest \ {r} : btPc'[q] = btPc[q] /\ btReply'[q] = btReply[q]
  BY <1>1 DEF BtInv, BtTypeOK
<1>3. btPc'[r] = "end" /\ btReply'[r] = status
  BY <1>1 DEF BtInv, BtTypeOK
<1>4. \A q \in BtRequest \ {r} : Handled(q)' /\ Placed(q)'
  BY <1>1, <1>2, OthersKept, OneRuns
<1>5. Handled(r)'
  BY <1>3 DEF Handled, Running
<1>6. Placed(r)'
  <2>0. Placed(r)
    BY DEF BtInv
  <2>1. PICK b \in 0 .. Len(btRows), n \in 0 .. Len(btAsked[r]) :
             /\ Block(r, b, n)
             /\ btPc[r] \in {"start", "list", "lock"} => n = 0
    BY <2>0 DEF Placed
  <2>2. Block(r, b, n)'
    BY <2>1 DEF Block, RowsOf
  <2>3. b \in 0 .. Len(btRows') /\ n \in 0 .. Len(btAsked'[r])
    BY <2>1
  <2>4. /\ ~Running(r)' /\ btPc'[r] \notin {"start", "list", "lock"} /\ btReply'[r] # 201
        /\ btReply'[r] \in {409, 422} => n = 0
    BY <1>3, <2>1 DEF Running
  <2> QED
    BY <2>2, <2>3, <2>4 DEF Placed
<1> QED
  BY <1>2, <1>4, <1>5, <1>6 DEF BtInv

\* A request that moves on before it runs, with a list of its own, has no row yet.
LEMMA AcceptKeeps ==
    ASSUME BtInv, NEW r \in BtRequest, btPc[r] \in {"start", "list"},
           NEW label \in {"list", "lock"}, BtGoto(r, label),
           UNCHANGED <<btLock, btReply, btDone, btRows>>,
           \/ label = "list" /\ UNCHANGED <<btItems, btAsked>>
           \/ label = "lock" /\ \E items \in Seq(Listed) : Accept(r, items)
    PROVE  BtInv'
<1>1. /\ btItems' \in [BtRequest -> Seq(Listed)] /\ btAsked' \in [BtRequest -> Seq(Listed)]
      /\ \A q \in BtRequest \ {r} : btItems'[q] = btItems[q] /\ btAsked'[q] = btAsked[q]
      /\ label = "lock" => btItems'[r] = btAsked'[r]
  BY DEF Accept, BtInv
<1>2. \A q \in BtRequest : Len(btItems'[q]) <= Len(btAsked'[q])
  <2>1. \A q \in BtRequest : Len(btItems[q]) <= Len(btAsked[q])
    BY DEF BtInv, BtTypeOK
  <2>2. \A q \in BtRequest : Len(btAsked'[q]) \in Nat
    BY <1>1
  <2> QED
    BY <1>1, <2>1, <2>2
<1>3. /\ btPc' = [btPc EXCEPT ![r] = label] /\ btPc'[r] = label
      /\ \A q \in BtRequest \ {r} : btPc'[q] = btPc[q]
  BY DEF BtGoto, BtInv, BtTypeOK
<1>4. BtTypeOK'
  BY <1>2, <1>3 DEF BtInv, BtTypeOK
<1>5. \A q \in BtRequest \ {r} : Handled(q)' /\ Placed(q)'
  BY <1>1, <1>3, OthersKept
<1>6. Handled(r)'
  BY <1>1, <1>3 DEF BtInv, Handled, Running
<1>7. Placed(r)'
  <2>0. Placed(r) /\ Handled(r)
    BY DEF BtInv
  <2>1. PICK b \in 0 .. Len(btRows), n \in 0 .. Len(btAsked[r]) : Block(r, b, n) /\ n = 0
    BY <2>0 DEF Placed
  <2>2. Block(r, b, 0)'
    BY <2>1 DEF Block, RowsOf
  <2>3. b \in 0 .. Len(btRows') /\ 0 \in 0 .. Len(btAsked'[r])
    BY <1>1, <2>1
  <2>4. ~Running(r)' /\ btReply'[r] = 0
    BY <1>3, <2>0 DEF Running, Handled
  <2> QED
    BY <2>2, <2>3, <2>4 DEF Placed
<1> QED
  BY <1>1, <1>4, <1>5, <1>6, <1>7 DEF BtInv

\* Every step of a request preserves the invariant.
LEMMA BtInvStep == BtInv /\ [BtNext]_btVars => BtInv'
<1> SUFFICES ASSUME BtInv, [BtNext]_btVars PROVE BtInv'
  OBVIOUS
<1>0. /\ btPc \in [BtRequest -> {"start", "list", "lock", "run", "save", "load", "end"}]
      /\ btReply \in [BtRequest -> {0, 201, 409, 422, 503}] /\ btDone \in [BtRequest -> BOOLEAN]
      /\ btAsked \in [BtRequest -> Seq(Listed)] /\ btItems \in [BtRequest -> Seq(Listed)]
      /\ btRows \in Seq([symbol : Listed, by : BtRequest])
      /\ \A r \in BtRequest : Len(btItems[r]) <= Len(btAsked[r]) /\ Handled(r) /\ Placed(r)
  BY DEF BtInv, BtTypeOK
<1>1. ASSUME NEW r \in BtRequest, Handle(r) PROVE BtInv'
  <2>1. \A s \in BtSymbol : <<s>> \in Seq(Listed)
    BY DEF Listed
  <2>2. CASE Reply(r, 422) /\ UNCHANGED <<btItems, btAsked>>
    BY <1>1, <2>2, ReplyKeeps DEF Handle
  <2> QED
    BY <1>1, <2>1, <2>2, AcceptKeeps DEF Handle
<1>2. ASSUME NEW r \in BtRequest, ListWatchlist(r) PROVE BtInv'
  <2>1. \A S \in SUBSET BtSymbol : InOrder(S) \in Seq(Listed)
    BY InOrderIsSeq
  <2>2. CASE Reply(r, 422) /\ UNCHANGED <<btItems, btAsked>>
    BY <1>2, <2>2, ReplyKeeps DEF ListWatchlist
  <2>3. CASE Reply(r, 503) /\ UNCHANGED <<btItems, btAsked>>
    BY <1>2, <2>3, ReplyKeeps DEF ListWatchlist
  <2> QED
    BY <1>2, <2>1, <2>2, <2>3, AcceptKeeps DEF ListWatchlist
<1>3. ASSUME NEW r \in BtRequest, TryLock(r) PROVE BtInv'
  <2>1. CASE btLock # NoRequest
    BY <1>3, <2>1, ReplyKeeps DEF TryLock
  <2>2. CASE btLock = NoRequest
    <3>1. /\ btLock' = r /\ btPc' = [btPc EXCEPT ![r] = "run"]
          /\ UNCHANGED <<btReply, btItems, btAsked, btDone, btRows>> /\ btPc[r] = "lock"
      BY <1>3, <2>2 DEF TryLock, BtGoto
    <3>2. btPc'[r] = "run" /\ \A q \in BtRequest \ {r} : btPc'[q] = btPc[q]
      BY <1>0, <3>1
    <3>3. \A q \in BtRequest : ~Running(q)
      BY <1>0, <2>2, BacktestApiAssumption DEF Handled
    <3>4. \A q \in BtRequest \ {r} : Handled(q)' /\ Placed(q)'
      BY <3>1, <3>2, <3>3, OthersKept
    <3>5. BtTypeOK'
      BY <3>1 DEF BtInv, BtTypeOK
    <3>6. btItems[r] = btAsked[r] /\ btReply[r] = 0
      BY <1>0, <3>1 DEF Handled
    <3>7. Len(btAsked[r]) \in Nat /\ Len(btRows) \in Nat
      BY <1>0
    <3>8. Handled(r)'
      <4>1. \A j \in 1 .. Len(btItems[r]) :
                btItems[r][j] = btAsked[r][Len(btAsked[r]) - Len(btItems[r]) + j]
        BY <3>6, <3>7
      <4> QED
        BY <3>1, <3>2, <3>6, <4>1 DEF Handled, Running
    <3>9. Placed(r)'
      <4>1. PICK b \in 0 .. Len(btRows), n \in 0 .. Len(btAsked[r]) : Block(r, b, n) /\ n = 0
        BY <1>0, <3>1 DEF Placed
      <4>2. RowsOf(r)' = {}
        BY <3>1, <3>7, <4>1 DEF Block, RowsOf
      <4> PICK k \in Nat : k = Len(btRows)
        BY <3>7
      <4>3. Block(r, k, 0)'
        BY <4>2 DEF Block
      <4>4. SavedCount(r)' = 0 /\ k + 0 = Len(btRows') /\ k \in 0 .. Len(btRows')
            /\ 0 \in 0 .. Len(btAsked'[r])
        BY <3>1, <3>2, <3>6, <3>7 DEF SavedCount
      <4> QED
        BY <3>1, <3>2, <3>6, <4>3, <4>4 DEF Placed
    <3> QED
      BY <1>0, <3>1, <3>4, <3>5, <3>8, <3>9 DEF BtInv
  <2> QED
    BY <2>1, <2>2
<1>4. ASSUME NEW r \in BtRequest, ContextEnds(r) PROVE BtInv'
  <2>1. UNCHANGED <<btPc, btItems, btAsked, btLock, btRows, btReply>>
        /\ btDone' = [btDone EXCEPT ![r] = TRUE]
    BY <1>4 DEF ContextEnds
  <2>2. \A q \in BtRequest : Handled(q)' /\ Placed(q)'
    BY <2>1, OthersKept
  <2>3. BtTypeOK'
    BY <2>1 DEF BtInv, BtTypeOK
  <2> QED
    BY <1>0, <2>1, <2>2, <2>3 DEF BtInv
<1>5. ASSUME NEW r \in BtRequest, RunBacktest(r) PROVE BtInv'
  <2>1. CASE Reply(r, 503)
    BY <1>5, <2>1, ReplyKeeps DEF RunBacktest
  <2>2. CASE BtGoto(r, "save") /\ UNCHANGED <<btLock, btReply>>
    <3>1. /\ UNCHANGED <<btItems, btAsked, btDone, btRows, btLock, btReply>>
          /\ btPc[r] = "run" /\ btItems[r] # <<>> /\ btPc' = [btPc EXCEPT ![r] = "save"]
      BY <1>5, <2>2 DEF RunBacktest, BtGoto
    <3>2. btPc'[r] = "save" /\ \A q \in BtRequest \ {r} : btPc'[q] = btPc[q]
      BY <1>0, <3>1
    <3>3. \A q \in BtRequest \ {r} : Handled(q)' /\ Placed(q)'
      BY <3>1, <3>2, OthersKept
    <3>4. Handled(r)'
      BY <1>0, <3>1, <3>2 DEF Handled, Running
    <3>5. Placed(r)'
      <4>1. PICK b \in 0 .. Len(btRows), n \in 0 .. Len(btAsked[r]) :
                 Block(r, b, n) /\ n = SavedCount(r) /\ b + n = Len(btRows)
        BY <1>0, <3>1 DEF Placed, Running
      <4>2. Block(r, b, n)' /\ SavedCount(r)' = SavedCount(r) /\ btReply'[r] = 0
        BY <1>0, <3>1, <3>2, <4>1 DEF Block, RowsOf, SavedCount, Handled
      <4>3. b \in 0 .. Len(btRows') /\ n \in 0 .. Len(btAsked'[r]) /\ b + n = Len(btRows')
        BY <3>1, <4>1
      <4> QED
        BY <3>2, <4>1, <4>2, <4>3 DEF Placed
    <3>6. BtTypeOK'
      BY <3>1 DEF BtInv, BtTypeOK
    <3> QED
      BY <1>0, <3>1, <3>3, <3>4, <3>5, <3>6 DEF BtInv
  <2> QED
    BY <1>5, <2>1, <2>2 DEF RunBacktest
<1>6. ASSUME NEW r \in BtRequest, SaveResult(r) PROVE BtInv'
  <2>1. CASE Reply(r, 503) /\ UNCHANGED btRows
    BY <1>6, <2>1, ReplyKeeps DEF SaveResult
  <2>2. CASE /\ btRows' = Append(btRows, [symbol |-> Head(btItems[r]), by |-> r])
             /\ BtGoto(r, "load") /\ UNCHANGED <<btLock, btReply>>
    <3>1. /\ UNCHANGED <<btItems, btAsked, btDone, btLock, btReply>>
          /\ btPc[r] = "save" /\ btPc' = [btPc EXCEPT ![r] = "load"]
      BY <1>6, <2>2 DEF SaveResult, BtGoto
    <3>2. btPc'[r] = "load" /\ \A q \in BtRequest \ {r} : btPc'[q] = btPc[q]
      BY <1>0, <3>1
    <3>3. /\ btItems[r] # <<>> /\ Running(r) /\ Handled(r)
          /\ btItems[r] \in Seq(Listed) /\ btAsked[r] \in Seq(Listed)
      BY <1>0, <3>1 DEF Handled, Running
    <3>4. /\ Head(btItems[r]) = btItems[r][1] /\ Head(btItems[r]) \in Listed
          /\ Len(btItems[r]) \in Nat \ {0} /\ Len(btAsked[r]) \in Nat /\ Len(btRows) \in Nat
          /\ Len(btItems[r]) <= Len(btAsked[r])
      BY <1>0, <3>3
    <3>5. PICK head \in Listed, a \in Nat, k \in Nat \ {0}, m \in Nat :
               /\ head = Head(btItems[r]) /\ head = btItems[r][1]
               /\ a = Len(btAsked[r]) /\ k = Len(btItems[r]) /\ m = Len(btRows) /\ k <= a
      BY <3>4
    <3>6. /\ btRows' \in Seq([symbol : Listed, by : BtRequest]) /\ Len(btRows') = m + 1
          /\ \A i \in 1 .. m : btRows'[i] = btRows[i]
          /\ btRows'[m + 1] = [symbol |-> head, by |-> r]
          /\ DOMAIN btRows = 1 .. m /\ DOMAIN btRows' = 1 .. m + 1
      BY <1>0, <2>2, <3>5
    <3>7. \A q \in BtRequest \ {r} : Handled(q)' /\ Placed(q)'
      <4> TAKE q \in BtRequest \ {r}
      <4>1. ~Running(q) /\ ~Running(q)'
        BY <3>2, <3>3, OneRuns DEF Running
      <4>2. Handled(q)'
        BY <1>0, <3>1, <3>2, <4>1 DEF Handled
      <4>3. RowsOf(q)' = RowsOf(q)
        BY <3>6 DEF RowsOf
      <4>4. PICK b \in 0 .. Len(btRows), n \in 0 .. Len(btAsked[q]) :
                 /\ Block(q, b, n)
                 /\ btPc[q] \in {"start", "list", "lock"} => n = 0
                 /\ btReply[q] = 201 => n = Len(btAsked[q])
                 /\ btReply[q] \in {409, 422} => n = 0
        BY <1>0 DEF Placed
      <4>5. b \in 0 .. Len(btRows') /\ n \in 0 .. Len(btAsked'[q])
        BY <3>1, <3>5, <3>6, <4>4
      <4>6. \A i \in 1 .. n : b + i \in 1 .. m
        <5>1. \A i \in RowsOf(q) : i \in 1 .. m
          BY <3>6 DEF RowsOf
        <5>2. b \in Nat /\ n \in Nat
          BY <1>0, <3>5, <4>4
        <5>3. \A i \in 1 .. n : b + i \in b + 1 .. b + n
          BY <5>2
        <5>4. RowsOf(q) = b + 1 .. b + n
          BY <4>4 DEF Block
        <5> QED
          BY <5>1, <5>3, <5>4
      <4>7. Block(q, b, n)'
        BY <3>1, <3>6, <4>3, <4>4, <4>6 DEF Block
      <4> QED
        BY <3>1, <3>2, <4>1, <4>2, <4>4, <4>5, <4>7 DEF Placed
    <3>8. Handled(r)'
      BY <3>1, <3>2, <3>3 DEF Handled, Running
    <3>9. Placed(r)'
      <4>1. PICK b \in 0 .. Len(btRows), n \in 0 .. Len(btAsked[r]) :
                 Block(r, b, n) /\ n = SavedCount(r) /\ b + n = Len(btRows)
        BY <1>0, <3>3 DEF Placed
      <4>2. n = a - k /\ b \in Nat /\ n \in Nat /\ b + n = m /\ b + (n + 1) = m + 1
        <5>1. SavedCount(r) = a - k
          BY <3>1, <3>5 DEF SavedCount
        <5>2. b \in 0 .. m /\ n \in 0 .. a /\ n = a - k /\ b + n = m
          BY <3>5, <4>1, <5>1
        <5>3. b \in Nat /\ n \in Nat
          BY <5>2
        <5> QED
          BY <5>2, <5>3
      <4>3. head = btAsked[r][n + 1]
        <5>1. \A j \in 1 .. k : btItems[r][j] = btAsked[r][a - k + j]
          BY <3>3, <3>5 DEF Handled
        <5>2. 1 \in 1 .. k /\ a - k + 1 = n + 1
          BY <4>2
        <5> QED
          BY <3>5, <5>1, <5>2
      <4>4. RowsOf(r)' = b + 1 .. b + (n + 1)
        <5>1. RowsOf(r)' = RowsOf(r) \cup {m + 1}
          BY <3>6 DEF RowsOf
        <5>2. RowsOf(r) = b + 1 .. b + n
          BY <4>1 DEF Block
        <5>3. (b + 1 .. b + n) \cup {m + 1} = b + 1 .. b + (n + 1)
          BY <4>2
        <5> QED
          BY <5>1, <5>2, <5>3
      <4>5. \A i \in 1 .. n + 1 : btRows'[b + i].symbol = btAsked[r][i]
        <5>1. \A i \in 1 .. n : b + i \in 1 .. m
          BY <4>2
        <5>2. \A i \in 1 .. n : btRows'[b + i].symbol = btAsked[r][i]
          BY <3>6, <4>1, <5>1 DEF Block
        <5>3. btRows'[b + (n + 1)].symbol = btAsked[r][n + 1]
          BY <3>6, <4>2, <4>3
        <5>4. \A i \in 1 .. n + 1 : i \in 1 .. n \/ i = n + 1
          BY <4>2
        <5> QED
          BY <5>2, <5>3, <5>4
      <4>6. Block(r, b, n + 1)'
        BY <3>1, <4>4, <4>5 DEF Block
      <4>7. /\ SavedCount(r)' = n + 1 /\ b + (n + 1) = Len(btRows') /\ btReply'[r] = 0
            /\ b \in 0 .. Len(btRows') /\ n + 1 \in 0 .. Len(btAsked'[r])
        <5>1. SavedCount(r)' = a - k + 1 /\ btReply'[r] = 0
          BY <3>1, <3>2, <3>3, <3>5 DEF SavedCount, Handled
        <5>2. Len(btRows') = m + 1 /\ Len(btAsked'[r]) = a
          BY <3>1, <3>5, <3>6
        <5>3. /\ a - k + 1 = n + 1 /\ b + (n + 1) = m + 1 /\ b \in 0 .. m + 1
              /\ n + 1 \in 0 .. a
          BY <4>2
        <5> QED
          BY <5>1, <5>2, <5>3
      <4> QED
        BY <3>2, <4>6, <4>7 DEF Placed
    <3>10. BtTypeOK'
      BY <3>1 DEF BtInv, BtTypeOK
    <3> QED
      BY <1>0, <3>1, <3>6, <3>7, <3>8, <3>9, <3>10 DEF BtInv
  <2> QED
    BY <1>6, <2>1, <2>2 DEF SaveResult
<1>7. ASSUME NEW r \in BtRequest, LoadResult(r) PROVE BtInv'
  <2>1. CASE Reply(r, 503) /\ UNCHANGED btItems
    BY <1>7, <2>1, ReplyKeeps DEF LoadResult
  <2>2. CASE /\ btItems' = [btItems EXCEPT ![r] = Tail(@)]
             /\ BtGoto(r, "run") /\ UNCHANGED <<btLock, btReply>>
    <3>1. /\ UNCHANGED <<btAsked, btDone, btRows, btLock, btReply>>
          /\ btPc[r] = "load" /\ btPc' = [btPc EXCEPT ![r] = "run"]
      BY <1>7, <2>2 DEF LoadResult, BtGoto
    <3>2. btPc'[r] = "run" /\ \A q \in BtRequest \ {r} : btPc'[q] = btPc[q]
      BY <1>0, <3>1
    <3>3. /\ btItems[r] # <<>> /\ Running(r) /\ Handled(r)
          /\ btItems[r] \in Seq(Listed) /\ btAsked[r] \in Seq(Listed)
      BY <1>0, <3>1 DEF Handled, Running
    <3>4. /\ Len(btItems[r]) \in Nat \ {0} /\ Len(btAsked[r]) \in Nat
          /\ Len(btItems[r]) <= Len(btAsked[r])
      BY <1>0, <3>3
    <3>5. PICK a \in Nat, k \in Nat \ {0} : a = Len(btAsked[r]) /\ k = Len(btItems[r]) /\ k <= a
      BY <3>4
    <3> PICK rest \in Seq(Listed) :
             /\ rest = Tail(btItems[r]) /\ Len(rest) = k - 1
             /\ \A j \in 1 .. k - 1 : rest[j] = btItems[r][j + 1]
      <4>1. ASSUME NEW s \in Seq(Listed), s # <<>>
            PROVE  /\ Tail(s) \in Seq(Listed) /\ Len(Tail(s)) = Len(s) - 1
                   /\ \A j \in 1 .. Len(s) - 1 : Tail(s)[j] = s[j + 1]
        BY <4>1
      <4> QED
        BY <3>3, <3>5, <4>1
    <3>6. /\ btItems' \in [BtRequest -> Seq(Listed)] /\ btItems'[r] = rest
          /\ \A q \in BtRequest \ {r} : btItems'[q] = btItems[q]
      BY <1>0, <2>2
    <3>7. \A q \in BtRequest \ {r} : Handled(q)' /\ Placed(q)'
      BY <3>1, <3>2, <3>6, OthersKept
    <3>8. Handled(r)'
      <4>1. btLock = r /\ btReply[r] = 0
        BY <3>1, <3>3 DEF Handled
      <4>2. \A j \in 1 .. k : btItems[r][j] = btAsked[r][a - k + j]
        BY <3>3, <3>5 DEF Handled
      <4>3. \A j \in 1 .. k - 1 : rest[j] = btAsked[r][a - (k - 1) + j]
        <5> TAKE j \in 1 .. k - 1
        <5>1. j + 1 \in 1 .. k /\ a - k + (j + 1) = a - (k - 1) + j
          BY OneFurther
        <5> QED
          BY <4>2, <5>1
      <4>4. Len(btItems'[r]) = k - 1 /\ Len(btAsked'[r]) = a /\ btItems'[r] = rest
        BY <3>1, <3>5, <3>6
      <4> QED
        BY <3>1, <3>2, <4>1, <4>3, <4>4 DEF Handled, Running
    <3>9. Placed(r)'
      <4>1. PICK b \in 0 .. Len(btRows), n \in 0 .. Len(btAsked[r]) :
                 Block(r, b, n) /\ n = SavedCount(r) /\ b + n = Len(btRows)
        BY <1>0, <3>3 DEF Placed
      <4>2. Block(r, b, n)' /\ btReply'[r] = 0
        BY <3>1, <3>3, <4>1 DEF Block, RowsOf, Handled
      <4>3. SavedCount(r)' = SavedCount(r)
        <5>1. SavedCount(r)' = a - (k - 1) + 0 /\ SavedCount(r) = a - k + 1
          BY <3>1, <3>2, <3>5, <3>6 DEF SavedCount
        <5>2. a - (k - 1) + 0 = a - k + 1
          OBVIOUS
        <5> QED
          BY <5>1, <5>2
      <4>4. b \in 0 .. Len(btRows') /\ n \in 0 .. Len(btAsked'[r]) /\ b + n = Len(btRows')
        BY <3>1, <4>1
      <4> QED
        BY <3>2, <4>1, <4>2, <4>3, <4>4 DEF Placed
    <3>10. btAsked' \in [BtRequest -> Seq(Listed)] /\ btRows' \in Seq([symbol : Listed, by : BtRequest])
      BY <1>0, <3>1
    <3>11. BtTypeOK'
      <4>0. \A q \in BtRequest \ {r} : Len(btItems'[q]) <= Len(btAsked'[q])
        BY <1>0, <3>1, <3>6
      <4>1. Len(btItems'[r]) <= Len(btAsked'[r])
        <5>1. Len(btItems'[r]) = k - 1 /\ Len(btAsked'[r]) = a
          BY <3>1, <3>5, <3>6
        <5>2. k - 1 <= a
          BY <3>5
        <5> QED
          BY <5>1, <5>2
      <4> QED
        BY <3>1, <4>0, <4>1 DEF BtInv, BtTypeOK
    <3> QED
      BY <3>6, <3>7, <3>8, <3>9, <3>10, <3>11 DEF BtInv
  <2> QED
    BY <1>7, <2>1, <2>2 DEF LoadResult
<1>8. ASSUME NEW r \in BtRequest, ReplyRuns(r) PROVE BtInv'
  <2>1. /\ UNCHANGED <<btItems, btAsked, btDone, btRows>> /\ btPc[r] = "run"
        /\ btItems[r] = <<>> /\ btPc' = [btPc EXCEPT ![r] = "end"]
        /\ btReply' = [btReply EXCEPT ![r] = 201]
        /\ btLock' = IF btLock = r THEN NoRequest ELSE btLock
    BY <1>8 DEF ReplyRuns, Reply, BtGoto
  <2>2. /\ btPc'[r] = "end" /\ btReply'[r] = 201
        /\ \A q \in BtRequest \ {r} : btPc'[q] = btPc[q] /\ btReply'[q] = btReply[q]
    BY <1>0, <2>1
  <2>3. \A q \in BtRequest \ {r} : Handled(q)' /\ Placed(q)'
    BY <2>1, <2>2, OthersKept, OneRuns
  <2>4. Handled(r)'
    BY <2>2 DEF Handled, Running
  <2>5. Placed(r)'
    <3>1. PICK b \in 0 .. Len(btRows), n \in 0 .. Len(btAsked[r]) :
               Block(r, b, n) /\ n = SavedCount(r)
      BY <1>0, <2>1 DEF Placed, Running
    <3>2. n = Len(btAsked[r])
      BY <1>0, <2>1, <3>1 DEF SavedCount
    <3>3. Block(r, b, n)'
      BY <2>1, <3>1 DEF Block, RowsOf
    <3>4. b \in 0 .. Len(btRows') /\ n \in 0 .. Len(btAsked'[r]) /\ n = Len(btAsked'[r])
      BY <2>1, <3>1, <3>2
    <3>5. ~Running(r)' /\ btPc'[r] \notin {"start", "list", "lock"} /\ btReply'[r] \notin {409, 422}
      BY <2>2 DEF Running
    <3> QED
      BY <3>3, <3>4, <3>5 DEF Placed
  <2>6. BtTypeOK'
    BY <2>1 DEF BtInv, BtTypeOK
  <2> QED
    BY <1>0, <2>1, <2>3, <2>4, <2>5, <2>6 DEF BtInv
<1>9. CASE UNCHANGED btVars
  <2>1. UNCHANGED <<btPc, btItems, btAsked, btLock, btDone, btRows, btReply>>
    BY <1>9 DEF btVars
  <2>2. \A q \in BtRequest : Handled(q)' /\ Placed(q)'
    BY <2>1, OthersKept
  <2>3. BtTypeOK'
    BY <2>1 DEF BtInv, BtTypeOK
  <2> QED
    BY <1>0, <2>1, <2>2, <2>3 DEF BtInv
<1> QED
  BY <1>1, <1>2, <1>3, <1>4, <1>5, <1>6, <1>7, <1>8, <1>9 DEF BtNext, BtStep

\* Batches are whole: "One run at a time: the mutex covers the whole batch", so the
\* rows a request saves (execWatchlist, RunOne) stand together, in the order of its
\* list and without a gap, for any number of requests and symbols, whatever time
\* limits, lost clients and failures interrupt.
THEOREM BatchesWhole == BtSpec => []BatchesAreWhole
<1>1. BtInit => BtInv
  <2> SUFFICES ASSUME BtInit PROVE BtInv
    OBVIOUS
  <2>1. /\ btRows = <<>> /\ Len(btRows) = 0 /\ <<>> \in Seq(Listed)
        /\ btRows \in Seq([symbol : Listed, by : BtRequest])
    BY DEF BtInit
  <2>2. \A r \in BtRequest : btPc[r] = "start" /\ btAsked[r] = <<>> /\ btItems[r] = <<>>
                               /\ btReply[r] = 0
    BY DEF BtInit
  <2>3. BtTypeOK
    BY <2>2 DEF BtInit, BtTypeOK
  <2>4. \A r \in BtRequest : Handled(r)
    BY <2>2 DEF Handled, Running
  <2>5. \A r \in BtRequest : Placed(r)
    <3> TAKE r \in BtRequest
    <3>1. Block(r, 0, 0)
      BY <2>1 DEF Block, RowsOf
    <3>2. 0 \in 0 .. Len(btRows) /\ 0 \in 0 .. Len(btAsked[r])
      BY <2>1, <2>2
    <3> QED
      BY <2>2, <3>1, <3>2 DEF Placed, Running
  <2>6. btAsked \in [BtRequest -> Seq(Listed)] /\ btItems \in [BtRequest -> Seq(Listed)]
    BY <2>1 DEF BtInit
  <2> QED
    BY <2>1, <2>3, <2>4, <2>5, <2>6 DEF BtInv
<1>2. BtInv => BatchesAreWhole
  <2>1. ASSUME NEW r \in BtRequest, Placed(r)
        PROVE  \E before \in 0 .. Len(btRows), n \in 0 .. Len(btAsked[r]) :
                  /\ RowsOf(r) = before + 1 .. before + n
                  /\ \A i \in 1 .. n : btRows[before + i].symbol = btAsked[r][i]
                  /\ btReply[r] = 201 => n = Len(btAsked[r])
                  /\ btReply[r] \in {409, 422} => n = 0
    <3>1. PICK b \in 0 .. Len(btRows), n \in 0 .. Len(btAsked[r]) :
               /\ Block(r, b, n)
               /\ btReply[r] = 201 => n = Len(btAsked[r])
               /\ btReply[r] \in {409, 422} => n = 0
      BY <2>1 DEF Placed
    <3>2. /\ RowsOf(r) = b + 1 .. b + n
          /\ \A i \in 1 .. n : btRows[b + i].symbol = btAsked[r][i]
      BY <3>1 DEF Block
    <3> WITNESS b \in 0 .. Len(btRows), n \in 0 .. Len(btAsked[r])
    <3> QED
      BY <3>1, <3>2
  <2> QED
    BY <2>1 DEF BtInv, BatchesAreWhole, BatchIsUnbroken
<1> QED
  BY <1>1, <1>2, BtInvStep, PTL DEF BtSpec
-----------------------------------------------------------------------------
(* The worker pool *)

\* Until the context ends every index the feeder has passed was handed out and
\* run once, and is with a worker, in the results or drained; nobody leaves
\* before the feeder is through, and the results close when everybody has left.
PmKept ==
    /\ \A t \in Task : pmRan[t] = IF t < pmNext THEN 1 ELSE 0
    /\ \A t \in Task : t < pmNext =>
           t \in pmResults \/ t \in pmCompleted \/ \E w \in Worker : pmHolds[w] = t
    /\ ~pmOpen => pmNext > NTasks
    /\ pmAlive # Worker => ~pmOpen

PmInv ==
    /\ PmTypeOK
    /\ pmClosed => pmAlive = {}
    /\ pmReturn # Pending => pmClosed
    /\ \A w \in Worker : w \notin pmAlive => pmHolds[w] = NoTask
    /\ ~pmDone => PmKept
    /\ SequentialAnswer

\* A nonempty set of natural numbers has a least one.
LEMMA LeastNumber ==
    ASSUME NEW S \in SUBSET Nat, S # {}
    PROVE  \E x \in S : \A y \in S : x <= y
<1> DEFINE less == OpToRel(<, Nat)
<1>1. IsWellFoundedOn(less, Nat)
  BY NatLessThanWellFounded
<1>2. \A x, y \in Nat : <<y, x>> \notin less => x <= y
  BY DEF OpToRel
<1> HIDE DEF less
<1>3. PICK x \in S : \A y \in S : <<y, x>> \notin less
  BY <1>1, WFMin, Zenon
<1> QED
  BY <1>2, <1>3

\* A nonempty set of tasks has a first one.
LEMMA FirstTask ==
    ASSUME NEW S \in SUBSET Task, S # {}
    PROVE  /\ (CHOOSE t \in S : \A s \in S : t <= s) \in S
           /\ \A s \in S : (CHOOSE t \in S : \A u \in S : t <= u) <= s
<1>1. S \in SUBSET Nat
  BY PoolAssumption DEF Task
<1>2. PICK x \in S : \A y \in S : x <= y
  BY <1>1, LeastNumber
<1> QED
  BY <1>2, Zenon

LEMMA PmInitial == PmInit => PmInv
<1> SUFFICES ASSUME PmInit PROVE PmInv
  OBVIOUS
<1>1. PmTypeOK
  <2>1. pmNext \in 1 .. NTasks + 1
    BY PoolAssumption DEF PmInit
  <2>2. pmHolds \in [Worker -> Task \union {NoTask}] /\ pmRan \in [Task -> Nat]
    BY DEF PmInit
  <2>3. pmReturn \in [kind : {"pending", "values", "error", "context", "stopped"},
                      task : Task \union {NoTask}]
    BY DEF PmInit, Pending
  <2> QED
    BY <2>1, <2>2, <2>3 DEF PmInit, PmTypeOK
<1>2. PmKept
  BY PoolAssumption DEF PmInit, PmKept, Task, Worker
<1>3. SequentialAnswer
  BY DEF PmInit, SequentialAnswer
<1> QED
  BY <1>1, <1>2, <1>3 DEF PmInit, PmInv

\* When the caller returns and the context has not ended, everything drained.
LEMMA PmAllDrained ==
    ASSUME PmInv, Return, ~pmDone
    PROVE  pmCompleted = Task /\ \A t \in Task : pmRan[t] = 1
<1>1. pmClosed /\ pmResults = {} /\ pmAlive = {} /\ PmKept
  BY DEF Return, PmInv
<1>2. pmAlive # Worker
  BY <1>1, PoolAssumption DEF Worker
<1>3. pmNext > NTasks
  BY <1>1, <1>2 DEF PmKept
<1>4. \A t \in Task : t < pmNext
  BY <1>3, PoolAssumption DEF PmInv, PmTypeOK, Task
<1>5. \A t \in Task : pmRan[t] = 1
  BY <1>1, <1>4 DEF PmKept
<1>6. \A t \in Task, w \in Worker : pmHolds[w] # t
  BY <1>1, PoolAssumption DEF PmInv, Task, NoTask
<1>7. \A t \in Task : t \in pmCompleted
  BY <1>1, <1>4, <1>6 DEF PmKept
<1> QED
  BY <1>5, <1>7 DEF PmInv, PmTypeOK

LEMMA PmReturns ==
    ASSUME PmInv, Return
    PROVE  /\ pmReturn' \in [kind : {"pending", "values", "error", "context", "stopped"},
                             task : Task \union {NoTask}]
           /\ SequentialAnswer'
<1>1. CASE pmDone
  <2>1. pmReturn' = [kind |-> "context", task |-> NoTask]
    BY <1>1 DEF Return, Answer
  <2> QED
    BY <2>1 DEF SequentialAnswer
<1>2. CASE ~pmDone
  <2>1. pmCompleted = Task /\ \A t \in Task : pmRan[t] = 1
    BY <1>2, PmAllDrained
  <2>2. pmFails \subseteq Task /\ pmFails' = pmFails /\ pmRan' = pmRan /\ pmReturn' = Answer
    BY DEF PmInv, PmTypeOK, Return
  <2>3. CASE pmFails = {}
    <3>1. pmReturn' = [kind |-> "values", task |-> NoTask]
      BY <1>2, <2>1, <2>2, <2>3 DEF Answer
    <3> QED
      BY <3>1, <2>1, <2>2, <2>3 DEF SequentialAnswer
  <2>4. CASE pmFails # {}
    <3> DEFINE first == CHOOSE t \in pmFails : \A s \in pmFails : t <= s
    <3>1. first \in Task
      BY <2>2, <2>4, FirstTask
    <3>2. pmCompleted \intersect pmFails = pmFails
      BY <2>1, <2>2
    <3>3. FirstError(pmCompleted) = first
      BY <3>2, Zenon DEF FirstError
    <3>4. Answer = [kind |-> "error", task |-> FirstError(pmCompleted)]
      BY <1>2, <2>1, <2>4 DEF Answer
    <3>5. pmReturn' = [kind |-> "error", task |-> first]
      BY <2>2, <3>3, <3>4, Zenon
    <3>6. (CHOOSE t \in pmFails' : \A s \in pmFails' : t <= s) = first
      BY <2>2, Zenon
    <3> HIDE DEF first
    <3>7. pmFails' # {}
      BY <2>2, <2>4
    <3>8. \A t \in Task : pmRan'[t] = 1
      BY <2>1, <2>2
    <3> QED
      BY <3>1, <3>5, <3>6, <3>7, <3>8 DEF SequentialAnswer
  <2> QED
    BY <2>3, <2>4
<1> QED
  BY <1>1, <1>2

LEMMA PmNextKeeps == PmInv /\ [PmNext]_pmVars => PmInv'
<1> SUFFICES ASSUME PmInv, [PmNext]_pmVars PROVE PmInv'
  OBVIOUS
<1> USE DEF Pending, NoTask
<1>0. PmTypeOK /\ NTasks \in Nat /\ pmNext \in Nat
  BY PoolAssumption DEF PmInv, PmTypeOK
<1>1. CASE \E w \in Worker : HandOut(w)
  <2>1. PICK w \in Worker : HandOut(w)
    BY <1>1
  <2>2. pmNext \in Task /\ ~pmClosed /\ pmReturn = Pending
    BY <1>0, <2>1 DEF HandOut, PmInv, PmTypeOK, Task
  <2>3. CASE pmDone
    <3>1. PmTypeOK'
      BY <1>0, <2>1, <2>2, <2>3 DEF HandOut, PmTypeOK, Task
    <3>2. SequentialAnswer'
      BY <2>1, <2>2 DEF HandOut, SequentialAnswer
    <3> QED
      BY <2>1, <2>2, <2>3, <3>1, <3>2 DEF HandOut, PmInv
  <2>4. CASE ~pmDone
    <3>0. /\ pmNext' = pmNext + 1 /\ pmAlive' = pmAlive /\ pmOpen' = pmOpen
          /\ pmResults' = pmResults /\ pmCompleted' = pmCompleted /\ pmOpen
          /\ pmHolds' = [pmHolds EXCEPT ![w] = pmNext]
          /\ pmRan' = [pmRan EXCEPT ![pmNext] = @ + 1]
          /\ pmHolds[w] = NoTask /\ w \in pmAlive
      BY <2>1, <2>4 DEF HandOut
    <3>1. PmTypeOK'
      <4>1. pmNext' \in 1 .. NTasks + 1
        BY <1>0, <2>2, <3>0 DEF Task
      <4>2. pmHolds' \in [Worker -> Task \union {NoTask}]
        BY <1>0, <2>2, <3>0, Zenon DEF PmTypeOK
      <4>3. pmRan' \in [Task -> Nat]
        BY <1>0, <2>2, <3>0 DEF PmTypeOK
      <4> QED
        BY <1>0, <2>1, <3>0, <4>1, <4>2, <4>3 DEF HandOut, PmTypeOK
    <3>2. SequentialAnswer'
      BY <2>1, <2>2 DEF HandOut, SequentialAnswer
    <3>3. PmKept
      BY <2>4 DEF PmInv
    <3>4. (\A t \in Task : pmRan[t] = IF t < pmNext THEN 1 ELSE 0)'
      BY <1>0, <2>2, <3>0, <3>3 DEF PmKept, PmTypeOK, Task
    <3>5. (\A t \in Task : t < pmNext =>
             t \in pmResults \/ t \in pmCompleted \/ \E v \in Worker : pmHolds[v] = t)'
      <4> SUFFICES ASSUME NEW t \in Task, t < pmNext', t \notin pmResults, t \notin pmCompleted
                   PROVE  \E v \in Worker : pmHolds'[v] = t
        BY <3>0
      <4>1. t < pmNext \/ t = pmNext
        BY <1>0, <3>0 DEF Task
      <4>2. CASE t = pmNext
        BY <4>2, <3>0, <1>0 DEF PmTypeOK
      <4>3. CASE t < pmNext
        <5>1. PICK v \in Worker : pmHolds[v] = t
          BY <4>3, <3>3 DEF PmKept
        <5>2. v # w
          BY <5>1, <3>0 DEF Task
        <5> QED
          BY <5>1, <5>2, <3>0, <1>0 DEF PmTypeOK
      <4> QED
        BY <4>1, <4>2, <4>3
    <3>6. PmKept'
      BY <3>0, <3>3, <3>4, <3>5 DEF PmKept
    <3>7. (\A v \in Worker : v \notin pmAlive => pmHolds[v] = NoTask)'
      BY <3>0, <1>0 DEF PmInv, PmTypeOK
    <3> QED
      BY <2>1, <2>2, <3>1, <3>2, <3>6, <3>7 DEF HandOut, PmInv
  <2> QED
    BY <2>3, <2>4
<1>2. CASE \E w \in Worker : TaskEnds(w)
  <2>1. PICK w \in Worker : TaskEnds(w)
    BY <1>2
  <2>2. PmTypeOK'
    BY <1>0, <2>1 DEF TaskEnds, PmTypeOK, Task
  <2>3. SequentialAnswer'
    BY <2>1 DEF TaskEnds, SequentialAnswer, PmInv
  <2>4. ASSUME ~pmDone PROVE PmKept'
    <3>1. PmKept
      BY <2>4 DEF PmInv
    <3>2. \A t \in Task : t < pmNext =>
             t \in pmResults' \/ t \in pmCompleted \/ \E v \in Worker : pmHolds'[v] = t
      BY <1>0, <2>1, <3>1 DEF TaskEnds, PmKept, PmTypeOK
    <3> QED
      BY <2>1, <3>1, <3>2 DEF TaskEnds, PmKept
  <2>5. (\A v \in Worker : v \notin pmAlive => pmHolds[v] = NoTask)'
    BY <1>0, <2>1 DEF TaskEnds, PmInv, PmTypeOK
  <2> QED
    BY <2>1, <2>2, <2>3, <2>4, <2>5 DEF TaskEnds, PmInv
<1>3. CASE \E w \in Worker : PoolWorkerExits(w)
  <2>1. PICK w \in Worker : PoolWorkerExits(w)
    BY <1>3
  <2>2. PmTypeOK'
    BY <1>0, <2>1 DEF PoolWorkerExits, PmTypeOK
  <2>3. SequentialAnswer'
    BY <2>1 DEF PoolWorkerExits, SequentialAnswer, PmInv
  <2>4. ~pmDone => PmKept'
    BY <2>1 DEF PoolWorkerExits, PmKept, PmInv
  <2> QED
    BY <2>1, <2>2, <2>3, <2>4 DEF PoolWorkerExits, PmInv
<1>4. CASE FeederEnds
  <2>1. PmTypeOK' /\ SequentialAnswer'
    BY <1>0, <1>4 DEF FeederEnds, PmTypeOK, SequentialAnswer, PmInv
  <2>2. ~pmDone => PmKept'
    BY <1>4 DEF FeederEnds, FeederThrough, PmKept, PmInv
  <2> QED
    BY <1>4, <2>1, <2>2 DEF FeederEnds, PmInv
<1>5. CASE CloseResults
  <2>1. PmTypeOK' /\ SequentialAnswer'
    BY <1>0, <1>5 DEF CloseResults, PmTypeOK, SequentialAnswer, PmInv
  <2> QED
    BY <1>5, <2>1 DEF CloseResults, AllLeft, PmKept, PmInv
<1>6. CASE Return
  <2>1. SequentialAnswer' /\ PmTypeOK'
    BY <1>0, <1>6, PmReturns DEF Return, PmTypeOK
  <2> QED
    BY <1>6, <2>1 DEF Return, PmKept, PmInv
<1>7. CASE \E t \in Task : Drain(t)
  <2>1. PICK t \in Task : Drain(t)
    BY <1>7
  <2>2. PmTypeOK'
    BY <1>0, <2>1 DEF Drain, PmTypeOK
  <2>3. SequentialAnswer'
    BY <2>1 DEF Drain, SequentialAnswer
  <2> QED
    BY <2>1, <2>2, <2>3 DEF Drain, PmKept, PmInv
<1>8. CASE CtxEnds
  <2>1. PmTypeOK' /\ SequentialAnswer'
    BY <1>0, <1>8 DEF CtxEnds, PmTypeOK, SequentialAnswer
  <2> QED
    BY <1>8, <2>1 DEF CtxEnds, PmInv
<1>9. CASE UNCHANGED pmVars
  BY <1>9 DEF pmVars, PmInv, PmTypeOK, PmKept, SequentialAnswer
<1> QED
  BY <1>1, <1>2, <1>3, <1>4, <1>5, <1>6, <1>7, <1>8, <1>9 DEF PmNext, PmStep

\* What the caller of the pool is told, of PoolIsSequential the part that is
\* safety: whatever the order in which tasks end, parallelMap answers as a
\* sequential loop over the tasks would, with every task run exactly once,
\* unless the context ended.
THEOREM PoolSequential == PmSpec => [](PmTypeOK /\ SequentialAnswer)
<1>1. PmInv => PmTypeOK /\ SequentialAnswer
  BY DEF PmInv
<1> QED
  BY <1>1, PmInitial, PmNextKeeps, PTL DEF PmSpec

-----------------------------------------------------------------------------
(* The evolution search: genes and the parameters they stand for *)

Frac == {f \in [n : Nat, d : Nat] : Unit(f)}
Gene == [min : Frac, max : Frac]

\* A space as ParseSpace accepts it.
Sound(b) ==
    /\ b \in SearchSpace
    /\ b.tunesMin \/ b.tunesMax
    /\ b.minLo <= b.minHi /\ b.maxLo <= b.maxHi
    /\ b.tunesMin => b.minHi <= (IF b.tunesMax THEN b.maxHi ELSE b.baseMax)
    /\ b.tunesMax /\ ~b.tunesMin => b.baseMin <= b.maxHi

InBounds(b, p) ==
    /\ p.min <= p.max
    /\ b.tunesMin => b.minLo <= p.min /\ p.min <= b.minHi
    /\ b.tunesMax => p.max <= b.maxHi

LEMMA Quotient ==
    ASSUME NEW y \in Int, NEW e \in Nat, e > 0
    PROVE  y \div e \in Int /\ (y \div e) * e <= y /\ y < (y \div e) * e + e
OBVIOUS

LEMMA Products ==
    ASSUME NEW a \in Int, NEW b \in Int, NEW e \in Nat, a < b
    PROVE  a * e \in Int /\ b * e \in Int /\ a * e + e <= b * e
<1>1. a * e \in Int /\ b * e \in Int /\ (b - a) * e = b * e - a * e
  OBVIOUS
<1>2. (b - a) * e >= e
  OBVIOUS
<1> QED
  BY <1>1, <1>2

\* A quotient is what lies between two multiples.
LEMMA QuotientIs ==
    ASSUME NEW y \in Int, NEW e \in Nat, e > 0, NEW k \in Int, k * e <= y, y < k * e + e
    PROVE  y \div e = k
<1>1. PICK q \in Int : q = y \div e
  BY Quotient
<1>2. PICK qe \in Int : qe = q * e
  OBVIOUS
<1>3. PICK ke \in Int : ke = k * e
  OBVIOUS
<1>4. qe <= y /\ y < qe + e
  BY <1>1, <1>2, Quotient
<1>5. ~(q < k)
  <2>1. q < k => qe + e <= ke
    BY <1>2, <1>3, Products
  <2> QED
    BY <2>1, <1>3, <1>4
<1>6. ~(k < q)
  <2>1. k < q => ke + e <= qe
    BY <1>2, <1>3, Products
  <2> QED
    BY <2>1, <1>3, <1>4
<1> QED
  BY <1>1, <1>5, <1>6

\* A gene spreads over its bounds and never beyond them.
LEMMA SpreadInBounds ==
    ASSUME NEW f \in Frac, NEW lo \in Nat, NEW hi \in Nat, lo <= hi
    PROVE  Spread(f, lo, hi) \in Nat /\ lo <= Spread(f, lo, hi) /\ Spread(f, lo, hi) <= hi
<1>1. PICK n, d \in Nat : n = f.n /\ d = f.d /\ n <= d /\ d > 0
  BY DEF Frac, Unit
<1>2. PICK k \in Nat : k = hi - lo
  OBVIOUS
<1>3. PICK x \in Nat : x = n * k
  OBVIOUS
<1>4. PICK w \in Nat : w = d * k
  OBVIOUS
<1>5. x <= w
  <2>1. (d - n) * k = d * k - n * k /\ (d - n) * k >= 0
    BY <1>1
  <2> QED
    BY <2>1, <1>3, <1>4
<1>6. PICK e \in Nat : e = 2 * d /\ e > 0
  BY <1>1
<1>7. PICK q \in Int : q = (2 * x + d) \div e
  BY <1>6, Quotient
<1>8. PICK qe \in Int : qe = q * e
  OBVIOUS
<1>9. qe <= 2 * x + d /\ 2 * x + d < qe + e
  BY <1>6, <1>7, <1>8, Quotient
<1>10. q >= 0
  <2>1. q < 0 => q * e + e <= 0 * e
    BY Products
  <2> QED
    BY <2>1, <1>8, <1>9
<1>11. q <= k
  <2>1. k < q => k * e + e <= qe
    BY <1>8, Products
  <2>2. k * e = 2 * w
    BY <1>4, <1>6
  <2> QED
    BY <2>1, <2>2, <1>1, <1>5, <1>6, <1>9
<1>12. Spread(f, lo, hi) = lo + q
  BY <1>1, <1>2, <1>3, <1>6, <1>7, Zenon DEF Spread, RoundFrac
<1> QED
  BY <1>2, <1>10, <1>11, <1>12

\* Encoding a value inside its bounds and decoding it again gives it back.
LEMMA EncodedAndBack ==
    ASSUME NEW lo \in Nat, NEW hi \in Nat, NEW v \in Nat, lo <= v, v <= hi
    PROVE  Fraction(v, lo, hi) \in Frac /\ Spread(Fraction(v, lo, hi), lo, hi) = v
<1>1. CASE hi <= lo \/ v <= lo
  <2>1. v = lo
    BY <1>1
  <2>2. Fraction(v, lo, hi) = [n |-> 0, d |-> 1]
    BY <1>1 DEF Fraction, Zero
  <2>3. [n |-> 0, d |-> 1] \in Frac
    BY DEF Frac, Unit
  <2>4. Spread([n |-> 0, d |-> 1], lo, hi) = lo + (2 * (0 * (hi - lo)) + 1) \div (2 * 1)
    BY DEF Spread, RoundFrac
  <2>5. 0 * (hi - lo) = 0
    OBVIOUS
  <2>6. (2 * 0 + 1) \div (2 * 1) = 0
    OBVIOUS
  <2>7. Spread([n |-> 0, d |-> 1], lo, hi) = lo
    BY <2>4, <2>5, <2>6
  <2> QED
    BY <2>1, <2>2, <2>3, <2>7
<1>2. CASE ~(hi <= lo \/ v <= lo) /\ v >= hi
  <2>1. v = hi /\ hi - lo \in Nat
    BY <1>2
  <2>2. Fraction(v, lo, hi) = [n |-> 1, d |-> 1]
    BY <1>2 DEF Fraction
  <2>3. [n |-> 1, d |-> 1] \in Frac
    BY DEF Frac, Unit
  <2>4. Spread([n |-> 1, d |-> 1], lo, hi) = lo + (2 * (1 * (hi - lo)) + 1) \div (2 * 1)
    BY DEF Spread, RoundFrac
  <2>5. PICK k \in Nat : k = hi - lo
    BY <2>1
  <2>6. (2 * (1 * k) + 1) \div (2 * 1) = k
    OBVIOUS
  <2>7. Spread([n |-> 1, d |-> 1], lo, hi) = hi
    BY <2>4, <2>5, <2>6
  <2> QED
    BY <2>1, <2>2, <2>3, <2>7
<1>3. CASE ~(hi <= lo \/ v <= lo) /\ v < hi
  <2>1. PICK k, m \in Nat : k = v - lo /\ m = hi - lo /\ 0 < k /\ k < m
    BY <1>3
  <2>2. Fraction(v, lo, hi) = [n |-> k, d |-> m]
    BY <1>3, <2>1 DEF Fraction
  <2>3. [n |-> k, d |-> m] \in Frac
    BY <2>1 DEF Frac, Unit
  <2>4. Spread([n |-> k, d |-> m], lo, hi) = lo + (2 * (k * m) + m) \div (2 * m)
    BY <2>1, Zenon DEF Spread, RoundFrac
  <2>5. PICK km \in Nat : km = k * m
    OBVIOUS
  <2>6. PICK e \in Nat : e = 2 * m /\ e > 0
    BY <2>1
  <2>7. k * e = 2 * km
    BY <2>5, <2>6
  <2>8. (2 * km + m) \div e = k
    <3>1. k * e <= 2 * km + m /\ 2 * km + m < k * e + e
      BY <2>1, <2>6, <2>7
    <3> QED
      BY <2>6, <3>1, QuotientIs
  <2>9. Spread([n |-> k, d |-> m], lo, hi) = lo + k
    BY <2>4, <2>5, <2>6, <2>8, Zenon
  <2> QED
    BY <2>1, <2>2, <2>3, <2>9
<1> QED
  BY <1>1, <1>2, <1>3

LEMMA LargerIs ==
    ASSUME NEW a \in Nat, NEW b \in Nat
    PROVE  /\ Larger(a, b) \in Nat /\ Larger(a, b) >= a /\ Larger(a, b) >= b
           /\ a >= b => Larger(a, b) = a
           /\ b >= a => Larger(a, b) = b
           /\ Larger(a, b) = a \/ Larger(a, b) = b
BY DEF Larger

\* Every gene of a space that was accepted decodes to legal parameters.
LEMMA DecodeInBounds ==
    ASSUME NEW b, Sound(b), NEW g \in Gene
    PROVE  Decode(b, g) \in Params /\ InBounds(b, Decode(b, g))
           /\ (~b.tunesMin => Decode(b, g).min = b.baseMin)
           /\ (b.tunesMin /\ ~b.tunesMax => Decode(b, g).max = b.baseMax)
           /\ (b.tunesMax /\ ~b.tunesMin => b.maxLo <= Decode(b, g).max)
<1>0. /\ b.minLo \in Nat /\ b.minHi \in Nat /\ b.maxLo \in Nat /\ b.maxHi \in Nat
      /\ b.baseMin \in Nat /\ b.baseMax \in Nat /\ g.min \in Frac /\ g.max \in Frac
      /\ b.minLo <= b.minHi /\ b.maxLo <= b.maxHi
  BY DEF Sound, SearchSpace, Gene
<1>1. PICK min \in Nat : min = IF b.tunesMin THEN Spread(g.min, b.minLo, b.minHi) ELSE b.baseMin
  BY <1>0, SpreadInBounds
<1>2. b.tunesMin => b.minLo <= min /\ min <= b.minHi
  BY <1>0, <1>1, SpreadInBounds
<1>3. b.tunesMax => min <= b.maxHi
  BY <1>0, <1>1, <1>2 DEF Sound
<1>4. PICK lo \in Nat : lo = IF b.tunesMin THEN Larger(min, b.maxLo) ELSE b.maxLo
  BY <1>0, LargerIs
<1>5. b.tunesMax => lo <= b.maxHi /\ b.maxLo <= lo
  <2>1. PICK x \in Nat : x = b.maxLo
    BY <1>0
  <2>2. Larger(min, x) >= x /\ (Larger(min, x) = min \/ Larger(min, x) = x)
    BY LargerIs
  <2> QED
    BY <1>0, <1>3, <1>4, <2>1, <2>2
<1>6. PICK max \in Nat : max = IF ~b.tunesMax THEN b.baseMax ELSE Spread(g.max, lo, b.maxHi)
  BY <1>0, <1>5, SpreadInBounds
<1>7. b.tunesMax => lo <= max /\ max <= b.maxHi
  BY <1>0, <1>5, <1>6, SpreadInBounds
<1>8. Decode(b, g) = [min |-> min, max |-> Larger(min, max)]
  BY <1>1, <1>4, <1>6 DEF Decode
<1>9. PICK top \in Nat : top = Larger(min, max) /\ min <= top /\ max <= top /\ (top = min \/ top = max)
  <2>1. /\ Larger(min, max) \in Nat /\ Larger(min, max) >= min /\ Larger(min, max) >= max
        /\ Larger(min, max) = min \/ Larger(min, max) = max
    BY LargerIs
  <2>2. PICK top \in Nat : top = Larger(min, max)
    BY <2>1
  <2> QED
    BY <2>1, <2>2
<1>10. b.tunesMin /\ ~b.tunesMax => top = b.baseMax
  BY <1>0, <1>2, <1>6, <1>9 DEF Sound
<1>11. Decode(b, g).min = min /\ Decode(b, g).max = top /\ Decode(b, g) \in Params
  BY <1>8, <1>9 DEF Params
<1>12. InBounds(b, Decode(b, g))
  BY <1>2, <1>3, <1>7, <1>9, <1>11 DEF InBounds
<1>13. b.tunesMax /\ ~b.tunesMin => b.maxLo <= top
  BY <1>0, <1>5, <1>7, <1>9
<1> QED
  BY <1>1, <1>10, <1>11, <1>12, <1>13

\* Where one bound is tuned, encoding decoded parameters loses nothing.
LEMMA ChampionComesBack ==
    ASSUME NEW b, Sound(b), NEW g \in Gene
    PROVE  /\ Encode(b, Decode(b, g)) \in Gene
           /\ ~(b.tunesMin /\ b.tunesMax) => Decode(b, Encode(b, Decode(b, g))) = Decode(b, g)
<1>0. /\ b.minLo \in Nat /\ b.minHi \in Nat /\ b.maxLo \in Nat /\ b.maxHi \in Nat
      /\ b.baseMin \in Nat /\ b.baseMax \in Nat /\ b.tunesMin \in BOOLEAN /\ b.tunesMax \in BOOLEAN
  BY DEF Sound, SearchSpace
<1>1. PICK lo, hi \in Nat : Decode(b, g) = [min |-> lo, max |-> hi]
  BY DecodeInBounds DEF Params
<1>2. /\ lo <= hi /\ (b.tunesMin => b.minLo <= lo /\ lo <= b.minHi)
      /\ (b.tunesMax => hi <= b.maxHi)
      /\ (~b.tunesMin => lo = b.baseMin)
      /\ (b.tunesMin /\ ~b.tunesMax => hi = b.baseMax)
      /\ (b.tunesMax /\ ~b.tunesMin => b.maxLo <= hi)
  BY <1>1, DecodeInBounds DEF InBounds
<1>3. Zero \in Frac
  BY DEF Zero, Frac, Unit
<1>4. b.tunesMin => Fraction(lo, b.minLo, b.minHi) \in Frac
                    /\ Spread(Fraction(lo, b.minLo, b.minHi), b.minLo, b.minHi) = lo
  BY <1>0, <1>2, EncodedAndBack
<1>5. b.tunesMax => Fraction(hi, b.maxLo, b.maxHi) \in Frac
  <2>1. CASE hi <= b.maxLo
    BY <2>1, <1>3 DEF Fraction
  <2>2. CASE ~(hi <= b.maxLo)
    BY <2>2, <1>0, <1>2, EncodedAndBack
  <2> QED
    BY <2>1, <2>2
<1>6. PICK e : e = Encode(b, Decode(b, g))
  OBVIOUS
<1>7. e = [min |-> IF b.tunesMin THEN Fraction(lo, b.minLo, b.minHi) ELSE Zero,
           max |-> IF b.tunesMax THEN Fraction(hi, b.maxLo, b.maxHi) ELSE Zero]
  BY <1>1, <1>6 DEF Encode
<1>8. e \in Gene
  BY <1>3, <1>4, <1>5, <1>7 DEF Gene
<1>9. CASE b.tunesMin /\ ~b.tunesMax
  <2>1. e.min = Fraction(lo, b.minLo, b.minHi)
    BY <1>7, <1>9
  <2>2. Decode(b, e) = [min |-> Spread(e.min, b.minLo, b.minHi),
                        max |-> Larger(Spread(e.min, b.minLo, b.minHi), b.baseMax)]
    BY <1>9 DEF Decode
  <2>3. Spread(e.min, b.minLo, b.minHi) = lo
    BY <1>4, <1>9, <2>1
  <2>4. Larger(lo, b.baseMax) = hi
    BY <1>0, <1>2, <1>9, LargerIs
  <2>5. Decode(b, e) = [min |-> lo, max |-> hi]
    BY <2>2, <2>3, <2>4
  <2> QED
    BY <1>1, <1>6, <1>8, <2>5
<1>10. CASE b.tunesMax /\ ~b.tunesMin
  <2>1. e.max = Fraction(hi, b.maxLo, b.maxHi)
    BY <1>7, <1>10
  <2>2. Decode(b, e) = [min |-> b.baseMin,
                        max |-> Larger(b.baseMin, Spread(e.max, b.maxLo, b.maxHi))]
    BY <1>10 DEF Decode
  <2>3. Spread(e.max, b.maxLo, b.maxHi) = hi
    BY <1>0, <1>2, <1>10, <2>1, EncodedAndBack
  <2>4. Larger(lo, hi) = hi
    BY <1>2, LargerIs
  <2>5. Decode(b, e) = [min |-> lo, max |-> hi]
    BY <1>2, <1>10, <2>2, <2>3, <2>4
  <2> QED
    BY <1>1, <1>6, <1>8, <2>5
<1>11. CASE b.tunesMin /\ b.tunesMax
  BY <1>6, <1>8, <1>11
<1>12. b.tunesMin \/ b.tunesMax
  BY DEF Sound
<1> QED
  BY <1>0, <1>9, <1>10, <1>11, <1>12

\* The best score of a population that has one: the greatest, by the first member.
LEMMA BestIsMember ==
    ASSUME NEW ss \in [Member -> Scores]
    PROVE  BestOf(ss) \in Member
<1> DEFINE less == {xy \in Nat \X Nat : xy[1] < xy[2]}
           Tops(n) == {m \in 1 .. n + 1 : \A k \in 1 .. n + 1 : ss[m] >= ss[k]}
           Bad == {n \in 0 .. PopulationSize - 1 : Tops(n) = {}}
<1>0. PopulationSize \in Nat /\ PopulationSize > 0 /\ \A m \in 1 .. PopulationSize : ss[m] \in Int
  <2>1. PopulationSize \in Nat \ {0} /\ Scores \subseteq Int
    BY SearchAssumption, Zenon
  <2>2. PopulationSize \in Nat /\ PopulationSize > 0
    BY <2>1
  <2>3. \A m \in Member : ss[m] \in Int
    BY <2>1
  <2> QED
    BY <2>2, <2>3 DEF Member
<1>1. IsWellFoundedOn(less, Nat)
  BY NatLessThanWellFounded, Zenon DEF OpToRel
<1>2. \A x, y \in Nat : <<y, x>> \notin less => ~(y < x)
  BY DEF less
<1> HIDE DEF less
<1>3. Bad = {}
  <2> SUFFICES ASSUME Bad # {} PROVE FALSE
    OBVIOUS
  <2>1. Bad \subseteq Nat
    BY <1>0
  <2> HIDE DEF Bad
  <2>2. PICK n \in Bad : \A y \in Bad : <<y, n>> \notin less
    BY <1>1, <2>1, WFMin, Zenon
  <2>3. \A y \in Bad : ~(y < n)
    BY <1>2, <2>1, <2>2
  <2>4. n \in 0 .. PopulationSize - 1 /\ Tops(n) = {}
    BY DEF Bad
  <2>5. n # 0
    <3> SUFFICES ASSUME n = 0 PROVE FALSE
      OBVIOUS
    <3>1. 1 \in Tops(n)
      BY <1>0
    <3> QED
      BY <2>4, <3>1
  <2>6. Tops(n - 1) # {}
    <3>1. n - 1 \in 0 .. PopulationSize - 1 /\ n - 1 < n
      BY <1>0, <2>4, <2>5
    <3> QED
      BY <2>3, <3>1 DEF Bad
  <2>7. PICK m \in 1 .. n : \A k \in 1 .. n : ss[m] >= ss[k]
    BY <2>4, <2>6
  <2>8. CASE ss[m] >= ss[n + 1]
    <3>1. m \in Tops(n)
      BY <2>4, <2>7, <2>8
    <3> QED
      BY <2>4, <3>1
  <2>9. CASE ~(ss[m] >= ss[n + 1])
    <3>1. \A k \in 1 .. n + 1 : ss[n + 1] >= ss[k]
      BY <1>0, <2>4, <2>7, <2>9
    <3>2. n + 1 \in Tops(n)
      BY <2>4, <3>1
    <3> QED
      BY <2>4, <3>2
  <2> QED
    BY <2>8, <2>9
<1>4. PICK n \in Nat : n = PopulationSize - 1 /\ n + 1 = PopulationSize
  BY <1>0
<1>5. Tops(n) # {} /\ Tops(n) \subseteq Nat
  <2>1. n \in 0 .. PopulationSize - 1
    BY <1>0, <1>4
  <2>2. Tops(n) # {}
    BY <1>3, <2>1
  <2>3. Tops(n) \subseteq Nat
    OBVIOUS
  <2> QED
    BY <2>2, <2>3
<1>6. PICK m \in Tops(n) : \A k \in Tops(n) : <<k, m>> \notin less
  <2> HIDE DEF Tops
  <2> QED
    BY <1>1, <1>5, WFMin, Zenon
<1>7. m \in Member /\ \A k \in Member : ss[m] >= ss[k]
  BY <1>4 DEF Member
<1>8. ASSUME NEW k \in Member, ss[m] = ss[k] PROVE m <= k
  <2>1. k \in Tops(n)
    BY <1>0, <1>4, <1>7, <1>8 DEF Member
  <2>2. ~(k < m)
    BY <1>2, <1>5, <1>6, <2>1
  <2> QED
    BY <1>7, <2>2 DEF Member
<1>9. \E x \in Member : \A k \in Member : ss[x] >= ss[k] /\ (ss[x] = ss[k] => x <= k)
  BY <1>7, <1>8
<1> QED
  BY <1>9, Zenon DEF BestOf

-----------------------------------------------------------------------------
(* The evolution search: windows, budget and champions *)

Disjoint(p) ==
    /\ p["train"] \union p["valid"] \union p["test"] = esBars
    /\ \A j, k \in {"train", "valid", "test"} : j # k => p[j] \intersect p[k] = {}
    /\ \A k \in {"train", "valid", "test"} : p[k] # {}

\* The facts of the assumption, one by one.
LEMMA SearchFacts ==
    /\ Scores \subseteq Int /\ Baselines \subseteq Int /\ NoScore \notin Scores
    /\ PopulationSize \in Nat /\ PopulationSize > 0 /\ Patience \in Nat /\ Patience > 0
    /\ MaxGenerations \in Nat /\ Reserved \in Nat /\ Budgets \subseteq Nat
    /\ \A b \in Budgets : b > Reserved + PopulationSize
    /\ PruneFactor.n \in Nat /\ PruneFactor.d \in Nat /\ PruneFactor.n <= PruneFactor.d
    /\ PruneFactor.d > 0
    /\ DrawnGenes \subseteq Gene
    /\ Len(Groups) \in Nat /\ Len(Groups) > 0
    /\ \A i \in 1 .. Len(Groups) : Sound(Groups[i])
<1>1. /\ Scores \subseteq Int /\ Baselines \subseteq Int /\ NoScore \notin Scores
      /\ PopulationSize \in Nat \ {0} /\ Patience \in Nat \ {0} /\ MaxGenerations \in Nat
      /\ SampleCandidates \in Nat /\ SampleSeeds \in Nat /\ Budgets \subseteq Nat
      /\ \A b \in Budgets : b > SampleCandidates * SampleSeeds + PopulationSize
  BY SearchAssumption, Zenon
<1>2. Reserved \in Nat /\ \A b \in Budgets : b > Reserved + PopulationSize
  BY <1>1 DEF Reserved
<1>3. PruneFactor \in [n : Nat, d : Nat] /\ Unit(PruneFactor)
  BY SearchAssumption, Zenon
<1>4. /\ DrawnGenes \subseteq [min : [n : Nat, d : Nat], max : [n : Nat, d : Nat]]
      /\ \A g \in DrawnGenes : Unit(g.min) /\ Unit(g.max)
  BY SearchAssumption, Zenon
<1>5. DrawnGenes \subseteq Gene
  BY <1>4 DEF Gene, Frac
<1>6. Groups # <<>> /\ Groups \in Seq(SearchSpace)
  BY SearchAssumption, Zenon
<1>7. \A i \in DOMAIN Groups :
        LET b == Groups[i]
        IN /\ b.tunesMin \/ b.tunesMax
           /\ b.minLo <= b.minHi /\ b.maxLo <= b.maxHi
           /\ b.tunesMin => b.minHi <= (IF b.tunesMax THEN b.maxHi ELSE b.baseMax)
           /\ b.tunesMax /\ ~b.tunesMin => b.baseMin <= b.maxHi
  BY SearchAssumption, Zenon
<1>8. Len(Groups) \in Nat /\ Len(Groups) > 0 /\ DOMAIN Groups = 1 .. Len(Groups)
  BY <1>6
<1>9. ASSUME NEW i \in 1 .. Len(Groups) PROVE Sound(Groups[i])
  <2>1. i \in DOMAIN Groups /\ Groups[i] \in SearchSpace
    BY <1>6, <1>8
  <2> QED
    BY <1>7, <2>1, Zenon DEF Sound
<1>10. PruneFactor.n \in Nat /\ PruneFactor.d \in Nat /\ PruneFactor.n <= PruneFactor.d
       /\ PruneFactor.d > 0
  BY <1>3 DEF Unit
<1> QED
  BY <1>1, <1>2, <1>5, <1>8, <1>9, <1>10

\* The three windows that Prepare reads share no bar and leave none out.
LEMMA WindowsApart ==
    ASSUME esBars \in BarSets, WindowsHaveBars(esBars)
    PROVE  Disjoint(Prepared(esBars))
<1>1. esBars \subseteq Int /\ MinSplitBars \in Nat \ {0}
      /\ (esBars # {} => \E f, l \in esBars : \A t \in esBars : f <= t /\ t <= l)
  BY SearchAssumption, Zenon
<1>2. esBars # {}
  BY <1>1, FS_EmptySet DEF WindowsHaveBars
<1>3. PICK f, l \in esBars : \A t \in esBars : f <= t /\ t <= l
  BY <1>1, <1>2
<1>4. f \in Int /\ l \in Int /\ f <= l
  BY <1>1, <1>3
<1>5. First(esBars) = f
  <2>1. \A t \in esBars : (\A u \in esBars : t <= u) => t = f
    BY <1>1, <1>3
  <2> QED
    BY <1>3, <2>1, Zenon DEF First
<1>6. Last(esBars) = l
  <2>1. \A t \in esBars : (\A u \in esBars : t >= u) => t = l
    BY <1>1, <1>3
  <2>2. \A u \in esBars : l >= u
    BY <1>1, <1>3
  <2> QED
    BY <1>3, <2>1, <2>2, Zenon DEF Last
<1>7. PICK a \in Int : a = f + ((l - f) * 3) \div 5
  BY <1>4
<1>8. PICK b \in Int : b = f + ((l - f) * 4) \div 5
  BY <1>4
<1>9. f <= a /\ a <= b /\ b <= l
  BY <1>4, <1>7, <1>8
<1>10. SplitWindows(esBars) = [train |-> [from |-> f, to |-> a], valid |-> [from |-> a, to |-> b],
                               test |-> [from |-> b, to |-> l]]
  BY <1>5, <1>6, <1>7, <1>8, Zenon DEF SplitWindows
<1> DEFINE p == Prepared(esBars)
<1>11. /\ p["train"] = {t \in esBars : f <= t /\ t <= a - 1}
       /\ p["valid"] = {t \in esBars : a <= t /\ t <= b - 1}
       /\ p["test"] = {t \in esBars : b <= t /\ t <= l}
  BY <1>10 DEF Prepared
<1>12. /\ \E t \in esBars : f <= t /\ t < a
       /\ \E t \in esBars : a <= t /\ t < b
       /\ \E t \in esBars : b <= t
  BY <1>10 DEF WindowsHaveBars, InWindow
<1> HIDE DEF p
<1>13. p["train"] \union p["valid"] \union p["test"] = esBars
  BY <1>1, <1>3, <1>4, <1>9, <1>11
<1>14. /\ p["train"] \intersect p["valid"] = {} /\ p["train"] \intersect p["test"] = {}
       /\ p["valid"] \intersect p["test"] = {} /\ p["valid"] \intersect p["train"] = {}
       /\ p["test"] \intersect p["train"] = {} /\ p["test"] \intersect p["valid"] = {}
  <2>1. \A t \in esBars : /\ ~(t <= a - 1 /\ a <= t) /\ ~(t <= a - 1 /\ b <= t)
                          /\ ~(t <= b - 1 /\ b <= t)
    BY <1>1, <1>9
  <2> QED
    BY <1>11, <2>1, Zenon
<1>15. p["train"] # {} /\ p["valid"] # {} /\ p["test"] # {}
  <2>1. PICK t \in esBars : f <= t /\ t < a
    BY <1>12
  <2>2. t \in p["train"]
    BY <1>1, <1>11, <2>1
  <2>3. PICK u \in esBars : a <= u /\ u < b
    BY <1>12
  <2>4. u \in p["valid"]
    BY <1>1, <1>11, <2>3
  <2>5. PICK v \in esBars : b <= v
    BY <1>12
  <2>6. v \in p["test"]
    BY <1>3, <1>11, <2>5
  <2> QED
    BY <2>2, <2>4, <2>6
<1>16. \A j, k \in {"train", "valid", "test"} : j # k => p[j] \intersect p[k] = {}
  BY <1>14, Zenon
<1>17. \A k \in {"train", "valid", "test"} : p[k] # {}
  BY <1>15, Zenon
<1>18. Disjoint(p)
  BY <1>13, <1>16, <1>17, Zenon DEF Disjoint
<1> QED
  BY <1>18 DEF p

Searching == esPc \in {"start", "train", "validate", "breed"}

\* A generation is entered only with its evaluations still in the budget, the
\* population holds genes, and the champion is what a gene of this space decodes to.
EsInv ==
    /\ EsTypeOK
    /\ esPc # "done" => esGroup \in 1 .. Len(Groups)
    /\ esGenes = <<>> \/ esGenes \in [Member -> Gene]
    /\ Searching => esGenes \in [Member -> Gene] /\ esStop = "none" /\ esStale < Patience
    /\ Searching /\ esBestValid # NoScore => \E g \in Gene : esGlobal = Decode(Space, g)
    /\ esPc = "breed" => esBestValid # NoScore
    /\ esPc \in {"train", "validate"} => esGen < MaxGenerations
    /\ esPc = "train" => esCount + PopulationSize + 1 <= esBudget - Reserved
    /\ esPc = "validate" => /\ esCount + 1 <= esBudget - Reserved
                            /\ esTrain \in [Member -> Scores] /\ esHistory \in Scores
    /\ BudgetKept
    /\ esPc \notin {"probe", "failed"} => WindowsHaveBars(esBars)

GeneRange == [min : [n : Nat, d : Nat], max : [n : Nat, d : Nat]]

LEMMA GenesAreSequences == <<>> \in Seq(GeneRange) /\ [Member -> Gene] \subseteq Seq(GeneRange)
<1>1. Gene \subseteq GeneRange
  BY DEF Gene, Frac, GeneRange
<1>2. ASSUME NEW gs \in [1 .. PopulationSize -> Gene] PROVE gs \in Seq(GeneRange)
  <2>1. gs \in [1 .. PopulationSize -> GeneRange]
    BY <1>1
  <2> QED
    BY <2>1, SearchFacts
<1> QED
  BY <1>2 DEF Member

LEMMA EsInitial == EsInit => EsInv
<1> SUFFICES ASSUME EsInit PROVE EsInv
  OBVIOUS
<1>1. EsTypeOK
  <2>1. esGenes \in Seq(GeneRange)
    BY GenesAreSequences DEF EsInit
  <2> QED
    BY <2>1, SearchFacts DEF EsInit, EsTypeOK, GeneRange
<1>2. BudgetKept
  BY SearchFacts DEF EsInit, BudgetKept
<1>3. esGroup \in 1 .. Len(Groups)
  BY SearchFacts DEF EsInit
<1> QED
  BY <1>1, <1>2, <1>3 DEF EsInit, EsInv, Searching

\* A search begins anew, for the first group or for the next.
LEMMA SearchStarts ==
    ASSUME EsInv, NEW gs \in [Member -> DrawnGenes], FreshSearch(gs), esPc' = "start",
           esGroup' \in 1 .. Len(Groups), WindowsHaveBars(esBars),
           UNCHANGED <<esBars, esBaseline, esGlobalBest, esPruning, esBudget>>
    PROVE  EsInv'
<1>1. gs \in [Member -> Gene] /\ esGenes' = gs
  BY SearchFacts DEF FreshSearch
<1>2. esGenes' \in Seq(GeneRange)
  BY <1>1, GenesAreSequences
<1>3. esGroup' \in 1 .. Len(Groups) + 1
  BY SearchFacts
<1>4. EsTypeOK'
  BY <1>2, <1>3, SearchFacts DEF FreshSearch, EsInv, EsTypeOK, GeneRange
<1>5. BudgetKept'
  <2>1. esBudget \in Budgets
    BY DEF EsInv, EsTypeOK
  <2> QED
    BY <2>1, SearchFacts DEF FreshSearch, BudgetKept, Reserved
<1>6. esStale' < Patience /\ esStop' = "none" /\ esBestValid' = NoScore
  BY SearchFacts DEF FreshSearch
<1> QED
  BY <1>1, <1>4, <1>5, <1>6 DEF EsInv, Searching

LEMMA EsKeeps == EsInv /\ [EsNext]_esVars => EsInv'
<1> SUFFICES ASSUME EsInv, [EsNext]_esVars PROVE EsInv'
  OBVIOUS
<1>0. /\ EsTypeOK /\ esBudget \in Nat /\ esCount \in Nat /\ esGen \in Nat /\ esStale \in Nat
      /\ Reserved \in Nat /\ PopulationSize \in Nat /\ Len(Groups) \in Nat
  BY SearchFacts DEF EsInv, EsTypeOK
<1>1. CASE ProbeData
  <2>1. CASE esPc' = "failed" /\ UNCHANGED esSearch
    <3>1. UNCHANGED <<esBars, esBaseline, esGroup, esGlobalBest, esResults, esPruning, esBudget>>
          /\ esPc = "probe"
      BY <1>1 DEF ProbeData
    <3>2. EsTypeOK'
      BY <1>0, <2>1, <3>1 DEF EsTypeOK, esSearch
    <3> QED
      BY <2>1, <3>1, <3>2 DEF EsInv, esSearch, Searching, BudgetKept, Reserved
  <2>2. CASE ~(esPc' = "failed" /\ UNCHANGED esSearch)
    <3>1. PICK gs \in [Member -> DrawnGenes] : FreshSearch(gs)
      BY <1>1, <2>2 DEF ProbeData
    <3>2. /\ WindowsHaveBars(esBars) /\ esPc' = "start" /\ esPc = "probe"
          /\ UNCHANGED <<esBars, esBaseline, esGroup, esGlobalBest, esResults, esPruning, esBudget>>
      BY <1>1, <2>2 DEF ProbeData
    <3>3. esGroup' \in 1 .. Len(Groups)
      BY <3>2 DEF EsInv
    <3> QED
      BY <3>1, <3>2, <3>3, SearchStarts
  <2> QED
    BY <2>1, <2>2
<1>2. CASE StartGeneration
  <2>1. /\ esPc = "start"
        /\ UNCHANGED <<esBars, esBaseline, esGroup, esGen, esGenes, esCount, esTrain, esBestValid,
                esGlobal, esStale, esHistory, esAll, esGlobalBest, esResults, esPruning, esBudget>>
    BY <1>2 DEF StartGeneration
  <2>2. \/ esPc' = "train" /\ esGen < MaxGenerations /\ FitsBudget /\ esStop' = esStop
        \/ esPc' = "sample" /\ esStop' \in {"max_generations", "timeout", "budget_exhausted"}
    BY <1>2 DEF StartGeneration, StopSearch
  <2>3. EsTypeOK'
    BY <1>0, <2>1, <2>2 DEF EsTypeOK
  <2>4. BudgetKept'
    BY <2>1 DEF EsInv, BudgetKept, Reserved
  <2>5. esBestValid' # NoScore => \E g \in Gene : esGlobal' = Decode(Space', g)
    <3>1. esBestValid # NoScore => \E g \in Gene : esGlobal = Decode(Space, g)
      BY <2>1 DEF EsInv, Searching
    <3>2. Space' = Space
      BY <2>1 DEF Space
    <3> QED
      BY <2>1, <3>1, <3>2
  <2>6. esPc' = "train" => esCount' + PopulationSize + 1 <= esBudget' - Reserved
    BY <2>1, <2>2 DEF FitsBudget
  <2> QED
    BY <2>1, <2>2, <2>3, <2>4, <2>5, <2>6 DEF EsInv, Searching, Reserved
<1>3. CASE EvaluateTrain
  <2>1. PICK ss \in [Member -> Scores] :
          /\ esTrain' = ss
          /\ esHistory' = IF esHistory = NoScore \/ ss[BestOf(ss)] > esHistory
                          THEN ss[BestOf(ss)] ELSE esHistory
    BY <1>3 DEF EvaluateTrain
  <2>2. /\ esPc = "train" /\ esCount' = esCount + PopulationSize /\ esPc' = "validate"
        /\ UNCHANGED <<esBars, esBaseline, esGroup, esGen, esGenes, esBestValid, esGlobal, esStale,
                       esStop, esGlobalBest, esResults, esPruning, esBudget>>
    BY <1>3 DEF EvaluateTrain
  <2>3. ss[BestOf(ss)] \in Scores
    BY BestIsMember
  <2>4. esHistory' \in Scores
    BY <1>0, <2>1, <2>3 DEF EsTypeOK
  <2>5. EsTypeOK'
    BY <1>0, <2>2, <2>4 DEF EsTypeOK
  <2>6. esCount' + 1 <= esBudget - Reserved /\ BudgetKept'
    <3>1. esCount + PopulationSize + 1 <= esBudget - Reserved
      BY <2>2 DEF EsInv
    <3> QED
      BY <1>0, <2>2, <3>1 DEF BudgetKept, Reserved
  <2>7. Space' = Space
    BY <2>2 DEF Space
  <2> QED
    BY <2>1, <2>2, <2>4, <2>5, <2>6, <2>7 DEF EsInv, Searching, Reserved
<1>4. CASE Validate
  <2>1. PICK v \in Scores, prune \in BOOLEAN :
          /\ esCount' = esCount + 1 /\ esGen' = esGen + 1
          /\ IF Improved(v)
             THEN /\ esBestValid' = v /\ esStale' = 0
                  /\ esGlobal' = Decode(Space, esGenes[BestOf(esTrain)])
             ELSE esStale' = esStale + 1 /\ UNCHANGED <<esBestValid, esGlobal>>
          /\ esGlobalBest' = IF esPruning /\ (esGlobalBest = NoScore \/ esHistory > esGlobalBest)
                             THEN esHistory ELSE esGlobalBest
          /\ \/ prune /\ StopSearch("pruned")
             \/ ~prune /\ esStale' >= Patience /\ StopSearch("early_stop")
             \/ ~prune /\ esStale' < Patience /\ esPc' = "breed" /\ UNCHANGED esStop
    <3>1. PICK v \in Scores :
          LET prune == esPruning /\ ShouldPrune(esGen, esHistory, esBaseline, esGlobalBest)
          IN /\ esCount' = esCount + 1 /\ esGen' = esGen + 1
             /\ IF Improved(v)
                THEN /\ esBestValid' = v /\ esStale' = 0
                     /\ esGlobal' = Decode(Space, esGenes[BestOf(esTrain)])
                ELSE esStale' = esStale + 1 /\ UNCHANGED <<esBestValid, esGlobal>>
             /\ esGlobalBest' = IF esPruning /\ (esGlobalBest = NoScore \/ esHistory > esGlobalBest)
                                THEN esHistory ELSE esGlobalBest
             /\ \/ prune /\ StopSearch("pruned")
                \/ ~prune /\ esStale' >= Patience /\ StopSearch("early_stop")
                \/ ~prune /\ esStale' < Patience /\ esPc' = "breed" /\ UNCHANGED esStop
      BY <1>4, Zenon DEF Validate
    <3>2. PICK prune \in BOOLEAN :
             prune = (esPruning /\ ShouldPrune(esGen, esHistory, esBaseline, esGlobalBest))
      OBVIOUS
    <3> QED
      BY <3>1, <3>2
  <2>2. /\ esPc = "validate"
        /\ UNCHANGED <<esBars, esBaseline, esGroup, esGenes, esHistory, esAll, esResults,
                       esPruning, esBudget>>
    BY <1>4 DEF Validate
  <2>3. /\ esGenes \in [Member -> Gene] /\ esTrain \in [Member -> Scores] /\ esHistory \in Scores
        /\ esStale < Patience /\ esStop = "none" /\ esGen < MaxGenerations
        /\ esCount + 1 <= esBudget - Reserved
    BY <2>2 DEF EsInv, Searching
  <2>4. esGenes[BestOf(esTrain)] \in Gene
    BY <2>3, BestIsMember
  <2>5. esBestValid' \in Scores \union {NoScore} /\ esStale' \in 0 .. Patience
    <3>1. esBestValid' = v \/ esBestValid' = esBestValid
      BY <2>1
    <3>2. esStale' = 0 \/ esStale' = esStale + 1
      BY <2>1
    <3>3. esStale' \in 0 .. Patience
      BY <1>0, <2>3, <3>2, SearchFacts
    <3> QED
      BY <1>0, <3>1, <3>3 DEF EsTypeOK
  <2>6. esBestValid' # NoScore /\ \E g \in Gene : esGlobal' = Decode(Space, g)
    <3>1. CASE Improved(v)
      BY <2>1, <2>4, <3>1, SearchFacts
    <3>2. CASE ~Improved(v)
      <4>1. esBestValid # NoScore /\ esBestValid' = esBestValid /\ esGlobal' = esGlobal
        BY <2>1, <3>2 DEF Improved
      <4>2. \E g \in Gene : esGlobal = Decode(Space, g)
        BY <2>2, <4>1 DEF EsInv, Searching
      <4> QED
        BY <4>1, <4>2
    <3> QED
      BY <3>1, <3>2
  <2>7. \/ esPc' = "sample" /\ esStop' \in {"pruned", "early_stop"}
        \/ esPc' = "breed" /\ esStop' = esStop /\ esStale' < Patience
    BY <2>1 DEF StopSearch
  <2>8. esGlobalBest' \in Scores \union {NoScore}
    BY <1>0, <2>1, <2>3 DEF EsTypeOK
  <2>9. esGen' \in 0 .. MaxGenerations /\ esCount' \in Nat
    BY <1>0, <2>1, <2>3, SearchFacts
  <2>10. EsTypeOK'
    BY <1>0, <2>2, <2>5, <2>7, <2>8, <2>9 DEF EsTypeOK
  <2>11. BudgetKept'
    BY <1>0, <2>1, <2>2, <2>3 DEF BudgetKept, Reserved
  <2>12. Space' = Space
    BY <2>2 DEF Space
  <2> QED
    BY <2>2, <2>3, <2>6, <2>7, <2>10, <2>11, <2>12 DEF EsInv, Searching
<1>5. CASE Breed
  <2>1. PICK gs \in [Member \ {1} -> DrawnGenes] :
          esGenes' = [m \in Member |-> IF m = 1 THEN Encode(Space, esGlobal) ELSE gs[m]]
    BY <1>5 DEF Breed
  <2>2. /\ esPc = "breed" /\ esPc' = "start"
        /\ UNCHANGED <<esBars, esBaseline, esGroup, esGen, esCount, esTrain, esBestValid, esGlobal,
                esStale, esHistory, esAll, esStop, esGlobalBest, esResults, esPruning, esBudget>>
    BY <1>5 DEF Breed
  <2>3. Sound(Space)
    BY <2>2, SearchFacts DEF EsInv, Space
  <2>4. PICK g \in Gene : esGlobal = Decode(Space, g)
    BY <2>2 DEF EsInv, Searching
  <2>5. Encode(Space, esGlobal) \in Gene
    BY <2>3, <2>4, ChampionComesBack
  <2>6. esGenes' \in [Member -> Gene]
    BY <2>1, <2>5, SearchFacts
  <2>7. esGenes' \in Seq(GeneRange)
    BY <2>6, GenesAreSequences
  <2>8. EsTypeOK'
    BY <1>0, <2>2, <2>7 DEF EsTypeOK, GeneRange
  <2>9. Space' = Space
    BY <2>2 DEF Space
  <2>10. BudgetKept'
    BY <2>2 DEF EsInv, BudgetKept, Reserved
  <2> QED
    BY <2>2, <2>4, <2>6, <2>8, <2>9, <2>10 DEF EsInv, Searching
<1>6. CASE EvaluationFails
  <2>1. EsTypeOK' /\ BudgetKept'
    BY <1>0, <1>6 DEF EvaluationFails, EsTypeOK, EsInv, BudgetKept, Reserved, esSearch
  <2> QED
    BY <1>6, <2>1 DEF EvaluationFails, EsInv, Searching, esSearch
<1>7. CASE SampleOut
  <2>0. esPc = "sample" /\ UNCHANGED <<esBars, esBaseline, esGlobalBest, esPruning, esBudget>>
        /\ esGroup \in 1 .. Len(Groups) /\ WindowsHaveBars(esBars)
    BY <1>7 DEF SampleOut, EsInv
  <2>1. CASE esPc' = "failed" /\ UNCHANGED <<esGroup, esSearch, esResults>>
    <3>1. EsTypeOK' /\ BudgetKept'
      BY <1>0, <2>0, <2>1 DEF EsTypeOK, EsInv, BudgetKept, Reserved, esSearch
    <3> QED
      BY <2>0, <2>1, <3>1 DEF EsInv, Searching, esSearch
  <2>2. CASE esGroup' = esGroup + 1 /\ esPc' = "done" /\ UNCHANGED esSearch
    <3>1. EsTypeOK' /\ BudgetKept'
      BY <1>0, <2>0, <2>2 DEF EsTypeOK, EsInv, BudgetKept, Reserved, esSearch
    <3> QED
      BY <2>0, <2>2, <3>1 DEF EsInv, Searching, esSearch
  <2>3. CASE /\ esGroup' = esGroup + 1 /\ esGroup # Len(Groups) /\ esPc' = "start"
             /\ \E gs \in [Member -> DrawnGenes] : FreshSearch(gs)
    <3>1. esGroup' \in 1 .. Len(Groups)
      BY <1>0, <2>0, <2>3
    <3> QED
      BY <2>0, <2>3, <3>1, SearchStarts
  <2> QED
    BY <1>7, <2>1, <2>2, <2>3 DEF SampleOut
<1>8. CASE UNCHANGED esVars
  <2>1. Space' = Space /\ EsTypeOK' /\ BudgetKept'
    BY <1>0, <1>8 DEF esVars, esSearch, Space, EsTypeOK, EsInv, BudgetKept, Reserved
  <2> QED
    BY <1>8, <2>1 DEF esVars, esSearch, EsInv, Searching
<1> QED
  BY <1>1, <1>2, <1>3, <1>4, <1>5, <1>6, <1>7, <1>8 DEF EsNext

LEMMA SearchSafe ==
    EsInv => EsTypeOK /\ WindowsPartitionBars /\ BudgetKept /\ DecodedInBounds
<1> SUFFICES ASSUME EsInv PROVE EsTypeOK /\ WindowsPartitionBars /\ BudgetKept /\ DecodedInBounds
  OBVIOUS
<1>1. EsTypeOK /\ BudgetKept
  BY DEF EsInv
<1>2. WindowsPartitionBars
  <2> SUFFICES ASSUME esPc \notin {"probe", "failed"} PROVE Disjoint(Prepared(esBars))
    BY Zenon DEF WindowsPartitionBars, Disjoint
  <2>1. esBars \in BarSets /\ WindowsHaveBars(esBars)
    BY DEF EsInv, EsTypeOK
  <2> QED
    BY <2>1, WindowsApart
<1>3. DecodedInBounds
  <2> SUFFICES ASSUME NEW i \in DOMAIN esGenes, esPc # "done" PROVE InBounds(Space, Decode(Space, esGenes[i]))
    BY Zenon DEF DecodedInBounds, InBounds
  <2>1. esGenes \in [Member -> Gene]
    <3>1. esGenes # <<>>
      OBVIOUS
    <3> QED
      BY <3>1 DEF EsInv
  <2>2. esGenes[i] \in Gene
    BY <2>1
  <2>3. Sound(Space)
    BY SearchFacts DEF EsInv, Space
  <2> QED
    BY <2>2, <2>3, DecodeInBounds
<1> QED
  BY <1>1, <1>2, <1>3

\* The search that is behind, and only that one, is pruned.
LEMMA LeaderStays ==
    ASSUME EsInv, Validate, esStop' = "pruned", esGlobalBest >= 0
    PROVE  esHistory < esGlobalBest'
<1>1. esPc = "validate" /\ esHistory \in Scores /\ esStop = "none"
  BY DEF Validate, EsInv, Searching
<1>2. esPruning /\ ShouldPrune(esGen, esHistory, esBaseline, esGlobalBest)
  BY <1>1, Zenon DEF Validate, StopSearch
<1>3. esGlobalBest' = IF esPruning /\ (esGlobalBest = NoScore \/ esHistory > esGlobalBest)
                      THEN esHistory ELSE esGlobalBest
  BY DEF Validate
<1>4. /\ esGlobalBest # NoScore /\ esGlobalBest >= esBaseline
      /\ esHistory < esBaseline \/ esHistory * PruneFactor.d < esGlobalBest * PruneFactor.n
  BY <1>2 DEF ShouldPrune
<1>5. PICK h, best, base \in Int : h = esHistory /\ best = esGlobalBest /\ base = esBaseline
  BY <1>1, <1>4, SearchFacts DEF EsInv, EsTypeOK
<1>6. h < best
  <2>1. CASE h < base
    BY <1>4, <1>5, <2>1
  <2>2. CASE ~(h < base)
    <3>1. PICK n, d \in Nat : n = PruneFactor.n /\ d = PruneFactor.d /\ n <= d /\ d > 0
      BY SearchFacts
    <3>2. h * d < best * n
      BY <1>4, <1>5, <2>2, <3>1
    <3>3. best * n <= best * d
      <4>1. best >= 0
        BY <1>5
      <4>2. best * (d - n) = best * d - best * n /\ best * (d - n) >= 0
        BY <3>1, <4>1
      <4>3. PICK x, y \in Int : x = best * n /\ y = best * d
        OBVIOUS
      <4> QED
        BY <4>2, <4>3
    <3>4. best < h => best * d + d <= h * d
      BY Products
    <3>5. best = h => best * d = h * d
      OBVIOUS
    <3>6. PICK x, y, z \in Int : x = best * n /\ y = best * d /\ z = h * d
      OBVIOUS
    <3> QED
      BY <3>1, <3>2, <3>3, <3>4, <3>5, <3>6
  <2> QED
    BY <2>1, <2>2
<1>7. esGlobalBest' = best
  BY <1>3, <1>4, <1>5, <1>6
<1> QED
  BY <1>5, <1>6, <1>7

\* A search plays by its rules for any spaces, bars, scores, budgets and genes:
\* SplitWindows and Prepare keep held-out bars held out, Search keeps within
\* -budget, decode yields legal parameters, encode loses no champion of a space
\* that tunes one bound, and tuneShouldPrune ends no gaining leader.
THEOREM SearchFair == EsSpec => SearchIsFair
<1> DEFINE Safe == EsTypeOK /\ WindowsPartitionBars /\ BudgetKept /\ DecodedInBounds
           Champion == Breed /\ ~(Space.tunesMin /\ Space.tunesMax)
                           => Decode(Space, esGenes'[1]) = esGlobal
           Leader == Validate /\ esStop' = "pruned" /\ esGlobalBest >= 0 => esHistory < esGlobalBest'
<1>1. EsInv => Safe
  BY SearchSafe
<1>2. EsInv /\ [EsNext]_esVars => [Champion]_esVars
  <2> SUFFICES ASSUME EsInv, Breed, ~(Space.tunesMin /\ Space.tunesMax)
               PROVE  Decode(Space, esGenes'[1]) = esGlobal
    OBVIOUS
  <2>1. esPc = "breed" /\ esGenes'[1] = Encode(Space, esGlobal)
    <3>1. 1 \in Member
      BY SearchFacts DEF Member
    <3> QED
      BY <3>1 DEF Breed
  <2>2. Sound(Space)
    BY <2>1, SearchFacts DEF EsInv, Space
  <2>3. PICK g \in Gene : esGlobal = Decode(Space, g)
    BY <2>1 DEF EsInv, Searching
  <2>4. Decode(Space, Encode(Space, Decode(Space, g))) = Decode(Space, g)
    BY <2>2, ChampionComesBack
  <2> QED
    BY <2>1, <2>3, <2>4
<1>3. EsInv /\ [EsNext]_esVars => [Leader]_esVars
  BY LeaderStays
<1>4. EsSpec => []EsInv
  BY EsInitial, EsKeeps, PTL DEF EsSpec
<1>5. EsSpec => []Safe
  BY <1>1, <1>4, PTL
<1>6. EsSpec => [][Champion]_esVars
  BY <1>2, <1>4, PTL DEF EsSpec
<1>7. EsSpec => [][Leader]_esVars
  BY <1>3, <1>4, PTL DEF EsSpec
<1> QED
  BY <1>5, <1>6, <1>7, Zenon DEF SearchIsFair, ChampionKeptOneBound, GainingLeaderNotPruned

-----------------------------------------------------------------------------
(* Bars read chunk by chunk *)

\* Rows with one row of a timestamp, as a query returns them, those before a time,
\* and the row at a place in the order of time.
BarSet(X) == X \subseteq BarRows /\ \A r, s \in X : r.ts = s.ts => r = s
Earlier(X, t) == {s \in X : s.ts < t}
Precede(A, B) == \A a \in A, b \in B : a.ts < b.ts
Nth(X, i) == CHOOSE r \in X : Cardinality(Earlier(X, r.ts)) = i - 1

LEMMA RowFacts ==
    ASSUME NEW r \in BarRows
    PROVE  r.ts \in Nat /\ r.ts # NoTime /\ r.source \in STRING
           /\ r = [ts |-> r.ts, source |-> r.source]
<1>1. r \in [ts : Nat \ {NoTime}, source : STRING]
  BY ChunkedAssumption
<1> QED
  BY <1>1

LEMMA OptionFacts ==
    ASSUME NEW o \in RunOptions
    PROVE  /\ o.from \in Nat /\ o.to \in Nat /\ o.quoteFrom \in Nat
           /\ o.limit \in Nat /\ o.limit > 0 /\ o.size \in Nat /\ o.size > 0
<1>1. o \in [from : Nat, to : Nat, quoteFrom : Nat, limit : Nat \ {0}, size : Nat \ {0}]
  BY ChunkedAssumption
<1> QED
  BY <1>1

\* Any set of rows can be counted, and the rows before a time.
LEMMA Counted ==
    ASSUME NEW X \in SUBSET BarRows, NEW t
    PROVE  /\ IsFiniteSet(X) /\ Cardinality(X) \in Nat
           /\ Earlier(X, t) \in SUBSET X /\ Earlier(X, t) \in SUBSET BarRows
           /\ IsFiniteSet(Earlier(X, t)) /\ Cardinality(Earlier(X, t)) \in Nat
           /\ Cardinality(Earlier(X, t)) <= Cardinality(X)
<1>1. IsFiniteSet(BarRows)
  BY ChunkedAssumption
<1>2. IsFiniteSet(X)
  BY <1>1, FS_Subset
<1>3. Earlier(X, t) \in SUBSET X
  BY DEF Earlier
<1> QED
  BY <1>2, <1>3, FS_Subset, FS_CardinalityType

\* A later row has more rows before it.
LEMMA RanksGrow ==
    ASSUME NEW X \in SUBSET BarRows, NEW r \in X, NEW t \in Nat, r.ts < t
    PROVE  Cardinality(Earlier(X, r.ts)) < Cardinality(Earlier(X, t))
<1>1. r \in BarRows /\ r.ts \in Nat
  BY RowFacts
<1>2. \A s \in X : s.ts \in Nat
  BY RowFacts
<1>3. Earlier(X, r.ts) \subseteq Earlier(X, t)
  BY <1>1, <1>2 DEF Earlier
<1>4. r \in Earlier(X, t) /\ r \notin Earlier(X, r.ts)
  BY <1>1 DEF Earlier
<1>5. Earlier(X, r.ts) \in SUBSET Earlier(X, t) /\ Earlier(X, r.ts) # Earlier(X, t)
  BY <1>3, <1>4
<1>6. IsFiniteSet(Earlier(X, t))
  BY Counted
<1>7. PICK m \in Nat, n \in Nat : m = Cardinality(Earlier(X, r.ts)) /\ n = Cardinality(Earlier(X, t))
  BY Counted
<1>8. m <= n /\ m # n
  BY <1>5, <1>6, <1>7, FS_Subset
<1> QED
  BY <1>7, <1>8

\* The rows of a query have the places 1 .. n, each once: the number of earlier rows
\* is a bijection.
LEMMA Places ==
    ASSUME NEW X, BarSet(X)
    PROVE  /\ X \in SUBSET BarRows /\ Cardinality(X) \in Nat
           /\ \A i \in 1 .. Cardinality(X) :
                 Nth(X, i) \in X /\ Cardinality(Earlier(X, Nth(X, i).ts)) = i - 1
           /\ \A r \in X : Cardinality(Earlier(X, r.ts)) < Cardinality(X)
           /\ \A r, s \in X : Cardinality(Earlier(X, r.ts)) = Cardinality(Earlier(X, s.ts)) => r = s
<1> DEFINE n == Cardinality(X)
           rank == [r \in X |-> Cardinality(Earlier(X, r.ts))]
<1>1. X \in SUBSET BarRows
  BY DEF BarSet
<1>2. n \in Nat /\ IsFiniteSet(X)
  BY <1>1, Counted
<1>3. ASSUME NEW r \in X PROVE rank[r] \in Nat /\ rank[r] < n
  <2>1. r \in BarRows /\ r.ts \in Nat
    BY <1>1, RowFacts
  <2>2. r \notin Earlier(X, r.ts)
    BY <2>1 DEF Earlier
  <2>3. Earlier(X, r.ts) \in SUBSET X /\ Earlier(X, r.ts) # X
    BY <2>2 DEF Earlier
  <2>4. PICK m \in Nat : m = Cardinality(Earlier(X, r.ts))
    BY <1>1, Counted
  <2>5. m <= n /\ m # n
    BY <1>2, <2>3, <2>4, FS_Subset
  <2>6. rank[r] = m
    BY <2>4
  <2> HIDE DEF rank
  <2> QED
    BY <1>2, <2>5, <2>6
<1>4. ASSUME NEW r \in X, NEW s \in X, rank[r] = rank[s] PROVE r = s
  <2>1. r.ts \in Nat /\ s.ts \in Nat
    BY <1>1, RowFacts
  <2>2. ~(r.ts < s.ts)
    BY <1>1, <1>3, <1>4, <2>1, RanksGrow
  <2>3. ~(s.ts < r.ts)
    BY <1>1, <1>3, <1>4, <2>1, RanksGrow
  <2>4. r.ts = s.ts
    BY <2>1, <2>2, <2>3
  <2> QED
    BY <2>4 DEF BarSet
<1>5. rank \in [X -> 0 .. n - 1]
  BY <1>2, <1>3
<1>6. rank \in Injection(X, 0 .. n - 1)
  BY <1>4, <1>5 DEF Injection, IsInjective
<1>7. IsFiniteSet(0 .. n - 1) /\ Cardinality(0 .. n - 1) = n
  BY <1>2, FS_Interval
<1>8. rank \in Surjection(X, 0 .. n - 1)
  BY <1>6, <1>7, FS_Injection
<1>9. ASSUME NEW i \in 1 .. n PROVE Nth(X, i) \in X /\ Cardinality(Earlier(X, Nth(X, i).ts)) = i - 1
  <2>1. i - 1 \in 0 .. n - 1
    BY <1>2
  <2>2. \E r \in X : rank[r] = i - 1
    BY <1>8, <2>1 DEF Surjection
  <2>3. \E r \in X : Cardinality(Earlier(X, r.ts)) = i - 1
    BY <2>2
  <2> HIDE DEF rank
  <2> QED
    BY <2>3 DEF Nth
<1> QED
  BY <1>1, <1>2, <1>3, <1>4, <1>9

\* Rows that come after others: the earlier ones keep their places, the later ones
\* have theirs moved.
Joined(A, B) ==
    /\ BarSet(A \cup B) /\ Cardinality(A \cup B) = Cardinality(A) + Cardinality(B)
    /\ \A a \in A : Cardinality(Earlier(A \cup B, a.ts)) = Cardinality(Earlier(A, a.ts))
    /\ \A b \in B : Cardinality(Earlier(A \cup B, b.ts)) = Cardinality(A) + Cardinality(Earlier(B, b.ts))

LEMMA JoinedRanks ==
    ASSUME NEW A, NEW B, BarSet(A), BarSet(B), Precede(A, B)
    PROVE  Joined(A, B)
<1>1. A \in SUBSET BarRows /\ B \in SUBSET BarRows
  BY DEF BarSet
<1>2. \A r \in A \cup B : r.ts \in Nat
  BY <1>1, RowFacts
<1>3. BarSet(A \cup B)
  BY <1>1, <1>2 DEF BarSet, Precede
<1>4. A \cap B = {}
  BY <1>2 DEF Precede
<1>5. /\ IsFiniteSet(A) /\ IsFiniteSet(B) /\ Cardinality(A) \in Nat /\ Cardinality(B) \in Nat
  BY <1>1, Counted
<1>6. Cardinality(A \cup B) = Cardinality(A) + Cardinality(B)
  <2>1. Cardinality(A \cup B) = Cardinality(A) + Cardinality(B) - Cardinality(A \cap B)
    BY <1>5, FS_Union
  <2>2. Cardinality(A \cap B) = 0
    BY <1>4, FS_EmptySet
  <2> QED
    BY <1>5, <2>1, <2>2
<1>7. ASSUME NEW a \in A PROVE Cardinality(Earlier(A \cup B, a.ts)) = Cardinality(Earlier(A, a.ts))
  <2>1. \A b \in B : ~(b.ts < a.ts)
    BY <1>2 DEF Precede
  <2>2. Earlier(A \cup B, a.ts) = Earlier(A, a.ts)
    BY <2>1 DEF Earlier
  <2> QED
    BY <2>2
<1>8. ASSUME NEW b \in B
      PROVE  Cardinality(Earlier(A \cup B, b.ts)) = Cardinality(A) + Cardinality(Earlier(B, b.ts))
  <2> DEFINE E == Earlier(B, b.ts)
  <2>1. Earlier(A \cup B, b.ts) = A \cup E
    BY DEF Earlier, Precede
  <2>2. IsFiniteSet(E) /\ Cardinality(E) \in Nat /\ E \in SUBSET B
    BY <1>1, Counted
  <2> HIDE DEF E
  <2>3. A \cap E = {}
    BY <1>4, <2>2
  <2>4. Cardinality(A \cup E) = Cardinality(A) + Cardinality(E) - Cardinality(A \cap E)
    BY <1>5, <2>2, FS_Union
  <2>5. Cardinality(A \cap E) = 0
    BY <2>3, FS_EmptySet
  <2>6. Cardinality(A \cup E) = Cardinality(A) + Cardinality(E)
    BY <1>5, <2>2, <2>4, <2>5
  <2> QED
    BY <2>1, <2>6 DEF E
<1> QED
  BY <1>3, <1>6, <1>7, <1>8 DEF Joined

\* What the session consumes of a bar.
Shown == {LatestQuoteBatch(q, t) : q \in SUBSET SnapBatches, t \in Nat}
Seen == [ts : Nat, source : STRING, batch : Shown]

\* The replay of a query: a sequence in the order of time, one element for each row.
LEMMA ReplayFacts ==
    ASSUME NEW X, BarSet(X), NEW q \in SUBSET SnapBatches
    PROVE  /\ Replay(X, q) \in Seq(Seen) /\ Len(Replay(X, q)) = Cardinality(X)
           /\ \A i \in 1 .. Cardinality(X) :
                 Nth(X, i) \in X
                 /\ Replay(X, q)[i] = [ts |-> Nth(X, i).ts, source |-> Nth(X, i).source,
                                       batch |-> LatestQuoteBatch(q, Nth(X, i).ts)]
           /\ \A i, j \in 1 .. Cardinality(X) : i < j => Nth(X, i).ts < Nth(X, j).ts
<1> DEFINE n == Cardinality(X)
           el(i) == [ts |-> Nth(X, i).ts, source |-> Nth(X, i).source,
                     batch |-> LatestQuoteBatch(q, Nth(X, i).ts)]
<1>1. n \in Nat /\ X \in SUBSET BarRows /\ \A i \in 1 .. n : Nth(X, i) \in X
  BY Places
<1>2. Replay(X, q) = [i \in 1 .. n |-> el(i)]
  BY DEF Replay, Nth, Earlier
<1>3. ASSUME NEW i \in 1 .. n PROVE el(i) \in Seen
  <2>1. Nth(X, i).ts \in Nat /\ Nth(X, i).source \in STRING
    BY <1>1, RowFacts
  <2>2. LatestQuoteBatch(q, Nth(X, i).ts) \in Shown
    BY <2>1 DEF Shown
  <2> QED
    BY <2>1, <2>2 DEF Seen
<1>4. ASSUME NEW i \in 1 .. n, NEW j \in 1 .. n, i < j PROVE Nth(X, i).ts < Nth(X, j).ts
  <2>1. PICK r \in X, s \in X : r = Nth(X, i) /\ s = Nth(X, j)
    BY <1>1
  <2>2. Cardinality(Earlier(X, r.ts)) = i - 1 /\ Cardinality(Earlier(X, s.ts)) = j - 1
    BY <2>1, Places
  <2>3. r.ts \in Nat /\ s.ts \in Nat
    BY <1>1, RowFacts
  <2>4. ~(s.ts < r.ts)
    <3> SUFFICES ASSUME s.ts < r.ts PROVE FALSE
      OBVIOUS
    <3>1. j - 1 < i - 1
      BY <1>1, <2>2, <2>3, RanksGrow
    <3> QED
      BY <1>1, <1>4, <3>1
  <2>5. r.ts # s.ts
    BY <1>1, <1>4, <2>2
  <2> QED
    BY <2>1, <2>3, <2>4, <2>5
<1> HIDE DEF el
<1>5. Replay(X, q) \in Seq(Seen) /\ Len(Replay(X, q)) = n /\ \A i \in 1 .. n : Replay(X, q)[i] = el(i)
  BY <1>1, <1>2, <1>3
<1> QED
  BY <1>1, <1>4, <1>5 DEF el

\* A sequence that agrees with one and then with another is their concatenation.
LEMMA SequencesEqual ==
    ASSUME NEW S, NEW s \in Seq(S), NEW t \in Seq(S), NEW u \in Seq(S), Len(u) = Len(s) + Len(t),
           \A i \in 1 .. Len(s) : u[i] = s[i], \A i \in 1 .. Len(t) : u[Len(s) + i] = t[i]
    PROVE  s \o t = u
<1>1. PICK m \in Nat, n \in Nat : m = Len(s) /\ n = Len(t)
  OBVIOUS
<1>2. s \o t \in Seq(S) /\ Len(s \o t) = m + n
  BY <1>1
<1>3. ASSUME NEW i \in 1 .. m + n PROVE (s \o t)[i] = u[i]
  <2>1. CASE i <= m
    BY <1>1, <2>1
  <2>2. CASE i > m
    <3>1. PICK j \in 1 .. n : i = m + j
      <4>1. i - m \in 1 .. n /\ i = m + (i - m)
        BY <2>2
      <4> QED
        BY <4>1
    <3>2. u[i] = t[j]
      BY <1>1, <3>1
    <3>3. (s \o t)[i] = t[i - m]
      BY <1>1, <2>2
    <3> QED
      BY <3>1, <3>2, <3>3
  <2>3. i <= m \/ i > m
    OBVIOUS
  <2> QED
    BY <2>1, <2>2, <2>3
<1> QED
  BY <1>1, <1>2, <1>3

\* One replay after another is the replay of all the rows.
LEMMA ReplaysJoin ==
    ASSUME NEW A, NEW B, BarSet(A), BarSet(B), Precede(A, B),
           NEW q \in SUBSET SnapBatches
    PROVE  Replay(A, q) \o Replay(B, q) = Replay(A \cup B, q)
<1> DEFINE X == A \cup B
<1>1. PICK m \in Nat, n \in Nat : m = Cardinality(A) /\ n = Cardinality(B)
  BY Places
<1>0. Joined(A, B)
  BY JoinedRanks
<1>2. BarSet(X) /\ Cardinality(X) = m + n
  BY <1>0, <1>1 DEF Joined
<1>12. \A a \in A : Cardinality(Earlier(X, a.ts)) = Cardinality(Earlier(A, a.ts))
  BY <1>0 DEF Joined
<1>13. \A b \in B : Cardinality(Earlier(X, b.ts)) = Cardinality(A) + Cardinality(Earlier(B, b.ts))
  BY <1>0 DEF Joined
<1> HIDE DEF X
<1>10. \A r, s \in X : Cardinality(Earlier(X, r.ts)) = Cardinality(Earlier(X, s.ts)) => r = s
  BY <1>2, Places
<1>11. A \subseteq X /\ B \subseteq X
  BY DEF X
<1>3. ASSUME NEW i \in 1 .. m PROVE Nth(X, i) = Nth(A, i)
  <2>1. PICK a \in A : a = Nth(A, i)
    BY <1>1, Places
  <2>2. Cardinality(Earlier(A, a.ts)) = i - 1
    BY <1>1, <2>1, Places
  <2>3. Cardinality(Earlier(X, a.ts)) = i - 1
    BY <1>12, <2>2
  <2>4. i \in 1 .. m + n
    BY <1>1
  <2>5. Nth(X, i) \in X /\ Cardinality(Earlier(X, Nth(X, i).ts)) = i - 1
    BY <1>2, <2>4, Places
  <2> QED
    BY <1>10, <1>11, <2>1, <2>3, <2>5
<1>4. ASSUME NEW i \in 1 .. n PROVE Nth(X, m + i) = Nth(B, i)
  <2>1. PICK b \in B : b = Nth(B, i)
    BY <1>1, Places
  <2>2. Cardinality(Earlier(B, b.ts)) = i - 1
    BY <1>1, <2>1, Places
  <2>3. Cardinality(Earlier(X, b.ts)) = m + (i - 1)
    BY <1>1, <1>13, <2>2
  <2>4. m + i \in 1 .. m + n /\ (m + i) - 1 = m + (i - 1)
    BY <1>1
  <2>5. PICK j \in 1 .. m + n : j = m + i
    BY <2>4
  <2>6. Nth(X, j) \in X /\ Cardinality(Earlier(X, Nth(X, j).ts)) = j - 1
    BY <1>2, Places
  <2>7. j - 1 = m + (i - 1)
    BY <2>4, <2>5
  <2>8. Nth(X, j) = b
    BY <1>10, <1>11, <2>3, <2>6, <2>7
  <2> QED
    BY <2>1, <2>5, <2>8
<1>5. /\ Replay(A, q) \in Seq(Seen) /\ Len(Replay(A, q)) = m
      /\ Replay(B, q) \in Seq(Seen) /\ Len(Replay(B, q)) = n
      /\ Replay(X, q) \in Seq(Seen) /\ Len(Replay(X, q)) = m + n
  BY <1>1, <1>2, ReplayFacts
<1>6. ASSUME NEW i \in 1 .. m PROVE Replay(X, q)[i] = Replay(A, q)[i]
  <2>1. i \in 1 .. m + n /\ Nth(X, i) = Nth(A, i)
    BY <1>1, <1>3
  <2>2. Replay(X, q)[i] = [ts |-> Nth(X, i).ts, source |-> Nth(X, i).source,
                           batch |-> LatestQuoteBatch(q, Nth(X, i).ts)]
    BY <1>2, <2>1, ReplayFacts
  <2>3. Replay(A, q)[i] = [ts |-> Nth(A, i).ts, source |-> Nth(A, i).source,
                           batch |-> LatestQuoteBatch(q, Nth(A, i).ts)]
    BY <1>1, ReplayFacts
  <2> QED
    BY <2>1, <2>2, <2>3
<1>7. ASSUME NEW i \in 1 .. n PROVE Replay(X, q)[m + i] = Replay(B, q)[i]
  <2>1. PICK j \in 1 .. m + n : j = m + i
    BY <1>1
  <2>2. Nth(X, j) = Nth(B, i)
    BY <1>4, <2>1
  <2>3. Replay(X, q)[j] = [ts |-> Nth(X, j).ts, source |-> Nth(X, j).source,
                           batch |-> LatestQuoteBatch(q, Nth(X, j).ts)]
    BY <1>2, ReplayFacts
  <2>4. Replay(B, q)[i] = [ts |-> Nth(B, i).ts, source |-> Nth(B, i).source,
                           batch |-> LatestQuoteBatch(q, Nth(B, i).ts)]
    BY <1>1, ReplayFacts
  <2> QED
    BY <2>1, <2>2, <2>3, <2>4
<1>8. PICK s \in Seq(Seen), t \in Seq(Seen), u \in Seq(Seen) :
         s = Replay(A, q) /\ t = Replay(B, q) /\ u = Replay(X, q)
  BY <1>5
<1>9. /\ Len(s) = m /\ Len(t) = n /\ Len(u) = m + n
      /\ \A i \in 1 .. m : u[i] = s[i]
      /\ \A i \in 1 .. n : u[m + i] = t[i]
  BY <1>5, <1>6, <1>7, <1>8
<1>14. s \o t = u
  BY <1>9, SequencesEqual
<1> QED
  BY <1>8, <1>14 DEF X

\* One row of a timestamp is selected.
LEMMA SelectedApart ==
    ASSUME NEW T \in SUBSET BarRows
    PROVE  BarSet(SelectedRows(T))
<1>1. \A r \in BarRows : BarRank(r.source) \in Nat
  BY DEF BarRank
<1>2. SelectedRows(T) \subseteq T
  BY DEF SelectedRows
<1>3. ASSUME NEW r \in SelectedRows(T), NEW s \in SelectedRows(T), r.ts = s.ts PROVE r = s
  <2>1. r \in BarRows /\ s \in BarRows /\ r \in T /\ s \in T
    BY <1>2
  <2>2. BarRank(r.source) <= BarRank(s.source) /\ BarRank(s.source) <= BarRank(r.source)
    BY <1>3, <2>1 DEF SelectedRows
  <2>3. BarRank(r.source) = BarRank(s.source)
    BY <1>1, <2>1, <2>2
  <2> QED
    BY <1>3, <2>1, <2>3, ProvidersApart
<1> QED
  BY <1>2, <1>3 DEF BarSet

\* Selecting and then cutting a window is cutting and then selecting.
LEMMA SelectedSlice ==
    ASSUME NEW T \in SUBSET BarRows, NEW D
    PROVE  SelectedRows({r \in T : r.ts \in D}) = {r \in SelectedRows(T) : r.ts \in D}
BY DEF SelectedRows

\* What a run reads of its window, before the limit.
Slice(T, lo, hi) == {r \in SelectedRows(T) : AtOrAfter(r.ts, lo) /\ AtOrBefore(r.ts, hi)}
HalfOpen(T, lo, hi) == {r \in SelectedRows(T) : AtOrAfter(r.ts, lo) /\ StrictlyBefore(r.ts, hi)}

LEMMA QueryIs ==
    ASSUME NEW T \in SUBSET BarRows, NEW lo, NEW hi, NEW n
    PROVE  /\ QueryBars(T, lo, hi, n) = FirstRows(Slice(T, lo, hi), n)
           /\ QueryBarsExclusiveEnd(T, lo, hi, n) = FirstRows(HalfOpen(T, lo, hi), n)
           /\ BarSet(Slice(T, lo, hi)) /\ BarSet(HalfOpen(T, lo, hi))
<1> DEFINE D == {t \in Nat : AtOrAfter(t, lo) /\ AtOrBefore(t, hi)}
           H == {t \in Nat : AtOrAfter(t, lo) /\ StrictlyBefore(t, hi)}
<1>1. \A r \in T : r.ts \in Nat
  BY RowFacts
<1>2. SelectedRows(T) \subseteq T
  BY DEF SelectedRows
<1>3. /\ {r \in T : AtOrAfter(r.ts, lo) /\ AtOrBefore(r.ts, hi)} = {r \in T : r.ts \in D}
      /\ Slice(T, lo, hi) = {r \in SelectedRows(T) : r.ts \in D}
  BY <1>1, <1>2 DEF Slice
<1>4. /\ {r \in T : AtOrAfter(r.ts, lo) /\ StrictlyBefore(r.ts, hi)} = {r \in T : r.ts \in H}
      /\ HalfOpen(T, lo, hi) = {r \in SelectedRows(T) : r.ts \in H}
  BY <1>1, <1>2 DEF HalfOpen
<1>5. BarSet(Slice(T, lo, hi)) /\ BarSet(HalfOpen(T, lo, hi))
  BY SelectedApart DEF BarSet, Slice, HalfOpen
<1> HIDE DEF D, H
<1>6. QueryBars(T, lo, hi, n) = FirstRows(Slice(T, lo, hi), n)
  BY <1>3, SelectedSlice DEF QueryBars
<1>7. QueryBarsExclusiveEnd(T, lo, hi, n) = FirstRows(HalfOpen(T, lo, hi), n)
  BY <1>4, SelectedSlice DEF QueryBarsExclusiveEnd
<1> QED
  BY <1>5, <1>6, <1>7

\* The first row of a set, and what LIMIT keeps, with the rows before a time named.
LEMMA EarliestRow ==
    ASSUME NEW X \in SUBSET BarRows, X # {}
    PROVE  \E r \in X : \A s \in X : r.ts <= s.ts
<1> DEFINE S == {r.ts : r \in X}
<1>1. S \in SUBSET Nat /\ S # {}
  BY RowFacts
<1>2. PICK t \in S : \A u \in S : t <= u
  BY <1>1, LeastNumber
<1> QED
  BY <1>2

FirstIs(X, n) == {r \in X : Cardinality(Earlier(X, r.ts)) < n}

LEMMA FirstUnfolds == \A X, n : FirstRows(X, n) = FirstIs(X, n)
BY DEF FirstRows, FirstIs, Earlier

\* LIMIT: no more rows than asked for, and fewer only when there are no more.
LEMMA LimitFacts ==
    ASSUME NEW X, BarSet(X), NEW n \in Nat
    PROVE  /\ FirstRows(X, n) \subseteq X /\ BarSet(FirstRows(X, n))
           /\ Cardinality(FirstRows(X, n)) \in Nat /\ Cardinality(FirstRows(X, n)) <= n
           /\ Cardinality(FirstRows(X, n)) < n => FirstRows(X, n) = X
<1> DEFINE F == FirstRows(X, n)
<1>1. X \in SUBSET BarRows /\ F \subseteq X /\ BarSet(F)
  BY FirstUnfolds DEF BarSet, FirstIs
<1>2. \A r \in X : r \in F <=> Cardinality(Earlier(X, r.ts)) < n
  BY FirstUnfolds DEF FirstIs
<1> HIDE DEF F
<1>3. PICK m \in Nat : m = Cardinality(F)
  BY <1>1, Places
<1>4. m <= n
  <2> SUFFICES ASSUME m > 0 PROVE m <= n
    OBVIOUS
  <2>1. m \in 1 .. Cardinality(F)
    BY <1>3
  <2>2. PICK r \in F : Cardinality(Earlier(F, r.ts)) = m - 1
    BY <1>1, <2>1, Places
  <2>3. PICK k \in Nat : k = Cardinality(Earlier(X, r.ts)) /\ IsFiniteSet(Earlier(X, r.ts))
    BY <1>1, Counted
  <2>4. Earlier(F, r.ts) \in SUBSET Earlier(X, r.ts)
    BY <1>1 DEF Earlier
  <2>5. m - 1 <= k
    BY <2>2, <2>3, <2>4, FS_Subset
  <2>6. k < n
    BY <1>1, <1>2, <2>2, <2>3
  <2> QED
    BY <2>5, <2>6
<1>5. ASSUME m < n, F # X PROVE FALSE
  <2>1. X \ F # {} /\ X \ F \in SUBSET BarRows
    BY <1>1, <1>5
  <2>2. PICK r \in X \ F : \A s \in X \ F : r.ts <= s.ts
    BY <2>1, EarliestRow
  <2>3. \A s \in X : s.ts \in Nat
    BY <1>1, RowFacts
  <2>4. Earlier(X, r.ts) \in SUBSET F
    BY <2>2, <2>3 DEF Earlier
  <2>5. IsFiniteSet(F)
    BY <1>1, Counted
  <2>6. PICK k \in Nat : k = Cardinality(Earlier(X, r.ts))
    BY <1>1, Counted
  <2>7. k <= m
    BY <1>3, <2>4, <2>5, <2>6, FS_Subset
  <2>8. k < n
    BY <1>5, <2>7
  <2> QED
    BY <1>2, <2>2, <2>6, <2>8
<1> QED
  BY <1>1, <1>3, <1>4, <1>5 DEF F

\* The limit of two reads, the second after the first: what the first left.
LEMMA LimitGoesOn ==
    ASSUME NEW A, NEW B, BarSet(A), BarSet(B), Precede(A, B), NEW n \in Nat, NEW k \in Nat,
           Cardinality(A) + k = n
    PROVE  FirstRows(A \cup B, n) = A \cup FirstRows(B, k)
<1>1. Joined(A, B)
  BY JoinedRanks
<1>2. PICK m \in Nat : m = Cardinality(A)
  BY Places
<1>3. ASSUME NEW a \in A PROVE Cardinality(Earlier(A \cup B, a.ts)) < n
  <2>1. PICK i \in Nat : i = Cardinality(Earlier(A, a.ts))
    <3>1. A \in SUBSET BarRows
      BY Places
    <3> QED
      BY <3>1, Counted
  <2>2. i < m
    BY <1>2, <2>1, Places
  <2>3. Cardinality(Earlier(A \cup B, a.ts)) = i
    BY <1>1, <2>1 DEF Joined
  <2>4. i < n
    BY <1>2, <2>2
  <2> QED
    BY <2>3, <2>4
<1>4. ASSUME NEW b \in B
      PROVE  Cardinality(Earlier(A \cup B, b.ts)) < n <=> Cardinality(Earlier(B, b.ts)) < k
  <2>1. PICK i \in Nat : i = Cardinality(Earlier(B, b.ts))
    <3>1. B \in SUBSET BarRows
      BY Places
    <3> QED
      BY <3>1, Counted
  <2>2. Cardinality(Earlier(A \cup B, b.ts)) = m + i
    BY <1>1, <1>2, <2>1 DEF Joined
  <2>3. m + k = n
    BY <1>2
  <2>4. m + i < n <=> i < k
    BY <2>3
  <2> QED
    BY <2>1, <2>2, <2>4
<1>5. FirstIs(A \cup B, n) = A \cup FirstIs(B, k)
  BY <1>3, <1>4 DEF FirstIs
<1> QED
  BY <1>5, FirstUnfolds

\* A read that used up its limit: nothing later would have been read.
LEMMA LimitIsReached ==
    ASSUME NEW A, NEW B, BarSet(A), BarSet(B), Precede(A, B), NEW n \in Nat,
           Cardinality(FirstRows(A, n)) = n
    PROVE  FirstRows(A \cup B, n) = FirstRows(A, n)
<1>1. Joined(A, B)
  BY JoinedRanks
<1>2. PICK m \in Nat : m = Cardinality(A)
  BY Places
<1>3. m >= n
  <2>1. FirstRows(A, n) \in SUBSET A /\ A \in SUBSET BarRows
    BY LimitFacts, Places
  <2>2. IsFiniteSet(A)
    BY <2>1, Counted
  <2> QED
    BY <1>2, <2>1, <2>2, FS_Subset
<1>4. ASSUME NEW b \in B PROVE ~(Cardinality(Earlier(A \cup B, b.ts)) < n)
  <2>1. PICK i \in Nat : i = Cardinality(Earlier(B, b.ts))
    <3>1. B \in SUBSET BarRows
      BY Places
    <3> QED
      BY <3>1, Counted
  <2>2. Cardinality(Earlier(A \cup B, b.ts)) = m + i
    BY <1>1, <1>2, <2>1 DEF Joined
  <2>3. ~(m + i < n)
    BY <1>3
  <2> QED
    BY <2>2, <2>3
<1>5. \A a \in A : Cardinality(Earlier(A \cup B, a.ts)) = Cardinality(Earlier(A, a.ts))
  BY <1>1 DEF Joined
<1>6. FirstIs(A \cup B, n) = FirstIs(A, n)
  BY <1>4, <1>5 DEF FirstIs
<1> QED
  BY <1>6, FirstUnfolds

LEMMA LatestRow ==
    ASSUME NEW X \in SUBSET BarRows, X # {}
    PROVE  \E r \in X : \A s \in X : r.ts >= s.ts
<1> DEFINE n == Cardinality(X)
           S == {n - Cardinality(Earlier(X, r.ts)) : r \in X}
<1>1. \A r \in X : r.ts \in Nat
  BY RowFacts
<1>2. ASSUME NEW r \in X PROVE n - Cardinality(Earlier(X, r.ts)) \in Nat
  <2>1. PICK m \in Nat, k \in Nat : m = n /\ k = Cardinality(Earlier(X, r.ts)) /\ k <= m
    BY Counted
  <2> QED
    BY <2>1
<1>3. S \in SUBSET Nat /\ S # {}
  BY <1>2
<1>4. PICK t \in S : \A u \in S : t <= u
  BY <1>3, LeastNumber
<1>5. PICK r \in X : t = n - Cardinality(Earlier(X, r.ts))
  BY <1>4
<1>6. ASSUME NEW s \in X PROVE r.ts >= s.ts
  <2>1. PICK m \in Nat, k \in Nat, j \in Nat :
           m = n /\ k = Cardinality(Earlier(X, r.ts)) /\ j = Cardinality(Earlier(X, s.ts))
    BY Counted
  <2>2. m - k <= m - j
    BY <1>4, <1>5, <2>1
  <2>3. r.ts < s.ts => k < j
    BY <1>1, <2>1, RanksGrow
  <2>4. r.ts \in Nat /\ s.ts \in Nat
    BY <1>1
  <2> HIDE DEF n, S
  <2> QED
    BY <2>1, <2>2, <2>3, <2>4
<1> QED
  BY <1>6

LEMMA Extremes ==
    ASSUME NEW X \in SUBSET BarRows, X # {}
    PROVE  /\ MinTs(X) \in Nat /\ MinTs(X) > 0 /\ MaxTs(X) \in Nat
           /\ \A r \in X : MinTs(X) <= r.ts /\ r.ts <= MaxTs(X)
           /\ \E r \in X : r.ts = MinTs(X)
<1> DEFINE D == {r.ts : r \in X}
<1>1. \A r \in X : r.ts \in Nat /\ r.ts > 0
  BY RowFacts DEF NoTime
<1>2. \E t \in D : \A r \in X : t <= r.ts
  BY EarliestRow
<1>3. \E t \in D : \A r \in X : t >= r.ts
  BY LatestRow
<1>4. MinTs(X) \in D /\ \A r \in X : MinTs(X) <= r.ts
  BY <1>2 DEF MinTs
<1>5. MaxTs(X) \in D /\ \A r \in X : MaxTs(X) >= r.ts
  BY <1>3 DEF MaxTs
<1>6. PICK a \in X, b \in X : a.ts = MinTs(X) /\ b.ts = MaxTs(X)
  BY <1>4, <1>5
<1> QED
  BY <1>1, <1>4, <1>5, <1>6

-----------------------------------------------------------------------------
(* The chunks follow the single run *)

Ascends(bars) == \A i, j \in DOMAIN bars : i < j => bars[i].ts < bars[j].ts
Window == Slice(ckTable, ckOpt.from, ckOpt.to)

\* As long as nothing was ingested, the session has seen what a single run replays
\* first: the window's rows before the cursor.
Follows ==
    /\ ckPc = "chunks" =>
          /\ \A r \in SelectedRows(ckTable) : r.ts >= ckCur => (r.ts <= ckTo <=> r \in Window)
          /\ ckBars = Replay(Earlier(Window, ckCur), ckQuotes)
    /\ ckPc = "done" => ckBars = Replay(FirstRows(Window, ckOpt.limit), ckQuotes)
    /\ ckPc = "nobars" => FirstRows(Window, ckOpt.limit) = {}

\* The session's bars ascend and stay before the cursor; limit and bars add up; the
\* batches are those of one query, and the first chunk with bars owns all of them.
CkInv ==
    /\ CkTypeOK /\ ckBars \in Seq(Seen)
    /\ Ascends(ckBars) /\ Len(ckBars) + ckRemaining = ckOpt.limit
    /\ ckPc = "probe" => ckBars = <<>> /\ ckHashed = {} /\ ckCounted = {} /\ ckIngests = 0
    /\ ckPc = "chunks" => /\ ckCur > 0 /\ ckCur <= ckTo /\ ckRemaining > 0
                          /\ \A i \in DOMAIN ckBars : ckBars[i].ts < ckCur
    /\ ckPc \in {"chunks", "done"} =>
          /\ ckOpt.to # NoTime => ckTo = ckOpt.to
          /\ ckQuotes = QuerySnapshots(ckSnaps, QuoteFrom(ckOpt), ckTo, ckOpt.limit)
    /\ ckBars # <<>> => ckHashed = ckQuotes /\ ckCounted = ckQuotes
    /\ ckPc = "done" => ckBars # <<>>
    /\ ckIngests = 0 => Follows

LEMMA EmptyReplay ==
    ASSUME NEW q \in SUBSET SnapBatches, NEW X, BarSet(X)
    PROVE  X = {} <=> Replay(X, q) = <<>>
<1>1. Replay(X, q) \in Seq(Seen) /\ Len(Replay(X, q)) = Cardinality(X)
  BY ReplayFacts
<1>2. X \in SUBSET BarRows
  BY DEF BarSet
<1>3. IsFiniteSet(X)
  BY <1>2, Counted
<1>4. X = {} <=> Cardinality(X) = 0
  BY <1>3, FS_EmptySet
<1>5. PICK s \in Seq(Seen) : s = Replay(X, q)
  BY <1>1
<1>6. Len(s) = 0 <=> s = <<>>
  OBVIOUS
<1> QED
  BY <1>1, <1>4, <1>5, <1>6

LEMMA CkInitial == CkInit => CkInv
<1> SUFFICES ASSUME CkInit PROVE CkInv
  OBVIOUS
<1>1. ckOpt \in RunOptions /\ ckOpt.limit \in Nat
  BY OptionFacts DEF CkInit
<1>2. CkTypeOK
  BY <1>1, ChunkedAssumption DEF CkInit, CkTypeOK, NoTime
<1>3. ckBars = <<>> /\ ckBars \in Seq(Seen) /\ Len(ckBars) = 0
  BY DEF CkInit
<1> QED
  BY <1>1, <1>2, <1>3 DEF CkInit, CkInv, Ascends, Follows

\* Where the probe finds the window, it is the window of the options.
LEMMA ProbeKeeps == CkInv /\ Probe => CkInv'
<1> SUFFICES ASSUME CkInv, Probe PROVE CkInv'
  OBVIOUS
<1> DEFINE first == QueryBars(ckTable, NoTime, ckOpt.to, 1)
           from == IF ckOpt.from # NoTime THEN ckOpt.from ELSE MinTs(first)
           tail == {r \in ckTable : r.ts >= from}
           empty == \/ ckOpt.from = NoTime /\ first = {}
                    \/ ckOpt.to = NoTime /\ tail = {}
           to == IF ckOpt.to # NoTime THEN ckOpt.to ELSE MaxTs(tail)
           S == SelectedRows(ckTable)
           V == Slice(ckTable, NoTime, ckOpt.to)
<1>1. /\ ckTable \in SUBSET BarRows /\ ckSnaps \subseteq SnapBatches /\ ckOpt \in RunOptions
      /\ ckPc = "probe" /\ ckBars = <<>> /\ ckHashed = {} /\ ckCounted = {} /\ ckIngests = 0
  BY DEF CkInv, CkTypeOK, Probe
<1>2. /\ ckOpt.from \in Nat /\ ckOpt.to \in Nat /\ ckOpt.limit \in Nat /\ ckOpt.limit > 0
      /\ \A r \in BarRows : r.ts \in Nat /\ r.ts > 0
  BY <1>1, OptionFacts, RowFacts DEF NoTime
<1>3. S \subseteq ckTable /\ BarSet(Window) /\ BarSet(V) /\ Window \subseteq V /\ V \subseteq S
  BY <1>1, QueryIs DEF SelectedRows, Window, Slice, AtOrAfter, NoTime
<1>4. first = FirstRows(V, 1) /\ first \subseteq V /\ (first = {} => V = {})
  <2>1. first = FirstRows(V, 1)
    BY <1>1, QueryIs
  <2>2. 1 \in Nat
    OBVIOUS
  <2>3. FirstRows(V, 1) \subseteq V /\ (Cardinality(FirstRows(V, 1)) < 1 => FirstRows(V, 1) = V)
    BY <1>3, <2>2, LimitFacts
  <2>4. FirstRows(V, 1) = {} => Cardinality(FirstRows(V, 1)) = 0
    BY FS_EmptySet
  <2> QED
    BY <2>1, <2>3, <2>4
<1>5. ASSUME ckOpt.from = NoTime, first # {}
      PROVE  /\ MinTs(first) \in Nat /\ MinTs(first) > 0
             /\ \A r \in V : r.ts >= MinTs(first)
             /\ \E r \in V : r.ts = MinTs(first)
  <2>1. first \in SUBSET BarRows
    BY <1>1, <1>3, <1>4
  <2>2. /\ MinTs(first) \in Nat /\ MinTs(first) > 0
        /\ \A r \in first : MinTs(first) <= r.ts
        /\ \E r \in first : r.ts = MinTs(first)
    BY <1>5, <2>1, Extremes
  <2>3. PICK e \in V : \A s \in V : e.ts <= s.ts
    <3>1. V # {} /\ V \in SUBSET BarRows
      BY <1>1, <1>3, <1>4, <1>5
    <3> QED
      BY <3>1, EarliestRow
  <2>4. e \in first
    <3>1. Earlier(V, e.ts) = {}
      <4>1. \A s \in V : s.ts \in Nat
        BY <1>1, <1>2, <1>3
      <4> QED
        BY <2>3, <4>1 DEF Earlier
    <3>2. Cardinality(Earlier(V, e.ts)) < 1
      BY <3>1, FS_EmptySet
    <3> QED
      BY <1>4, <2>3, <3>2, FirstUnfolds DEF FirstIs
  <2>5. \A r \in V : r.ts \in Nat
    BY <1>1, <1>2, <1>3
  <2> HIDE DEF first, V
  <2> QED
    BY <1>4, <2>2, <2>3, <2>4, <2>5
<1>6. CASE empty
  <2>1. Window = {}
    <3>1. CASE ckOpt.from = NoTime /\ first = {}
      BY <1>3, <1>4, <3>1
    <3>2. CASE ~(ckOpt.from = NoTime /\ first = {})
      <4>1. \A r \in Window : r.ts >= from /\ r \in ckTable
        BY <1>1, <1>2, <1>3, <1>5, <3>2 DEF Window, Slice, AtOrAfter, NoTime
      <4> QED
        BY <1>6, <3>2, <4>1
    <3> QED
      BY <3>1, <3>2
  <2>2. FirstRows(Window, ckOpt.limit) = {}
    BY <2>1 DEF FirstRows
  <2>3. /\ ckPc' = "nobars" /\ UNCHANGED <<ckCur, ckTo, ckQuotes>>
        /\ UNCHANGED <<ckTable, ckSnaps, ckOpt, ckRemaining, ckBars, ckHashed, ckCounted, ckIngests>>
    BY <1>6 DEF Probe
  <2> HIDE DEF first, from, tail, empty, to, S, V
  <2> QED
    BY <1>1, <2>2, <2>3 DEF CkInv, CkTypeOK, Ascends, Follows, Window
<1>7. CASE ~empty /\ BadWindow(ckOpt)
  <2>1. /\ ckPc' = "error" /\ UNCHANGED <<ckCur, ckTo, ckQuotes>>
        /\ UNCHANGED <<ckTable, ckSnaps, ckOpt, ckRemaining, ckBars, ckHashed, ckCounted, ckIngests>>
    BY <1>7 DEF Probe
  <2> HIDE DEF first, from, tail, empty, to, S, V
  <2> QED
    BY <1>1, <2>1 DEF CkInv, CkTypeOK, Ascends, Follows, Window
<1>8. CASE ~empty /\ ~BadWindow(ckOpt)
  <2>1. /\ ckPc' = "chunks" /\ ckCur' = from /\ ckTo' = to
        /\ ckQuotes' = QuerySnapshots(ckSnaps, QuoteFrom(ckOpt), to, ckOpt.limit)
        /\ UNCHANGED <<ckTable, ckSnaps, ckOpt, ckRemaining, ckBars, ckHashed, ckCounted, ckIngests>>
    BY <1>8 DEF Probe
  <2>2. from \in Nat /\ from > 0 /\ \A r \in Window : r.ts >= from
    <3>1. CASE ckOpt.from # NoTime
      BY <1>2, <3>1 DEF Window, Slice, AtOrAfter, NoTime
    <3>2. CASE ckOpt.from = NoTime
      BY <1>3, <1>5, <1>8, <3>2
    <3> QED
      BY <3>1, <3>2
  <2>3. to \in Nat /\ from <= to /\ (ckOpt.to # NoTime => to = ckOpt.to)
        /\ \A r \in ckTable : r.ts >= from => (r.ts <= to <=> AtOrBefore(r.ts, ckOpt.to))
    <3>1. CASE ckOpt.to # NoTime
      <4>1. to = ckOpt.to
        BY <3>1
      <4>2. from <= ckOpt.to
        <5>1. CASE ckOpt.from # NoTime
          BY <1>2, <1>8, <3>1, <5>1 DEF BadWindow
        <5>2. CASE ckOpt.from = NoTime
          <6>1. PICK r \in V : r.ts = MinTs(first)
            BY <1>5, <1>8, <5>2
          <6>2. r.ts <= ckOpt.to
            BY <3>1, <6>1 DEF Slice, AtOrBefore
          <6> QED
            BY <5>2, <6>1, <6>2
        <5> QED
          BY <5>1, <5>2
      <4> HIDE DEF first, from, tail, empty, to, S, V
      <4> QED
        BY <1>2, <3>1, <4>1, <4>2 DEF AtOrBefore
    <3>2. CASE ckOpt.to = NoTime
      <4>1. tail # {} /\ tail \in SUBSET BarRows /\ to = MaxTs(tail)
        BY <1>1, <1>8, <3>2
      <4>2. MaxTs(tail) \in Nat /\ \A r \in tail : r.ts <= MaxTs(tail)
        BY <4>1, Extremes
      <4>3. PICK r \in tail : r.ts >= from /\ r.ts \in Nat
        BY <1>1, <1>2, <4>1
      <4>4. \A u \in ckTable : u.ts >= from => u \in tail
        OBVIOUS
      <4> HIDE DEF first, from, tail, empty, to, S, V
      <4> QED
        BY <2>2, <3>2, <4>1, <4>2, <4>3, <4>4 DEF AtOrBefore
    <3> QED
      BY <3>1, <3>2
  <2> HIDE DEF first, from, tail, empty, to, V
  <2>4. \A r \in S : r.ts >= from => (r.ts <= to <=> r \in Window)
    <3> TAKE r \in S
    <3>1. r \in ckTable /\ r.ts \in Nat
      BY <1>1, <1>2, <1>3
    <3>2. r.ts >= from => AtOrAfter(r.ts, ckOpt.from)
      BY <1>2, <2>2, <3>1 DEF AtOrAfter, from
    <3> QED
      BY <2>3, <3>1, <3>2 DEF Window, Slice
  <2>5. Earlier(Window, from) = {}
    <3>1. \A r \in Window : r.ts \in Nat
      BY <1>1, <1>2, <1>3
    <3> QED
      BY <2>2, <3>1 DEF Earlier
  <2>6. ckQuotes' \subseteq ckSnaps
    BY <2>1 DEF QuerySnapshots
  <2>7. Replay({}, ckQuotes') = <<>>
    <3>1. ckQuotes' \in SUBSET SnapBatches /\ BarSet({})
      BY <1>1, <2>6 DEF BarSet
    <3> QED
      BY <3>1, EmptyReplay
  <2>8. Follows'
    <3>1. Window' = Window /\ SelectedRows(ckTable)' = S
      BY <2>1 DEF Window
    <3> QED
      BY <1>1, <2>1, <2>4, <2>5, <2>7, <3>1 DEF Follows
  <2>9. CkTypeOK'
    BY <1>1, <2>1, <2>2, <2>3, <2>6 DEF CkInv, CkTypeOK
  <2>10. ckBars' = <<>> /\ ckBars' \in Seq(Seen) /\ Ascends(ckBars')
    BY <1>1, <2>1 DEF Ascends
  <2>11. Len(ckBars') + ckRemaining' = ckOpt'.limit /\ ckRemaining' > 0
    <3>1. Len(ckBars) + ckRemaining = ckOpt.limit /\ Len(ckBars) = 0 /\ ckRemaining \in Nat
      BY <1>1 DEF CkInv, CkTypeOK
    <3> QED
      BY <1>2, <2>1, <3>1
  <2> QED
    BY <2>1, <2>2, <2>3, <2>8, <2>9, <2>10, <2>11 DEF CkInv
<1> QED
  BY <1>6, <1>7, <1>8

\* Where the elements of a concatenation come from.
FromBoth(u, s, t) ==
    \A i \in 1 .. Len(u) : \/ i \in 1 .. Len(s) /\ u[i] = s[i]
                          \/ \E j \in 1 .. Len(t) : i = Len(s) + j /\ u[i] = t[j]

LEMMA JoinElements ==
    ASSUME NEW S, NEW s \in Seq(S), NEW t \in Seq(S)
    PROVE  FromBoth(s \o t, s, t)
<1>1. PICK m \in Nat, n \in Nat : m = Len(s) /\ n = Len(t)
  OBVIOUS
<1>2. ASSUME NEW i \in 1 .. m + n
      PROVE  \/ i \in 1 .. m /\ (s \o t)[i] = s[i]
             \/ \E j \in 1 .. n : i = m + j /\ (s \o t)[i] = t[j]
  <2>1. CASE i <= m
    BY <1>1, <2>1
  <2>2. CASE i > m
    <3>1. i - m \in 1 .. n /\ i = m + (i - m)
      BY <2>2
    <3>2. (s \o t)[i] = t[i - m]
      BY <1>1, <2>2
    <3> QED
      BY <3>1, <3>2
  <2>3. i <= m \/ i > m
    OBVIOUS
  <2> QED
    BY <2>1, <2>2, <2>3
<1>3. Len(s \o t) = m + n
  BY <1>1
<1> QED
  BY <1>1, <1>2, <1>3 DEF FromBoth

LEMMA AscentsJoin ==
    ASSUME NEW s \in Seq(Seen), NEW t \in Seq(Seen), Ascends(s), Ascends(t),
           \A i \in 1 .. Len(s), j \in 1 .. Len(t) : s[i].ts < t[j].ts
    PROVE  Ascends(s \o t)
<1>1. PICK m \in Nat, n \in Nat : m = Len(s) /\ n = Len(t)
  OBVIOUS
<1>2. s \o t \in Seq(Seen) /\ DOMAIN (s \o t) = 1 .. Len(s \o t)
      /\ DOMAIN s = 1 .. m /\ DOMAIN t = 1 .. n
  BY <1>1
<1>3. ASSUME NEW i \in 1 .. Len(s \o t), NEW j \in 1 .. Len(s \o t), i < j
      PROVE  (s \o t)[i].ts < (s \o t)[j].ts
  <2>1. CASE i \in 1 .. m /\ j \in 1 .. m
    <3>1. (s \o t)[i] = s[i] /\ (s \o t)[j] = s[j]
      BY <1>1, <2>1
    <3> QED
      BY <1>2, <1>3, <2>1, <3>1 DEF Ascends
  <2>2. ASSUME NEW k \in 1 .. n, j = m + k, (s \o t)[j] = t[k], i \in 1 .. m
        PROVE  (s \o t)[i].ts < (s \o t)[j].ts
    <3>1. (s \o t)[i] = s[i]
      BY <1>1, <2>2
    <3> QED
      BY <1>1, <2>2, <3>1
  <2>3. ASSUME NEW k \in 1 .. n, j = m + k, (s \o t)[j] = t[k],
               NEW h \in 1 .. n, i = m + h, (s \o t)[i] = t[h]
        PROVE  (s \o t)[i].ts < (s \o t)[j].ts
    <3>1. h < k
      BY <1>3, <2>3
    <3> QED
      BY <1>2, <2>3, <3>1 DEF Ascends
  <2>4. ASSUME j \in 1 .. m, NEW h \in 1 .. n, i = m + h PROVE FALSE
    BY <1>3, <2>4
  <2>5. /\ i \in 1 .. m \/ \E h \in 1 .. n : i = m + h /\ (s \o t)[i] = t[h]
        /\ j \in 1 .. m \/ \E k \in 1 .. n : j = m + k /\ (s \o t)[j] = t[k]
    <3>1. FromBoth(s \o t, s, t)
      BY JoinElements
    <3> QED
      BY <1>1, <3>1 DEF FromBoth
  <2> QED
    BY <2>1, <2>2, <2>3, <2>4, <2>5
<1> QED
  BY <1>2, <1>3 DEF Ascends

-----------------------------------------------------------------------------
(* A chunk *)

TheEnd == ChunkEnd(ckCur, ckTo, ckOpt.size)
TheRows == ReadChunk(TheEnd)
InReach == IF TheEnd.final THEN Slice(ckTable, ckCur, ckTo) ELSE HalfOpen(ckTable, ckCur, TheEnd.next)

LEMMA EndFacts ==
    ASSUME NEW c \in Nat, NEW t \in Nat, NEW z \in Nat, z > 0, c <= t
    PROVE  /\ ChunkEnd(c, t, z).next \in Nat /\ c <= ChunkEnd(c, t, z).next
           /\ ChunkEnd(c, t, z).next <= t /\ ChunkEnd(c, t, z).final \in BOOLEAN
           /\ ChunkEnd(c, t, z).final => ChunkEnd(c, t, z).next = t
           /\ ~ChunkEnd(c, t, z).final => c < ChunkEnd(c, t, z).next /\ ChunkEnd(c, t, z).next < t
<1>1. ChunkEnd(c, t, z).next = IF c + z > t THEN t ELSE c + z
  BY DEF ChunkEnd
<1>2. ChunkEnd(c, t, z).final = (c + z >= t)
  BY DEF ChunkEnd
<1>3. PICK n \in Nat : n = ChunkEnd(c, t, z).next /\ n = IF c + z > t THEN t ELSE c + z
  BY <1>1
<1>4. c <= n /\ n <= t /\ (c + z >= t => n = t) /\ (~(c + z >= t) => c < n /\ n < t)
  BY <1>3
<1>5. (c + z >= t) \in BOOLEAN
  OBVIOUS
<1> QED
  BY <1>2, <1>3, <1>4, <1>5, Zenon

\* What a chunk reads: rows from the cursor on, before its end unless it is the last.
LEMMA ChunkReads ==
    ASSUME CkInv, ckPc = "chunks"
    PROVE  /\ TheEnd.next \in Nat /\ ckCur <= TheEnd.next /\ TheEnd.next <= ckTo
           /\ TheEnd.final \in BOOLEAN
           /\ TheEnd.final => TheEnd.next = ckTo
           /\ ~TheEnd.final => ckCur < TheEnd.next /\ TheEnd.next < ckTo
           /\ TheRows = FirstRows(InReach, ckRemaining)
           /\ TheRows \subseteq InReach /\ BarSet(InReach) /\ BarSet(TheRows)
           /\ Cardinality(TheRows) \in Nat /\ Cardinality(TheRows) <= ckRemaining
           /\ Cardinality(TheRows) < ckRemaining => TheRows = InReach
           /\ InReach \subseteq SelectedRows(ckTable)
           /\ \A r \in SelectedRows(ckTable) :
                 r \in InReach <=> /\ r.ts >= ckCur
                                   /\ IF TheEnd.final THEN r.ts <= ckTo ELSE r.ts < TheEnd.next
<1>1. /\ ckTable \in SUBSET BarRows /\ ckOpt \in RunOptions /\ ckCur \in Nat /\ ckTo \in Nat
      /\ ckRemaining \in Nat /\ ckCur > 0 /\ ckCur <= ckTo
  BY DEF CkInv, CkTypeOK
<1>2. ckOpt.size \in Nat /\ ckOpt.size > 0
  BY <1>1, OptionFacts
<1>5. /\ TheEnd.next \in Nat /\ ckCur <= TheEnd.next /\ TheEnd.next <= ckTo
      /\ TheEnd.final \in BOOLEAN
      /\ TheEnd.final => TheEnd.next = ckTo
      /\ ~TheEnd.final => ckCur < TheEnd.next /\ TheEnd.next < ckTo
  BY <1>1, <1>2, EndFacts DEF TheEnd
<1>6. TheRows = FirstRows(InReach, ckRemaining) /\ BarSet(InReach)
  <2>1. CASE TheEnd.final
    BY <1>1, <1>5, <2>1, QueryIs DEF TheRows, ReadChunk, InReach
  <2>2. CASE ~TheEnd.final
    BY <1>1, <2>2, QueryIs DEF TheRows, ReadChunk, InReach
  <2> QED
    BY <2>1, <2>2
<1>7. InReach \subseteq SelectedRows(ckTable)
  BY DEF InReach, Slice, HalfOpen
<1>8. \A r \in SelectedRows(ckTable) :
         r \in InReach <=> /\ r.ts >= ckCur
                           /\ IF TheEnd.final THEN r.ts <= ckTo ELSE r.ts < TheEnd.next
  BY <1>1, <1>5 DEF InReach, Slice, HalfOpen, AtOrAfter, AtOrBefore, StrictlyBefore, NoTime
<1>9. /\ TheRows \subseteq InReach /\ BarSet(TheRows)
      /\ Cardinality(TheRows) \in Nat /\ Cardinality(TheRows) <= ckRemaining
      /\ Cardinality(TheRows) < ckRemaining => TheRows = InReach
  BY <1>1, <1>6, LimitFacts
<1> QED
  BY <1>5, <1>6, <1>7, <1>8, <1>9

\* With nothing ingested, a chunk that ends the run has read what a single run
\* reads, and any other the rows before the next cursor.
LEMMA ChunkFollows ==
    ASSUME CkInv, ckPc = "chunks", ckIngests = 0
    PROVE  /\ TheEnd.final \/ Cardinality(TheRows) = ckRemaining =>
                 ckBars \o Replay(TheRows, ckQuotes) = Replay(FirstRows(Window, ckOpt.limit), ckQuotes)
           /\ ~TheEnd.final /\ Cardinality(TheRows) < ckRemaining =>
                 ckBars \o Replay(TheRows, ckQuotes) = Replay(Earlier(Window, TheEnd.next), ckQuotes)
<1> DEFINE P == Earlier(Window, ckCur)
           Q == InReach
           R == Window \ (P \cup Q)
<1>1. /\ ckTable \in SUBSET BarRows /\ ckOpt \in RunOptions /\ ckCur \in Nat /\ ckTo \in Nat
      /\ ckRemaining \in Nat /\ ckQuotes \in SUBSET SnapBatches
      /\ Len(ckBars) + ckRemaining = ckOpt.limit
      /\ ckBars = Replay(P, ckQuotes)
      /\ \A r \in SelectedRows(ckTable) : r.ts >= ckCur => (r.ts <= ckTo <=> r \in Window)
  BY DEF CkInv, CkTypeOK, Follows
<1>2. BarSet(Window) /\ Window \subseteq SelectedRows(ckTable)
  BY <1>1, QueryIs DEF Window, Slice
<1>3. BarSet(P) /\ BarSet(Q) /\ BarSet(R) /\ P \subseteq Window
  BY <1>2, ChunkReads DEF BarSet, Earlier
<1>4. \A r \in SelectedRows(ckTable) : r.ts \in Nat
  BY <1>1, RowFacts DEF SelectedRows
<1>5. TheEnd.next \in Nat /\ TheEnd.next <= ckTo /\ (~TheEnd.final => TheEnd.next < ckTo)
      /\ ckCur <= TheEnd.next
  BY ChunkReads
<1>6. \A r \in SelectedRows(ckTable) :
         r \in Q <=> r.ts >= ckCur /\ IF TheEnd.final THEN r.ts <= ckTo ELSE r.ts < TheEnd.next
  BY ChunkReads
<1>7. Q \subseteq SelectedRows(ckTable) /\ Q \subseteq Window
  <2>1. Q \subseteq SelectedRows(ckTable)
    BY ChunkReads
  <2>2. ASSUME NEW r \in Q PROVE r \in Window
    <3>1. r \in SelectedRows(ckTable) /\ r.ts \in Nat
      BY <1>4, <2>1
    <3>2. r.ts >= ckCur /\ r.ts <= ckTo
      BY <1>1, <1>5, <1>6, <3>1
    <3> QED
      BY <1>1, <3>1, <3>2
  <2> QED
    BY <2>1, <2>2
<1>8. /\ \A r \in P : r.ts < ckCur
      /\ \A r \in R : r \in Window /\ r.ts >= ckCur /\ r \notin Q
  <2>1. \A r \in Window : r.ts \in Nat /\ (r \notin P => r.ts >= ckCur)
    BY <1>1, <1>2, <1>4 DEF Earlier
  <2>2. \A r \in P : r.ts < ckCur
    BY DEF Earlier
  <2> HIDE DEF P, Q
  <2> QED
    BY <2>1, <2>2
<1>9. \A r \in R : ~TheEnd.final /\ r.ts >= TheEnd.next
  <2> TAKE r \in R
  <2>1. r \in SelectedRows(ckTable) /\ r.ts \in Nat /\ r.ts >= ckCur /\ r \in Window /\ r \notin Q
    BY <1>2, <1>4, <1>8
  <2>2. r.ts <= ckTo
    BY <1>1, <2>1
  <2> HIDE DEF P, Q, R
  <2> QED
    BY <1>5, <1>6, <2>1, <2>2
<1>10. Precede(P, Q) /\ Precede(Q, R) /\ Precede(P, Q \cup R)
  <2>1. \A r \in Q : r.ts \in Nat /\ r.ts >= ckCur /\ (~TheEnd.final => r.ts < TheEnd.next)
    BY <1>4, <1>6, <1>7
  <2>2. \A r \in P \cup R : r.ts \in Nat
    BY <1>2, <1>3, <1>4, <1>8
  <2> HIDE DEF P, Q, R
  <2> QED
    BY <1>1, <1>5, <1>8, <1>9, <2>1, <2>2 DEF Precede
<1>11. Window = P \cup (Q \cup R)
  BY <1>3, <1>7
<1>12. BarSet(Q \cup R)
  <2>1. Joined(Q, R)
    BY <1>3, <1>10, JoinedRanks
  <2> QED
    BY <2>1 DEF Joined
<1>13. Cardinality(P) \in Nat /\ Cardinality(P) + ckRemaining = ckOpt.limit
  <2>1. Len(ckBars) = Cardinality(P) /\ Cardinality(P) \in Nat
    BY <1>1, <1>3, ReplayFacts, Places
  <2> QED
    BY <1>1, <2>1
<1>14. TheRows = FirstRows(Q, ckRemaining) /\ BarSet(TheRows) /\ TheRows \subseteq Q
  BY ChunkReads
<1>15. Precede(P, TheRows)
  BY <1>10, <1>14 DEF Precede
<1> HIDE DEF P, Q, R
<1>16. ckBars \o Replay(TheRows, ckQuotes) = Replay(P \cup TheRows, ckQuotes)
  <2>1. /\ BarSet(P) /\ BarSet(TheRows) /\ Precede(P, TheRows) /\ ckQuotes \in SUBSET SnapBatches
        /\ ckBars = Replay(P, ckQuotes)
    BY <1>1, <1>3, <1>14, <1>15
  <2>2. Replay(P, ckQuotes) \o Replay(TheRows, ckQuotes) = Replay(P \cup TheRows, ckQuotes)
    BY <2>1, ReplaysJoin
  <2> QED
    BY <2>1, <2>2
<1>17. FirstRows(Window, ckOpt.limit) = P \cup FirstRows(Q \cup R, ckRemaining)
  <2>1. ckOpt.limit \in Nat
    BY <1>1, OptionFacts
  <2> QED
    BY <1>1, <1>3, <1>10, <1>11, <1>12, <1>13, <2>1, LimitGoesOn
<1>18. ASSUME TheEnd.final \/ Cardinality(TheRows) = ckRemaining
       PROVE  FirstRows(Q \cup R, ckRemaining) = TheRows
  <2>1. CASE TheEnd.final
    <3>1. R = {}
      BY <1>9, <2>1
    <3>2. Q \cup R = Q
      BY <3>1
    <3> QED
      BY <1>14, <3>2
  <2>2. CASE Cardinality(TheRows) = ckRemaining
    BY <1>1, <1>3, <1>10, <1>14, <2>2, LimitIsReached
  <2> QED
    BY <1>18, <2>1, <2>2
<1>19. ASSUME ~TheEnd.final, Cardinality(TheRows) < ckRemaining
       PROVE  Earlier(Window, TheEnd.next) = P \cup TheRows
  <2>1. TheRows = Q
    BY <1>19, ChunkReads DEF Q
  <2>2. \A r \in Window : r \in SelectedRows(ckTable) /\ r.ts \in Nat
    BY <1>2, <1>4
  <2>3. \A r \in P : r \in Window /\ r.ts < TheEnd.next
    BY <1>1, <1>3, <1>5, <1>8, <2>2
  <2>4. \A r \in Q : r \in Window /\ r.ts < TheEnd.next
    BY <1>6, <1>7, <1>19
  <2>5. \A r \in R : ~(r.ts < TheEnd.next)
    <3>1. \A r \in R : r.ts \in Nat
      BY <1>8, <2>2
    <3> QED
      BY <1>5, <1>9, <3>1
  <2> QED
    BY <1>11, <2>1, <2>3, <2>4, <2>5 DEF Earlier
<1> QED
  BY <1>16, <1>17, <1>18, <1>19

LEMMA ChunkKeeps == CkInv /\ Chunk => CkInv'
<1> SUFFICES ASSUME CkInv, Chunk PROVE CkInv'
  OBVIOUS
<1> DEFINE played == Replay(TheRows, ckQuotes)
           bars == ckBars \o played
           left == ckRemaining - Cardinality(TheRows)
<1>1. /\ ckTable \in SUBSET BarRows /\ ckSnaps \subseteq SnapBatches /\ ckOpt \in RunOptions
      /\ ckPc = "chunks" /\ ckCur \in Nat /\ ckTo \in Nat /\ ckRemaining \in Nat
      /\ ckQuotes \subseteq ckSnaps /\ ckQuotes \in SUBSET SnapBatches
      /\ ckHashed \subseteq ckQuotes /\ ckCounted \subseteq ckQuotes
      /\ ckBars \in Seq(Seen) /\ Ascends(ckBars) /\ Len(ckBars) + ckRemaining = ckOpt.limit
      /\ ckCur > 0 /\ ckCur <= ckTo /\ ckRemaining > 0
      /\ \A i \in DOMAIN ckBars : ckBars[i].ts < ckCur
      /\ ckIngests \in 0 .. MaxIngests
  BY DEF CkInv, CkTypeOK, Chunk
<1>2. /\ ckBars' = bars /\ ckRemaining' = left /\ ckCur' = TheEnd.next
      /\ IF TheRows = {} THEN UNCHANGED <<ckHashed, ckCounted>>
         ELSE /\ ckHashed' = ckHashed \union Owned(OwnedFrom)
              /\ ckCounted' = ckCounted \union Owned(OwnedFrom)
      /\ ckPc' = IF left > 0 /\ ~TheEnd.final THEN "chunks"
                 ELSE IF bars = <<>> THEN "nobars" ELSE "done"
      /\ UNCHANGED <<ckTable, ckSnaps, ckOpt, ckTo, ckQuotes, ckIngests>>
  BY DEF Chunk, TheRows, TheEnd
<1>3. /\ TheEnd.next \in Nat /\ TheEnd.next <= ckTo /\ TheEnd.final \in BOOLEAN
      /\ ckCur <= TheEnd.next
      /\ BarSet(TheRows) /\ Cardinality(TheRows) \in Nat /\ Cardinality(TheRows) <= ckRemaining
      /\ TheRows \subseteq InReach /\ InReach \subseteq SelectedRows(ckTable)
  BY <1>1, ChunkReads
<1>4. \A r \in TheRows : r \in BarRows /\ r.ts \in Nat /\ r.ts >= ckCur
                         /\ (~TheEnd.final => r.ts < TheEnd.next)
  <2>1. \A r \in TheRows : r \in SelectedRows(ckTable) /\ r \in InReach /\ r \in BarRows
    BY <1>1, <1>3 DEF SelectedRows
  <2>2. \A r \in SelectedRows(ckTable) : r \in InReach =>
           r.ts >= ckCur /\ (~TheEnd.final => r.ts < TheEnd.next)
    BY <1>1, ChunkReads
  <2> QED
    BY <2>1, <2>2, RowFacts
<1>5. played \in Seq(Seen) /\ Len(played) = Cardinality(TheRows)
  BY <1>1, <1>3, ReplayFacts
<1>6. ASSUME NEW j \in 1 .. Len(played)
      PROVE  /\ played[j].ts \in Nat /\ played[j].ts >= ckCur
             /\ ~TheEnd.final => played[j].ts < TheEnd.next
             /\ [ts |-> played[j].ts, source |-> played[j].source] \in BarRows
  <2>1. j \in 1 .. Cardinality(TheRows)
    BY <1>5
  <2>2. PICK r \in TheRows : /\ played[j].ts = r.ts /\ played[j].source = r.source
    <3>1. /\ Nth(TheRows, j) \in TheRows
          /\ played[j] = [ts |-> Nth(TheRows, j).ts, source |-> Nth(TheRows, j).source,
                          batch |-> LatestQuoteBatch(ckQuotes, Nth(TheRows, j).ts)]
      BY <1>1, <1>3, <2>1, ReplayFacts
    <3> HIDE DEF played
    <3> QED
      BY <3>1
  <2>3. r = [ts |-> r.ts, source |-> r.source] /\ r \in BarRows
    BY <1>4, RowFacts
  <2> HIDE DEF played
  <2> QED
    BY <1>4, <2>2, <2>3
<1>7. Ascends(played)
  <2>1. DOMAIN played = 1 .. Cardinality(TheRows)
    BY <1>5
  <2>2. ASSUME NEW i \in 1 .. Cardinality(TheRows), NEW j \in 1 .. Cardinality(TheRows), i < j
        PROVE  played[i].ts < played[j].ts
    <3>1. Nth(TheRows, i).ts < Nth(TheRows, j).ts
      BY <1>1, <1>3, <2>2, ReplayFacts
    <3>2. played[i] = [ts |-> Nth(TheRows, i).ts, source |-> Nth(TheRows, i).source,
                       batch |-> LatestQuoteBatch(ckQuotes, Nth(TheRows, i).ts)]
      BY <1>1, <1>3, ReplayFacts
    <3>3. played[j] = [ts |-> Nth(TheRows, j).ts, source |-> Nth(TheRows, j).source,
                       batch |-> LatestQuoteBatch(ckQuotes, Nth(TheRows, j).ts)]
      BY <1>1, <1>3, ReplayFacts
    <3> HIDE DEF played
    <3> QED
      BY <3>1, <3>2, <3>3
  <2> HIDE DEF played
  <2> QED
    BY <2>1, <2>2 DEF Ascends
<1> HIDE DEF played
<1>8. /\ bars \in Seq(Seen) /\ Len(bars) = Len(ckBars) + Cardinality(TheRows)
      /\ DOMAIN bars = 1 .. Len(bars) /\ DOMAIN ckBars = 1 .. Len(ckBars)
      /\ Len(ckBars) \in Nat
  <2>1. PICK a \in Seq(Seen), b \in Seq(Seen) : a = ckBars /\ b = played
    BY <1>1, <1>5
  <2>2. /\ a \o b \in Seq(Seen) /\ Len(a \o b) = Len(a) + Len(b) /\ Len(a) \in Nat
        /\ DOMAIN (a \o b) = 1 .. Len(a \o b) /\ DOMAIN a = 1 .. Len(a)
    OBVIOUS
  <2> QED
    BY <1>5, <2>1, <2>2
<1>9. \A i \in 1 .. Len(ckBars) : ckBars[i].ts \in Nat
  <2>1. \A i \in 1 .. Len(ckBars) : ckBars[i] \in Seen
    BY <1>1
  <2>2. \A x \in Seen : x.ts \in Nat
    BY DEF Seen
  <2> QED
    BY <2>1, <2>2
<1>10. Ascends(bars)
  <2>1. ASSUME NEW i \in 1 .. Len(ckBars), NEW j \in 1 .. Len(played)
        PROVE  ckBars[i].ts < played[j].ts
    <3>1. PICK a \in Nat, b \in Nat : a = ckBars[i].ts /\ b = played[j].ts
      BY <1>6, <1>9
    <3>2. a < ckCur /\ b >= ckCur
      BY <1>1, <1>6, <1>8, <3>1
    <3>3. a < b
      BY <1>1, <3>2
    <3> QED
      BY <3>1, <3>3
  <2> QED
    BY <1>1, <1>5, <1>7, <2>1, AscentsJoin
<1>11. ASSUME NEW i \in 1 .. Len(bars)
       PROVE  /\ [ts |-> bars[i].ts, source |-> bars[i].source] \in BarRows
              /\ ~TheEnd.final => bars[i].ts < TheEnd.next
  <2>1. \/ i \in 1 .. Len(ckBars) /\ bars[i] = ckBars[i]
        \/ \E j \in 1 .. Len(played) : i = Len(ckBars) + j /\ bars[i] = played[j]
    <3>1. ckBars \in Seq(Seen) /\ played \in Seq(Seen)
      BY <1>1, <1>5
    <3>2. FromBoth(bars, ckBars, played)
      BY <3>1, JoinElements
    <3> HIDE DEF bars
    <3> QED
      BY <3>2 DEF FromBoth
  <2>2. CASE i \in 1 .. Len(ckBars) /\ bars[i] = ckBars[i]
    <3>1. [ts |-> ckBars[i].ts, source |-> ckBars[i].source] \in BarRows
      BY <1>8, <2>2 DEF CkInv, CkTypeOK
    <3>2. ckBars[i].ts < TheEnd.next
      <4>1. PICK a \in Nat : a = ckBars[i].ts
        BY <1>9, <2>2
      <4>2. a < ckCur
        BY <1>1, <1>8, <2>2, <4>1
      <4>3. PICK b \in Nat, d \in Nat : b = ckCur /\ d = TheEnd.next /\ b <= d
        BY <1>1, <1>3
      <4>4. a < d
        BY <4>2, <4>3
      <4> QED
        BY <4>1, <4>3, <4>4
    <3> HIDE DEF bars
    <3> QED
      BY <2>2, <3>1, <3>2
  <2>3. CASE \E j \in 1 .. Len(played) : i = Len(ckBars) + j /\ bars[i] = played[j]
    <3>1. PICK j \in 1 .. Len(played) : bars[i] = played[j]
      BY <2>3
    <3> HIDE DEF bars
    <3> QED
      BY <1>6, <3>1
  <2> QED
    BY <2>1, <2>2, <2>3
<1>12. left \in Nat /\ Len(bars) + left = ckOpt.limit
  <2>1. PICK m \in Nat, k \in Nat, n \in Nat :
           m = Len(ckBars) /\ k = Cardinality(TheRows) /\ n = ckRemaining
    BY <1>1, <1>3, <1>8
  <2>2. k <= n /\ m + n = ckOpt.limit /\ Len(bars) = m + k /\ left = n - k
    BY <1>1, <1>3, <1>8, <2>1
  <2> HIDE DEF bars, left
  <2> QED
    BY <2>2
<1>13. bars = <<>> <=> ckBars = <<>> /\ TheRows = {}
  <2>1. TheRows = {} <=> Cardinality(TheRows) = 0
    <3>1. TheRows \in SUBSET BarRows
      BY <1>4
    <3>2. IsFiniteSet(TheRows)
      BY <3>1, Counted
    <3> QED
      BY <3>2, FS_EmptySet
  <2>2. ckBars = <<>> <=> Len(ckBars) = 0
    BY <1>1
  <2>3. PICK b \in Seq(Seen) : b = bars
    BY <1>8
  <2>4. b = <<>> <=> Len(b) = 0
    OBVIOUS
  <2>5. Len(b) = 0 <=> Len(ckBars) = 0 /\ Cardinality(TheRows) = 0
    BY <1>3, <1>8, <2>3
  <2> HIDE DEF bars
  <2> QED
    BY <2>1, <2>2, <2>3, <2>4, <2>5
<1>14. ckHashed' \subseteq ckQuotes /\ ckCounted' \subseteq ckQuotes
  BY <1>1, <1>2 DEF Owned
<1>15. ckQuotes = QuerySnapshots(ckSnaps, QuoteFrom(ckOpt), ckTo, ckOpt.limit)
       /\ (ckOpt.to # NoTime => ckTo = ckOpt.to)
  BY <1>1 DEF CkInv
<1>16. bars # <<>> => ckHashed' = ckQuotes /\ ckCounted' = ckQuotes
  <2> SUFFICES ASSUME bars # <<>> PROVE ckHashed' = ckQuotes /\ ckCounted' = ckQuotes
    OBVIOUS
  <2>1. CASE ckBars # <<>>
    <3>1. ckHashed = ckQuotes /\ ckCounted = ckQuotes
      BY <2>1 DEF CkInv
    <3> QED
      BY <1>2, <1>14, <3>1
  <2>2. CASE ckBars = <<>>
    <3>1. TheRows # {} /\ OwnedFrom = QuoteFrom(ckOpt)
      BY <1>13, <2>2 DEF OwnedFrom
    <3>2. Owned(QuoteFrom(ckOpt)) = ckQuotes
      BY <1>15 DEF Owned, QuerySnapshots
    <3> QED
      BY <1>2, <1>14, <3>1, <3>2
  <2> QED
    BY <2>1, <2>2
<1>17. ckIngests = 0 => Follows'
  <2> SUFFICES ASSUME ckIngests = 0 PROVE Follows'
    OBVIOUS
  <2>1. Window' = Window /\ SelectedRows(ckTable)' = SelectedRows(ckTable)
    BY <1>2 DEF Window
  <2>2. CASE left > 0 /\ ~TheEnd.final
    <3>1. ckPc' = "chunks"
      BY <1>2, <2>2
    <3>2. Cardinality(TheRows) < ckRemaining
      BY <1>1, <1>3, <2>2
    <3>3. bars = Replay(Earlier(Window, TheEnd.next), ckQuotes)
      BY <1>1, <2>2, <3>2, ChunkFollows DEF played
    <3>4. ASSUME NEW r \in SelectedRows(ckTable), r.ts >= TheEnd.next
          PROVE  r.ts <= ckTo <=> r \in Window
      <4>1. r.ts \in Nat
        BY <1>1, RowFacts DEF SelectedRows
      <4>2. r.ts >= ckCur
        BY <1>1, <1>3, <3>4, <4>1
      <4> QED
        BY <1>1, <4>2 DEF CkInv, Follows
    <3> HIDE DEF bars, left
    <3> QED
      BY <1>2, <2>1, <3>1, <3>3, <3>4 DEF Follows
  <2>3. CASE ~(left > 0 /\ ~TheEnd.final)
    <3>1. TheEnd.final \/ Cardinality(TheRows) = ckRemaining
      BY <1>1, <1>3, <2>3
    <3>2. bars = Replay(FirstRows(Window, ckOpt.limit), ckQuotes)
      BY <1>1, <3>1, ChunkFollows DEF played
    <3>3. BarSet(FirstRows(Window, ckOpt.limit))
      <4>1. BarSet(Window) /\ ckOpt.limit \in Nat
        BY <1>1, QueryIs, OptionFacts DEF Window
      <4> QED
        BY <4>1, LimitFacts
    <3>4. bars = <<>> => FirstRows(Window, ckOpt.limit) = {}
      BY <1>1, <3>2, <3>3, EmptyReplay
    <3>5. ckPc' = IF bars = <<>> THEN "nobars" ELSE "done"
      BY <1>2, <2>3
    <3> HIDE DEF bars, left
    <3> QED
      BY <1>2, <2>1, <3>2, <3>4, <3>5 DEF Follows
  <2> QED
    BY <2>2, <2>3
<1> HIDE DEF bars, left
<1>18. CkTypeOK'
  <2>1. ckPc' \in {"chunks", "nobars", "done"}
    BY <1>2
  <2>2. \A i \in DOMAIN bars : [ts |-> bars[i].ts, source |-> bars[i].source] \in BarRows
    BY <1>8, <1>11
  <2> QED
    BY <1>1, <1>2, <1>3, <1>12, <1>14, <2>1, <2>2 DEF CkTypeOK
<1>19. ckPc' = "chunks" => /\ ckCur' > 0 /\ ckCur' <= ckTo' /\ ckRemaining' > 0
                           /\ \A i \in DOMAIN ckBars' : ckBars'[i].ts < ckCur'
  <2> SUFFICES ASSUME ckPc' = "chunks"
               PROVE  /\ ckCur' > 0 /\ ckCur' <= ckTo' /\ ckRemaining' > 0
                      /\ \A i \in DOMAIN ckBars' : ckBars'[i].ts < ckCur'
    OBVIOUS
  <2>1. left > 0 /\ ~TheEnd.final
    BY <1>2
  <2>2. \A i \in DOMAIN bars : bars[i].ts < TheEnd.next
    BY <1>8, <1>11, <2>1
  <2>3. TheEnd.next > 0
    BY <1>1, <1>3
  <2> QED
    BY <1>2, <1>3, <2>1, <2>2, <2>3
<1>20. ckPc' = "done" => bars # <<>>
  BY <1>2
<1>21. ckPc' # "probe"
  BY <1>2
<1> QED
  BY <1>2, <1>8, <1>10, <1>12, <1>15, <1>16, <1>17, <1>18, <1>19, <1>20, <1>21 DEF CkInv

LEMMA CkStep == CkInv /\ [CkNext]_ckVars => CkInv'
<1> SUFFICES ASSUME CkInv, [CkNext]_ckVars PROVE CkInv'
  OBVIOUS
<1>1. CASE ChunkFails
  BY <1>1 DEF ChunkFails, CkInv, CkTypeOK, Follows
<1>2. ASSUME NEW r \in BarRows, IngestRow(r) PROVE CkInv'
  <2>1. /\ ckTable' = ckTable \union {r} /\ ckIngests' = ckIngests + 1 /\ ckIngests < MaxIngests
        /\ UNCHANGED <<ckSnaps, ckOpt, ckPc, ckCur, ckTo, ckQuotes, ckRemaining, ckBars,
                       ckHashed, ckCounted>>
        /\ ckPc = "chunks"
    BY <1>2 DEF IngestRow
  <2>2. ckIngests' \in 0 .. MaxIngests /\ ckIngests' # 0
    BY <2>1, ChunkedAssumption DEF CkInv, CkTypeOK
  <2>3. CkTypeOK'
    BY <2>1, <2>2 DEF CkInv, CkTypeOK
  <2> QED
    BY <2>1, <2>2, <2>3 DEF CkInv
<1>3. CASE UNCHANGED ckVars
  BY <1>3 DEF ckVars, CkInv, CkTypeOK, Follows, Window
<1> QED
  BY <1>1, <1>2, <1>3, ProbeKeeps, ChunkKeeps DEF CkNext

\* Cutting a database-backed backtest into chunks (RunChunked) is invisible, for any
\* bars and quote batches, any window, limit and chunk size: with the tables
\* unchanged it ends with the bars, quotes, hashed and counted batches of Run (Prepare
\* and RunPrepared) and with ErrNoBars only where Run has no bar; and rows ingested
\* between two chunks never repeat or reorder a timestamp or exceed the limit.
THEOREM ChunksInvisible == CkSpec => []ChunkingIsInvisible
<1>1. CkInv => ChunkingIsInvisible
  <2> SUFFICES ASSUME CkInv PROVE ChunkingIsInvisible
    OBVIOUS
  <2>1. /\ ckTable \in SUBSET BarRows /\ ckSnaps \subseteq SnapBatches /\ ckOpt \in RunOptions
        /\ ckQuotes \subseteq ckSnaps /\ ckRemaining \in Nat /\ ckBars \in Seq(Seen)
    BY DEF CkInv, CkTypeOK
  <2>2. BarsOnceInOrder
    <3>1. PICK m \in Nat : m = Len(ckBars)
      BY <2>1
    <3>2. m + ckRemaining = ckOpt.limit
      BY <3>1 DEF CkInv
    <3>3. ckOpt.limit \in Nat /\ m <= ckOpt.limit
      BY <2>1, <3>2, OptionFacts
    <3> QED
      BY <3>1, <3>3 DEF CkInv, Ascends, BarsOnceInOrder
  <2>3. BoundedChunkedIsSingleRun
    <3> SUFFICES ASSUME ckIngests = 0, ckOpt.to # NoTime \/ \A b \in ckSnaps : b.at <= ckTo
                 PROVE  /\ ckPc = "done" => Outcome = Prepare(ckTable, ckSnaps, ckOpt)
                        /\ ckPc = "nobars" => Prepare(ckTable, ckSnaps, ckOpt).bars = <<>>
      BY DEF BoundedChunkedIsSingleRun
    <3> DEFINE quotes == QuerySnapshots(ckSnaps, QuoteFrom(ckOpt), ckOpt.to, ckOpt.limit)
    <3>1. QueryBars(ckTable, ckOpt.from, ckOpt.to, ckOpt.limit) = FirstRows(Window, ckOpt.limit)
      BY <2>1, QueryIs DEF Window
    <3>2. Prepare(ckTable, ckSnaps, ckOpt)
            = [bars |-> Replay(FirstRows(Window, ckOpt.limit), quotes),
               hashed |-> quotes, counted |-> quotes]
      BY <3>1 DEF Prepare
    <3>3. ASSUME ckPc = "done" PROVE Outcome = Prepare(ckTable, ckSnaps, ckOpt)
      <4>1. ckQuotes = quotes
        <5>1. ckQuotes = QuerySnapshots(ckSnaps, QuoteFrom(ckOpt), ckTo, ckOpt.limit)
              /\ (ckOpt.to # NoTime => ckTo = ckOpt.to)
          BY <3>3 DEF CkInv
        <5>2. CASE ckOpt.to # NoTime
          BY <5>1, <5>2
        <5>3. CASE ckOpt.to = NoTime
          <6>1. \A b \in ckSnaps : AtOrBefore(b.at, ckTo) /\ AtOrBefore(b.at, ckOpt.to)
            BY <5>3 DEF AtOrBefore
          <6>2. {b \in ckSnaps : AtOrAfter(b.at, QuoteFrom(ckOpt)) /\ AtOrBefore(b.at, ckTo)}
                  = {b \in ckSnaps : AtOrAfter(b.at, QuoteFrom(ckOpt)) /\ AtOrBefore(b.at, ckOpt.to)}
            BY <6>1
          <6> QED
            BY <5>1, <6>2 DEF QuerySnapshots
        <5> QED
          BY <5>2, <5>3
      <4>2. /\ ckBars = Replay(FirstRows(Window, ckOpt.limit), ckQuotes)
            /\ ckHashed = ckQuotes /\ ckCounted = ckQuotes
        BY <3>3 DEF CkInv, Follows
      <4> HIDE DEF quotes
      <4> QED
        BY <3>2, <4>1, <4>2 DEF Outcome
    <3>4. ASSUME ckPc = "nobars" PROVE Prepare(ckTable, ckSnaps, ckOpt).bars = <<>>
      <4>1. FirstRows(Window, ckOpt.limit) = {}
        BY <3>4 DEF CkInv, Follows
      <4>2. quotes \in SUBSET SnapBatches /\ BarSet({})
        BY <2>1 DEF QuerySnapshots, BarSet
      <4> HIDE DEF quotes
      <4>3. Replay({}, quotes) = <<>>
        BY <4>2, EmptyReplay
      <4> QED
        BY <3>2, <4>1, <4>3
    <3> QED
      BY <3>3, <3>4
  <2> QED
    BY <2>2, <2>3 DEF CkInv, ChunkingIsInvisible
<1> QED
  BY <1>1, CkInitial, CkStep, PTL DEF CkSpec
=============================================================================
