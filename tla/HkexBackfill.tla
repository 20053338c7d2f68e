---------------------------- MODULE HkexBackfill ----------------------------
(***************************************************************************)
(* `wbot ingest hkex` (cmd/wbot/ingest_hkex.go, internal/ingest/hkex.go):  *)
(* a run walks the days of its range, downloads the exchange's DTOP file   *)
(* and the RP006 supplement of a day, builds quotes and a research         *)
(* projection from them and commits both in one transaction.  Runs may     *)
(* overlap and may be killed; files appear, and RP006 is replaced, late.   *)
(*                                                                         *)
(* A file is kept as what the parsers take from it.  A download is one     *)
(* step: its three attempts end in the file, in a 404 or in an error.      *)
(***************************************************************************)
EXTENDS Integers

CONSTANTS
    HkexDays,     \* length of the range of days
    Weekend,      \* the days FetchDay is not called for
    Series,       \* option series of the class
    LastDay,      \* expiry of a series
    Liquid,       \* pairs <<day, series>> with turnover and open interest
    HkexRun       \* ids of ingestion_runs, each one invocation of the command

HkexDay == 1 .. HkexDays

ASSUME HkexAssumption ==
    /\ HkexDays \in Nat
    /\ Weekend \subseteq HkexDay
    /\ LastDay \in [Series -> Int]
    /\ Liquid \subseteq HkexDay \X Series

\* An implied volatility is the version of RP006 it is from; 0 is NULL.
Version == 1 .. 2

VARIABLES
    dtop,       \* the DTOP file of a day: "none" (404 or an empty one), or the series it lists
    rp,         \* the RP006 file: 0 (404 or the unavailable marker) or its version
    quotes,     \* option_quotes: implied_vol of the row of a day and a series, -1 without a row
    snaps,      \* option_quote_snapshots: the same for the projection
    runStatus,  \* ingestion_runs.status, "none" before the insert
    hkPc,       \* control point of an invocation
    cursor,     \* the day it works on
    payload,    \* the HKEXDay it has built
    stored,     \* days whose transaction it has committed (TradingDays)
    absent      \* days it found no file for (MissingDays)

hkexVars == <<dtop, rp, quotes, snaps, runStatus, hkPc, cursor, payload, stored, absent>>
exchange == <<dtop, rp>>
tables   == <<quotes, snaps>>

NoPayload == [quotes |-> <<>>, snaps |-> {}]
RunStatus == {"none", "running", "succeeded", "failed"}

HkexTypeOK ==
    /\ dtop \in [HkexDay -> (SUBSET Series) \cup {{"none"}}]
    /\ rp \in [HkexDay -> {0} \cup Version]
    /\ quotes \in [HkexDay \X Series -> {-1, 0} \cup Version]
    /\ snaps \in [HkexDay \X Series -> {-1} \cup Version]
    /\ runStatus \in [HkexRun -> RunStatus]
    /\ hkPc \in [HkexRun -> {"new", "fetch", "insert", "finish", "fail", "dead"}]
    /\ cursor \in [HkexRun -> Nat]
    /\ stored \in [HkexRun -> SUBSET HkexDay]
    /\ absent \in [HkexRun -> SUBSET HkexDay]

NoFile == {"none"}

HkexInit ==
    /\ dtop \in [HkexDay -> {NoFile, {}, Series}]
    /\ \A d \in Weekend : dtop[d] = NoFile
    /\ rp = [d \in HkexDay |-> 0]
    /\ quotes = [ds \in HkexDay \X Series |-> -1]
    /\ snaps = [ds \in HkexDay \X Series |-> -1]
    /\ runStatus = [r \in HkexRun |-> "none"]
    /\ hkPc = [r \in HkexRun |-> "new"]
    /\ cursor = [r \in HkexRun |-> 1]
    /\ payload = [r \in HkexRun |-> NoPayload]
    /\ stored = [r \in HkexRun |-> {}]
    /\ absent = [r \in HkexRun |-> {}]

-----------------------------------------------------------------------------
(* The exchange *)

\* A file appears, or RP006 is replaced by its next version.
Publish(d) ==
    /\ \/ dtop[d] = NoFile /\ dtop' = [dtop EXCEPT ![d] = Series] /\ UNCHANGED rp
       \/ rp[d] < 2 /\ rp' = [rp EXCEPT ![d] = @ + 1] /\ UNCHANGED dtop
    /\ UNCHANGED <<tables, runStatus, hkPc, cursor, payload, stored, absent>>

-----------------------------------------------------------------------------
(* One invocation *)

HkGoto(r, label) == hkPc' = [hkPc EXCEPT ![r] = label]

BeginHKEXRun(r) ==
    /\ hkPc[r] = "new"
    /\ runStatus' = [runStatus EXCEPT ![r] = "running"]
    /\ HkGoto(r, "fetch")
    /\ UNCHANGED <<exchange, tables, cursor, payload, stored, absent>>

NextDate(r) == cursor' = [cursor EXCEPT ![r] = @ + 1]

\* HKEXSource.get: the file (or that there is none, a 404), or an error after
\* its attempts.
Get(f) == [ok : BOOLEAN, file : {f}]

\* parseDTOP: the series of the class that are listed, at least one.
ParseDTOP(f) == [ok |-> f # {}, listed |-> f]

\* parseRP006: the official volatility of every series, NULL without a supplement.
ParseRP006(v, listed) == [s \in listed |-> v]

\* The series a projection is made for: official volatility, turnover, open
\* interest, and time left on the business day (blackScholesGreeks).
Projected(d, listed) == {s \in listed : <<d, s>> \in Liquid /\ d < LastDay[s]}

\* buildHKEXDay: without a supplement there are quotes only.
BuildHKEXDay(d, listed, iv) ==
    [quotes |-> iv,
     snaps  |-> {s \in Projected(d, listed) : iv[s] # 0}]

\* The loop passes over a weekend day.
SkipWeekend(r) ==
    /\ hkPc[r] = "fetch" /\ cursor[r] \in Weekend
    /\ NextDate(r)
    /\ UNCHANGED <<exchange, tables, runStatus, hkPc, payload, stored, absent>>

\* Mutant: a day that cannot be read is left out like a holiday.
FetchDaySkipsErrors(r) ==
    LET d == cursor[r]
    IN  /\ hkPc[r] = "fetch" /\ d \in HkexDay \ Weekend
        /\ \/ NextDate(r) /\ UNCHANGED <<hkPc, payload>>
           \/ /\ dtop[d] \notin {NoFile, {}}
              /\ payload' = [payload EXCEPT ![r] = BuildHKEXDay(d, dtop[d], ParseRP006(rp[d], dtop[d]))]
              /\ HkGoto(r, "insert") /\ UNCHANGED cursor
        /\ UNCHANGED <<exchange, tables, runStatus, stored, absent>>

\* FetchDay and the caller's reaction to it: a day without a file is counted,
\* an error ends the command (a failed download, a file that does not parse,
\* settlements that disagree, a supplement without any projection).
FetchDay(r) ==
    LET d == cursor[r]
    IN  /\ hkPc[r] = "fetch" /\ d \in HkexDay \ Weekend
        /\ \E f \in Get(dtop[d]), g \in Get(rp[d]) :
             IF f.ok /\ f.file = NoFile
             THEN /\ absent' = [absent EXCEPT ![r] = @ \cup {d}]
                  /\ NextDate(r) /\ UNCHANGED <<hkPc, payload>>
             ELSE LET listed == ParseDTOP(f.file).listed
                      day    == BuildHKEXDay(d, listed, ParseRP006(g.file, listed))
                  IN  IF /\ f.ok /\ g.ok /\ ParseDTOP(f.file).ok
                         /\ g.file # 0 => day.snaps # {}
                      THEN /\ payload' = [payload EXCEPT ![r] = day]
                           /\ HkGoto(r, "insert") /\ UNCHANGED <<cursor, absent>>
                      ELSE HkGoto(r, "fail") /\ UNCHANGED <<cursor, payload, absent>>
        /\ UNCHANGED <<exchange, tables, runStatus, stored>>

\* Mutant: a quote that is already there keeps its NULL volatility.
UpsertQuoteDoNothing(old, new) == IF old = -1 THEN new ELSE old

\* ON CONFLICT ... DO UPDATE: only a NULL volatility is filled in.
UpsertQuote(old, new) == IF old \in {-1, 0} THEN new ELSE old

\* Mutant: a later version of the supplement replaces what is there.
InsertHKEXDayReplaces(r) ==
    LET d   == cursor[r]
        day == payload[r]
        hit(ds) == ds[1] = d /\ ds[2] \in DOMAIN day.quotes
    IN  /\ hkPc[r] = "insert"
        /\ quotes' = [ds \in DOMAIN quotes |->
                        IF hit(ds) /\ (day.quotes[ds[2]] # 0 \/ quotes[ds] = -1)
                        THEN day.quotes[ds[2]] ELSE quotes[ds]]
        /\ snaps' = [ds \in DOMAIN snaps |->
                        IF hit(ds) /\ ds[2] \in day.snaps THEN day.quotes[ds[2]] ELSE snaps[ds]]
        /\ stored' = [stored EXCEPT ![r] = @ \cup {d}]
        /\ NextDate(r) /\ HkGoto(r, "fetch")
        /\ payload' = [payload EXCEPT ![r] = NoPayload]
        /\ UNCHANGED <<exchange, runStatus, absent>>

\* InsertHKEXDay: both tables in one transaction; an error rolls both back.
InsertHKEXDay(r) ==
    LET d   == cursor[r]
        day == payload[r]
    IN  /\ hkPc[r] = "insert"
        /\ \/ /\ quotes' = [ds \in DOMAIN quotes |->
                              IF ds[1] = d /\ ds[2] \in DOMAIN day.quotes
                              THEN UpsertQuote(quotes[ds], day.quotes[ds[2]])
                              ELSE quotes[ds]]
              /\ snaps' = [ds \in DOMAIN snaps |->
                              IF ds[1] = d /\ ds[2] \in day.snaps /\ snaps[ds] = -1
                              THEN day.quotes[ds[2]]
                              ELSE snaps[ds]]
              /\ stored' = [stored EXCEPT ![r] = @ \cup {d}]
              /\ NextDate(r) /\ HkGoto(r, "fetch")
           \/ HkGoto(r, "fail") /\ UNCHANGED <<tables, stored, cursor>>
        /\ payload' = [payload EXCEPT ![r] = NoPayload]
        /\ UNCHANGED <<exchange, runStatus, absent>>

\* The loop has ended: a range without any file is a failure.
EndOfRange(r) ==
    /\ hkPc[r] = "fetch" /\ cursor[r] \notin HkexDay
    /\ HkGoto(r, IF stored[r] = {} THEN "fail" ELSE "finish")
    /\ UNCHANGED <<exchange, tables, runStatus, cursor, payload, stored, absent>>

\* FinishHKEXRun; when marking the success fails, the deferred call marks the
\* run failed, and that call's own error is dropped.
FinishHKEXRun(r) ==
    /\ \/ /\ hkPc[r] = "finish"
          /\ \/ runStatus' = [runStatus EXCEPT ![r] = "succeeded"] /\ HkGoto(r, "dead")
             \/ HkGoto(r, "fail") /\ UNCHANGED runStatus
       \/ /\ hkPc[r] = "fail"
          /\ runStatus' \in {runStatus, [runStatus EXCEPT ![r] = "failed"]}
          /\ HkGoto(r, "dead")
    /\ UNCHANGED <<exchange, tables, cursor, payload, stored, absent>>

\* The process is killed: nothing is rolled forward and the row stays.
KillRun(r) ==
    /\ hkPc[r] \in {"fetch", "insert", "finish", "fail"}
    /\ HkGoto(r, "dead")
    /\ UNCHANGED <<exchange, tables, runStatus, cursor, payload, stored, absent>>

HkexNext ==
    \/ \E d \in HkexDay \ Weekend : Publish(d)
    \/ \E r \in HkexRun :
         BeginHKEXRun(r) \/ SkipWeekend(r) \/ FetchDay(r) \/ InsertHKEXDay(r) \/ EndOfRange(r)
           \/ FinishHKEXRun(r) \/ KillRun(r)

HkexSpec == HkexInit /\ [][HkexNext]_hkexVars

-----------------------------------------------------------------------------
(* Properties *)

\* The projection of a series rests on the very volatility that option_quotes
\* holds for it, whichever run filled it in and however often RP006 was
\* replaced in between (buildHKEXDay, and InsertHKEXDay's two conflict clauses).
ProjectionMatchesQuote ==
    \A ds \in HkexDay \X Series : snaps[ds] # -1 => snaps[ds] = quotes[ds]

\* A run is recorded as succeeded only if each business day of its range was
\* stored, or had no file when the run asked for it: nothing in the range is
\* passed over because it failed.
SucceededIsFilled ==
    \A r \in HkexRun :
        runStatus[r] = "succeeded" => HkexDay \ Weekend = stored[r] \cup absent[r]

\* What InsertHKEXDay's comment promises of a repeated run: no official value
\* that is in the tables is lost or replaced.
OfficialIsKept ==
    [][\A ds \in HkexDay \X Series :
           /\ quotes[ds] > 0 => quotes'[ds] = quotes[ds]
           /\ quotes[ds] = 0 => quotes'[ds] >= 0
           /\ snaps[ds] # -1 => snaps'[ds] = snaps[ds]]_hkexVars

\* Overlapping, killed and repeated backfills leave tables that agree with each
\* other and with what the runs report, and lose no official value.
BackfillIsFaithful ==
    /\ [](HkexTypeOK /\ ProjectionMatchesQuote /\ SucceededIsFilled)
    /\ OfficialIsKept
=============================================================================
