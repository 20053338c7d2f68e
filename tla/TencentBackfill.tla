--------------------------- MODULE TencentBackfill ----------------------------
(***************************************************************************)
(* `wbot ingest tencent`: the daily-bar source of internal/ingest/         *)
(* tencent.go and the idempotent write of RunIngestion, which never        *)
(* changes a bar that is stored.  -include-forming is off.                 *)
(*                                                                         *)
(* Time runs in slots of eight hours of the Beijing clock, three to a day. *)
(* A session of the home markets (HK, SH, SZ) fills the second slot of its *)
(* date; a session of the US fills the last one and the first one of the   *)
(* next day.                                                               *)
(***************************************************************************)
EXTENDS Integers

CONSTANTS
    TbDays,      \* dates of the model
    TbMarket,    \* the markets backfilled: subset of {"HK", "US"}
    Count,       \* -count
    MaxAttempts  \* attempts of get: the first and one for each backoff

ASSUME TencentAssumption ==
    TbDays \in Nat \ {0} /\ TbMarket \subseteq {"HK", "US"} /\ Count \in Nat \ {0}
      /\ MaxAttempts \in Nat \ {0}

TbDay == 0 .. TbDays - 1
TbTime == 0 .. 3 * TbDays - 1

VARIABLES
    tbNow,      \* the clock
    tbPc,       \* market -> control point of its command
    tbAttempt,  \* market -> attempts of get
    rows,       \* market -> rows of the response: date -> "final" or "partial"
    tbBars,     \* the bars table: market -> date -> "none", "final" or "partial"
    readAt,     \* market -> when its last response was read
    failures    \* market -> the command has failed

tbVars == <<tbNow, tbPc, tbAttempt, rows, tbBars, readAt, failures>>

NoRows == [d \in {} |-> "none"]

TbTypeOK ==
    /\ tbNow \in TbTime
    /\ tbPc \in [TbMarket -> {"idle", "get", "filter", "insert", "done"}]
    /\ tbAttempt \in [TbMarket -> 0 .. MaxAttempts]
    /\ tbBars \in [TbMarket -> [TbDay -> {"none", "final", "partial"}]]
    /\ readAt \in [TbMarket -> TbTime]

TbInit ==
    /\ tbNow = 0
    /\ tbPc = [m \in TbMarket |-> "idle"] /\ tbAttempt = [m \in TbMarket |-> 0]
    /\ rows = [m \in TbMarket |-> NoRows]
    /\ tbBars = [m \in TbMarket |-> [d \in TbDay |-> "none"]]
    /\ readAt = [m \in TbMarket |-> 0] /\ failures = [m \in TbMarket |-> FALSE]

TbGoto(m, label) == tbPc' = [tbPc EXCEPT ![m] = label]

\* The provider: a date's row is there from its open, and complete at its close.
Opens(m, d) == 3 * d + (IF m = "US" THEN 2 ELSE 1)
Closes(m, d) == 3 * d + (IF m = "US" THEN 4 ELSE 2)
Started(m, t) == {d \in TbDay : Opens(m, d) <= t}
Complete(m, t) == {d \in TbDay : Closes(m, d) <= t}
\* Its answer holds the newest Count rows; of the US, only the newest.
Served(m, t) ==
    LET n == IF m = "US" THEN 1 ELSE Count
    IN  {d \in Started(m, t) : \A e \in Started(m, t) : e - d < n}

-----------------------------------------------------------------------------
\* runIngestTencent: a scheduled invocation for a market.
RunIngestTencent(m) ==
    /\ tbPc[m] \in {"idle", "done"}
    /\ tbAttempt' = [tbAttempt EXCEPT ![m] = 0] /\ failures' = [failures EXCEPT ![m] = FALSE]
    /\ TbGoto(m, "get")
    /\ UNCHANGED <<tbNow, rows, tbBars, readAt>>

\* Mutant: a transient failure is tried again for ever.
GetRowsForEver(m) ==
    /\ tbPc[m] = "get"
    /\ tbAttempt' = [tbAttempt EXCEPT ![m] = @ + 1]
    /\ UNCHANGED <<tbNow, tbPc, rows, tbBars, readAt, failures>>

\* One attempt of get: an answer, a transient failure (tried again after the
\* backoff), or an error that ends the command.
GetRows(m) ==
    /\ tbPc[m] = "get"
    /\ tbAttempt' = [tbAttempt EXCEPT ![m] = @ + 1]
    /\ \/ /\ Started(m, tbNow) # {}
          /\ rows' = [rows EXCEPT ![m] =
                [d \in Served(m, tbNow) |->
                    IF d \in Complete(m, tbNow) THEN "final" ELSE "partial"]]
          /\ readAt' = [readAt EXCEPT ![m] = tbNow]
          /\ TbGoto(m, "filter") /\ UNCHANGED failures
       \/ /\ tbAttempt[m] + 1 < MaxAttempts
          /\ UNCHANGED <<rows, readAt, tbPc, failures>>
       \/ /\ failures' = [failures EXCEPT ![m] = TRUE]
          /\ TbGoto(m, "done") /\ UNCHANGED <<rows, readAt>>
    /\ UNCHANGED <<tbNow, tbBars>>

Newest(ds) == CHOOSE d \in ds : \A e \in ds : e <= d

\* Mutant: dates are compared in UTC.
FormingUTC(d) == (3 * d - 1) \div 3 = (tbNow - 1) \div 3
\* The Beijing date of the row is the date of the clock.
Forming(d) == d = tbNow \div 3

\* Mutant: the newest row is always left out.
WithoutNewest(rs) == [d \in DOMAIN rs \ {Newest(DOMAIN rs)} |-> rs[d]]
\* filterTencentFormingBar: the newest row only, and only if it is today's.
FilterForming(rs) ==
    IF Forming(Newest(DOMAIN rs)) THEN [d \in DOMAIN rs \ {Newest(DOMAIN rs)} |-> rs[d]] ELSE rs

\* The end of Bars: nothing left is an error.
FilterRows(m) ==
    /\ tbPc[m] = "filter"
    /\ rows' = [rows EXCEPT ![m] = FilterForming(@)]
    /\ IF DOMAIN rows'[m] = {}
       THEN TbGoto(m, "done") /\ failures' = [failures EXCEPT ![m] = TRUE]
       ELSE TbGoto(m, "insert") /\ UNCHANGED failures
    /\ UNCHANGED <<tbNow, tbAttempt, tbBars, readAt>>

\* RunIngestion: one transaction, ON CONFLICT DO NOTHING; or it is rolled back.
InsertBars(m) ==
    /\ tbPc[m] = "insert"
    /\ \/ /\ tbBars' = [tbBars EXCEPT ![m] = [d \in TbDay |->
                IF d \in DOMAIN rows[m] /\ tbBars[m][d] = "none" THEN rows[m][d] ELSE tbBars[m][d]]]
          /\ UNCHANGED failures
       \/ failures' = [failures EXCEPT ![m] = TRUE] /\ UNCHANGED tbBars
    /\ rows' = [rows EXCEPT ![m] = NoRows]
    /\ TbGoto(m, "done")
    /\ UNCHANGED <<tbNow, tbAttempt, readAt>>

\* The clock moves on, also while a command runs; a response is filtered in the
\* slot it was read in or in the next one (reading is limited to 20 seconds).
TbTick ==
    /\ tbNow + 1 \in TbTime /\ tbNow' = tbNow + 1
    /\ \A m \in TbMarket : tbPc[m] = "filter" => tbNow = readAt[m]
    /\ UNCHANGED <<tbPc, tbAttempt, rows, tbBars, readAt, failures>>

TbNext ==
    \/ TbTick
    \/ \E m \in TbMarket : RunIngestTencent(m) \/ GetRows(m) \/ FilterRows(m) \/ InsertBars(m)

TbSpec == TbInit /\ [][TbNext]_tbVars

-----------------------------------------------------------------------------
(* Properties *)

\* A partial bar is never stored, where it would stay for ever (ON CONFLICT DO
\* NOTHING): for the markets whose sessions end on their Beijing date, whenever
\* the command runs and however often it is retried.
HomeBarsAreFinal ==
    \A m \in TbMarket \ {"US"} : \A d \in TbDay : tbBars[m][d] # "partial"

\* doc/DATA_STANDARD.md: today's row is dropped "to avoid a forming bar being
\* frozen by the idempotent write".  The same for every market.
NoFormingBarFrozen == \A m \in TbMarket : \A d \in TbDay : tbBars[m][d] # "partial"

\* A command that succeeds leaves no date out that the provider served complete,
\* except today's, which the run of the next day brings.
SucceededHasCompleteDays ==
    \A m \in TbMarket : tbPc[m] = "done" /\ ~failures[m] =>
        \A d \in Complete(m, readAt[m]) \cap Served(m, readAt[m]) :
            d < readAt[m] \div 3 => tbBars[m][d] # "none"

\* The daily bars hold what was final, and all of it.
DailyBarsAreFaithful ==
    /\ TbTypeOK
    /\ HomeBarsAreFinal
    /\ SucceededHasCompleteDays
=============================================================================
