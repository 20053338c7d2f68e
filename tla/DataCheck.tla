------------------------------ MODULE DataCheck ------------------------------
(***************************************************************************)
(* The daily jobs of `wbot serve`: the data-completeness check with its    *)
(* repairs (internal/datacheck, cmd/wbot/datacheck_scheduler.go) and the   *)
(* market preparation reports (cmd/wbot/market_open_scheduler.go), driven  *)
(* by datacheck.RunDaily.                                                  *)
(*                                                                         *)
(* Time is a count of slots.  A market and the server each have a zone, so *)
(* that the same instant falls on different dates.  A series (one symbol   *)
(* and one kind of data) is kept as the instant of its newest stored row.  *)
(***************************************************************************)
EXTENDS Integers

CONSTANTS
    DcSymbol,      \* symbols the watchlist may hold
    DcKind,        \* the data matrix: "1d", "1w", "options"
    DaySlots,      \* slots of a day
    DcDays,        \* days of the instance, from day 0
    MarketZone,    \* market zone of a symbol, in slots ahead of time zero
    ServerZone,    \* zone of the process
    Closed,        \* closed days of a symbol's market
    EarlyClose,    \* its days with an early close
    NormalReady,   \* slot of a day from which its data are expected
    EarlyReady,    \* the same after an early close
    WeekAge,       \* MaxAgeForTimeframe("1w")
    ScanLimit,     \* days the calendar is scanned back (370)
    DailyAt,       \* job -> slot of the local day it is scheduled at
    HasNotifier,   \* whether `serve` runs with -datacheck-notify
    MaxStarts      \* bound on the process starts

Job    == {"datacheck", "hk", "us"}
Prep   == {"hk", "us"}
DcItem == DcSymbol \X DcKind
DcTime == 0 .. DaySlots * DcDays - 1
Never  == -1 - DaySlots   \* before everything the gateway can deliver

ASSUME DataCheckAssumption ==
    /\ DaySlots \in Nat \ {0} /\ DcDays \in Nat \ {0}
    /\ MarketZone \in [DcSymbol -> -DaySlots .. DaySlots] /\ ServerZone \in Int
    /\ WeekAge \in Nat /\ ScanLimit \in Nat /\ MaxStarts \in Nat
    /\ NormalReady \in 0 .. DaySlots - 1 /\ EarlyReady \in 0 .. NormalReady
    /\ DailyAt \in [Job -> 0 .. DaySlots - 1]
    /\ HasNotifier \in BOOLEAN
    \* the calendar has an open day within the scan
    /\ \A s \in DcSymbol, d \in -2 .. DcDays :
           \E k \in 0 .. ScanLimit - 1 : d - k \notin Closed[s]

VARIABLES
    now,       \* wall clock
    listed,    \* symbols on the watchlist
    newest,    \* series -> newest stored row, Never without one
    dcPc,      \* job -> control point
    timer,     \* job -> instant its timer is set to
    runAt,     \* the instant the running check is about
    view,      \* what Load has read for the running check
    todo,      \* items still to be repaired
    failed,    \* whether a repair has failed (RepairErrors)
    verdict,   \* how the last check ended, and about what
    startDays, \* job -> local days on which it was started by its timer
    starts     \* how often the process has been started

data  == <<listed, newest>>
check == <<runAt, view, todo, failed, verdict>>
jobs  == <<dcPc, timer, startDays>>
dcVars == <<now, data, check, jobs, starts>>

NoView == [syms |-> {}, newest |-> [i \in DcItem |-> Never]]
NoVerdict == [quiet |-> FALSE, at |-> 0, syms |-> {}]

DcTypeOK ==
    /\ now \in DcTime
    /\ listed \subseteq DcSymbol
    /\ \A i \in DcItem : newest[i] = Never \/ newest[i] \in Int
    /\ dcPc \in [Job -> {"off", "timer", "load", "repair", "list", "cover", "push"}]
    /\ timer \in [Job -> Int]
    /\ todo \subseteq DcItem
    /\ failed \in BOOLEAN /\ verdict.quiet \in BOOLEAN
    /\ startDays \in [Job -> SUBSET Int]
    /\ starts \in 0 .. MaxStarts

-----------------------------------------------------------------------------
(* Dates and the exchange calendar *)

MarketDate(t, s) == (t + MarketZone[s]) \div DaySlots
LocalDate(t)     == (t + ServerZone) \div DaySlots

\* The instant from which the data of day d are expected.
ReadyAt(s, d) ==
    d * DaySlots - MarketZone[s] + (IF d \in EarlyClose[s] THEN EarlyReady ELSE NormalReady)

\* expectedSessionDateWithCalendar: today if its data are due, else the day
\* before; from there back to an open day.
ExpectedSession(t, s) ==
    LET today == MarketDate(t, s)
        first == IF today \in Closed[s] \/ t < ReadyAt(s, today) THEN today - 1 ELSE today
        back  == CHOOSE k \in 0 .. ScanLimit - 1 :
                    first - k \notin Closed[s] /\ \A j \in 0 .. k - 1 : first - j \in Closed[s]
    IN  first - back

\* barsStale and optionsStale under the default, session-aware policy: weekly
\* bars go by age, the rest by session.  (A chain that has expired is left out.)
IsStale(i, ts, t) ==
    IF i[2] = "1w" THEN t - ts > WeekAge
    ELSE MarketDate(ts, i[1]) < ExpectedSession(t, i[1])

\* Check: the items of the listed symbols that are missing or stale.
Incomplete(v, t) ==
    {i \in v.syms \X DcKind : v.newest[i] = Never \/ IsStale(i, v.newest[i], t)}

\* Mutant: a run that starts at the scheduled instant schedules it again.
NextRunAtOrAfter(t, slot) ==
    LET today == LocalDate(t) * DaySlots - ServerZone + slot
    IN  IF today >= t THEN today ELSE today + DaySlots

NextRun(t, slot) ==
    LET today == LocalDate(t) * DaySlots - ServerZone + slot
    IN  IF today > t THEN today ELSE today + DaySlots

-----------------------------------------------------------------------------
(* The process *)

DcInit ==
    /\ now = 0
    /\ listed \in SUBSET DcSymbol \ {{}}
    /\ newest = [i \in DcItem |-> Never]
    /\ dcPc = [j \in Job |-> "off"] /\ timer = [j \in Job |-> 0]
    /\ runAt = 0 /\ view = NoView /\ todo = {} /\ failed = FALSE
    /\ verdict = NoVerdict
    /\ startDays = [j \in Job |-> {}]
    /\ starts = 0

SetTimer(J) ==
    /\ timer' = [j \in Job |-> IF j \in J THEN NextRun(now, DailyAt[j]) ELSE timer[j]]

\* `wbot serve` comes up: the check is scheduled, and the first preparation
\* report is pushed before the two daily ones are scheduled.
StartProcess ==
    /\ starts < MaxStarts /\ dcPc["datacheck"] = "off"
    /\ starts' = starts + 1
    /\ dcPc' = [j \in Job |-> IF j = "hk" THEN "push" ELSE IF j = "us" THEN "off" ELSE "timer"]
    /\ SetTimer({"datacheck"})
    /\ UNCHANGED <<now, data, check, startDays>>

\* The process is killed: what a job was doing is gone.  (Bound: not after the
\* last start.)
KillProcess ==
    /\ dcPc["datacheck"] # "off" /\ starts < MaxStarts
    /\ dcPc' = [j \in Job |-> "off"] /\ timer' = [j \in Job |-> 0]
    /\ view' = NoView /\ todo' = {} /\ failed' = FALSE /\ runAt' = 0
    /\ UNCHANGED <<now, data, verdict, startDays, starts>>

\* RunDaily's timer fires and the task starts.
TimerFires(j) ==
    /\ dcPc[j] = "timer" /\ now >= timer[j]
    /\ dcPc' = [dcPc EXCEPT ![j] = IF j \in Prep THEN "push" ELSE "load"]
    /\ startDays' = [startDays EXCEPT ![j] = @ \cup {LocalDate(now)}]
    /\ IF j \in Prep THEN UNCHANGED <<runAt, verdict>>
       ELSE runAt' = now /\ verdict' = NoVerdict
    /\ UNCHANGED <<now, data, view, todo, failed, timer, starts>>

\* The task returns and RunDaily schedules the next one.
Rearm(j) == dcPc' = [dcPc EXCEPT ![j] = "timer"] /\ SetTimer({j})

\* A preparation report: every section degrades by itself, and a failed push
\* is logged.  The one at the start ends with both timers being set.
PushReport(j) ==
    /\ dcPc[j] = "push"
    /\ IF dcPc["us"] = "off"
       THEN /\ dcPc' = [dcPc EXCEPT !["hk"] = "timer", !["us"] = "timer"]
            /\ SetTimer(Prep)
       ELSE Rearm(j)
    /\ UNCHANGED <<now, data, check, startDays, starts>>

\* End of a check, sendDataCheckAlert: quiet without a notifier or with nothing to
\* report; else an alert to every sink (a sink that fails does not keep the others
\* from being tried, and the alert is not sent again).
EndCheck(complete, syms) ==
    /\ verdict' = [quiet |-> ~HasNotifier \/ complete, at |-> runAt, syms |-> syms]
    /\ view' = NoView /\ todo' = {} /\ failed' = FALSE /\ runAt' = 0
    /\ Rearm("datacheck")

\* Service.Run, the first Load and Check.  An error ends the run with an alert.
LoadBefore ==
    /\ dcPc["datacheck"] = "load"
    /\ \/ /\ todo' = Incomplete([syms |-> listed, newest |-> newest], runAt)
          /\ dcPc' = [dcPc EXCEPT !["datacheck"] = "repair"]
          /\ UNCHANGED <<runAt, view, failed, verdict, timer>>
       \/ EndCheck(FALSE, {})
    /\ UNCHANGED <<now, data, startDays, starts>>

\* The newest row the gateway can deliver at this instant: of some open day,
\* not later than now; it may lag by a day.
Deliverable(s) ==
    {t \in {now, now - DaySlots} : MarketDate(t, s) \notin Closed[s]}

Later(t, u) == IF t > u THEN t ELSE u

\* RunIngestion: fetch, validate and insert in one transaction, so all rows or
\* none; no bars at all are an error, rows that are there already are kept.
RepairBars(i) ==
    /\ dcPc["datacheck"] = "repair" /\ i \in todo /\ i[2] # "options"
    /\ todo' = todo \ {i}
    /\ \/ /\ \E t \in Deliverable(i[1]) : newest' = [newest EXCEPT ![i] = Later(t, @)]
          /\ UNCHANGED failed
       \/ failed' = TRUE /\ UNCHANGED newest
    /\ UNCHANGED <<now, listed, runAt, view, verdict, jobs, starts>>

\* fetchOptionRows: the rows of the chain's contracts, Never when none has any.
OptionRows(s) == Deliverable(s) \cup {Never}

\* RunOptionIngestion: a chain without rows is a success that stores nothing.
RepairOptions(i) ==
    /\ dcPc["datacheck"] = "repair" /\ i \in todo /\ i[2] = "options"
    /\ todo' = todo \ {i}
    /\ \/ /\ \E t \in OptionRows(i[1]) : newest' = [newest EXCEPT ![i] = Later(t, @)]
          /\ UNCHANGED failed
       \/ failed' = TRUE /\ UNCHANGED newest
    /\ UNCHANGED <<now, listed, runAt, view, verdict, jobs, starts>>

\* Mutant: the second Load is left out, and a repair without error counts.
ReloadListTrusting ==
    /\ dcPc["datacheck"] = "repair" /\ todo = {}
    /\ EndCheck(~failed, listed)
    /\ UNCHANGED <<now, data, startDays, starts>>

\* The second Load reads the watchlist ...
ReloadList ==
    /\ dcPc["datacheck"] = "repair" /\ todo = {}
    /\ \/ /\ view' = [view EXCEPT !.syms = listed]
          /\ dcPc' = [dcPc EXCEPT !["datacheck"] = "cover"]
          /\ UNCHANGED <<runAt, todo, failed, verdict, timer>>
       \/ EndCheck(FALSE, {})
    /\ UNCHANGED <<now, data, startDays, starts>>

\* ... and then the coverage of all series; Check and sendDataCheckAlert.
ReloadCoverage ==
    /\ dcPc["datacheck"] = "cover"
    /\ \/ LET after == [view EXCEPT !.newest = newest]
          IN  EndCheck(~failed /\ Incomplete(after, runAt) = {}, after.syms)
       \/ EndCheck(FALSE, {})
    /\ UNCHANGED <<now, data, startDays, starts>>

-----------------------------------------------------------------------------
(* Around the process *)

\* A symbol is added to the watchlist or removed from it.
EditList(s) ==
    /\ listed' = IF s \in listed THEN listed \ {s} ELSE listed \cup {s}
    /\ UNCHANGED <<now, newest, check, jobs, starts>>

\* Time passes; a timer that is due fires within its slot (a machine that is
\* suspended is left out).
DcTick ==
    /\ now + 1 \in DcTime
    /\ \A j \in Job : dcPc[j] = "timer" => timer[j] > now
    /\ now' = now + 1
    /\ UNCHANGED <<data, check, jobs, starts>>

DcNext ==
    \/ StartProcess \/ KillProcess \/ DcTick
    \/ \E j \in Job : TimerFires(j)
    \/ \E j \in Prep : PushReport(j)
    \/ LoadBefore \/ ReloadList \/ ReloadCoverage
    \/ \E i \in DcItem : RepairBars(i) \/ RepairOptions(i)
    \/ \E s \in DcSymbol : EditList(s)

DcSpec == DcInit /\ [][DcNext]_dcVars

-----------------------------------------------------------------------------
(* Properties *)

\* The latest day whose data were due at t, said without an algorithm: among
\* the open days whose ready instant has passed, the last.
SessionDue(t, s) ==
    CHOOSE d \in {e \in -1 - ScanLimit .. DcDays + 1 : e \notin Closed[s] /\ ReadyAt(s, e) <= t} :
        \A e \in d + 1 .. DcDays + 1 : e \in Closed[s] \/ ReadyAt(s, e) > t

\* Where alerts are on, a check that ends without one means what it says: for
\* every symbol it was about, every series held a row of the last session whose
\* data were due when the run began (weekly bars: a row young enough), whatever
\* the repairs returned, whoever edited the watchlist meanwhile and whatever the
\* zone and the calendar of the market are.
SilentMeansComplete ==
    HasNotifier /\ verdict.quiet =>
        \A i \in verdict.syms \X DcKind :
            /\ newest[i] # Never
            /\ IF i[2] = "1w" THEN verdict.at - newest[i] <= WeekAge
               ELSE MarketDate(newest[i], i[1]) >= SessionDue(verdict.at, i[1])

\* RunDaily's "once per local calendar day": a timer never starts its task a
\* second time on one day, not even when the process is restarted.
OncePerDay ==
    [][\A j \in Job :
          (dcPc[j] = "timer" /\ dcPc'[j] \in {"load", "push"})
              => LocalDate(now) \notin startDays[j]]_dcVars

\* The daily check is honest and daily.
ChecksAreHonest == [](DcTypeOK /\ SilentMeansComplete) /\ OncePerDay
=============================================================================
