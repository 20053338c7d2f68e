------------------------------ MODULE ReportFlow ------------------------------
(***************************************************************************)
(* What becomes of a backtest's result: the data-quality gates, the report *)
(* and its files (internal/backtestreport), the strategy cache with its    *)
(* approval (cmd/wbot/backtest_cache.go, wheelstore/strategy_cache.go) and *)
(* the push to Discord (internal/backtestpush).  Commands run side by side *)
(* on one machine and may be killed anywhere.                              *)
(*                                                                         *)
(* A result is kept as what the gates look at: whether an HKEX option      *)
(* cycle is covered, how many bars were ready, and whether the 10th        *)
(* percentile of the best candidate beats the baseline.  Reports of the    *)
(* same inputs have the same id.                                           *)
(***************************************************************************)
EXTENDS Integers

CONSTANTS
    Results,       \* the results commands may produce, records (see ReportAssumption)
    Command,       \* invocations of `wbot backtest ... -report -cache -push`
    MaxApprovals,  \* bound on the calls of ApproveStrategyCache
    MaxWindows,    \* bound on the closings of Discord's nonce window
    NoReport       \* nothing

ASSUME ReportAssumption ==
    /\ \A x \in Results :
          /\ x.kind \in {"single_run", "es_train"} /\ x.strategy \in {"wheel", "hold"}
          /\ x.cycle \in BOOLEAN /\ x.ready \in 0 .. x.bars /\ x.beats \in BOOLEAN
    /\ MaxApprovals \in Nat /\ MaxWindows \in Nat
    /\ NoReport \notin Command

VARIABLES
    rpPc,       \* command -> control point
    rpResult,   \* command -> its result
    files,      \* result -> the files of its report: {}, {"json"}, {"json", "html"}
    cacheRow,   \* strategy_cache, the row of the symbol
    approver,   \* what ApproveStrategyCache has read, or NoReport
    approvals,  \* calls of it so far
    flock,      \* result -> holder of the lock of its report id
    marker,     \* results whose .sent marker is there
    visible,    \* result -> messages on the channel
    nonceOpen,  \* results whose nonce Discord still remembers
    windows     \* nonce windows that have closed over an unmarked report

rpVars == <<rpPc, rpResult, files, cacheRow, approver, approvals, flock, marker, visible,
            nonceOpen, windows>>
cacheVars == <<cacheRow, approver, approvals>>
pushVars  == <<flock, marker, visible, nonceOpen, windows>>

-----------------------------------------------------------------------------
(* The gates *)

\* dataQualityAccum.summary: an option cycle counts only with option data.
Summary(x) ==
    [status |-> IF x.strategy # "wheel" THEN "NOT_APPLICABLE"
                ELSE IF x.cycle /\ x.ready > 0 THEN "RESEARCH_ONLY" ELSE "DATA_BLOCKED",
     cycle  |-> x.strategy = "wheel" /\ x.cycle,
     ready  |-> x.ready]

\* normalizeDataQuality: for the wheel the status is settled again.
NormalizeDataQuality(x, q) ==
    IF x.strategy # "wheel" THEN q
    ELSE [q EXCEPT !.status = IF q.cycle /\ q.ready > 0 THEN "RESEARCH_ONLY" ELSE "DATA_BLOCKED"]

\* Mutant: blocked bars do not count, and the cycle is not asked for.
CapabilityOfBars(x, q) == IF q.ready > 0 THEN "RESEARCH_ONLY" ELSE "DATA_BLOCKED"

\* capability: DATA_BLOCKED by the quality, by a wheel without a complete cycle,
\* or by a blocked bar that no complete cycle excuses.
Capability(x, q) ==
    LET complete == x.strategy = "wheel" /\ q.cycle /\ q.ready > 0
    IN  IF \/ q.status = "DATA_BLOCKED"
           \/ x.strategy = "wheel" /\ ~complete
           \/ x.ready < x.bars /\ ~complete
        THEN "DATA_BLOCKED" ELSE "RESEARCH_ONLY"

\* Build and BuildES: the report of a result; the return of a wheel is stated
\* only when the data allow it.
Build(x) ==
    LET q == NormalizeDataQuality(x, Summary(x))
        c == Capability(x, q)
    IN  [result |-> x, kind |-> x.kind, capability |-> c,
         hasReturn |-> x.strategy # "wheel" \/ c = "RESEARCH_ONLY"]

\* strategyCacheRecord: the gates travel in the payload.
StrategyCacheRecord(rep, human) ==
    LET data   == rep.capability = "RESEARCH_ONLY"
        sample == rep.kind = "es_train" /\ rep.result.beats
    IN  [result |-> rep.result, data |-> data, sample |-> sample, human |-> human,
         state  |-> IF data /\ sample /\ human THEN "APPROVED" ELSE "RESEARCH"]

\* validateStrategyCache: an approved row carries its three gates.
ValidStrategyCache(row) == row.state = "APPROVED" => row.data /\ row.sample /\ row.human

-----------------------------------------------------------------------------

RpTypeOK ==
    /\ rpPc \in [Command -> {"run", "json", "html", "cache", "lock", "stat", "send",
                             "mark", "sent", "already", "failed", "killed"}]
    /\ files \in [Results -> {{}, {"json"}, {"json", "html"}}]
    /\ flock \in [Results -> Command \cup {NoReport}]
    /\ marker \subseteq Results /\ nonceOpen \subseteq Results
    /\ visible \in [Results -> Nat]
    /\ approvals \in 0 .. MaxApprovals /\ windows \in [Results -> 0 .. MaxWindows]
    /\ cacheRow # NoReport => cacheRow.state \in {"APPROVED", "RESEARCH"}

RpInit ==
    /\ rpPc = [c \in Command |-> "run"]
    /\ rpResult \in [Command -> Results]
    /\ files = [x \in Results |-> {}]
    /\ cacheRow = NoReport /\ approver = NoReport /\ approvals = 0
    /\ flock = [x \in Results |-> NoReport]
    /\ marker = {} /\ visible = [x \in Results |-> 0]
    /\ nonceOpen = {} /\ windows = [x \in Results |-> 0]

RpGoto(c, label) == rpPc' = [rpPc EXCEPT ![c] = label]

-----------------------------------------------------------------------------
(* A command *)

\* The result is there and its report is built, or the command fails.
BuildReport(c) ==
    /\ rpPc[c] = "run"
    /\ \/ RpGoto(c, "json") \/ RpGoto(c, "failed")
    /\ UNCHANGED <<rpResult, files, cacheVars, pushVars>>

\* Write: the JSON file, then the HTML file.
WriteJSON(c) ==
    /\ rpPc[c] = "json"
    /\ \/ files' = [files EXCEPT ![rpResult[c]] = @ \cup {"json"}] /\ RpGoto(c, "html")
       \/ RpGoto(c, "failed") /\ UNCHANGED files
    /\ UNCHANGED <<rpResult, cacheVars, pushVars>>

WriteHTML(c) ==
    /\ rpPc[c] = "html"
    /\ \/ /\ files' = [files EXCEPT ![rpResult[c]] = IF "json" \in @ THEN @ \cup {"html"} ELSE @]
          /\ RpGoto(c, "cache")
       \/ RpGoto(c, "failed") /\ UNCHANGED files
    /\ UNCHANGED <<rpResult, cacheVars, pushVars>>

\* UpsertStrategyCache: an invalid row is refused, a valid one replaces what the
\* symbol had.
UpsertStrategyCache(row) == ValidStrategyCache(row) /\ cacheRow' = row

\* cacheBacktestReport, which -cache asks for; a failure ends the command.
CacheReport(c) ==
    /\ rpPc[c] = "cache"
    /\ \/ /\ UpsertStrategyCache(StrategyCacheRecord(Build(rpResult[c]), FALSE))
          /\ RpGoto(c, "lock")
       \/ RpGoto(c, "lock") /\ UNCHANGED cacheRow
       \/ RpGoto(c, "failed") /\ UNCHANGED cacheRow
    /\ UNCHANGED <<rpResult, files, approver, approvals, pushVars>>

\* Push: the file lock of the report id is waited for.
AcquireFileLock(c) ==
    /\ rpPc[c] = "lock" /\ flock[rpResult[c]] = NoReport
    /\ flock' = [flock EXCEPT ![rpResult[c]] = c]
    /\ RpGoto(c, "stat")
    /\ UNCHANGED <<rpResult, files, cacheVars, marker, visible, nonceOpen, windows>>

\* Push returns and its defer releases the lock.
Release(c) == flock' = [x \in Results |-> IF flock[x] = c THEN NoReport ELSE flock[x]]

\* Mutant: the marker is looked up, and the lock then let go of.
StatMarkerReleases(c) ==
    /\ rpPc[c] = "stat"
    /\ RpGoto(c, IF rpResult[c] \in marker THEN "already" ELSE "send")
    /\ Release(c)
    /\ UNCHANGED <<rpResult, files, cacheVars, marker, visible, nonceOpen, windows>>

StatMarker(c) ==
    /\ rpPc[c] = "stat"
    /\ IF rpResult[c] \in marker
       THEN RpGoto(c, "already") /\ Release(c)
       ELSE RpGoto(c, "send") /\ UNCHANGED flock
    /\ UNCHANGED <<rpResult, files, cacheVars, marker, visible, nonceOpen, windows>>

\* Discord takes a message with an enforced nonce: while it remembers the nonce
\* it answers with the message it has.
MessageAccepted(x) ==
    /\ visible' = [visible EXCEPT ![x] = IF x \in nonceOpen THEN @ ELSE @ + 1]
    /\ nonceOpen' = nonceOpen \cup {x}

\* Mutant: a request whose answer was lost counts as delivered.
CreateMessageAssumes(c) ==
    /\ rpPc[c] = "send"
    /\ RpGoto(c, "mark")
    /\ \/ MessageAccepted(rpResult[c])
       \/ UNCHANGED <<visible, nonceOpen>>
    /\ UNCHANGED <<rpResult, files, cacheVars, flock, marker, windows>>

\* CreateMessage: accepted and answered; accepted with the answer lost; or not
\* accepted.
CreateMessage(c) ==
    /\ rpPc[c] = "send"
    /\ \/ MessageAccepted(rpResult[c]) /\ RpGoto(c, "mark") /\ UNCHANGED flock
       \/ MessageAccepted(rpResult[c]) /\ RpGoto(c, "failed") /\ Release(c)
       \/ UNCHANGED <<visible, nonceOpen>> /\ RpGoto(c, "failed") /\ Release(c)
    /\ UNCHANGED <<rpResult, files, cacheVars, marker, windows>>

\* writeMarker: a temporary file and a rename, so the marker is there or not.
WriteMarker(c) ==
    /\ rpPc[c] = "mark"
    /\ \/ marker' = marker \cup {rpResult[c]} /\ RpGoto(c, "sent")
       \/ RpGoto(c, "failed") /\ UNCHANGED marker
    /\ Release(c)
    /\ UNCHANGED <<rpResult, files, cacheVars, visible, nonceOpen, windows>>

\* The process is killed; the kernel drops its locks.
KillCommand(c) ==
    /\ rpPc[c] \in {"run", "json", "html", "cache", "lock", "stat", "send", "mark"}
    /\ RpGoto(c, "killed") /\ Release(c)
    /\ UNCHANGED <<rpResult, files, cacheVars, marker, visible, nonceOpen, windows>>

-----------------------------------------------------------------------------
(* Around the commands *)

\* Discord forgets a nonce.  A closing counts while the report is unmarked: the
\* comment of Push promises no more than that short window.
NonceExpires(x) ==
    /\ x \in nonceOpen
    /\ x \notin marker => windows[x] < MaxWindows
    /\ nonceOpen' = nonceOpen \ {x}
    /\ windows' = IF x \in marker THEN windows ELSE [windows EXCEPT ![x] = @ + 1]
    /\ UNCHANGED <<rpPc, rpResult, files, cacheVars, flock, marker, visible>>

\* ApproveStrategyCache reads the row and looks at its gates ...
ApproveReads ==
    /\ approver = NoReport /\ approvals < MaxApprovals
    /\ cacheRow # NoReport /\ cacheRow.data /\ cacheRow.sample
    /\ approver' = cacheRow /\ approvals' = approvals + 1
    /\ UNCHANGED <<rpPc, rpResult, files, cacheRow, pushVars>>

\* ... and writes back what it has read, approved.
ApproveWrites ==
    /\ approver # NoReport
    /\ \/ UpsertStrategyCache([approver EXCEPT !.human = TRUE, !.state = "APPROVED"])
       \/ UNCHANGED cacheRow
    /\ approver' = NoReport
    /\ UNCHANGED <<rpPc, rpResult, files, approvals, pushVars>>

RpNext ==
    \/ \E c \in Command :
          BuildReport(c) \/ WriteJSON(c) \/ WriteHTML(c) \/ CacheReport(c) \/ AcquireFileLock(c)
            \/ StatMarker(c) \/ CreateMessage(c) \/ WriteMarker(c) \/ KillCommand(c)
    \/ \E x \in Results : NonceExpires(x)
    \/ ApproveReads \/ ApproveWrites

RpSpec == RpInit /\ [][RpNext]_rpVars

-----------------------------------------------------------------------------
(* Properties *)

\* "It cannot bypass either automated gate": what the LLM strategy may take for
\* approved evidence is the report of a trained wheel whose data held a complete
\* option cycle and a ready bar and whose candidate beat the baseline out of
\* sample, however approvals and new reports interleave; and the report it
\* refers to is on disk.
ApprovedIsEvidenced ==
    cacheRow # NoReport =>
        /\ "json" \in files[cacheRow.result]
        /\ cacheRow.state = "APPROVED" =>
              LET x == cacheRow.result
              IN  /\ x.kind = "es_train" /\ x.beats
                  /\ x.strategy = "wheel" => x.cycle /\ x.ready > 0

\* "Push sends one report at most once per state directory", response losses,
\* kills and concurrent commands included: a second message needs a nonce window
\* that closed before the marker was written.
OneMessagePerReport == \A x \in Results : visible[x] <= 1 + windows[x]

\* The marker is written "only after Discord accepts the message": a report that
\* will never be pushed again has been delivered, and so has one that a command
\* reported as sent.
MarkedIsDelivered ==
    \A x \in Results :
        (x \in marker \/ \E c \in Command : rpResult[c] = x /\ rpPc[c] \in {"sent", "already"})
            => visible[x] >= 1

\* What the cache, the marker and the channel say of a report is true.
ReportsAreHonest ==
    /\ RpTypeOK
    /\ ApprovedIsEvidenced
    /\ OneMessagePerReport
    /\ MarkedIsDelivered

\* An approval concerns the report that is in the cache when it is written.
ApprovalIsOfCurrent == [][approver # NoReport /\ cacheRow' # cacheRow /\ approver' = NoReport
                             => cacheRow'.result = cacheRow.result]_rpVars
=============================================================================
