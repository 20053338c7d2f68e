------------------------------ MODULE Watchlist ------------------------------
(***************************************************************************)
(* The watchlist and its append-only configurations                        *)
(* (internal/watchlist/watchlist.go, internal/httpapi/watchlist.go), edited*)
(* by concurrent requests and commands while the wheel runner reads them.  *)
(*                                                                         *)
(* Parameters are a small set of canonical values.  A transaction of       *)
(* Upsert becomes visible at its commit; its lock is held from the read of *)
(* the version to the commit.                                              *)
(***************************************************************************)
EXTENDS Integers

CONSTANTS
    WlSymbol,     \* symbols
    Params,       \* canonical parameter sets
    Editor,       \* concurrent requests, each one PUT
    MaxVersion,   \* bound on the versions of a symbol
    NoItem        \* no row


VARIABLES
    wheelConfigs,  \* wheel_configs: rows [symbol, version, params]
    watch,         \* watchlist: symbol -> [strategy, params, version, status] or NoItem
    wlLock,        \* pg_advisory_xact_lock of a symbol: its holder or NoItem
    edPc,          \* editor -> control point
    edReq,         \* editor -> the validated request and the version it will store
    wlRun          \* the runner: what it is about to evaluate or to write back

wlVars == <<wheelConfigs, watch, wlLock, edPc, edReq, wlRun>>

Strategy == {"wheel", "llm"}
Row == [strategy : Strategy, params : Params, version : Nat, status : {"READY", "DATA_BLOCKED"}]

ASSUME WatchlistAssumption ==
    /\ MaxVersion \in Nat \ {0} /\ Params # {}
    /\ NoItem \notin Editor \cup Row

Idle == [pc |-> "idle"]

Versions(s) == {c.version : c \in {d \in wheelConfigs : d.symbol = s}}
NewestVersion(s) ==
    IF Versions(s) = {} THEN 0
    ELSE CHOOSE v \in Versions(s) : \A u \in Versions(s) : u <= v

\* A row of the llm strategy, which only somebody with access to the database
\* can have entered (see Storable).
LlmRow == [strategy |-> "llm", params |-> CHOOSE p \in Params : TRUE, version |-> 0,
           status |-> "DATA_BLOCKED"]

WlTypeOK ==
    /\ \A c \in wheelConfigs :
          c.symbol \in WlSymbol /\ c.version \in 1 .. MaxVersion /\ c.params \in Params
    /\ \A s \in WlSymbol :
          watch[s] # NoItem => /\ watch[s].strategy \in Strategy
                               /\ watch[s].status \in {"READY", "DATA_BLOCKED"}
    /\ wlLock \in [WlSymbol -> Editor \cup {NoItem}]
    /\ edPc \in [Editor -> {"start", "lock", "write", "done", "failed", "conflict"}]

WlInit ==
    /\ wheelConfigs = {}
    /\ watch \in [WlSymbol -> {NoItem, LlmRow}]
    /\ wlLock = [s \in WlSymbol |-> NoItem]
    /\ edPc = [e \in Editor |-> "start"]
    /\ edReq = [e \in Editor |-> NoItem]
    /\ wlRun = Idle

-----------------------------------------------------------------------------
(* Upsert *)

EdGoto(e, label) == edPc' = [edPc EXCEPT ![e] = label]

\* The parameters Validate accepts for a strategy and CanonicalParams, which
\* knows only those of the wheel, accepts as well: none but the wheel's, since
\* those of llm lack the required max_inventory.
Storable(strategy) == strategy = "wheel"

\* The request was validated and its parameters made canonical, or refused.
PutRequest(e, s, strategy, p) ==
    /\ edPc[e] = "start"
    /\ \/ /\ Storable(strategy)
          /\ edReq' = [edReq EXCEPT ![e] =
                         [symbol |-> s, strategy |-> strategy, params |-> p, version |-> 0]]
          /\ EdGoto(e, "lock")
       \/ ~Storable(strategy) /\ EdGoto(e, "failed") /\ UNCHANGED edReq
    /\ UNCHANGED <<wheelConfigs, watch, wlLock, wlRun>>

\* Mutant: two transactions read the newest version side by side.
UpsertReadUnlocked(e) ==
    /\ edPc[e] = "lock"
    /\ edReq' = [edReq EXCEPT ![e].version =
                   IF @ = 0 /\ edReq[e].strategy = "wheel"
                   THEN NewestVersion(edReq[e].symbol) + 1 ELSE 0]
    /\ EdGoto(e, "write")
    /\ UNCHANGED <<wheelConfigs, watch, wlLock, wlRun>>

\* The transaction takes the lock of the symbol and reads the next version; a
\* strategy other than wheel has none.  Or the database fails.
UpsertRead(e) ==
    LET s == edReq[e].symbol
    IN  /\ edPc[e] = "lock"
        /\ \/ /\ wlLock[s] = NoItem /\ NewestVersion(s) < MaxVersion
              /\ wlLock' = [wlLock EXCEPT ![s] = e]
              /\ edReq' = [edReq EXCEPT ![e].version =
                             IF edReq[e].strategy = "wheel" THEN NewestVersion(s) + 1 ELSE 0]
              /\ EdGoto(e, "write")
           \/ EdGoto(e, "failed") /\ UNCHANGED <<edReq, wlLock>>
        /\ UNCHANGED <<wheelConfigs, watch, wlRun>>

\* Mutant: the row of the watchlist keeps the version it had.
RowForgetsVersion(req) ==
    [strategy |-> req.strategy, params |-> req.params, status |-> "DATA_BLOCKED",
     version  |-> IF watch[req.symbol] = NoItem THEN req.version ELSE watch[req.symbol].version]

\* The row INSERT ... ON CONFLICT DO UPDATE leaves: blocked until evaluated.
RowOf(req) ==
    [strategy |-> req.strategy, params |-> req.params, status |-> "DATA_BLOCKED",
     version  |-> req.version]

\* The configuration and the row are written and committed together; the
\* unique key of wheel_configs refuses a version that is there already.
UpsertCommit(e) ==
    LET req == edReq[e]
        s   == req.symbol
    IN  /\ edPc[e] = "write"
        /\ \/ /\ req.version # 0 => req.version \notin Versions(s)
              /\ wheelConfigs' = wheelConfigs \cup
                    (IF req.version = 0 THEN {}
                     ELSE {[symbol |-> s, version |-> req.version, params |-> req.params]})
              /\ watch' = [watch EXCEPT ![s] = RowOf(req)]
              /\ EdGoto(e, "done")
           \/ /\ req.version \in Versions(s)
              /\ EdGoto(e, "conflict") /\ UNCHANGED <<wheelConfigs, watch>>
           \/ EdGoto(e, "failed") /\ UNCHANGED <<wheelConfigs, watch>>
        /\ wlLock' = [wlLock EXCEPT ![s] = IF @ = e THEN NoItem ELSE @]
        /\ edReq' = [edReq EXCEPT ![e] = NoItem]
        /\ UNCHANGED wlRun

\* DELETE: the row goes, its configurations stay.
DeleteItem(s) ==
    /\ watch[s] # NoItem
    /\ watch' = [watch EXCEPT ![s] = NoItem]
    /\ UNCHANGED <<wheelConfigs, wlLock, edPc, edReq, wlRun>>

-----------------------------------------------------------------------------
(* The runner *)

\* List: the wheel bindings of this pass.
ListBindings ==
    /\ wlRun.pc = "idle"
    /\ \E s \in WlSymbol :
          /\ watch[s] # NoItem /\ watch[s].strategy = "wheel"
          /\ wlRun' = [pc |-> "config", symbol |-> s]
    /\ UNCHANGED <<wheelConfigs, watch, wlLock, edPc, edReq>>

\* Mutant: the configuration that was added first is used.
RunVersionFirst(s) == IF Versions(s) = {} THEN 0 ELSE 1

\* The version runSymbol evaluates with: LatestConfig, not the row's.
RunVersion(s) == NewestVersion(s)

\* LatestConfig, the evaluation and AppendSignal; a failure ends the pass.
EvaluateBinding ==
    /\ wlRun.pc = "config"
    /\ \/ \E status \in {"READY", "DATA_BLOCKED"} :
             wlRun' = [pc |-> "status", symbol |-> wlRun.symbol,
                       version |-> RunVersion(wlRun.symbol), status |-> status]
       \/ wlRun' = Idle
    /\ UNCHANGED <<wheelConfigs, watch, wlLock, edPc, edReq>>

\* SetExecutionStatus: an update of whatever row the symbol has by then.
SetExecutionStatus ==
    /\ wlRun.pc = "status"
    /\ \/ /\ watch[wlRun.symbol] # NoItem
          /\ watch' = [watch EXCEPT ![wlRun.symbol].status = wlRun.status]
       \/ UNCHANGED watch
    /\ wlRun' = Idle
    /\ UNCHANGED <<wheelConfigs, wlLock, edPc, edReq>>

WlNext ==
    \/ \E e \in Editor :
          \/ \E s \in WlSymbol, t \in Strategy, p \in Params : PutRequest(e, s, t, p)
          \/ UpsertRead(e) \/ UpsertCommit(e)
    \/ \E s \in WlSymbol : DeleteItem(s)
    \/ ListBindings \/ EvaluateBinding \/ SetExecutionStatus

WlSpec == WlInit /\ [][WlNext]_wlVars

-----------------------------------------------------------------------------
(* Properties *)

\* "A symbol-scoped transaction lock makes version allocation serial even when
\* two writers race to create the first row": no valid PUT is refused because
\* another one was given the same version.
NoVersionConflict == \A e \in Editor : edPc[e] # "conflict"

\* A wheel row points at the newest configuration of its symbol, and that
\* configuration holds the row's parameters: the runner, which takes the newest
\* one, evaluates what the watchlist shows, also after a symbol was removed and
\* added again or given to another strategy in between.
RowIsNewestConfig ==
    \A s \in WlSymbol :
        (watch[s] # NoItem /\ watch[s].strategy = "wheel") =>
            [symbol |-> s, version |-> NewestVersion(s), params |-> watch[s].params] \in wheelConfigs
              /\ watch[s].version = NewestVersion(s)

\* The runner reads the list and, later, the newest configuration: if the row
\* is still a wheel row by then, what it evaluates with are the parameters that
\* row shows, not those of an edit it has missed.
EvaluatesWhatIsShown ==
    [][(wlRun.pc = "config" /\ wlRun'.pc = "status") =>
          LET row == watch[wlRun.symbol]
          IN  (row # NoItem /\ row.strategy = "wheel") =>
                [symbol |-> wlRun.symbol, version |-> wlRun'.version, params |-> row.params]
                    \in wheelConfigs]_wlVars

\* What is edited, shown and evaluated is the same configuration, whoever edits.
WatchlistIsConsistent ==
    /\ [](WlTypeOK /\ NoVersionConflict /\ RowIsNewestConfig)
    /\ EvaluatesWhatIsShown
=============================================================================
