--------------------------- MODULE ServicesProofs ---------------------------
(***************************************************************************)
(* Proofs about the services around the trading core: the configuration    *)
(* file, the migrations of the schema, the watchlist, the two backfills,   *)
(* the pass of the llm strategy, the registry of agents, the daily data    *)
(* check and the parameters of the wheel.                                  *)
(* They share no state; each has an inductive invariant of its own.        *)
(***************************************************************************)
EXTENDS ConfigStore, Migrations, Watchlist, TencentBackfill, HkexBackfill, AgentPass, Registry,
        DataCheck, StrategyConfig, SequenceTheorems, WellFoundedInduction, TLAPS

-----------------------------------------------------------------------------
(* The configuration file *)

Saving(c) == cfPc[c] \in {"write", "sync", "rename"}
OneStore  == \A c, d \in Caller : storeOf[c] = storeOf[d]
Changed(c) == [file EXCEPT ![cfArg[c][1]] = cfArg[c][2]]

\* A save holds the mutex of its Store from the load to the rename, and what it
\* is about to rename is the file of now with its key changed, if nobody else
\* uses another Store; so a rename undoes nothing.
CfInv ==
    /\ CfTypeOK
    /\ file \in Content /\ cfSeen \in [Caller -> Content]
    /\ cfMem \in [Caller -> Content] /\ cfArg \in [Caller -> {<<>>} \cup (Key \X Value)]
    /\ tmp \in [Caller -> Content \cup {Torn, Unset}]
    /\ \A c \in Caller : cfPc[c] = "lock" \/ Saving(c) => cfArg[c] \in Key \X Value
    /\ \A c \in Caller : Saving(c) => mutex[storeOf[c]] = c
    /\ \A c \in Caller : cfPc[c] = "rename" => tmp[c] = cfMem[c]
    /\ OneStore => /\ file = acked
                   /\ \A c \in Caller : Saving(c) => cfMem[c] = Changed(c)

\* Every step of a caller, and every kill, preserves it.
LEMMA CfInvStep == CfInv /\ [CfNext]_cfVars => CfInv'
<1> SUFFICES ASSUME CfInv, [CfNext]_cfVars PROVE CfInv'
  OBVIOUS
<1> USE ConfigAssumption DEF CfInv, CfTypeOK, Saving, OneStore, Changed, CfGoto
<1>1. ASSUME NEW c \in Caller, NEW k \in Key, NEW v \in Value, CallSet(c, k, v) PROVE CfInv'
  BY <1>1 DEF CallSet
<1>2. ASSUME NEW c \in Caller, Lookup(c) PROVE CfInv'
  BY <1>2 DEF Lookup
<1>3. ASSUME NEW c \in Caller, Load(c) PROVE CfInv'
  <2>1. Changed(c) \in Content
    BY <1>3 DEF Load, Content
  <2>2. /\ mutex' = [mutex EXCEPT ![storeOf[c]] = c] /\ mutex[storeOf[c]] = Unset
        /\ cfMem' = [cfMem EXCEPT ![c] = Changed(c)] /\ cfPc' = [cfPc EXCEPT ![c] = "write"]
        /\ UNCHANGED <<storeOf, file, cfArg, tmp, cfSeen, acked>> /\ cfArg[c] \in Key \X Value
    BY <1>3 DEF Load
  <2>3. \A d \in Caller : Saving(d)' => mutex'[storeOf'[d]] = d
    BY <2>2
  <2>4. \A d \in Caller : cfPc'[d] = "rename" => tmp'[d] = cfMem'[d]
    BY <2>2
  <2>5. ASSUME OneStore
        PROVE  file' = acked' /\ \A d \in Caller : Saving(d)' => cfMem'[d] = Changed(d)'
    <3>1. \A d \in Caller \ {c} : ~Saving(d) /\ ~Saving(d)'
      BY <2>2, <2>5
    <3>2. cfMem'[c] = Changed(c) /\ Changed(c)' = Changed(c)
      BY <2>2
    <3>3. file' = acked'
      BY <2>2, <2>5
    <3> QED
      BY <3>1, <3>2, <3>3
  <2>6. cfMem' \in [Caller -> Content] /\ CfTypeOK' /\ (OneStore' <=> OneStore)
    BY <2>1, <2>2
  <2>7. \A d \in Caller : cfPc'[d] = "lock" \/ Saving(d)' => cfArg'[d] \in Key \X Value
    BY <2>2
  <2>8. /\ file' \in Content /\ cfSeen' \in [Caller -> Content]
        /\ cfArg' \in [Caller -> {<<>>} \cup (Key \X Value)]
        /\ tmp' \in [Caller -> Content \cup {Torn, Unset}]
    BY <2>2
  <2>9. OneStore' => file' = acked' /\ \A d \in Caller : Saving(d)' => cfMem'[d] = Changed(d)'
    BY <2>5, <2>6, Zenon
  <2> HIDE DEF CfTypeOK, Saving, OneStore, Changed
  <2> QED
    BY <2>3, <2>4, <2>6, <2>7, <2>8, <2>9, Zenon
<1>4. ASSUME NEW c \in Caller, WriteTemp(c) PROVE CfInv'
  BY <1>4 DEF WriteTemp
<1>5. ASSUME NEW c \in Caller, SyncTemp(c) PROVE CfInv'
  BY <1>5 DEF SyncTemp
<1>6. ASSUME NEW c \in Caller, Rename(c) PROVE CfInv'
  <2>1. cfMem[c] \in Content /\ tmp[c] = cfMem[c] /\ file' = cfMem[c] /\ cfArg[c] \in Key \X Value
    BY <1>6 DEF Rename
  <2>2. acked' \in Content
    BY <1>6, <2>1 DEF Rename, Content
  <2>3. \A d \in Caller : Saving(d)' => Saving(d) /\ d # c
    BY <1>6 DEF Rename
  <2>4. OneStore => \A d \in Caller : ~Saving(d)'
    BY <1>6, <2>3 DEF Rename
  <2>5. OneStore => file' = acked'
    BY <1>6, <2>1 DEF Rename
  <2>6. \A d \in Caller : Saving(d)' => mutex'[storeOf[d]] = d
    BY <1>6, <2>3 DEF Rename, Unlock
  <2>7. CfTypeOK'
    BY <1>6, <2>1, <2>2 DEF Rename, Unlock
  <2> QED
    BY <1>6, <2>1, <2>2, <2>4, <2>5, <2>6, <2>7 DEF Rename
<1>7. ASSUME NEW c \in Caller, SaveFails(c) PROVE CfInv'
  BY <1>7 DEF SaveFails, Unlock
<1>8. ASSUME NEW s \in Stores, KillStore(s) PROVE CfInv'
  BY <1>8 DEF KillStore
<1>9. CASE UNCHANGED cfVars
  BY <1>9 DEF cfVars
<1> QED
  BY <1>1, <1>2, <1>3, <1>4, <1>5, <1>6, <1>7, <1>8, <1>9 DEF CfNext

\* Store.Set: whoever is killed and whatever fails, a reader finds a complete
\* file, and within one Store the file holds every write that was acknowledged.
THEOREM ConfigFileSafe == CfSpec => []ConfigFileIsSafe
<1>1. CfInit => CfInv
  <2> SUFFICES ASSUME CfInit PROVE CfInv
    OBVIOUS
  <2>1. Empty \in Content
    BY DEF Empty, Content
  <2> QED
    BY <2>1 DEF CfInit, CfInv, CfTypeOK, Saving, OneStore, Changed
<1>2. CfInv => ConfigFileIsSafe
  BY ConfigAssumption DEF CfInv, ConfigFileIsSafe, NeverTorn, NoLostUpdate, OneStore
<1> QED
  BY <1>1, <1>2, CfInvStep, PTL DEF CfSpec

-----------------------------------------------------------------------------
(* The migrations *)

\* A migrator has behind it only migrations that are recorded, and a record is
\* committed with what it records.
MgInv ==
    /\ MgTypeOK
    /\ applied \subseteq objects
    /\ \A m \in Migrator :
          /\ mgAt[m] \in 1 .. LastMigration + 1
          /\ mgPc[m] = "apply" => mgAt[m] \in Migration
          /\ mgPc[m] = "done" => mgAt[m] \notin Migration
          /\ \A k \in Migration : k < mgAt[m] => k \in applied

\* Every step of a migrator preserves it, the one of a migrator that lost the
\* race for a migration included.
LEMMA MgInvStep == MgInv /\ [MgNext]_mgVars => MgInv'
<1> SUFFICES ASSUME MgInv, [MgNext]_mgVars PROVE MgInv'
  OBVIOUS
<1> USE MigrationsAssumption DEF MgInv, MgTypeOK, Migration, MgGoto
<1>1. ASSUME NEW m \in Migrator, CheckApplied(m) PROVE MgInv'
  BY <1>1 DEF CheckApplied
<1>2. ASSUME NEW m \in Migrator, ApplyMigration(m) PROVE MgInv'
  <2>1. mgAt[m] \in Migration /\ mgAt' = [mgAt EXCEPT ![m] = mgAt[m] + 1]
    BY <1>2 DEF ApplyMigration
  <2>2. MgTypeOK' /\ applied' \subseteq objects'
    <3>1. applied' \subseteq Migration /\ objects' \subseteq Migration /\ applied' \subseteq objects'
      BY <1>2, <2>1 DEF ApplyMigration
    <3>2. vocabulary' \in {0} \cup Redefines
      BY <1>2 DEF ApplyMigration
    <3>3. mgPc' \in [Migrator -> {"check", "apply", "done", "failed"}] /\ mgAt' \in [Migrator -> Nat]
      BY <1>2, <2>1 DEF ApplyMigration
    <3> QED
      BY <3>1, <3>2, <3>3
  <2>3. \A n \in Migrator : /\ n # m => mgAt'[n] = mgAt[n] /\ mgPc'[n] = mgPc[n]
                            /\ n = m => mgAt'[n] = mgAt[n] + 1 /\ mgPc'[n] = "check"
    BY <1>2, <2>1 DEF ApplyMigration
  <2>4. applied' = applied \cup {mgAt[m]}
    BY <1>2 DEF ApplyMigration
  <2>5. ASSUME NEW n \in Migrator
        PROVE  /\ mgAt'[n] \in 1 .. LastMigration + 1
               /\ mgPc'[n] = "apply" => mgAt'[n] \in Migration
               /\ mgPc'[n] = "done" => mgAt'[n] \notin Migration
    BY <2>1, <2>3
  <2>6. ASSUME NEW n \in Migrator, NEW k \in Migration, k < mgAt'[n] PROVE k \in applied'
    <3>1. CASE n = m
      BY <2>1, <2>3, <2>4, <2>6, <3>1
    <3>2. CASE n # m
      BY <2>3, <2>4, <2>6, <3>2
    <3> QED
      BY <3>1, <3>2
  <2> QED
    BY <2>2, <2>5, <2>6
<1>3. ASSUME NEW m \in Migrator, MigrateFails(m) PROVE MgInv'
  BY <1>3 DEF MigrateFails
<1>4. ASSUME NEW m \in Migrator, MigrateDone(m) PROVE MgInv'
  BY <1>4 DEF MigrateDone
<1>5. ASSUME NEW m \in Migrator, MigrateAgain(m) PROVE MgInv'
  BY <1>5 DEF MigrateAgain
<1>6. CASE UNCHANGED mgVars
  BY <1>6 DEF mgVars
<1> QED
  BY <1>1, <1>2, <1>3, <1>4, <1>5, <1>6 DEF MgNext

\* MigrateUp: however migrators race, fail and start again, a recorded migration
\* has taken effect and a command that gets past MigrateUp finds them all.
THEOREM SchemaReady == MgSpec => []SchemaIsReady
<1>1. MgInit => MgInv
  BY MigrationsAssumption DEF MgInit, MgInv, MgTypeOK, Migration
<1>2. MgInv => SchemaIsReady
  <2> SUFFICES ASSUME MgInv, NEW m \in Migrator, mgPc[m] = "done" PROVE objects = Migration
    BY DEF MgInv, SchemaIsReady, DoneIsMigrated
  <2>1. \A k \in Migration : k < mgAt[m]
    BY MigrationsAssumption DEF MgInv, Migration
  <2> QED
    BY <2>1 DEF MgInv, MgTypeOK
<1> QED
  BY <1>1, <1>2, MgInvStep, PTL DEF MgSpec

-----------------------------------------------------------------------------
(* The watchlist *)

Config == [symbol : WlSymbol, version : 1 .. MaxVersion, params : Params]
Put    == [symbol : WlSymbol, strategy : {"wheel"}, params : Params, version : 0 .. MaxVersion]
Runner == {Idle} \cup [pc : {"config"}, symbol : WlSymbol]
            \cup [pc : {"status"}, symbol : WlSymbol, version : Nat,
                  status : {"READY", "DATA_BLOCKED"}]

WheelRow(s) == watch[s] # NoItem /\ watch[s].strategy = "wheel"

\* The versions of a symbol have no gap, a writer that has read the newest one
\* holds the lock of its symbol and is about to store the next, and a wheel row
\* is the newest configuration.
WlInv ==
    /\ wheelConfigs \subseteq Config
    /\ watch \in [WlSymbol -> Row \cup {NoItem}]
    /\ wlLock \in [WlSymbol -> Editor \cup {NoItem}]
    /\ edPc \in [Editor -> {"start", "lock", "write", "done", "failed"}]
    /\ edReq \in [Editor -> Put \cup {NoItem}]
    /\ wlRun \in Runner
    /\ \A s \in WlSymbol : NewestVersion(s) \in 0 .. MaxVersion
                           /\ Versions(s) = 1 .. NewestVersion(s)
    /\ \A e \in Editor : edPc[e] \in {"lock", "write"} => edReq[e] \in Put
    /\ \A e \in Editor, s \in WlSymbol : edPc[e] = "write" /\ edReq[e].symbol = s =>
          wlLock[s] = e /\ edReq[e].version = NewestVersion(s) + 1
    /\ \A s \in WlSymbol : WheelRow(s) =>
          /\ watch[s].version = NewestVersion(s)
          /\ [symbol |-> s, version |-> watch[s].version, params |-> watch[s].params]
                \in wheelConfigs

\* The newest of versions without a gap is the last.
LEMMA NewestOfRange ==
    ASSUME NEW s, NEW n \in Nat, Versions(s) = 1 .. n
    PROVE  NewestVersion(s) = n
<1>1. CASE n = 0
  BY <1>1 DEF NewestVersion
<1>2. CASE n # 0
  <2>1. n \in Versions(s) /\ \A u \in Versions(s) : u <= n
    BY <1>2
  <2>2. \A v \in Versions(s) : (\A u \in Versions(s) : u <= v) => v = n
    BY <2>1
  <2> QED
    BY <2>1, <2>2 DEF NewestVersion
<1> QED
  BY <1>1, <1>2

\* A step that leaves the configurations alone leaves the versions alone.
LEMMA VersionsKept ==
    ASSUME UNCHANGED wheelConfigs
    PROVE  \A s : Versions(s)' = Versions(s) /\ NewestVersion(s)' = NewestVersion(s)
BY DEF Versions, NewestVersion

\* The commit of the next version extends the versions of its symbol by one.
LEMMA VersionsExtended ==
    ASSUME WlInv, NEW s \in WlSymbol, NEW p \in Params, NEW v \in 1 .. MaxVersion,
           v = NewestVersion(s) + 1,
           wheelConfigs' = wheelConfigs \cup {[symbol |-> s, version |-> v, params |-> p]}
    PROVE  /\ Versions(s)' = 1 .. v /\ NewestVersion(s)' = v
           /\ \A u \in WlSymbol \ {s} : Versions(u)' = Versions(u)
                                         /\ NewestVersion(u)' = NewestVersion(u)
<1> DEFINE c == [symbol |-> s, version |-> v, params |-> p]
<1>1. c.symbol = s /\ c.version = v
  OBVIOUS
<1>2. wheelConfigs' = wheelConfigs \cup {c}
  OBVIOUS
<1> HIDE DEF c
<1>3. Versions(s)' = Versions(s) \cup {v}
  BY <1>1, <1>2 DEF Versions
<1>4. \A u \in WlSymbol \ {s} : Versions(u)' = Versions(u)
  BY <1>1, <1>2 DEF Versions
<1>5. Versions(s)' = 1 .. v
  <2>1. Versions(s) = 1 .. NewestVersion(s) /\ NewestVersion(s) \in Nat
    BY WatchlistAssumption DEF WlInv
  <2> QED
    BY <1>3, <2>1
<1>6. NewestVersion(s)' = v
  <2>1. v \in Versions(s)' /\ \A u \in Versions(s)' : u <= v
    BY <1>5
  <2>2. \A w \in Versions(s)' : (\A u \in Versions(s)' : u <= w) => w = v
    BY <1>5, <2>1
  <2> QED
    BY <2>1, <2>2 DEF NewestVersion
<1>7. \A u \in WlSymbol \ {s} : NewestVersion(u)' = NewestVersion(u)
  <2> SUFFICES ASSUME NEW u \in WlSymbol \ {s} PROVE NewestVersion(u)' = NewestVersion(u)
    OBVIOUS
  <2> PICK n \in Nat : n = NewestVersion(u)
    BY WatchlistAssumption DEF WlInv
  <2>1. Versions(u)' = 1 .. n
    BY <1>4 DEF WlInv
  <2>2. CASE n = 0
    <3>1. Versions(u)' = {}
      BY <2>1, <2>2
    <3>2. NewestVersion(u)' = 0
      BY <3>1 DEF NewestVersion
    <3> QED
      BY <2>2, <3>2
  <2>3. CASE n # 0
    <3>1. n \in Versions(u)' /\ \A w \in Versions(u)' : (\A x \in Versions(u)' : x <= w) => w = n
      BY <2>1, <2>3
    <3>2. \A x \in Versions(u)' : x <= n
      BY <2>1
    <3> QED
      BY <3>1, <3>2 DEF NewestVersion
  <2> QED
    BY <2>2, <2>3
<1> QED
  BY <1>4, <1>5, <1>6, <1>7

\* Every step of an editor, of the runner or of a deletion preserves the invariant.
LEMMA WlInvStep == WlInv /\ [WlNext]_wlVars => WlInv'
<1> SUFFICES ASSUME WlInv, [WlNext]_wlVars PROVE WlInv'
  OBVIOUS
<1> USE WatchlistAssumption DEF EdGoto
<1>1. ASSUME NEW e \in Editor, NEW s \in WlSymbol, NEW t \in Strategy, NEW p \in Params,
             PutRequest(e, s, t, p)
      PROVE  WlInv'
  <2>1. \A u : Versions(u)' = Versions(u) /\ NewestVersion(u)' = NewestVersion(u)
    BY <1>1, VersionsKept DEF PutRequest
  <2>2. CASE /\ edReq' = [edReq EXCEPT ![e] =
                            [symbol |-> s, strategy |-> "wheel", params |-> p, version |-> 0]]
             /\ edPc' = [edPc EXCEPT ![e] = "lock"]
    <3>1. [symbol |-> s, strategy |-> "wheel", params |-> p, version |-> 0] \in Put
      BY DEF Put
    <3> QED
      BY <1>1, <2>1, <2>2, <3>1 DEF PutRequest, WlInv, WheelRow
  <2>3. CASE edPc' = [edPc EXCEPT ![e] = "failed"] /\ edReq' = edReq
    BY <1>1, <2>1, <2>3 DEF PutRequest, WlInv, WheelRow
  <2> QED
    BY <1>1, <2>2, <2>3 DEF PutRequest, Storable
<1>2. ASSUME NEW e \in Editor, UpsertRead(e) PROVE WlInv'
  <2>1. \A u : Versions(u)' = Versions(u) /\ NewestVersion(u)' = NewestVersion(u)
    BY <1>2, VersionsKept DEF UpsertRead
  <2>0. edReq[e] \in Put /\ edReq[e].symbol \in WlSymbol /\ edReq[e].strategy = "wheel"
    BY <1>2 DEF UpsertRead, WlInv, Put
  <2> PICK s \in WlSymbol : s = edReq[e].symbol
    BY <2>0
  <2>2. NewestVersion(s) \in 0 .. MaxVersion
    BY DEF WlInv
  <2> PICK n \in Nat : n = NewestVersion(s) + 1
    BY <2>2
  <2>3. CASE /\ wlLock[s] = NoItem /\ NewestVersion(s) < MaxVersion
             /\ wlLock' = [wlLock EXCEPT ![s] = e]
             /\ edReq' = [edReq EXCEPT ![e].version = n]
             /\ edPc' = [edPc EXCEPT ![e] = "write"]
    <3>1. n \in 0 .. MaxVersion
      BY <2>2, <2>3
    <3>2. /\ edReq'[e] \in Put /\ edReq'[e].symbol = s /\ edReq'[e].version = n
          /\ \A f \in Editor \ {e} : edReq'[f] = edReq[f]
          /\ edReq' \in [Editor -> Put \cup {NoItem}]
      <4>1. edReq \in [Editor -> Put \cup {NoItem}]
        BY DEF WlInv
      <4>2. [edReq[e] EXCEPT !.version = n] \in Put
        BY <2>0, <3>1 DEF Put
      <4>3. edReq' = [edReq EXCEPT ![e] = [edReq[e] EXCEPT !.version = n]]
        BY <2>3
      <4>4. /\ edReq'[e] = [edReq[e] EXCEPT !.version = n]
            /\ \A f \in Editor \ {e} : edReq'[f] = edReq[f]
            /\ edReq' \in [Editor -> Put \cup {NoItem}]
        BY <4>1, <4>2, <4>3
      <4> QED
        BY <2>0, <4>2, <4>4 DEF Put
    <3>3. ASSUME NEW f \in Editor, NEW u \in WlSymbol, edPc'[f] = "write", edReq'[f].symbol = u
          PROVE  wlLock'[u] = f /\ edReq'[f].version = NewestVersion(u)' + 1
      <4>1. /\ edPc \in [Editor -> {"start", "lock", "write", "done", "failed"}]
            /\ wlLock \in [WlSymbol -> Editor \cup {NoItem}]
        BY DEF WlInv
      <4>2. CASE f = e
        BY <2>1, <2>3, <3>2, <3>3, <4>1, <4>2
      <4>3. CASE f # e
        <5>1. edPc[f] = "write" /\ edReq[f].symbol = u /\ edReq'[f].version = edReq[f].version
          BY <2>3, <3>2, <3>3, <4>1, <4>3
        <5>2. wlLock[u] = f /\ edReq[f].version = NewestVersion(u) + 1
          BY <5>1 DEF WlInv
        <5>3. wlLock'[u] = wlLock[u]
          BY <2>3, <4>1, <5>2, WatchlistAssumption
        <5> QED
          BY <2>1, <5>1, <5>2, <5>3
      <4> QED
        BY <4>2, <4>3
    <3>4. /\ wlLock' \in [WlSymbol -> Editor \cup {NoItem}]
          /\ edPc' \in [Editor -> {"start", "lock", "write", "done", "failed"}]
      BY <2>3 DEF WlInv
    <3>5. \A f \in Editor : edPc'[f] \in {"lock", "write"} => edReq'[f] \in Put
      BY <2>3, <3>2 DEF WlInv
    <3>6. UNCHANGED <<wheelConfigs, watch, wlRun>>
      BY <1>2 DEF UpsertRead
    <3>7. \A u \in WlSymbol : WheelRow(u)' =>
              /\ watch'[u].version = NewestVersion(u)'
              /\ [symbol |-> u, version |-> watch'[u].version, params |-> watch'[u].params]
                    \in wheelConfigs'
      BY <2>1, <3>6 DEF WlInv, WheelRow
    <3> QED
      BY <2>1, <3>2, <3>3, <3>4, <3>5, <3>6, <3>7 DEF WlInv
  <2>4. CASE edPc' = [edPc EXCEPT ![e] = "failed"] /\ UNCHANGED <<edReq, wlLock>>
    BY <1>2, <2>1, <2>4 DEF UpsertRead, WlInv, WheelRow
  <2> QED
    BY <1>2, <2>0, <2>3, <2>4 DEF UpsertRead
<1>3. ASSUME NEW e \in Editor, UpsertCommit(e) PROVE WlInv'
  <2>0. edReq[e] \in Put /\ edReq[e].symbol \in WlSymbol /\ edReq[e].params \in Params
        /\ edReq[e].version \in 0 .. MaxVersion /\ edReq[e].strategy = "wheel"
    BY <1>3 DEF UpsertCommit, WlInv, Put
  <2> PICK s \in WlSymbol, p \in Params, v \in 0 .. MaxVersion :
              s = edReq[e].symbol /\ p = edReq[e].params /\ v = edReq[e].version
    BY <2>0
  <2>1. wlLock[s] = e /\ v = NewestVersion(s) + 1 /\ v \in 1 .. MaxVersion /\ v \notin Versions(s)
    BY <1>3 DEF UpsertCommit, WlInv
  <2>2. /\ wlLock' = [wlLock EXCEPT ![s] = NoItem] /\ edReq' = [edReq EXCEPT ![e] = NoItem]
        /\ wlRun' = wlRun
    BY <1>3, <2>1 DEF UpsertCommit
  <2>3. \A f \in Editor \ {e}, u \in WlSymbol :
            edPc[f] = "write" /\ edReq[f].symbol = u => u # s
    BY <2>1 DEF WlInv
  <2>4. CASE /\ wheelConfigs' = wheelConfigs \cup {[symbol |-> s, version |-> v, params |-> p]}
             /\ watch' = [watch EXCEPT ![s] = RowOf(edReq[e])]
             /\ edPc' = [edPc EXCEPT ![e] = "done"]
    <3>1. /\ Versions(s)' = 1 .. v /\ NewestVersion(s)' = v
          /\ \A u \in WlSymbol \ {s} : Versions(u)' = Versions(u)
                                        /\ NewestVersion(u)' = NewestVersion(u)
      BY <2>1, <2>4, VersionsExtended
    <3> DEFINE row == RowOf(edReq[e])
               config == [symbol |-> s, version |-> v, params |-> p]
    <3>2. row \in Row /\ row.version = v /\ row.params = p
      BY <2>0, <2>1 DEF RowOf, Row, Strategy
    <3>3. config \in Config
      BY <2>1 DEF Config
    <3>4. /\ wheelConfigs' = wheelConfigs \cup {config} /\ watch' = [watch EXCEPT ![s] = row]
          /\ config = [symbol |-> s, version |-> v, params |-> p]
      BY <2>4
    <3> HIDE DEF row, config
    <3>5. /\ wheelConfigs' \subseteq Config /\ watch' \in [WlSymbol -> Row \cup {NoItem}]
          /\ wlLock' \in [WlSymbol -> Editor \cup {NoItem}]
          /\ edPc' \in [Editor -> {"start", "lock", "write", "done", "failed"}]
          /\ edReq' \in [Editor -> Put \cup {NoItem}] /\ wlRun' \in Runner
      BY <2>2, <2>4, <3>2, <3>3, <3>4 DEF WlInv
    <3>6. \A u \in WlSymbol : NewestVersion(u)' \in 0 .. MaxVersion
                              /\ Versions(u)' = 1 .. NewestVersion(u)'
      BY <3>1 DEF WlInv
    <3>7. \A f \in Editor : edPc'[f] \in {"lock", "write"} => f # e /\ edPc'[f] = edPc[f]
                                                                /\ edReq'[f] = edReq[f]
      BY <2>2, <2>4 DEF WlInv
    <3>8. \A f \in Editor, u \in WlSymbol : edPc'[f] = "write" /\ edReq'[f].symbol = u =>
              wlLock'[u] = f /\ edReq'[f].version = NewestVersion(u)' + 1
      BY <2>2, <2>3, <3>1, <3>7 DEF WlInv
    <3>9. ASSUME NEW u \in WlSymbol, WheelRow(u)'
          PROVE  /\ watch'[u].version = NewestVersion(u)'
                 /\ [symbol |-> u, version |-> watch'[u].version, params |-> watch'[u].params]
                        \in wheelConfigs'
      <4>1. CASE u = s
        <5>1. watch'[u] = row
          BY <3>4, <4>1 DEF WlInv
        <5> QED
          BY <3>1, <3>2, <3>4, <4>1, <5>1
      <4>2. CASE u # s
        <5>1. watch'[u] = watch[u]
          BY <3>4, <4>2 DEF WlInv
        <5>2. WheelRow(u)
          BY <3>9, <5>1 DEF WheelRow
        <5> QED
          BY <3>1, <3>4, <4>2, <5>1, <5>2 DEF WlInv
      <4> QED
        BY <4>1, <4>2
    <3>10. \A f \in Editor : edPc'[f] \in {"lock", "write"} => edReq'[f] \in Put
      BY <3>7 DEF WlInv
    <3> QED
      BY <3>5, <3>6, <3>8, <3>9, <3>10 DEF WlInv
  <2>5. CASE edPc' = [edPc EXCEPT ![e] = "failed"] /\ UNCHANGED <<wheelConfigs, watch>>
    <3>1. \A u : Versions(u)' = Versions(u) /\ NewestVersion(u)' = NewestVersion(u)
      BY <2>5, VersionsKept
    <3> QED
      BY <2>1, <2>2, <2>3, <2>5, <3>1 DEF WlInv, WheelRow
  <2> QED
    BY <1>3, <2>1, <2>4, <2>5 DEF UpsertCommit
<1>4. ASSUME NEW s \in WlSymbol, DeleteItem(s) PROVE WlInv'
  <2>1. \A u : Versions(u)' = Versions(u) /\ NewestVersion(u)' = NewestVersion(u)
    BY <1>4, VersionsKept DEF DeleteItem
  <2> QED
    BY <1>4, <2>1 DEF DeleteItem, WlInv, WheelRow
<1>5. CASE ListBindings
  <2>1. \A u : Versions(u)' = Versions(u) /\ NewestVersion(u)' = NewestVersion(u)
    BY <1>5, VersionsKept DEF ListBindings
  <2>2. wlRun' \in Runner
    BY <1>5 DEF ListBindings, Runner
  <2> QED
    BY <1>5, <2>1, <2>2 DEF ListBindings, WlInv, WheelRow
<1>6. CASE EvaluateBinding
  <2>1. \A u : Versions(u)' = Versions(u) /\ NewestVersion(u)' = NewestVersion(u)
    BY <1>6, VersionsKept DEF EvaluateBinding
  <2>2. wlRun.symbol \in WlSymbol
    BY <1>6 DEF EvaluateBinding, WlInv, Runner, Idle
  <2>3. RunVersion(wlRun.symbol) \in Nat
    BY <2>2 DEF RunVersion, WlInv
  <2>4. wlRun' \in Runner
    BY <1>6, <2>2, <2>3 DEF EvaluateBinding, Runner
  <2> QED
    BY <1>6, <2>1, <2>4 DEF EvaluateBinding, WlInv, WheelRow
<1>7. CASE SetExecutionStatus
  <2>1. \A u : Versions(u)' = Versions(u) /\ NewestVersion(u)' = NewestVersion(u)
    BY <1>7, VersionsKept DEF SetExecutionStatus
  <2>2. wlRun.symbol \in WlSymbol /\ wlRun.status \in {"READY", "DATA_BLOCKED"}
    BY <1>7 DEF SetExecutionStatus, WlInv, Runner, Idle
  <2>3. wlRun' \in Runner
    BY <1>7 DEF SetExecutionStatus, Runner
  <2>4. CASE watch' = watch
    BY <1>7, <2>1, <2>3, <2>4 DEF SetExecutionStatus, WlInv, WheelRow
  <2>5. CASE /\ watch[wlRun.symbol] # NoItem
             /\ watch' = [watch EXCEPT ![wlRun.symbol].status = wlRun.status]
    <3> DEFINE old == watch[wlRun.symbol]
               new == [old EXCEPT !.status = wlRun.status]
    <3>a. old \in Row
      BY <2>2, <2>5 DEF WlInv
    <3>b. /\ new \in Row /\ new.strategy = old.strategy /\ new.version = old.version
          /\ new.params = old.params
      BY <2>2, <3>a DEF Row
    <3>c. watch' = [watch EXCEPT ![wlRun.symbol] = new]
      BY <2>5
    <3> HIDE DEF new
    <3>1. /\ watch' \in [WlSymbol -> Row \cup {NoItem}]
          /\ \A u \in WlSymbol : WheelRow(u)' => WheelRow(u)
                /\ watch'[u].version = watch[u].version /\ watch'[u].params = watch[u].params
      BY <2>2, <2>5, <3>b, <3>c DEF WlInv, WheelRow
    <3> QED
      BY <1>7, <2>1, <2>3, <3>1 DEF SetExecutionStatus, WlInv
  <2> QED
    BY <1>7, <2>4, <2>5 DEF SetExecutionStatus
<1>8. CASE UNCHANGED wlVars
  <2>1. \A u : Versions(u)' = Versions(u) /\ NewestVersion(u)' = NewestVersion(u)
    BY <1>8, VersionsKept DEF wlVars
  <2> QED
    BY <1>8, <2>1 DEF wlVars, WlInv, WheelRow
<1> QED
  BY <1>1, <1>2, <1>3, <1>4, <1>5, <1>6, <1>7, <1>8 DEF WlNext

\* Upsert's lock and the runner: whoever edits, deletes or evaluates, no two writers
\* are given the same version, a wheel row shows the newest configuration, and what
\* the runner evaluates with is what the row shows.
THEOREM WatchlistConsistent == WlSpec => WatchlistIsConsistent
<1>1. WlInit => WlInv
  <2> SUFFICES ASSUME WlInit PROVE WlInv
    OBVIOUS
  <2>1. LlmRow \in Row /\ LlmRow.strategy # "wheel"
    BY WatchlistAssumption DEF LlmRow, Row, Strategy
  <2>2. \A s : Versions(s) = 1 .. 0
    BY DEF WlInit, Versions
  <2>3. \A s : NewestVersion(s) = 0
    BY <2>2, NewestOfRange
  <2>4. watch \in [WlSymbol -> Row \cup {NoItem}] /\ \A s \in WlSymbol : ~WheelRow(s)
    BY <2>1 DEF WlInit, WheelRow
  <2> QED
    BY <2>2, <2>3, <2>4, WatchlistAssumption DEF WlInit, WlInv, Runner
<1>2. WlInv => WlTypeOK /\ NoVersionConflict /\ RowIsNewestConfig
  <2> SUFFICES ASSUME WlInv PROVE WlTypeOK /\ NoVersionConflict /\ RowIsNewestConfig
    OBVIOUS
  <2>1. WlTypeOK
    BY DEF WlInv, WlTypeOK, Config, Row
  <2>2. NoVersionConflict
    BY DEF WlInv, NoVersionConflict
  <2>3. RowIsNewestConfig
    BY DEF WlInv, RowIsNewestConfig, WheelRow
  <2> QED
    BY <2>1, <2>2, <2>3
<1>3. WlInv /\ [WlNext]_wlVars =>
        [(wlRun.pc = "config" /\ wlRun'.pc = "status") =>
            LET row == watch[wlRun.symbol]
            IN  (row # NoItem /\ row.strategy = "wheel") =>
                  [symbol |-> wlRun.symbol, version |-> wlRun'.version, params |-> row.params]
                      \in wheelConfigs]_wlVars
  <2> SUFFICES ASSUME WlInv, [WlNext]_wlVars, wlRun.pc = "config", wlRun'.pc = "status",
                      watch[wlRun.symbol] # NoItem, watch[wlRun.symbol].strategy = "wheel"
               PROVE  [symbol |-> wlRun.symbol, version |-> wlRun'.version,
                       params |-> watch[wlRun.symbol].params] \in wheelConfigs
    OBVIOUS
  <2>1. wlRun' # wlRun
    OBVIOUS
  <2>2. EvaluateBinding
    BY <2>1 DEF WlNext, wlVars, PutRequest, UpsertRead, UpsertCommit, DeleteItem, ListBindings,
                SetExecutionStatus
  <2>3. wlRun'.version = NewestVersion(wlRun.symbol)
    BY <2>2 DEF EvaluateBinding, RunVersion, Idle
  <2>4. wlRun.symbol \in WlSymbol
    BY DEF WlInv, Runner, Idle
  <2> QED
    BY <2>3, <2>4 DEF WlInv, WheelRow
<1> QED
  BY <1>1, <1>2, <1>3, WlInvStep, PTL DEF WlSpec, WatchlistIsConsistent, EvaluatesWhatIsShown

-----------------------------------------------------------------------------
(* The daily bars *)

Response == UNION {[D -> {"final", "partial"}] : D \in SUBSET TbDay}

\* A response is what the provider served when it was read, at most one slot ago
\* until it is filtered; what is left of it holds no partial row of a home market
\* and every complete date before the one it was read on.
Fetched(m) ==
    /\ readAt[m] <= tbNow /\ tbNow <= readAt[m] + 1
    /\ Started(m, readAt[m]) # {}
    /\ rows[m] = [d \in Served(m, readAt[m]) |->
                    IF d \in Complete(m, readAt[m]) THEN "final" ELSE "partial"]

Filtered(m) ==
    /\ m # "US" => \A d \in DOMAIN rows[m] : rows[m][d] = "final"
    /\ \A d \in Complete(m, readAt[m]) \cap Served(m, readAt[m]) :
          d < readAt[m] \div 3 => d \in DOMAIN rows[m]

TbInv ==
    /\ TbTypeOK /\ rows \in [TbMarket -> Response] /\ failures \in [TbMarket -> BOOLEAN]
    /\ \A m \in TbMarket : tbPc[m] = "get" => tbAttempt[m] < MaxAttempts
    /\ \A m \in TbMarket : tbPc[m] = "filter" => Fetched(m)
    /\ \A m \in TbMarket : tbPc[m] = "insert" => Filtered(m)
    /\ HomeBarsAreFinal
    /\ SucceededHasCompleteDays

\* The newest row served is the one of the last session that has begun.
LEMMA NewestServed ==
    ASSUME NEW m \in TbMarket, NEW t \in TbTime, Started(m, t) # {}
    PROVE  LET last == IF m = "US" THEN (t - 2) \div 3 ELSE (t - 1) \div 3
           IN  last \in Served(m, t) /\ Newest(Served(m, t)) = last
<1> DEFINE last == IF m = "US" THEN (t - 2) \div 3 ELSE (t - 1) \div 3
<1> USE TencentAssumption DEF TbDay, TbTime, Started, Opens
<1>1. last \in Started(m, t) /\ \A e \in Started(m, t) : e <= last
  <2>1. CASE m = "US"
    <3>1. t >= 2
      BY <2>1
    <3> QED
      BY <2>1, <3>1
  <2>2. CASE m # "US"
    <3>1. t >= 1
      BY <2>2
    <3> QED
      BY <2>2, <3>1
  <2> QED
    BY <2>1, <2>2
<1>2. Served(m, t) \subseteq Started(m, t)
  BY DEF Served
<1>3. \A d \in Started(m, t) : d \in Int
  OBVIOUS
<1> HIDE DEF last, Started, TbDay, TbTime, Opens
<1>4. last \in Served(m, t)
  BY <1>1, <1>3 DEF Served
<1>5. \A d \in Served(m, t) : (\A e \in Served(m, t) : e <= d) => d = last
  BY <1>1, <1>2, <1>3, <1>4
<1>6. Newest(Served(m, t)) = last
  BY <1>1, <1>2, <1>4, <1>5 DEF Newest
<1> QED
  BY <1>4, <1>6 DEF last

\* filterTencentFormingBar leaves no partial row of a home market, and leaves out
\* no complete date before the one the response was read on.
LEMMA FilterSound ==
    ASSUME NEW m \in TbMarket, NEW t \in TbTime, tbNow \in TbTime, t <= tbNow, tbNow <= t + 1,
           Started(m, t) # {}, NEW rs,
           rs = [d \in Served(m, t) |-> IF d \in Complete(m, t) THEN "final" ELSE "partial"]
    PROVE  /\ FilterForming(rs) \in Response
           /\ m # "US" => \A d \in DOMAIN FilterForming(rs) : FilterForming(rs)[d] = "final"
           /\ \A d \in Complete(m, t) \cap Served(m, t) :
                 d < t \div 3 => d \in DOMAIN FilterForming(rs)
<1> DEFINE last == IF m = "US" THEN (t - 2) \div 3 ELSE (t - 1) \div 3
<1>1. last \in Served(m, t) /\ Newest(Served(m, t)) = last
  BY NewestServed
<1>2. Served(m, t) \subseteq TbDay /\ DOMAIN rs = Served(m, t)
  BY DEF Served, Started
<1> DEFINE kept == IF last = tbNow \div 3 THEN Served(m, t) \ {last} ELSE Served(m, t)
<1>3. FilterForming(rs) = [d \in kept |-> IF d \in Complete(m, t) THEN "final" ELSE "partial"]
  <2>1. Newest(DOMAIN rs) = last
    BY <1>1, <1>2
  <2> HIDE DEF last
  <2>2. CASE last = tbNow \div 3
    BY <1>2, <2>1, <2>2 DEF FilterForming, Forming
  <2>3. CASE last # tbNow \div 3
    BY <1>2, <2>1, <2>3 DEF FilterForming, Forming
  <2> QED
    BY <2>2, <2>3
<1>4. kept \subseteq TbDay /\ \A d \in TbDay : d \in Int
  BY <1>2, TencentAssumption DEF TbDay
<1>5. FilterForming(rs) \in [kept -> {"final", "partial"}]
  BY <1>3
<1>6. FilterForming(rs) \in Response
  BY <1>4, <1>5 DEF Response
<1>7. t \in Int /\ tbNow \in Int
  BY TencentAssumption DEF TbTime
<1>8. ASSUME m # "US", NEW d \in kept PROVE d \in Complete(m, t)
  <2>1. d \in TbDay /\ d \in Int /\ 3 * d + 1 <= t
    BY <1>4, <1>8 DEF Served, Started, Opens
  <2>2. CASE 3 * d + 2 <= t
    BY <1>8, <2>1, <2>2 DEF Complete, Closes
  <2>3. CASE t = 3 * d + 1
    <3>1. last = d /\ tbNow \div 3 = d
      BY <1>7, <1>8, <2>1, <2>3
    <3> QED
      BY <1>8, <3>1
  <2> QED
    BY <1>7, <2>1, <2>2, <2>3
<1>9. ASSUME NEW d \in Complete(m, t) \cap Served(m, t), d < t \div 3 PROVE d \in kept
  <2>1. d \in Int
    BY <1>2, <1>4
  <2>2. t \div 3 <= tbNow \div 3
    BY <1>7
  <2> QED
    BY <1>7, <1>9, <2>1, <2>2
<1> QED
  BY <1>3, <1>6, <1>8, <1>9

\* Only its own command touches a response.
LEMMA ResponseKept ==
    ASSUME TbInv, NEW x \in TbMarket, tbPc'[x] = tbPc[x], rows'[x] = rows[x],
           readAt'[x] = readAt[x], tbNow' = tbNow
    PROVE  /\ tbPc'[x] = "filter" => Fetched(x)'
           /\ tbPc'[x] = "insert" => Filtered(x)'
<1>1. (tbPc[x] = "filter" => Fetched(x)) /\ (tbPc[x] = "insert" => Filtered(x))
  BY DEF TbInv
<1>2. ASSUME Fetched(x) PROVE Fetched(x)'
  BY <1>2 DEF Fetched
<1>3. ASSUME Filtered(x) PROVE Filtered(x)'
  BY <1>3 DEF Filtered
<1> QED
  BY <1>1, <1>2, <1>3

\* What a command has stored stays stored while nothing is written.
LEMMA SucceededKept ==
    ASSUME TbInv, UNCHANGED tbBars,
           \A m \in TbMarket : tbPc'[m] = "done" /\ ~failures'[m] =>
               tbPc[m] = "done" /\ ~failures[m] /\ readAt'[m] = readAt[m]
    PROVE  SucceededHasCompleteDays'
<1> SUFFICES ASSUME NEW x \in TbMarket, tbPc'[x] = "done", ~failures'[x],
                    NEW d \in Complete(x, readAt'[x]) \cap Served(x, readAt'[x]),
                    d < readAt'[x] \div 3
             PROVE  tbBars'[x][d] # "none"
  BY DEF SucceededHasCompleteDays
<1>1. /\ tbPc[x] = "done" /\ ~failures[x]
      /\ d \in Complete(x, readAt[x]) \cap Served(x, readAt[x]) /\ d < readAt[x] \div 3
  OBVIOUS
<1>2. SucceededHasCompleteDays
  BY DEF TbInv
<1>3. tbBars[x][d] # "none"
  BY <1>1, <1>2 DEF SucceededHasCompleteDays
<1> QED
  BY <1>3

\* What is left to show of a step that stores nothing.
LEMMA QuietStep ==
    ASSUME TbInv, UNCHANGED tbBars,
           TbTypeOK', rows' \in [TbMarket -> Response], failures' \in [TbMarket -> BOOLEAN],
           \A x \in TbMarket : tbPc'[x] = "get" => tbAttempt'[x] < MaxAttempts,
           \A x \in TbMarket : tbPc'[x] = "filter" => Fetched(x)',
           \A x \in TbMarket : tbPc'[x] = "insert" => Filtered(x)',
           \A x \in TbMarket : tbPc'[x] = "done" /\ ~failures'[x] =>
               tbPc[x] = "done" /\ ~failures[x] /\ readAt'[x] = readAt[x]
    PROVE  TbInv'
<1>1. HomeBarsAreFinal'
  BY DEF TbInv, HomeBarsAreFinal
<1>2. SucceededHasCompleteDays'
  BY SucceededKept
<1> QED
  BY <1>1, <1>2 DEF TbInv

\* Every step of a command, and of the clock, preserves the invariant.
LEMMA TbInvStep == TbInv /\ [TbNext]_tbVars => TbInv'
<1> SUFFICES ASSUME TbInv, [TbNext]_tbVars PROVE TbInv'
  OBVIOUS
<1> USE TencentAssumption DEF TbGoto
<1>0. /\ tbNow \in TbTime /\ tbPc \in [TbMarket -> {"idle", "get", "filter", "insert", "done"}]
      /\ tbAttempt \in [TbMarket -> 0 .. MaxAttempts] /\ readAt \in [TbMarket -> TbTime]
      /\ tbBars \in [TbMarket -> [TbDay -> {"none", "final", "partial"}]]
      /\ rows \in [TbMarket -> Response] /\ failures \in [TbMarket -> BOOLEAN]
  BY DEF TbInv, TbTypeOK
<1>1. CASE TbTick
  <2>1. UNCHANGED <<tbPc, tbAttempt, rows, tbBars, readAt, failures>>
    BY <1>1 DEF TbTick
  <2>2. tbNow' \in TbTime /\ \A x \in TbMarket : tbPc[x] = "filter" =>
            readAt[x] <= tbNow' /\ tbNow' <= readAt[x] + 1
    BY <1>0, <1>1 DEF TbTick, TbTime
  <2>3. TbTypeOK' /\ rows' \in [TbMarket -> Response] /\ failures' \in [TbMarket -> BOOLEAN]
    BY <1>0, <2>1, <2>2 DEF TbTypeOK
  <2>4. ASSUME NEW x \in TbMarket, tbPc'[x] = "filter" PROVE Fetched(x)'
    <3>1. tbPc[x] = "filter" /\ Fetched(x)
      BY <2>1, <2>4 DEF TbInv
    <3> QED
      BY <2>1, <2>2, <3>1 DEF Fetched
  <2>5. ASSUME NEW x \in TbMarket, tbPc'[x] = "insert" PROVE Filtered(x)'
    <3>1. Filtered(x)
      BY <2>1, <2>5 DEF TbInv
    <3> QED
      BY <2>1, <3>1 DEF Filtered
  <2>6. \A x \in TbMarket : tbPc'[x] = "get" => tbAttempt'[x] < MaxAttempts
    BY <2>1 DEF TbInv
  <2> QED
    BY <2>1, <2>3, <2>4, <2>5, <2>6, QuietStep
<1>2. ASSUME NEW m \in TbMarket, RunIngestTencent(m) PROVE TbInv'
  <2>1. /\ tbPc' = [tbPc EXCEPT ![m] = "get"] /\ tbAttempt' = [tbAttempt EXCEPT ![m] = 0]
        /\ failures' = [failures EXCEPT ![m] = FALSE] /\ UNCHANGED <<tbNow, rows, tbBars, readAt>>
    BY <1>2 DEF RunIngestTencent
  <2>2. /\ tbPc'[m] = "get" /\ tbAttempt'[m] = 0
        /\ \A x \in TbMarket \ {m} : /\ tbPc'[x] = tbPc[x] /\ tbAttempt'[x] = tbAttempt[x]
                                      /\ failures'[x] = failures[x]
    BY <1>0, <2>1
  <2>3. TbTypeOK' /\ rows' \in [TbMarket -> Response] /\ failures' \in [TbMarket -> BOOLEAN]
    BY <1>0, <2>1 DEF TbTypeOK
  <2>4. ASSUME NEW x \in TbMarket, x # m
        PROVE  (tbPc'[x] = "filter" => Fetched(x)') /\ (tbPc'[x] = "insert" => Filtered(x)')
    BY <2>1, <2>2, <2>4, ResponseKept
  <2>5. \A x \in TbMarket : tbPc'[x] = "get" => tbAttempt'[x] < MaxAttempts
    BY <2>2 DEF TbInv
  <2>6. \A x \in TbMarket : tbPc'[x] = "done" /\ ~failures'[x] =>
            tbPc[x] = "done" /\ ~failures[x] /\ readAt'[x] = readAt[x]
    BY <2>1, <2>2
  <2> QED
    BY <2>1, <2>2, <2>3, <2>4, <2>5, <2>6, QuietStep
<1>3. ASSUME NEW m \in TbMarket, GetRows(m) PROVE TbInv'
  <2>0. /\ tbPc[m] = "get" /\ tbAttempt' = [tbAttempt EXCEPT ![m] = @ + 1] /\ UNCHANGED <<tbNow, tbBars>>
        /\ tbAttempt[m] < MaxAttempts
    BY <1>3 DEF GetRows, TbInv
  <2>1. tbAttempt' \in [TbMarket -> 0 .. MaxAttempts]
        /\ tbAttempt'[m] = tbAttempt[m] + 1 /\ \A x \in TbMarket \ {m} : tbAttempt'[x] = tbAttempt[x]
    BY <1>0, <2>0
  <2>2. CASE /\ Started(m, tbNow) # {}
             /\ rows' = [rows EXCEPT ![m] = [d \in Served(m, tbNow) |->
                            IF d \in Complete(m, tbNow) THEN "final" ELSE "partial"]]
             /\ readAt' = [readAt EXCEPT ![m] = tbNow]
             /\ tbPc' = [tbPc EXCEPT ![m] = "filter"] /\ UNCHANGED failures
    <3> DEFINE rs == [d \in Served(m, tbNow) |->
                          IF d \in Complete(m, tbNow) THEN "final" ELSE "partial"]
    <3>1. rs \in Response
      <4>1. rs \in [Served(m, tbNow) -> {"final", "partial"}] /\ Served(m, tbNow) \in SUBSET TbDay
        BY DEF Served, Started
      <4> QED
        BY <4>1 DEF Response
    <3>2. rows' = [rows EXCEPT ![m] = rs]
      BY <2>2
    <3>3. tbNow <= tbNow /\ tbNow <= tbNow + 1
      BY <1>0 DEF TbTime
    <3>4. /\ rows'[m] = rs /\ readAt'[m] = tbNow /\ tbPc'[m] = "filter" /\ tbNow' = tbNow
          /\ \A x \in TbMarket \ {m} : rows'[x] = rows[x] /\ readAt'[x] = readAt[x] /\ tbPc'[x] = tbPc[x]
      BY <1>0, <2>0, <2>2, <3>2
    <3>5. /\ TbTypeOK' /\ rows' \in [TbMarket -> Response] /\ failures' \in [TbMarket -> BOOLEAN]
      <4> HIDE DEF rs
      <4> QED
        BY <1>0, <2>0, <2>1, <2>2, <3>1, <3>2 DEF TbTypeOK
    <3>6. Fetched(m)'
      BY <2>2, <3>3, <3>4 DEF Fetched
    <3> HIDE DEF rs
    <3>7. ASSUME NEW x \in TbMarket, x # m
          PROVE  (tbPc'[x] = "filter" => Fetched(x)') /\ (tbPc'[x] = "insert" => Filtered(x)')
      BY <3>4, <3>7, ResponseKept
    <3>8. \A x \in TbMarket : tbPc'[x] = "get" => tbAttempt'[x] < MaxAttempts
      BY <2>1, <3>4 DEF TbInv
    <3>9. \A x \in TbMarket : tbPc'[x] = "done" /\ ~failures'[x] =>
              tbPc[x] = "done" /\ ~failures[x] /\ readAt'[x] = readAt[x]
      BY <2>2, <3>4
    <3> QED
      BY <2>0, <3>4, <3>5, <3>6, <3>7, <3>8, <3>9, QuietStep
  <2>3. CASE /\ UNCHANGED <<rows, readAt>>
             /\ \/ tbAttempt[m] + 1 < MaxAttempts /\ UNCHANGED <<tbPc, failures>>
                \/ failures' = [failures EXCEPT ![m] = TRUE] /\ tbPc' = [tbPc EXCEPT ![m] = "done"]
    <3>1. /\ \/ tbPc'[m] = "get" /\ tbAttempt[m] + 1 < MaxAttempts
             \/ tbPc'[m] = "done" /\ failures'[m]
          /\ \A x \in TbMarket \ {m} : tbPc'[x] = tbPc[x] /\ failures'[x] = failures[x]
      BY <1>0, <2>0, <2>3
    <3>2. TbTypeOK' /\ rows' \in [TbMarket -> Response] /\ failures' \in [TbMarket -> BOOLEAN]
      BY <1>0, <2>0, <2>1, <2>3 DEF TbTypeOK
    <3>3. ASSUME NEW x \in TbMarket, x # m
          PROVE  (tbPc'[x] = "filter" => Fetched(x)') /\ (tbPc'[x] = "insert" => Filtered(x)')
      BY <2>0, <2>3, <3>1, <3>3, ResponseKept
    <3>4. \A x \in TbMarket : tbPc'[x] = "get" => tbAttempt'[x] < MaxAttempts
      BY <2>1, <3>1 DEF TbInv
    <3>5. \A x \in TbMarket : tbPc'[x] = "done" /\ ~failures'[x] =>
              tbPc[x] = "done" /\ ~failures[x] /\ readAt'[x] = readAt[x]
      BY <2>3, <3>1
    <3> QED
      BY <2>0, <3>1, <3>2, <3>3, <3>4, <3>5, QuietStep
  <2> QED
    BY <1>3, <2>2, <2>3 DEF GetRows
<1>4. ASSUME NEW m \in TbMarket, FilterRows(m) PROVE TbInv'
  <2>1. /\ FilterForming(rows[m]) \in Response
        /\ m # "US" => \A d \in DOMAIN FilterForming(rows[m]) : FilterForming(rows[m])[d] = "final"
        /\ \A d \in Complete(m, readAt[m]) \cap Served(m, readAt[m]) :
              d < readAt[m] \div 3 => d \in DOMAIN FilterForming(rows[m])
    <3>1. Fetched(m)
      BY <1>4 DEF FilterRows, TbInv
    <3> QED
      BY <1>0, <3>1, FilterSound DEF Fetched
  <2> DEFINE rs == FilterForming(rows[m])
  <2>2. /\ rows' = [rows EXCEPT ![m] = rs] /\ UNCHANGED <<tbNow, tbAttempt, tbBars, readAt>>
        /\ \/ tbPc' = [tbPc EXCEPT ![m] = "done"] /\ failures' = [failures EXCEPT ![m] = TRUE]
           \/ tbPc' = [tbPc EXCEPT ![m] = "insert"] /\ UNCHANGED failures
    BY <1>4 DEF FilterRows
  <2> HIDE DEF rs
  <2>3. /\ rows'[m] = rs /\ tbPc'[m] \in {"done", "insert"} /\ (tbPc'[m] = "done" => failures'[m])
        /\ \A x \in TbMarket \ {m} : rows'[x] = rows[x] /\ tbPc'[x] = tbPc[x]
                                      /\ failures'[x] = failures[x]
    BY <1>0, <2>2
  <2>4. TbTypeOK' /\ rows' \in [TbMarket -> Response] /\ failures' \in [TbMarket -> BOOLEAN]
    BY <1>0, <2>1, <2>2 DEF TbTypeOK, rs
  <2>5. Filtered(m)'
    BY <2>1, <2>2, <2>3 DEF Filtered, rs
  <2>6. ASSUME NEW x \in TbMarket, x # m
        PROVE  (tbPc'[x] = "filter" => Fetched(x)') /\ (tbPc'[x] = "insert" => Filtered(x)')
    BY <2>2, <2>3, <2>6, ResponseKept
  <2>7. \A x \in TbMarket : tbPc'[x] = "get" => tbAttempt'[x] < MaxAttempts
    BY <2>2, <2>3 DEF TbInv
  <2>8. \A x \in TbMarket : tbPc'[x] = "done" /\ ~failures'[x] =>
            tbPc[x] = "done" /\ ~failures[x] /\ readAt'[x] = readAt[x]
    BY <2>2, <2>3
  <2> QED
    BY <2>2, <2>3, <2>4, <2>5, <2>6, <2>7, <2>8, QuietStep
<1>5. ASSUME NEW m \in TbMarket, InsertBars(m) PROVE TbInv'
  <2>1. /\ tbPc' = [tbPc EXCEPT ![m] = "done"] /\ rows' = [rows EXCEPT ![m] = NoRows]
        /\ UNCHANGED <<tbNow, tbAttempt, readAt>> /\ tbPc[m] = "insert"
    BY <1>5 DEF InsertBars
  <2>2. NoRows \in Response
    <3>1. NoRows \in [{} -> {"final", "partial"}] /\ {} \in SUBSET TbDay
      BY DEF NoRows
    <3> QED
      BY <3>1 DEF Response
  <2>3. \A x \in TbMarket : tbPc'[x] = IF x = m THEN "done" ELSE tbPc[x]
    BY <1>0, <2>1
  <2>4. \A x \in TbMarket \ {m} : rows'[x] = rows[x]
    BY <1>0, <2>1
  <2>5. /\ \A x \in TbMarket : tbPc'[x] = "filter" => Fetched(x)'
        /\ \A x \in TbMarket : tbPc'[x] = "insert" => Filtered(x)'
    <3> SUFFICES ASSUME NEW x \in TbMarket, x # m
                 PROVE  (tbPc'[x] = "filter" => Fetched(x)') /\ (tbPc'[x] = "insert" => Filtered(x)')
      BY <2>3
    <3> QED
      BY <2>1, <2>3, <2>4, ResponseKept
  <2>6. \A x \in TbMarket : tbPc'[x] = "get" => tbAttempt'[x] < MaxAttempts
    BY <2>1, <2>3 DEF TbInv
  <2>7. CASE failures' = [failures EXCEPT ![m] = TRUE] /\ UNCHANGED tbBars
    <3>1. failures'[m] /\ \A x \in TbMarket \ {m} : failures'[x] = failures[x]
      BY <1>0, <2>7
    <3>2. TbTypeOK' /\ rows' \in [TbMarket -> Response] /\ failures' \in [TbMarket -> BOOLEAN]
      BY <1>0, <2>1, <2>2, <2>7 DEF TbTypeOK
    <3>3. \A x \in TbMarket : tbPc'[x] = "done" /\ ~failures'[x] =>
              tbPc[x] = "done" /\ ~failures[x] /\ readAt'[x] = readAt[x]
      BY <2>1, <2>3, <3>1
    <3> QED
      BY <2>7, <2>5, <2>6, <3>2, <3>3, QuietStep
  <2>8. CASE /\ tbBars' = [tbBars EXCEPT ![m] = [d \in TbDay |->
                   IF d \in DOMAIN rows[m] /\ tbBars[m][d] = "none" THEN rows[m][d] ELSE tbBars[m][d]]]
             /\ UNCHANGED failures
    <3> DEFINE bars == [d \in TbDay |->
                   IF d \in DOMAIN rows[m] /\ tbBars[m][d] = "none" THEN rows[m][d] ELSE tbBars[m][d]]
    <3>1. \A d \in DOMAIN rows[m] : rows[m][d] \in {"final", "partial"}
      <4>1. rows[m] \in Response
        BY <1>0
      <4>2. PICK D \in SUBSET TbDay : rows[m] \in [D -> {"final", "partial"}]
        BY <4>1, Zenon DEF Response
      <4> QED
        BY <4>2
    <3>2. bars \in [TbDay -> {"none", "final", "partial"}]
      BY <1>0, <3>1
    <3>3. m # "US" => \A d \in TbDay : bars[d] # "partial"
      BY <2>1 DEF TbInv, Filtered, HomeBarsAreFinal
    <3>4. \A d \in TbDay : d \in DOMAIN rows[m] => bars[d] # "none"
      BY <3>1
    <3>5. tbBars' = [tbBars EXCEPT ![m] = bars]
      BY <2>8
    <3> HIDE DEF bars
    <3>6. tbBars'[m] = bars /\ \A x \in TbMarket \ {m} : tbBars'[x] = tbBars[x]
      BY <1>0, <3>5
    <3>7. TbTypeOK' /\ rows' \in [TbMarket -> Response] /\ failures' \in [TbMarket -> BOOLEAN]
      BY <1>0, <2>1, <2>2, <2>8, <3>2, <3>5 DEF TbTypeOK
    <3>8. HomeBarsAreFinal'
      BY <3>3, <3>6 DEF TbInv, HomeBarsAreFinal
    <3>9. SucceededHasCompleteDays'
      <4> SUFFICES ASSUME NEW x \in TbMarket, tbPc'[x] = "done", ~failures'[x],
                          NEW d \in Complete(x, readAt'[x]) \cap Served(x, readAt'[x]),
                          d < readAt'[x] \div 3
                   PROVE  tbBars'[x][d] # "none"
        BY DEF SucceededHasCompleteDays
      <4>0. d \in TbDay
        BY DEF Complete
      <4>1. CASE x = m
        BY <2>1, <3>4, <3>6, <4>0, <4>1 DEF TbInv, Filtered
      <4>2. CASE x # m
        <5>1. tbPc[x] = "done" /\ ~failures[x] /\ readAt'[x] = readAt[x] /\ tbBars'[x] = tbBars[x]
          BY <2>1, <2>3, <2>8, <3>6, <4>2
        <5>2. d \in Complete(x, readAt[x]) \cap Served(x, readAt[x]) /\ d < readAt[x] \div 3
          BY <5>1
        <5>3. SucceededHasCompleteDays
          BY DEF TbInv
        <5>4. tbBars[x][d] # "none"
          BY <5>1, <5>2, <5>3 DEF SucceededHasCompleteDays
        <5> QED
          BY <5>1, <5>4
      <4> QED
        BY <4>1, <4>2
    <3> QED
      BY <2>5, <2>6, <3>7, <3>8, <3>9 DEF TbInv
  <2> QED
    BY <1>5, <2>7, <2>8 DEF InsertBars
<1>6. CASE UNCHANGED tbVars
  <2>1. UNCHANGED <<tbNow, tbPc, tbAttempt, rows, tbBars, readAt, failures>>
    BY <1>6 DEF tbVars
  <2>2. TbTypeOK' /\ rows' \in [TbMarket -> Response] /\ failures' \in [TbMarket -> BOOLEAN]
    BY <1>0, <2>1 DEF TbTypeOK
  <2>3. /\ \A x \in TbMarket : tbPc'[x] = "filter" => Fetched(x)'
        /\ \A x \in TbMarket : tbPc'[x] = "insert" => Filtered(x)'
    BY <2>1, ResponseKept
  <2>4. \A x \in TbMarket : tbPc'[x] = "get" => tbAttempt'[x] < MaxAttempts
    BY <2>1 DEF TbInv
  <2> QED
    BY <2>1, <2>2, <2>3, <2>4, QuietStep
<1> QED
  BY <1>1, <1>2, <1>3, <1>4, <1>5, <1>6 DEF TbNext

\* runIngestTencent: whenever commands run, are retried or fail, no partial bar of a
\* home market is stored for ever, and one that succeeds has left out no complete
\* date before the one it ran on.
THEOREM DailyBarsFaithful == TbSpec => []DailyBarsAreFaithful
<1>1. TbInit => TbInv
  <2> SUFFICES ASSUME TbInit PROVE TbInv
    OBVIOUS
  <2>1. NoRows \in Response
    <3>1. NoRows \in [{} -> {"final", "partial"}] /\ {} \in SUBSET TbDay
      BY DEF NoRows
    <3> QED
      BY <3>1 DEF Response
  <2>2. 0 \in TbTime
    BY TencentAssumption DEF TbTime
  <2> QED
    BY <2>1, <2>2, TencentAssumption
       DEF TbInit, TbInv, TbTypeOK, HomeBarsAreFinal, SucceededHasCompleteDays
<1>2. TbInv => DailyBarsAreFaithful
  BY DEF TbInv, DailyBarsAreFaithful
<1> QED
  BY <1>1, <1>2, TbInvStep, PTL DEF TbSpec
-----------------------------------------------------------------------------
(* The backfill of the exchange's files *)

\* A series that a projection is made for whenever its day has official volatilities.
Eligible(d, s) == <<d, s>> \in Liquid /\ d < LastDay[s]

\* What a run has built: volatilities of some series, and the projection of those that
\* are eligible on its day, if they are not NULL.
Built(r) ==
    LET day == payload[r]
    IN  /\ cursor[r] \in HkexDay \ Weekend
        /\ DOMAIN day.quotes \subseteq Series
        /\ \A s \in DOMAIN day.quotes : day.quotes[s] \in {0} \cup Version
        /\ \A s \in Series : s \in day.snaps <=>
              s \in DOMAIN day.quotes /\ day.quotes[s] # 0 /\ Eligible(cursor[r], s)

\* An official volatility of an eligible series came with its projection.
ProjectionIsThere ==
    \A d \in HkexDay, s \in Series :
        quotes[<<d, s>>] \in Version /\ Eligible(d, s) => snaps[<<d, s>>] # -1

\* A run has stored, or found without a file, each business day before its cursor.
Walked(r) ==
    /\ cursor[r] \in Nat \ {0}
    /\ stored[r] \cup absent[r] \subseteq HkexDay \ Weekend
    /\ \A d \in HkexDay \ Weekend : d < cursor[r] => d \in stored[r] \cup absent[r]
    /\ hkPc[r] = "finish" \/ runStatus[r] = "succeeded" =>
         HkexDay \ Weekend = stored[r] \cup absent[r]
    /\ runStatus[r] = "succeeded" => hkPc[r] = "dead"

HkInv ==
    /\ HkexTypeOK /\ ProjectionMatchesQuote /\ ProjectionIsThere /\ DOMAIN payload = HkexRun
    /\ \A r \in HkexRun : Walked(r) /\ (hkPc[r] = "insert" => Built(r))

\* The tables after the transaction of a run agree, and no official value is lost.
LEMMA HkInsert ==
    ASSUME HkInv, NEW d \in HkexDay, NEW day, DOMAIN day.quotes \subseteq Series,
           \A s \in DOMAIN day.quotes : day.quotes[s] \in {0} \cup Version,
           \A s \in Series : s \in day.snaps <=>
              s \in DOMAIN day.quotes /\ day.quotes[s] # 0 /\ Eligible(d, s),
           quotes' = [ds \in DOMAIN quotes |->
                        IF ds[1] = d /\ ds[2] \in DOMAIN day.quotes
                        THEN UpsertQuote(quotes[ds], day.quotes[ds[2]]) ELSE quotes[ds]],
           snaps' = [ds \in DOMAIN snaps |->
                        IF ds[1] = d /\ ds[2] \in day.snaps /\ snaps[ds] = -1
                        THEN day.quotes[ds[2]] ELSE snaps[ds]]
    PROVE  /\ quotes' \in [HkexDay \X Series -> {-1, 0} \cup Version]
           /\ snaps' \in [HkexDay \X Series -> {-1} \cup Version]
           /\ ProjectionMatchesQuote' /\ ProjectionIsThere'
           /\ \A ds \in HkexDay \X Series :
                 /\ quotes[ds] > 0 => quotes'[ds] = quotes[ds]
                 /\ quotes[ds] = 0 => quotes'[ds] >= 0
                 /\ snaps[ds] # -1 => snaps'[ds] = snaps[ds]
<1>0. /\ quotes \in [HkexDay \X Series -> {-1, 0} \cup Version]
      /\ snaps \in [HkexDay \X Series -> {-1} \cup Version]
      /\ ProjectionMatchesQuote /\ ProjectionIsThere
  BY DEF HkInv, HkexTypeOK
<1>1. ASSUME NEW e \in HkexDay, NEW s \in Series
      PROVE  /\ quotes'[<<e, s>>] \in {-1, 0} \cup Version
             /\ snaps'[<<e, s>>] \in {-1} \cup Version
             /\ snaps'[<<e, s>>] # -1 => snaps'[<<e, s>>] = quotes'[<<e, s>>]
             /\ quotes'[<<e, s>>] \in Version /\ Eligible(e, s) => snaps'[<<e, s>>] # -1
             /\ quotes[<<e, s>>] > 0 => quotes'[<<e, s>>] = quotes[<<e, s>>]
             /\ quotes[<<e, s>>] = 0 => quotes'[<<e, s>>] >= 0
             /\ snaps[<<e, s>>] # -1 => snaps'[<<e, s>>] = snaps[<<e, s>>]
  <2>1. PICK q \in {-1, 0} \cup Version, n \in {-1} \cup Version :
             q = quotes[<<e, s>>] /\ n = snaps[<<e, s>>]
    BY <1>0
  <2>2. (n # -1 => n = q) /\ (q \in Version /\ Eligible(e, s) => n # -1)
    BY <1>0, <2>1 DEF ProjectionMatchesQuote, ProjectionIsThere
  <2>3. CASE e = d /\ s \in DOMAIN day.quotes
    <3>1. PICK v \in {0} \cup Version : v = day.quotes[s]
      BY <2>3
    <3>2. quotes'[<<e, s>>] = IF q \in {-1, 0} THEN v ELSE q
      BY <1>0, <2>1, <2>3, <3>1 DEF UpsertQuote
    <3>3. snaps'[<<e, s>>] = IF s \in day.snaps /\ n = -1 THEN v ELSE n
      BY <1>0, <2>1, <2>3, <3>1
    <3>4. s \in day.snaps <=> v # 0 /\ Eligible(e, s)
      BY <2>3, <3>1
    <3> QED
      BY <2>1, <2>2, <3>2, <3>3, <3>4 DEF Version
  <2>4. CASE ~(e = d /\ s \in DOMAIN day.quotes)
    <3>1. quotes'[<<e, s>>] = q /\ snaps'[<<e, s>>] = n
      BY <1>0, <2>1, <2>4
    <3> QED
      BY <2>1, <2>2, <3>1 DEF Version
  <2> QED
    BY <2>3, <2>4
<1>2. ASSUME NEW ds \in HkexDay \X Series
      PROVE  /\ quotes'[ds] \in {-1, 0} \cup Version /\ snaps'[ds] \in {-1} \cup Version
             /\ snaps'[ds] # -1 => snaps'[ds] = quotes'[ds]
             /\ quotes[ds] > 0 => quotes'[ds] = quotes[ds]
             /\ quotes[ds] = 0 => quotes'[ds] >= 0
             /\ snaps[ds] # -1 => snaps'[ds] = snaps[ds]
  <2>1. PICK e \in HkexDay, s \in Series : ds = <<e, s>>
    OBVIOUS
  <2> QED
    BY <1>1, <2>1
<1>3. DOMAIN quotes = HkexDay \X Series /\ DOMAIN snaps = HkexDay \X Series
  BY <1>0
<1>4. quotes' \in [HkexDay \X Series -> {-1, 0} \cup Version]
  <2>1. DOMAIN quotes' = HkexDay \X Series /\ quotes' = [ds \in DOMAIN quotes' |-> quotes'[ds]]
    BY <1>3
  <2> QED
    BY <1>2, <2>1
<1>5. snaps' \in [HkexDay \X Series -> {-1} \cup Version]
  <2>1. DOMAIN snaps' = HkexDay \X Series /\ snaps' = [ds \in DOMAIN snaps' |-> snaps'[ds]]
    BY <1>3
  <2> QED
    BY <1>2, <2>1
<1>6. ProjectionMatchesQuote'
  BY <1>2 DEF ProjectionMatchesQuote
<1>7. ProjectionIsThere'
  BY <1>1 DEF ProjectionIsThere, Eligible
<1> QED
  BY <1>2, <1>4, <1>5, <1>6, <1>7

\* A run that is not at work keeps what is known of it.
LEMMA WalkedKept ==
    ASSUME NEW r \in HkexRun, Walked(r), hkPc[r] = "insert" => Built(r),
           cursor'[r] = cursor[r], stored'[r] = stored[r], absent'[r] = absent[r],
           payload'[r] = payload[r], hkPc'[r] = hkPc[r], runStatus'[r] = runStatus[r]
    PROVE  Walked(r)' /\ (hkPc'[r] = "insert" => Built(r)')
<1>1. Walked(r)'
  BY DEF Walked
<1>2. hkPc'[r] = "insert" => Built(r)'
  BY DEF Built, Eligible
<1> QED
  BY <1>1, <1>2

\* What a step does to the tables, and to what a run knows of its range.
LEMMA HkStep ==
    HkInv /\ [HkexNext]_hkexVars =>
      /\ HkInv'
      /\ \A ds \in HkexDay \X Series :
            /\ quotes[ds] > 0 => quotes'[ds] = quotes[ds]
            /\ quotes[ds] = 0 => quotes'[ds] >= 0
            /\ snaps[ds] # -1 => snaps'[ds] = snaps[ds]
<1> DEFINE Kept == \A ds \in HkexDay \X Series :
                      /\ quotes[ds] > 0 => quotes'[ds] = quotes[ds]
                      /\ quotes[ds] = 0 => quotes'[ds] >= 0
                      /\ snaps[ds] # -1 => snaps'[ds] = snaps[ds]
<1> SUFFICES ASSUME HkInv, [HkexNext]_hkexVars PROVE HkInv' /\ Kept
  OBVIOUS
<1>0. /\ HkexTypeOK /\ ProjectionMatchesQuote /\ ProjectionIsThere /\ DOMAIN payload = HkexRun
      /\ \A r \in HkexRun : Walked(r) /\ (hkPc[r] = "insert" => Built(r))
  BY DEF HkInv
<1>t. /\ dtop \in [HkexDay -> (SUBSET Series) \cup {{"none"}}]
      /\ rp \in [HkexDay -> {0} \cup Version]
      /\ runStatus \in [HkexRun -> RunStatus]
      /\ hkPc \in [HkexRun -> {"new", "fetch", "insert", "finish", "fail", "dead"}]
      /\ cursor \in [HkexRun -> Nat]
      /\ stored \in [HkexRun -> SUBSET HkexDay] /\ absent \in [HkexRun -> SUBSET HkexDay]
  BY <1>0 DEF HkexTypeOK
<1>k. ASSUME UNCHANGED tables
      PROVE  ProjectionMatchesQuote' /\ ProjectionIsThere' /\ Kept
  <2>1. UNCHANGED <<quotes, snaps>>
    BY <1>k DEF tables
  <2> QED
    BY <1>0, <2>1 DEF ProjectionMatchesQuote, ProjectionIsThere, Eligible
<1>1. ASSUME NEW d \in HkexDay \ Weekend, Publish(d) PROVE HkInv' /\ Kept
  <2>1. /\ UNCHANGED <<tables, runStatus, hkPc, cursor, payload, stored, absent>>
        /\ \/ dtop' = [dtop EXCEPT ![d] = Series] /\ UNCHANGED rp
           \/ rp[d] < 2 /\ rp' = [rp EXCEPT ![d] = @ + 1] /\ UNCHANGED dtop
    BY <1>1 DEF Publish
  <2>2. dtop' \in [HkexDay -> (SUBSET Series) \cup {{"none"}}] /\ rp' \in [HkexDay -> {0} \cup Version]
    BY <1>t, <2>1 DEF Version
  <2>3. HkexTypeOK'
    BY <1>0, <2>1, <2>2 DEF HkexTypeOK, tables
  <2>4. \A r \in HkexRun : Walked(r)' /\ (hkPc'[r] = "insert" => Built(r)')
    BY <1>0, <2>1, WalkedKept
  <2> QED
    BY <1>0, <1>k, <2>1, <2>3, <2>4 DEF HkInv
<1>2. ASSUME NEW r \in HkexRun, BeginHKEXRun(r) PROVE HkInv' /\ Kept
  <2>1. /\ hkPc[r] = "new" /\ runStatus' = [runStatus EXCEPT ![r] = "running"]
        /\ hkPc' = [hkPc EXCEPT ![r] = "fetch"]
        /\ UNCHANGED <<exchange, tables, cursor, payload, stored, absent>>
    BY <1>2 DEF BeginHKEXRun, HkGoto
  <2>2. /\ hkPc'[r] = "fetch" /\ runStatus'[r] = "running"
        /\ \A q \in HkexRun \ {r} : hkPc'[q] = hkPc[q] /\ runStatus'[q] = runStatus[q]
    BY <1>t, <2>1
  <2>3. HkexTypeOK'
    BY <1>0, <2>1 DEF HkexTypeOK, exchange, tables, RunStatus
  <2>4. \A q \in HkexRun \ {r} : Walked(q)' /\ (hkPc'[q] = "insert" => Built(q)')
    BY <1>0, <2>1, <2>2, WalkedKept
  <2>5. Walked(r)'
    BY <1>0, <2>1, <2>2 DEF Walked
  <2> QED
    BY <1>0, <1>k, <2>1, <2>2, <2>3, <2>4, <2>5 DEF HkInv
<1>3. ASSUME NEW r \in HkexRun, SkipWeekend(r) PROVE HkInv' /\ Kept
  <2>1. /\ hkPc[r] = "fetch" /\ cursor[r] \in Weekend
        /\ cursor' = [cursor EXCEPT ![r] = @ + 1]
        /\ UNCHANGED <<exchange, tables, runStatus, hkPc, payload, stored, absent>>
    BY <1>3 DEF SkipWeekend, NextDate
  <2>2. cursor'[r] = cursor[r] + 1 /\ \A q \in HkexRun \ {r} : cursor'[q] = cursor[q]
    BY <1>t, <2>1
  <2>3. HkexTypeOK'
    <3>1. cursor' \in [HkexRun -> Nat]
      BY <1>t, <2>1
    <3> QED
      BY <1>0, <2>1, <3>1 DEF HkexTypeOK, exchange, tables
  <2>4. \A q \in HkexRun \ {r} : Walked(q)' /\ (hkPc'[q] = "insert" => Built(q)')
    BY <1>0, <2>1, <2>2, WalkedKept
  <2>5. Walked(r)'
    <3>1. Walked(r)
      BY <1>0
    <3>2. \A d \in HkexDay \ Weekend : d < cursor[r] + 1 => d < cursor[r]
      BY <2>1, <3>1 DEF Walked, HkexDay
    <3> QED
      BY <2>1, <2>2, <3>1, <3>2 DEF Walked
  <2> QED
    BY <1>0, <1>k, <2>1, <2>3, <2>4, <2>5 DEF HkInv
<1>4. ASSUME NEW r \in HkexRun, FetchDay(r) PROVE HkInv' /\ Kept
  <2>1. PICK d \in HkexDay \ Weekend : d = cursor[r]
    BY <1>4 DEF FetchDay
  <2>2. /\ hkPc[r] = "fetch" /\ UNCHANGED <<exchange, tables, runStatus, stored>>
    BY <1>4 DEF FetchDay
  <2>3. PICK f \in Get(dtop[d]), g \in Get(rp[d]) :
             \/ /\ absent' = [absent EXCEPT ![r] = @ \cup {d}]
                /\ NextDate(r) /\ UNCHANGED <<hkPc, payload>>
             \/ /\ f.file # NoFile
                /\ payload' = [payload EXCEPT ![r] =
                                 BuildHKEXDay(d, f.file, ParseRP006(g.file, f.file))]
                /\ HkGoto(r, "insert") /\ UNCHANGED <<cursor, absent>>
             \/ HkGoto(r, "fail") /\ UNCHANGED <<cursor, payload, absent>>
    BY <1>4, <2>1 DEF FetchDay, ParseDTOP
  <2>4. CASE /\ absent' = [absent EXCEPT ![r] = @ \cup {d}]
             /\ NextDate(r) /\ UNCHANGED <<hkPc, payload>>
    <3>1. cursor' = [cursor EXCEPT ![r] = @ + 1]
      BY <2>4 DEF NextDate
    <3>2. /\ cursor'[r] = cursor[r] + 1 /\ absent'[r] = absent[r] \cup {d}
          /\ \A q \in HkexRun \ {r} : cursor'[q] = cursor[q] /\ absent'[q] = absent[q]
      BY <1>t, <2>4, <3>1
    <3>3. HkexTypeOK'
      BY <1>0, <2>1, <2>2, <2>4, <3>1 DEF HkexTypeOK, exchange, tables
    <3>4. \A q \in HkexRun \ {r} : Walked(q)' /\ (hkPc'[q] = "insert" => Built(q)')
      BY <1>0, <2>2, <2>4, <3>2, WalkedKept
    <3>5. Walked(r)'
      <4>1. Walked(r) /\ d \in Nat
        BY <1>0, HkexAssumption DEF HkexDay
      <4>2. \A e \in HkexDay \ Weekend : e < d + 1 => e < d \/ e = d
        BY <4>1 DEF HkexDay
      <4>3. \A e \in HkexDay \ Weekend : e < cursor'[r] => e \in stored'[r] \cup absent'[r]
        BY <2>1, <2>2, <3>2, <4>1, <4>2 DEF Walked
      <4>4. cursor'[r] \in Nat \ {0} /\ stored'[r] \cup absent'[r] \subseteq HkexDay \ Weekend
        BY <2>1, <2>2, <3>2, <4>1 DEF Walked
      <4>5. hkPc'[r] = "fetch" /\ runStatus'[r] # "succeeded"
        BY <2>2, <2>4, <4>1 DEF Walked
      <4> QED
        BY <4>3, <4>4, <4>5 DEF Walked
    <3> QED
      BY <1>0, <1>k, <2>2, <2>4, <3>3, <3>4, <3>5 DEF HkInv
  <2>5. CASE /\ f.file # NoFile
             /\ payload' = [payload EXCEPT ![r] = BuildHKEXDay(d, f.file, ParseRP006(g.file, f.file))]
             /\ HkGoto(r, "insert") /\ UNCHANGED <<cursor, absent>>
    <3>1. hkPc' = [hkPc EXCEPT ![r] = "insert"]
      BY <2>5 DEF HkGoto
    <3>2. hkPc'[r] = "insert" /\ \A q \in HkexRun \ {r} : hkPc'[q] = hkPc[q]
      BY <1>t, <3>1
    <3>3. HkexTypeOK'
      BY <1>0, <2>2, <2>5, <3>1 DEF HkexTypeOK, exchange, tables
    <3>4. \A q \in HkexRun \ {r} : payload'[q] = payload[q]
      BY <2>5
    <3>5. \A q \in HkexRun \ {r} : Walked(q)' /\ (hkPc'[q] = "insert" => Built(q)')
      BY <1>0, <2>2, <2>5, <3>2, <3>4, WalkedKept
    <3>6. Walked(r)'
      BY <1>0, <2>2, <2>5, <3>2 DEF Walked
    <3>7. Built(r)'
      <4>1. PICK ss \in SUBSET Series, v \in {0} \cup Version : ss = f.file /\ v = g.file
        BY <1>t, <2>1, <2>5 DEF Get, NoFile
      <4>2. payload'[r] = BuildHKEXDay(d, ss, ParseRP006(v, ss))
        BY <1>0, <2>5, <4>1
      <4> QED
        BY <2>1, <2>5, <4>1, <4>2 DEF Built, BuildHKEXDay, ParseRP006, Projected, Eligible
    <3> QED
      BY <1>0, <1>k, <2>2, <2>5, <3>3, <3>5, <3>6, <3>7 DEF HkInv
  <2>6. CASE HkGoto(r, "fail") /\ UNCHANGED <<cursor, payload, absent>>
    <3>1. hkPc' = [hkPc EXCEPT ![r] = "fail"]
      BY <2>6 DEF HkGoto
    <3>2. hkPc'[r] = "fail" /\ \A q \in HkexRun \ {r} : hkPc'[q] = hkPc[q]
      BY <1>t, <3>1
    <3>3. HkexTypeOK'
      BY <1>0, <2>2, <2>6, <3>1 DEF HkexTypeOK, exchange, tables
    <3>4. \A q \in HkexRun \ {r} : Walked(q)' /\ (hkPc'[q] = "insert" => Built(q)')
      BY <1>0, <2>2, <2>6, <3>2, WalkedKept
    <3>5. Walked(r)'
      BY <1>0, <2>2, <2>6, <3>2 DEF Walked
    <3> QED
      BY <1>0, <1>k, <2>2, <2>6, <3>2, <3>3, <3>4, <3>5 DEF HkInv
  <2> QED
    BY <2>3, <2>4, <2>5, <2>6
<1>5. ASSUME NEW r \in HkexRun, InsertHKEXDay(r) PROVE HkInv' /\ Kept
  <2>1. /\ hkPc[r] = "insert" /\ payload' = [payload EXCEPT ![r] = NoPayload]
        /\ UNCHANGED <<exchange, runStatus, absent>>
    BY <1>5 DEF InsertHKEXDay
  <2>2. Built(r) /\ Walked(r)
    BY <1>0, <2>1
  <2>3. PICK d \in HkexDay \ Weekend : d = cursor[r]
    BY <2>2 DEF Built
  <2> PICK day : day = payload[r]
    OBVIOUS
  <2>4. DOMAIN payload' = HkexRun /\ \A q \in HkexRun \ {r} : payload'[q] = payload[q]
    BY <1>0, <2>1
  <2>5. CASE HkGoto(r, "fail") /\ UNCHANGED <<tables, stored, cursor>>
    <3>1. hkPc' = [hkPc EXCEPT ![r] = "fail"]
      BY <2>5 DEF HkGoto
    <3>2. hkPc'[r] = "fail" /\ \A q \in HkexRun \ {r} : hkPc'[q] = hkPc[q]
      BY <1>t, <3>1
    <3>3. HkexTypeOK'
      BY <1>0, <2>1, <2>5, <3>1 DEF HkexTypeOK, exchange, tables
    <3>4. \A q \in HkexRun \ {r} : Walked(q)' /\ (hkPc'[q] = "insert" => Built(q)')
      BY <1>0, <2>1, <2>4, <2>5, <3>2, WalkedKept
    <3>5. Walked(r)'
      BY <2>1, <2>2, <2>5, <3>2 DEF Walked
    <3> QED
      BY <1>k, <2>4, <2>5, <3>2, <3>3, <3>4, <3>5 DEF HkInv
  <2>6. CASE ~(HkGoto(r, "fail") /\ UNCHANGED <<tables, stored, cursor>>)
    <3>1. /\ quotes' = [ds \in DOMAIN quotes |->
                          IF ds[1] = d /\ ds[2] \in DOMAIN day.quotes
                          THEN UpsertQuote(quotes[ds], day.quotes[ds[2]]) ELSE quotes[ds]]
          /\ snaps' = [ds \in DOMAIN snaps |->
                          IF ds[1] = d /\ ds[2] \in day.snaps /\ snaps[ds] = -1
                          THEN day.quotes[ds[2]] ELSE snaps[ds]]
          /\ stored' = [stored EXCEPT ![r] = @ \cup {d}]
          /\ cursor' = [cursor EXCEPT ![r] = @ + 1] /\ hkPc' = [hkPc EXCEPT ![r] = "fetch"]
      BY <1>5, <2>3, <2>6 DEF InsertHKEXDay, NextDate, HkGoto
    <3>2. /\ DOMAIN day.quotes \subseteq Series
          /\ \A s \in DOMAIN day.quotes : day.quotes[s] \in {0} \cup Version
          /\ \A s \in Series : s \in day.snaps <=>
                s \in DOMAIN day.quotes /\ day.quotes[s] # 0 /\ Eligible(d, s)
      BY <2>2, <2>3 DEF Built
    <3>3. /\ quotes' \in [HkexDay \X Series -> {-1, 0} \cup Version]
          /\ snaps' \in [HkexDay \X Series -> {-1} \cup Version]
          /\ ProjectionMatchesQuote' /\ ProjectionIsThere' /\ Kept
      BY <2>3, <3>1, <3>2, HkInsert
    <3>4. /\ hkPc'[r] = "fetch" /\ cursor'[r] = cursor[r] + 1 /\ stored'[r] = stored[r] \cup {d}
          /\ \A q \in HkexRun \ {r} : /\ hkPc'[q] = hkPc[q] /\ cursor'[q] = cursor[q]
                                       /\ stored'[q] = stored[q]
      BY <1>t, <3>1
    <3>5. HkexTypeOK'
      BY <1>0, <1>t, <2>1, <3>1, <3>3 DEF HkexTypeOK, exchange
    <3>6. \A q \in HkexRun \ {r} : Walked(q)' /\ (hkPc'[q] = "insert" => Built(q)')
      BY <1>0, <2>1, <2>4, <3>4, WalkedKept
    <3>7. Walked(r)'
      <4>1. d \in Nat
        BY HkexAssumption DEF HkexDay
      <4>2. \A e \in HkexDay \ Weekend : e < d + 1 => e < d \/ e = d
        BY <4>1 DEF HkexDay
      <4>3. \A e \in HkexDay \ Weekend : e < cursor'[r] => e \in stored'[r] \cup absent'[r]
        BY <2>1, <2>2, <2>3, <3>4, <4>2 DEF Walked
      <4>4. cursor'[r] \in Nat \ {0} /\ stored'[r] \cup absent'[r] \subseteq HkexDay \ Weekend
        BY <2>1, <2>2, <2>3, <3>4 DEF Walked
      <4>5. runStatus'[r] # "succeeded"
        BY <2>1, <2>2 DEF Walked
      <4> QED
        BY <3>4, <4>3, <4>4, <4>5 DEF Walked
    <3> QED
      BY <2>4, <3>3, <3>4, <3>5, <3>6, <3>7 DEF HkInv
  <2> QED
    BY <2>5, <2>6
<1>6. ASSUME NEW r \in HkexRun, EndOfRange(r) PROVE HkInv' /\ Kept
  <2>1. /\ hkPc[r] = "fetch" /\ cursor[r] \notin HkexDay
        /\ hkPc' = [hkPc EXCEPT ![r] = IF stored[r] = {} THEN "fail" ELSE "finish"]
        /\ UNCHANGED <<exchange, tables, runStatus, cursor, payload, stored, absent>>
    BY <1>6 DEF EndOfRange, HkGoto
  <2>2. hkPc'[r] \in {"fail", "finish"} /\ \A q \in HkexRun \ {r} : hkPc'[q] = hkPc[q]
    BY <1>t, <2>1
  <2>3. HkexTypeOK'
    BY <1>0, <2>1 DEF HkexTypeOK, exchange, tables
  <2>4. \A q \in HkexRun \ {r} : Walked(q)' /\ (hkPc'[q] = "insert" => Built(q)')
    BY <1>0, <2>1, <2>2, WalkedKept
  <2>5. Walked(r)'
    <3>1. Walked(r)
      BY <1>0
    <3>2. \A d \in HkexDay : d < cursor[r]
      BY <2>1, <3>1, HkexAssumption DEF Walked, HkexDay
    <3>3. HkexDay \ Weekend = stored[r] \cup absent[r]
      BY <3>1, <3>2 DEF Walked
    <3>4. runStatus[r] # "succeeded"
      BY <2>1, <3>1 DEF Walked
    <3> QED
      BY <2>1, <3>1, <3>3, <3>4 DEF Walked
  <2> QED
    BY <1>0, <1>k, <2>1, <2>2, <2>3, <2>4, <2>5 DEF HkInv
<1>7. ASSUME NEW r \in HkexRun, FinishHKEXRun(r) PROVE HkInv' /\ Kept
  <2>1. /\ hkPc[r] \in {"finish", "fail"}
        /\ \/ hkPc' = [hkPc EXCEPT ![r] = "dead"]
           \/ hkPc' = [hkPc EXCEPT ![r] = "fail"] /\ UNCHANGED runStatus
        /\ \/ UNCHANGED runStatus
           \/ runStatus' = [runStatus EXCEPT ![r] = "failed"]
           \/ hkPc[r] = "finish" /\ runStatus' = [runStatus EXCEPT ![r] = "succeeded"]
        /\ UNCHANGED <<exchange, tables, cursor, payload, stored, absent>>
    BY <1>7 DEF FinishHKEXRun, HkGoto
  <2>2. /\ hkPc'[r] \in {"dead", "fail"}
        /\ \A q \in HkexRun \ {r} : hkPc'[q] = hkPc[q] /\ runStatus'[q] = runStatus[q]
    BY <1>t, <2>1
  <2>3. HkexTypeOK'
    <3>1. /\ hkPc' \in [HkexRun -> {"new", "fetch", "insert", "finish", "fail", "dead"}]
          /\ runStatus' \in [HkexRun -> RunStatus]
      BY <1>t, <2>1 DEF RunStatus
    <3> QED
      BY <1>0, <2>1, <3>1 DEF HkexTypeOK, exchange, tables
  <2>4. \A q \in HkexRun \ {r} : Walked(q)' /\ (hkPc'[q] = "insert" => Built(q)')
    BY <1>0, <2>1, <2>2, WalkedKept
  <2>5. Walked(r)'
    <3>1. Walked(r) /\ runStatus[r] # "succeeded"
      BY <1>0, <2>1 DEF Walked
    <3>2. runStatus'[r] = "succeeded" => hkPc[r] = "finish" /\ hkPc'[r] = "dead"
      BY <1>t, <2>1, <3>1
    <3> QED
      BY <2>1, <2>2, <3>1, <3>2 DEF Walked
  <2> QED
    BY <1>0, <1>k, <2>1, <2>2, <2>3, <2>4, <2>5 DEF HkInv
<1>8. ASSUME NEW r \in HkexRun, KillRun(r) PROVE HkInv' /\ Kept
  <2>1. /\ hkPc[r] # "dead" /\ hkPc' = [hkPc EXCEPT ![r] = "dead"]
        /\ UNCHANGED <<exchange, tables, runStatus, cursor, payload, stored, absent>>
    BY <1>8 DEF KillRun, HkGoto
  <2>2. hkPc'[r] = "dead" /\ \A q \in HkexRun \ {r} : hkPc'[q] = hkPc[q]
    BY <1>t, <2>1
  <2>3. HkexTypeOK'
    BY <1>0, <2>1 DEF HkexTypeOK, exchange, tables
  <2>4. \A q \in HkexRun \ {r} : Walked(q)' /\ (hkPc'[q] = "insert" => Built(q)')
    BY <1>0, <2>1, <2>2, WalkedKept
  <2>5. Walked(r)'
    BY <1>0, <2>1, <2>2 DEF Walked
  <2> QED
    BY <1>0, <1>k, <2>1, <2>2, <2>3, <2>4, <2>5 DEF HkInv
<1>9. CASE UNCHANGED hkexVars
  <2>1. UNCHANGED <<dtop, rp, quotes, snaps, runStatus, hkPc, cursor, payload, stored, absent>>
    BY <1>9 DEF hkexVars
  <2>2. HkexTypeOK'
    BY <1>0, <2>1 DEF HkexTypeOK
  <2>3. \A q \in HkexRun : Walked(q)' /\ (hkPc'[q] = "insert" => Built(q)')
    BY <1>0, <2>1, WalkedKept
  <2> QED
    BY <1>0, <1>k, <2>1, <2>2, <2>3 DEF HkInv, tables
<1> QED
  BY <1>1, <1>2, <1>3, <1>4, <1>5, <1>6, <1>7, <1>8, <1>9 DEF HkexNext

\* Overlapping, killed and repeated backfills (InsertHKEXDay, FinishHKEXRun) leave the
\* two tables in agreement, no run succeeds with a day passed over, and no official
\* volatility is lost or replaced: for any range, series and number of runs.
THEOREM BackfillFaithful == HkexSpec => BackfillIsFaithful
<1>1. HkexInit => HkInv
  <2> SUFFICES ASSUME HkexInit PROVE HkInv
    OBVIOUS
  <2>1. HkexTypeOK
    BY DEF HkexInit, HkexTypeOK, RunStatus, NoFile
  <2>2. ProjectionMatchesQuote /\ ProjectionIsThere
    BY DEF HkexInit, ProjectionMatchesQuote, ProjectionIsThere, Version
  <2>3. \A r \in HkexRun : Walked(r) /\ hkPc[r] # "insert"
    BY DEF HkexInit, Walked, HkexDay
  <2> QED
    BY <2>1, <2>2, <2>3 DEF HkInv, HkexInit
<1>2. HkInv => HkexTypeOK /\ ProjectionMatchesQuote /\ SucceededIsFilled
  BY DEF HkInv, Walked, SucceededIsFilled
<1> QED
  BY <1>1, <1>2, HkStep, PTL DEF HkexSpec, BackfillIsFaithful, OfficialIsKept
-----------------------------------------------------------------------------
(* The pass of the llm strategy *)

Upto(n) == [i \in 1 .. n |-> i]

\* The bindings looked at are those up to the one in hand, the conversation is
\* answered, what the model has seen is in the snapshot, and the snapshot is
\* never older than the total limit.
AgInv ==
    /\ AgTypeOK
    /\ agConv \in Seq([calls : Nat, answers : Nat])
    /\ agAge <= TotalBudget
    /\ agShown \subseteq agSnap
    /\ agSent = Nothing \/ agSent.age <= TotalBudget
    /\ CallsAnswered
    /\ apPc = "binding" => agTried = Upto(agAt - 1)
    /\ apPc \in {"model", "inject", "submit"} => agAt <= Bindings /\ agTried = Upto(agAt)

\* Looking at one more binding.
LEMMA UptoNext ==
    ASSUME NEW n \in Nat
    PROVE  Append(Upto(n), n + 1) = Upto(n + 1)
<1>1. Upto(n) \in Seq(Nat) /\ Len(Upto(n)) = n
  BY DEF Upto
<1>2. Append(Upto(n), n + 1) \in Seq(Nat) /\ Len(Append(Upto(n), n + 1)) = n + 1
  BY <1>1
<1>3. Upto(n + 1) \in Seq(Nat) /\ Len(Upto(n + 1)) = n + 1
  BY DEF Upto
<1>4. ASSUME NEW i \in 1 .. n + 1 PROVE Append(Upto(n), n + 1)[i] = Upto(n + 1)[i]
  <2>1. Upto(n + 1)[i] = i
    BY DEF Upto
  <2>2. CASE i = n + 1
    <3>1. Append(Upto(n), n + 1)[n + 1] = n + 1
      <4> HIDE DEF Upto
      <4> QED
        BY <1>1
    <3> QED
      BY <2>1, <2>2, <3>1
  <2>3. CASE i \in 1 .. n
    <3>1. Append(Upto(n), n + 1)[i] = Upto(n)[i]
      <4> HIDE DEF Upto
      <4> QED
        BY <1>1, <2>3
    <3>2. Upto(n)[i] = i
      BY <2>3 DEF Upto
    <3> QED
      BY <2>1, <3>1, <3>2
  <2>4. i = n + 1 \/ i \in 1 .. n
    OBVIOUS
  <2> QED
    BY <2>2, <2>3, <2>4, Zenon
<1> HIDE DEF Upto
<1> QED
  BY <1>2, <1>3, <1>4, SeqEqual

\* A tool shows contracts of the snapshot only, and every call has an answer.
LEMMA ToolsShowTheSnapshot ==
    ASSUME NEW call PROVE ExecuteTool(call).options \subseteq agSnap
<1>1. CASE call.tool = "chain"
  BY <1>1 DEF ExecuteTool
<1>2. CASE call.tool = "quote" /\ call.options \subseteq agSnap
  BY <1>2 DEF ExecuteTool
<1>3. CASE call.tool # "chain" /\ ~(call.tool = "quote" /\ call.options \subseteq agSnap)
  BY <1>3 DEF ExecuteTool
<1> QED
  BY <1>1, <1>2, <1>3

LEMMA EveryCallAnswered ==
    ASSUME NEW calls \in Seq(Call)
    PROVE  Len(Answers(calls)) = Len(calls) /\ Len(calls) \in Nat
BY DEF Answers

\* A binding that is done with.
LEMMA AgNextBinding ==
    ASSUME AgInv, NextBinding, agOpen' = agOpen, agAt <= Bindings,
           agTried' = Upto(agAt),
           agSent' = agSent \/ agSent' = Nothing
    PROVE  AgInv'
<1> USE AgentAssumption
<1>1. agAt \in Nat /\ agAt' = agAt + 1 /\ Bindings \in Nat
  BY DEF AgInv, AgTypeOK, NextBinding
<1>2. AgTypeOK'
  BY <1>1 DEF AgInv, AgTypeOK, NextBinding
<1>3. agAt' - 1 = agAt
  BY <1>1
<1>4. agTried' = Upto(agAt' - 1)
  BY <1>3, Zenon
<1>5. agConv' = <<>>
  BY DEF NextBinding
<1>6. agConv' \in Seq([calls : Nat, answers : Nat]) /\ CallsAnswered'
  BY <1>5 DEF CallsAnswered
<1> QED
  BY <1>2, <1>4, <1>6 DEF AgInv, NextBinding

LEMMA AgInitial == AgInit => AgInv
BY AgentAssumption DEF AgInit, AgInv, AgTypeOK, CallsAnswered

LEMMA AgKeeps == AgInv /\ [AgNext]_agVars => AgInv'
<1> SUFFICES ASSUME AgInv, [AgNext]_agVars PROVE AgInv'
  OBVIOUS
<1> USE AgentAssumption
<1>0. agAt \in Nat /\ agAt >= 1 /\ Bindings \in Nat
  BY DEF AgInv, AgTypeOK
<1>1. CASE StartPass
  <2>1. AgTypeOK'
    BY <1>1 DEF StartPass, AgInv, AgTypeOK
  <2>2. Upto(agAt' - 1) = <<>>
    BY <1>1 DEF StartPass, Upto
  <2>3. agTried' = Upto(agAt' - 1)
    BY <1>1, <2>2 DEF StartPass
  <2> QED
    BY <1>1, <2>1, <2>3 DEF StartPass, AgInv, CallsAnswered
<1>2. CASE SkipBinding \/ ReadFails
  <2>1. agTried' = Append(agTried, agAt) /\ agAt <= Bindings /\ NextBinding
        /\ agOpen' = agOpen /\ agSent' = agSent /\ apPc = "binding"
    BY <1>2 DEF SkipBinding, ReadFails, BindingFails, AgInv, AgTypeOK
  <2>2. agTried = Upto(agAt - 1)
    BY <2>1 DEF AgInv
  <2>3. Append(Upto(agAt - 1), (agAt - 1) + 1) = Upto((agAt - 1) + 1)
    <3>1. agAt - 1 \in Nat
      BY <1>0
    <3> QED
      BY <3>1, UptoNext, Zenon
  <2>4. (agAt - 1) + 1 = agAt
    BY <1>0
  <2>5. agTried' = Upto(agAt)
    BY <2>1, <2>2, <2>3, <2>4
  <2> QED
    BY <2>1, <2>5, AgNextBinding
<1>3. CASE TakeSnapshot
  <2>1. agTried = Upto(agAt - 1)
    BY <1>3 DEF AgInv, TakeSnapshot
  <2>2. Append(Upto(agAt - 1), (agAt - 1) + 1) = Upto((agAt - 1) + 1)
    <3>1. agAt - 1 \in Nat
      BY <1>0
    <3> QED
      BY <3>1, UptoNext, Zenon
  <2>3. (agAt - 1) + 1 = agAt
    BY <1>0
  <2>4. agTried' = Upto(agAt)
    BY <1>3, <2>1, <2>2, <2>3 DEF TakeSnapshot
  <2>5. AgTypeOK' /\ agAt' <= Bindings
    BY <1>3 DEF TakeSnapshot, AgInv, AgTypeOK
  <2>6. agTried' = Upto(agAt')
    BY <1>3, <2>4 DEF TakeSnapshot
  <2>7. agConv' \in Seq([calls : Nat, answers : Nat]) /\ CallsAnswered'
    BY <1>3 DEF TakeSnapshot, CallsAnswered
  <2> QED
    BY <1>3, <2>5, <2>6, <2>7 DEF TakeSnapshot, AgInv
<1>4. CASE PassEnd
  <2>1. AgTypeOK'
    BY <1>4 DEF PassEnd, conversation, AgInv, AgTypeOK
  <2>2. CallsAnswered'
    BY <1>4 DEF PassEnd, conversation, AgInv, CallsAnswered
  <2> QED
    BY <1>4, <2>1, <2>2 DEF PassEnd, conversation, AgInv
<1>5. CASE AgTick
  <2>1. AgTypeOK' /\ agAge' <= TotalBudget
    BY <1>5 DEF AgTick, Expired, AgInv, AgTypeOK
  <2>2. CallsAnswered'
    BY <1>5 DEF AgTick, AgInv, CallsAnswered
  <2> QED
    BY <1>5, <2>1, <2>2 DEF AgTick, AgInv
<1>6. CASE TimesOut \/ ModelFails
  BY <1>6, AgNextBinding DEF TimesOut, ModelFails, BindingFails, AgInv
<1>7. CASE \E c \in Offered \cup {Shares} : ModelDecides(c)
  <2>1. PICK c \in Offered \cup {Shares} : ModelDecides(c)
    BY <1>7
  <2>2. AgTypeOK'
    BY <2>1 DEF ModelDecides, AgInv, AgTypeOK
  <2>3. CallsAnswered'
    BY <2>1 DEF ModelDecides, AgInv, CallsAnswered
  <2> QED
    BY <2>1, <2>2, <2>3 DEF ModelDecides, AgInv
<1>8. ASSUME NEW calls \in Seq(Call), ModelCalls(calls) PROVE AgInv'
  <2>0. apPc = "model" /\ agOpen' = agOpen /\ agTried' = agTried /\ agSent' = agSent
    BY <1>8 DEF ModelCalls
  <2>1. CASE BindingFails
    BY <2>0, <2>1, AgNextBinding DEF BindingFails, AgInv
  <2>2. CASE ~BindingFails
    <3> DEFINE round == [calls |-> Len(calls), answers |-> Len(Answers(calls))]
    <3>1. /\ Len(agConv) + 1 < MaxRounds
          /\ agConv' = Append(agConv, round)
          /\ agShown' = agShown \cup UNION {ExecuteTool(calls[i]).options : i \in 1 .. Len(calls)}
          /\ agRoundAge' = 0
          /\ UNCHANGED <<apPc, agAt, agSnap, agAge, agChoice>>
      BY <1>8, <2>2 DEF ModelCalls
    <3>2. round \in [calls : Nat, answers : Nat] /\ round.answers = round.calls
      BY EveryCallAnswered
    <3> HIDE DEF round
    <3>3. agConv \in Seq([calls : Nat, answers : Nat]) /\ CallsAnswered
      BY DEF AgInv
    <3>4. agConv' \in Seq([calls : Nat, answers : Nat]) /\ Len(agConv') = Len(agConv) + 1
      BY <3>1, <3>2, <3>3
    <3>5. CallsAnswered'
      BY <3>1, <3>2, <3>3, <3>4 DEF CallsAnswered
    <3>6. agShown' \subseteq agSnap
      BY <3>1, ToolsShowTheSnapshot DEF AgInv
    <3>7. AgTypeOK'
      BY <2>0, <3>1, <3>4, <3>6 DEF AgInv, AgTypeOK
    <3> QED
      BY <2>0, <3>1, <3>4, <3>5, <3>6, <3>7 DEF AgInv
  <2> QED
    BY <2>1, <2>2
<1>9. CASE InjectPrices
  <2>1. CASE agChoice \in agSnap \cup {Shares}
    <3>1. /\ agSent' = [contract |-> agChoice, age |-> agAge] /\ apPc' = "submit"
          /\ UNCHANGED <<agAt, agOpen, agTried>> /\ UNCHANGED conversation /\ apPc = "inject"
      BY <1>9, <2>1 DEF InjectPrices
    <3>2. AgTypeOK'
      BY <3>1 DEF conversation, AgInv, AgTypeOK
    <3>3. CallsAnswered'
      BY <3>1 DEF conversation, AgInv, CallsAnswered
    <3> QED
      BY <3>1, <3>2, <3>3 DEF conversation, AgInv
  <2>2. CASE agChoice \notin agSnap \cup {Shares}
    BY <1>9, <2>2, AgNextBinding DEF InjectPrices, BindingFails, AgInv
  <2> QED
    BY <2>1, <2>2
<1>10. CASE SubmitReturns
  BY <1>10, AgNextBinding DEF SubmitReturns, BindingFails, AgInv
<1>11. CASE UNCHANGED agVars
  BY <1>11 DEF agVars, AgInv, AgTypeOK, CallsAnswered
<1>12. \A a, b \in Call : <<a>> \in Seq(Call) /\ <<a, b>> \in Seq(Call)
  OBVIOUS
<1> QED
  BY <1>1, <1>2, <1>3, <1>4, <1>5, <1>6, <1>7, <1>8, <1>9, <1>10, <1>11, <1>12
  DEF AgNext, AgProgram, AgModel

\* What AgentPassSound says of safety, for any number of bindings, contracts and
\* rounds: prices are no older than the total limit when they are submitted,
\* every tool call has its answer, no binding is passed over, and what
\* executeTool has shown the model injectPrices can price.
THEOREM PassSound ==
    AgSpec => [](AgTypeOK /\ SentIsRecent /\ CallsAnswered /\ PassTriesAll) /\ ShownIsPriced
<1> DEFINE Safe == AgTypeOK /\ SentIsRecent /\ CallsAnswered /\ PassTriesAll
           Priced == (apPc = "inject" /\ agChoice \in agShown) => apPc' = "submit"
<1>1. AgInv => Safe
  <2> SUFFICES ASSUME AgInv PROVE Safe
    OBVIOUS
  <2>1. SentIsRecent
    BY DEF AgInv, SentIsRecent
  <2>2. ASSUME apPc = "binding", agAt > Bindings PROVE agTried = [i \in 1 .. Bindings |-> i]
    <3>1. agAt - 1 = Bindings
      BY <2>2, AgentAssumption DEF AgInv, AgTypeOK
    <3>2. agTried = Upto(Bindings)
      BY <2>2, <3>1 DEF AgInv
    <3> QED
      BY <3>2 DEF Upto
  <2> QED
    BY <2>1, <2>2 DEF AgInv, PassTriesAll
<1>2. AgInv /\ [AgNext]_agVars => [Priced]_agVars
  <2> SUFFICES ASSUME AgInv, AgNext, apPc = "inject", agChoice \in agShown PROVE apPc' = "submit"
    OBVIOUS
  <2>1. agChoice \in agSnap \cup {Shares}
    BY DEF AgInv
  <2>2. InjectPrices
    BY DEF AgNext, AgProgram, AgModel, StartPass, SkipBinding, ReadFails, TakeSnapshot, PassEnd,
           SubmitReturns, ModelFails, ModelDecides, ModelCalls, AgTick, TimesOut
  <2> QED
    BY <2>1, <2>2 DEF InjectPrices
<1>3. AgSpec => []AgInv
  BY AgInitial, AgKeeps, PTL DEF AgSpec
<1>4. AgSpec => []Safe
  BY <1>1, <1>3, PTL
<1>5. AgSpec => [][Priced]_agVars
  BY <1>2, <1>3, PTL DEF AgSpec
<1> QED
  BY <1>4, <1>5, Zenon DEF ShownIsPriced

-----------------------------------------------------------------------------
(* The registry of agents *)

\* Whoever is told to be new, or is about to be, is in the registry.
RegInv ==
    /\ RegTypeOK
    /\ claimedNew \subseteq registered
    /\ \A a \in Agent : wire[a] = "new" => a \in registered

LEMMA RegInitial == RegInit => RegInv
<1> SUFFICES ASSUME RegInit PROVE RegInv
  OBVIOUS
<1>1. 0 \in 0 .. MaxRestarts /\ 0 \in 0 .. RetryMax
  BY RegistryAssumption
<1>2. RegTypeOK
  BY <1>1 DEF RegInit, RegTypeOK
<1> QED
  BY <1>2 DEF RegInit, RegInv

\* What a failed attempt leaves of the control state.
LEMMA AfterErrorKeepsTypes ==
    ASSUME RegTypeOK, NEW a \in Agent, AfterError(a)
    PROVE  agPc' \in [Agent -> {"tick", "call", "wait"}] /\ attempt' \in [Agent -> 0 .. RetryMax]
<1>1. CASE attempt[a] < RetryMax /\ attempt' = [attempt EXCEPT ![a] = @ + 1]
           /\ agPc' = [agPc EXCEPT ![a] = "call"]
  <2>1. attempt[a] + 1 \in 0 .. RetryMax
    BY <1>1, RegistryAssumption DEF RegTypeOK
  <2> QED
    BY <1>1, <2>1 DEF RegTypeOK
<1>2. CASE agPc' = [agPc EXCEPT ![a] = "tick"] /\ attempt' = attempt
  BY <1>2 DEF RegTypeOK
<1> QED
  BY <1>1, <1>2 DEF AfterError

LEMMA RegKeeps == RegInv /\ [RegNext]_regVars => RegInv'
<1> SUFFICES ASSUME RegInv, [RegNext]_regVars PROVE RegInv'
  OBVIOUS
<1> USE RegistryAssumption
<1>0. RegTypeOK
  BY DEF RegInv
<1>1. ASSUME NEW a \in Agent, Heartbeat(a) PROVE RegInv'
  <2>1. 0 \in 0 .. RetryMax
    OBVIOUS
  <2> QED
    BY <1>0, <1>1, <2>1 DEF Heartbeat, RegInv, RegTypeOK
<1>2. ASSUME NEW a \in Agent, SendRegister(a) PROVE RegInv'
  BY <1>0, <1>2 DEF SendRegister, RegInv, RegTypeOK
<1>3. ASSUME NEW a \in Agent, ReadReply(a) PROVE RegInv'
  <2>1. agPc' \in [Agent -> {"tick", "call", "wait"}] /\ attempt' \in [Agent -> 0 .. RetryMax]
    BY <1>0, <1>3, AfterErrorKeepsTypes DEF ReadReply, RegTypeOK
  <2>2. wire' = [wire EXCEPT ![a] = "none"] /\ registered' = registered
        /\ up' = up /\ restarts' = restarts /\ faults' = faults
    BY <1>3 DEF ReadReply
  <2>3. claimedNew' \subseteq registered
    BY <1>3 DEF ReadReply, RegInv
  <2>4. RegTypeOK'
    BY <1>0, <2>1, <2>2, <2>3 DEF RegTypeOK
  <2> QED
    BY <1>0, <2>2, <2>3, <2>4 DEF RegInv, RegTypeOK
<1>4. ASSUME NEW a \in Agent, ConnectionFails(a) PROVE RegInv'
  <2>1. agPc' \in [Agent -> {"tick", "call", "wait"}] /\ attempt' \in [Agent -> 0 .. RetryMax]
    BY <1>0, <1>4, AfterErrorKeepsTypes DEF ConnectionFails
  <2>2. wire' = [wire EXCEPT ![a] = "none"] /\ claimedNew' = claimedNew
        /\ up' = up /\ restarts' = restarts /\ faults' = faults
    BY <1>4 DEF ConnectionFails
  <2>3. registered' = registered \/ registered' = registered \cup {a}
    BY <1>4 DEF ConnectionFails
  <2>4. RegTypeOK'
    BY <1>0, <2>1, <2>2, <2>3 DEF RegTypeOK
  <2> QED
    BY <1>0, <2>2, <2>3, <2>4 DEF RegInv, RegTypeOK
<1>5. ASSUME NEW a \in Agent, ServeRegister(a) PROVE RegInv'
  <2>1. RegTypeOK'
    BY <1>0, <1>5 DEF ServeRegister, RegTypeOK
  <2> QED
    BY <1>0, <1>5, <2>1 DEF ServeRegister, RegInv, RegTypeOK
<1>6. CASE StopMaster
  <2>1. restarts' \in 0 .. MaxRestarts
    BY <1>0, <1>6 DEF StopMaster, RegTypeOK
  <2>2. wire' \in [Agent -> {"none", "request", "new", "old", "refused"}]
        /\ \A a \in Agent : wire'[a] = "none"
    BY <1>6 DEF StopMaster
  <2>3. RegTypeOK'
    BY <1>0, <1>6, <2>1, <2>2 DEF StopMaster, RegTypeOK
  <2> QED
    BY <1>6, <2>2, <2>3 DEF StopMaster, RegInv
<1>7. CASE StartMaster \/ FaultsEnd
  BY <1>0, <1>7 DEF StartMaster, FaultsEnd, RegInv, RegTypeOK
<1>8. CASE UNCHANGED regVars
  BY <1>0, <1>8 DEF regVars, RegInv, RegTypeOK
<1> QED
  BY <1>1, <1>2, <1>3, <1>4, <1>5, <1>6, <1>7, <1>8 DEF RegNext, RegStep

\* What RegistryHeals says of safety, for any agents, retries and restarts: in one
\* life of the master an agent is told "new" at most once, whichever of its
\* requests and replies Register has lost and tried again.
THEOREM NewOnce == RegSpec => []RegTypeOK /\ NewAtMostOnce
<1> DEFINE Once == \A a \in Agent : (wire[a] # "new" /\ wire'[a] = "new") => a \notin claimedNew
<1>1. RegInv /\ [RegNext]_regVars => [Once]_regVars
  <2> SUFFICES ASSUME RegInv, RegNext, NEW a \in Agent, wire[a] # "new", wire'[a] = "new"
               PROVE  a \notin claimedNew
    OBVIOUS
  <2>0. wire \in [Agent -> {"none", "request", "new", "old", "refused"}]
    BY DEF RegInv, RegTypeOK
  <2>1. PICK b \in Agent : ServeRegister(b)
    BY <2>0 DEF RegNext, RegStep, Heartbeat, SendRegister, ReadReply, ConnectionFails,
                StopMaster, StartMaster, FaultsEnd
  <2>2. a = b /\ IsNew(b)
    BY <2>0, <2>1 DEF ServeRegister
  <2> QED
    BY <2>2 DEF IsNew, RegInv
<1>2. RegInv => RegTypeOK
  BY DEF RegInv
<1>3. RegSpec => []RegInv
  BY RegInitial, RegKeeps, PTL DEF RegSpec
<1>4. RegSpec => []RegTypeOK
  BY <1>2, <1>3, PTL
<1>5. RegSpec => [][Once]_regVars
  BY <1>1, <1>3, PTL DEF RegSpec
<1> QED
  BY <1>4, <1>5, Zenon DEF NewAtMostOnce

-----------------------------------------------------------------------------
(* The daily data check: dates *)

\* The day of an instant.
LEMMA DayOf ==
    ASSUME NEW x \in Int
    PROVE  x \div DaySlots \in Int /\ (x \div DaySlots) * DaySlots <= x
           /\ x < (x \div DaySlots) * DaySlots + DaySlots
BY DataCheckAssumption

\* Days and instants are ordered alike.
LEMMA DaysInOrder ==
    ASSUME NEW a \in Int, NEW b \in Int
    PROVE  /\ a * DaySlots \in Int
           /\ a <= b => a * DaySlots <= b * DaySlots
           /\ a < b => a * DaySlots + DaySlots <= b * DaySlots
<1>0. DaySlots \in Nat /\ DaySlots > 0
  BY DataCheckAssumption
<1>1. a * DaySlots \in Int /\ b * DaySlots \in Int /\ (b - a) * DaySlots = b * DaySlots - a * DaySlots
  BY <1>0
<1>2. a <= b => (b - a) * DaySlots >= 0
  BY <1>0
<1>3. a < b => (b - a) * DaySlots >= DaySlots
  BY <1>0
<1> QED
  BY <1>0, <1>1, <1>2, <1>3

LEMMA LaterDays ==
    ASSUME NEW x \in Int, NEW y \in Int, x <= y
    PROVE  x \div DaySlots <= y \div DaySlots
<1>1. PICK p \in Int : p = x \div DaySlots
  BY DayOf
<1>2. PICK q \in Int : q = y \div DaySlots
  BY DayOf
<1>3. p * DaySlots <= x /\ y < q * DaySlots + DaySlots
  BY <1>1, <1>2, DayOf
<1>4. PICK pd \in Int : pd = p * DaySlots
  BY DaysInOrder
<1>5. PICK qd \in Int : qd = q * DaySlots
  BY DaysInOrder
<1>6. q < p => qd + DaySlots <= pd
  BY <1>4, <1>5, DaysInOrder
<1>7. ~(q < p)
  BY <1>3, <1>4, <1>5, <1>6, DataCheckAssumption
<1> QED
  BY <1>1, <1>2, <1>7

\* The first open day found going back from day f.
LEMMA ScanBack ==
    ASSUME NEW s \in DcSymbol, NEW f \in -2 .. DcDays
    PROVE  LET back == CHOOSE k \in 0 .. ScanLimit - 1 :
                    f - k \notin Closed[s] /\ \A j \in 0 .. k - 1 : f - j \in Closed[s]
           IN  /\ back \in 0 .. ScanLimit - 1 /\ f - back \notin Closed[s]
               /\ \A j \in 0 .. back - 1 : f - j \in Closed[s]
<1> DEFINE less == {ss \in Nat \X Nat : ss[1] < ss[2]}
           S == {k \in 0 .. ScanLimit - 1 : f - k \notin Closed[s]}
<1>0. ScanLimit \in Nat /\ DcDays \in Nat
  BY DataCheckAssumption
<1>1. IsWellFoundedOn(less, Nat)
  BY NatLessThanWellFounded, Zenon DEF OpToRel
<1> HIDE DEF less
<1>2. S \subseteq Nat
  BY <1>0
<1>3. S # {}
  BY DataCheckAssumption
<1> HIDE DEF S
<1>4. PICK x \in S : \A y \in S : <<y, x>> \notin less
  BY <1>1, <1>2, <1>3, WFMin, Zenon
<1>5. \A y \in S : ~(y < x)
  BY <1>2, <1>4 DEF less
<1>6. x \in 0 .. ScanLimit - 1 /\ f - x \notin Closed[s]
  BY DEF S
<1>7. \A j \in 0 .. x - 1 : f - j \in Closed[s]
  BY <1>0, <1>5, <1>6 DEF S
<1> QED
  BY <1>6, <1>7

\* The calendar scan of expectedSessionDate finds the last session that was due.
LEMMA ScanFindsSession ==
    ASSUME NEW t \in DcTime, NEW s \in DcSymbol
    PROVE  ExpectedSession(t, s) \in Int /\ ExpectedSession(t, s) = SessionDue(t, s)
<1>0. /\ DaySlots \in Nat /\ DaySlots > 0 /\ DcDays \in Nat /\ DcDays > 0 /\ ScanLimit \in Nat
      /\ NormalReady \in 0 .. DaySlots - 1 /\ EarlyReady \in 0 .. DaySlots - 1
  BY DataCheckAssumption
<1>1. PICK z \in -DaySlots .. DaySlots : z = MarketZone[s]
  BY DataCheckAssumption
<1>2. PICK n \in Int : n = DaySlots * DcDays
  BY <1>0
<1>3. t \in Int /\ 0 <= t /\ t <= n - 1
  BY <1>0, <1>2 DEF DcTime
<1>4. PICK today \in Int : today = MarketDate(t, s)
  BY <1>0, <1>1, <1>3, DayOf DEF MarketDate
<1>5. PICK td \in Int : td = today * DaySlots
  BY DaysInOrder
<1>6. td <= t + z /\ t + z < td + DaySlots
  <2>1. t + z \in Int
    BY <1>1, <1>3, <1>0
  <2>2. ((t + z) \div DaySlots) * DaySlots <= t + z /\ t + z < ((t + z) \div DaySlots) * DaySlots + DaySlots
    BY <2>1, DayOf
  <2>3. today = (t + z) \div DaySlots
    BY <1>1, <1>4 DEF MarketDate
  <2> QED
    BY <1>5, <2>2, <2>3
<1>7. today \in -1 .. DcDays
  <2>1. PICK m \in Int : m = -2
    OBVIOUS
  <2>2. today < -1 => td <= -DaySlots - DaySlots
    <3>1. m * DaySlots = -DaySlots - DaySlots
      BY <1>0, <2>1
    <3>2. today <= m => today * DaySlots <= m * DaySlots
      BY DaysInOrder
    <3>3. today < -1 => today <= m
      BY <2>1
    <3> QED
      BY <1>5, <3>1, <3>2, <3>3
  <2>3. n = DcDays * DaySlots
    BY <1>0, <1>2
  <2>4. today > DcDays => n + DaySlots <= td
    BY <1>0, <1>5, <2>3, DaysInOrder
  <2> QED
    BY <1>0, <1>1, <1>3, <1>6, <2>2, <2>4
<1> DEFINE ready(e) == IF e \in EarlyClose[s] THEN EarlyReady ELSE NormalReady
<1>8. \A e \in Int : ready(e) \in 0 .. DaySlots - 1 /\ ReadyAt(s, e) = e * DaySlots - z + ready(e)
  BY <1>0, <1>1 DEF ReadyAt
<1> HIDE DEF ready
<1>9. PICK f : f = IF today \in Closed[s] \/ t < ReadyAt(s, today) THEN today - 1 ELSE today
  OBVIOUS
<1>10. f \in -2 .. DcDays /\ f <= today
  BY <1>0, <1>7, <1>9
<1> DEFINE back == CHOOSE k \in 0 .. ScanLimit - 1 :
                    f - k \notin Closed[s] /\ \A j \in 0 .. k - 1 : f - j \in Closed[s]
<1>11. /\ back \in 0 .. ScanLimit - 1 /\ f - back \notin Closed[s]
       /\ \A j \in 0 .. back - 1 : f - j \in Closed[s]
  BY <1>10, ScanBack
<1>12. ExpectedSession(t, s) = f - back
  BY <1>4, <1>9 DEF ExpectedSession
<1> HIDE DEF back
<1>13. PICK r \in Int : r = f - back
  BY <1>0, <1>10, <1>11
<1>14. r \in -1 - ScanLimit .. DcDays + 1 /\ r \notin Closed[s]
  BY <1>0, <1>10, <1>11, <1>13
<1>r. \A e \in Int : ReadyAt(s, e) \in Int
  <2> TAKE e \in Int
  <2>1. PICK ed \in Int : ed = e * DaySlots
    BY DaysInOrder
  <2>2. PICK w \in 0 .. DaySlots - 1 : ReadyAt(s, e) = ed - z + w
    BY <1>8, <2>1
  <2> QED
    BY <1>0, <1>1, <2>1, <2>2
<1>15. ReadyAt(s, r) <= t
  <2>1. CASE r = today
    <3>1. f = today
      BY <2>1, <1>0, <1>10, <1>11, <1>13
    <3>2. ~(t < ReadyAt(s, today))
      BY <3>1, <1>9
    <3> QED
      BY <2>1, <3>2, <1>3, <1>r
  <2>2. CASE r # today
    <3>1. r < today
      BY <2>2, <1>0, <1>10, <1>11, <1>13
    <3>2. PICK rd \in Int : rd = r * DaySlots
      BY DaysInOrder
    <3>3. rd + DaySlots <= td
      BY <1>5, <3>1, <3>2, DaysInOrder
    <3>4. PICK w \in 0 .. DaySlots - 1 : ReadyAt(s, r) = rd - z + w
      BY <1>8, <3>2
    <3> QED
      BY <1>0, <1>1, <1>3, <1>6, <3>3, <3>4
  <2> QED
    BY <2>1, <2>2
<1>16. ASSUME NEW e \in r + 1 .. DcDays + 1 PROVE e \in Closed[s] \/ ReadyAt(s, e) > t
  <2>1. CASE e <= f
    <3>1. f - e \in 0 .. back - 1 /\ f - (f - e) = e
      BY <2>1, <1>0, <1>10, <1>11, <1>13
    <3> QED
      BY <3>1, <1>11
  <2>2. CASE e > f /\ e = today
    <3>1. today \in Closed[s] \/ t < ReadyAt(s, today)
      BY <2>2, <1>9, <1>10
    <3>2. ReadyAt(s, today) \in Int
      <4>1. PICK w \in 0 .. DaySlots - 1 : ReadyAt(s, today) = td - z + w
        BY <1>5, <1>8
      <4> QED
        BY <4>1, <1>0, <1>1
    <3> QED
      BY <2>2, <3>1, <3>2, <1>3
  <2>3. CASE e > today
    <3>1. PICK ed \in Int : ed = e * DaySlots
      BY DaysInOrder
    <3>2. td + DaySlots <= ed
      BY <2>3, <1>5, <3>1, DaysInOrder
    <3>3. PICK w \in 0 .. DaySlots - 1 : ReadyAt(s, e) = ed - z + w
      BY <1>8, <3>1
    <3> QED
      BY <1>0, <1>1, <1>3, <1>6, <3>2, <3>3
  <2>4. e <= f \/ (e > f /\ e = today) \/ e > today
    BY <1>0, <1>9, <1>10
  <2> QED
    BY <2>1, <2>2, <2>3, <2>4
<1> DEFINE Due == {e \in -1 - ScanLimit .. DcDays + 1 : e \notin Closed[s] /\ ReadyAt(s, e) <= t}
           IsLast(d) == \A e \in d + 1 .. DcDays + 1 : e \in Closed[s] \/ ReadyAt(s, e) > t
<1>17. r \in Due /\ IsLast(r)
  BY <1>14, <1>15, <1>16
<1>19. ASSUME NEW d \in Due, IsLast(d) PROVE d = r
  <2>1. d \in Int /\ d <= DcDays + 1 /\ r <= DcDays + 1
    BY <1>0, <1>14
  <2>2. ~(d < r)
    <3> SUFFICES ASSUME d < r PROVE FALSE
      OBVIOUS
    <3>1. r \in d + 1 .. DcDays + 1
      BY <2>1, <1>0
    <3>2. r \in Closed[s] \/ ReadyAt(s, r) > t
      BY <3>1, <1>19
    <3> QED
      BY <3>2, <1>3, <1>14, <1>15, <1>r
  <2>3. ~(r < d)
    <3> SUFFICES ASSUME r < d PROVE FALSE
      OBVIOUS
    <3>1. d \in r + 1 .. DcDays + 1
      BY <2>1, <1>0
    <3>2. d \in Closed[s] \/ ReadyAt(s, d) > t
      BY <3>1, <1>16
    <3> QED
      BY <3>2, <1>3, <1>r, <2>1
  <2> QED
    BY <2>1, <2>2, <2>3
<1>20. SessionDue(t, s) = CHOOSE d \in Due : IsLast(d)
  BY DEF SessionDue
<1> HIDE DEF Due, IsLast
<1>21. SessionDue(t, s) = r
  BY <1>17, <1>19, <1>20
<1> QED
  BY <1>12, <1>13, <1>21

-----------------------------------------------------------------------------
(* The daily data check: its verdict and its timers *)

\* The instant job j is scheduled at on local day d.
Scheduled(d, j) == d * DaySlots - ServerZone + DailyAt[j]

DcTypes ==
    /\ now \in DcTime
    /\ listed \subseteq DcSymbol
    /\ newest \in [DcItem -> Int]
    /\ dcPc \in [Job -> {"off", "timer", "load", "repair", "list", "cover", "push"}]
    /\ timer \in [Job -> Int]
    /\ runAt \in DcTime
    /\ view \in [syms : SUBSET DcSymbol, newest : [DcItem -> Int]]
    /\ todo \subseteq DcItem
    /\ failed \in BOOLEAN
    /\ verdict \in [quiet : BOOLEAN, at : DcTime, syms : SUBSET DcSymbol]
    /\ startDays \in [Job -> SUBSET Int]
    /\ starts \in 0 .. MaxStarts

\* A series of a quiet verdict: stored, and not stale at the instant of the check.
Kept(i) == newest[i] # Never /\ ~IsStale(i, newest[i], verdict.at)
QuietKept == HasNotifier /\ verdict.quiet => \A i \in verdict.syms \X DcKind : Kept(i)

\* A job that waits for its timer waits for a day it was never started on, and a
\* day it was started on is a day whose scheduled instant has come.
Armed(j) ==
    dcPc[j] = "timer" =>
        \E d \in Int : timer[j] = Scheduled(d, j) /\ now <= timer[j]
                       /\ \A e \in startDays[j] : e < d
RanInTime(j) == \A d \in startDays[j] : Scheduled(d, j) <= now

DcInv ==
    /\ DcTypes
    /\ \A i \in DcItem : newest[i] >= Never
    /\ QuietKept
    /\ dcPc["datacheck"] = "off" => \A j \in Job : dcPc[j] = "off"
    /\ \A j \in Job : Armed(j) /\ RanInTime(j)

LEMMA DcConstants ==
    /\ DaySlots \in Int /\ DaySlots > 0 /\ DcDays \in Int /\ DcDays > 0 /\ ServerZone \in Int
    /\ Never \in Int /\ 0 \in DcTime /\ DcTime \subseteq Int /\ \A t \in DcTime : t >= 0
    /\ WeekAge \in Int /\ MaxStarts \in Nat
    /\ \A j \in Job : DailyAt[j] \in Int /\ 0 <= DailyAt[j] /\ DailyAt[j] < DaySlots
    /\ \A s \in DcSymbol : MarketZone[s] \in Int
<1>1. DaySlots \in Nat /\ DaySlots > 0 /\ DcDays \in Nat /\ DcDays > 0
  BY DataCheckAssumption
<1>2. PICK n \in Int : n = DaySlots * DcDays
  BY <1>1
<1>3. n > 0
  BY <1>1, <1>2
<1> QED
  BY <1>1, <1>2, <1>3, DataCheckAssumption DEF Never, DcTime

LEMMA ScheduledInt ==
    ASSUME NEW d \in Int, NEW j \in Job
    PROVE  Scheduled(d, j) \in Int
<1>1. PICK x \in Int : x = d * DaySlots
  BY DaysInOrder
<1> QED
  BY <1>1, DcConstants DEF Scheduled

\* The timer RunDaily sets is for a later instant, and so for a day whose
\* scheduled instant has not come.
LEMMA NextRunIsLater ==
    ASSUME NEW t \in Int, NEW j \in Job
    PROVE  \E d \in Int : /\ NextRun(t, DailyAt[j]) = Scheduled(d, j) /\ t < Scheduled(d, j)
                          /\ \A e \in Int : Scheduled(e, j) <= t => e < d
<1>1. PICK x \in Int : x = t + ServerZone
  BY DcConstants
<1>2. PICK day \in Int : day = LocalDate(t)
  BY <1>1, DayOf DEF LocalDate
<1>3. PICK dd \in Int : dd = day * DaySlots
  BY DaysInOrder
<1>4. dd <= t + ServerZone /\ t + ServerZone < dd + DaySlots
  <2>1. x \div DaySlots = day
    BY <1>1, <1>2 DEF LocalDate
  <2>2. (x \div DaySlots) * DaySlots <= x /\ x < (x \div DaySlots) * DaySlots + DaySlots
    BY DayOf
  <2> QED
    BY <1>1, <1>3, <2>1, <2>2
<1>5. Scheduled(day, j) = dd - ServerZone + DailyAt[j]
  BY <1>3 DEF Scheduled
<1>6. (day + 1) * DaySlots = dd + DaySlots
  BY <1>3, DcConstants
<1>7. Scheduled(day + 1, j) = dd + DaySlots - ServerZone + DailyAt[j]
  <2>1. PICK y : y = (day + 1) * DaySlots
    OBVIOUS
  <2>2. Scheduled(day + 1, j) = y - ServerZone + DailyAt[j]
    BY <2>1, Zenon DEF Scheduled
  <2>3. y = dd + DaySlots
    BY <1>6, <2>1, Zenon
  <2> QED
    BY <2>2, <2>3, DcConstants
<1>8. NextRun(t, DailyAt[j]) =
        IF Scheduled(day, j) > t THEN Scheduled(day, j) ELSE Scheduled(day, j) + DaySlots
  BY <1>2, Zenon DEF NextRun, Scheduled
<1>9. PICK d \in Int : NextRun(t, DailyAt[j]) = Scheduled(d, j) /\ t < Scheduled(d, j)
  <2>1. CASE Scheduled(day, j) > t
    BY <2>1, <1>8, ScheduledInt
  <2>2. CASE ~(Scheduled(day, j) > t)
    <3>1. day + 1 \in Int
      OBVIOUS
    <3>2. Scheduled(day, j) + DaySlots = Scheduled(day + 1, j)
      BY <1>5, <1>7, DcConstants
    <3>3. t < Scheduled(day + 1, j)
      BY <1>4, <1>7, DcConstants
    <3> QED
      BY <2>2, <1>8, <3>1, <3>2, <3>3
  <2> QED
    BY <2>1, <2>2
<1>10. ASSUME NEW e \in Int, Scheduled(e, j) <= t PROVE e < d
  <2>1. PICK ed \in Int : ed = e * DaySlots
    BY DaysInOrder
  <2>2. PICK fd \in Int : fd = d * DaySlots
    BY DaysInOrder
  <2>3. d <= e => fd <= ed
    BY <2>1, <2>2, DaysInOrder
  <2>4. ed < fd
    BY <1>9, <1>10, <2>1, <2>2, DcConstants DEF Scheduled
  <2> QED
    BY <2>3, <2>4
<1> QED
  BY <1>9, <1>10

\* At the instant of its timer a job is on the day of its timer.
LEMMA ScheduledDate ==
    ASSUME NEW d \in Int, NEW j \in Job
    PROVE  LocalDate(Scheduled(d, j)) = d
<1>1. PICK x \in Int : x = Scheduled(d, j) + ServerZone
  BY ScheduledInt, DcConstants
<1>2. PICK dd \in Int : dd = d * DaySlots
  BY DaysInOrder
<1>3. dd <= x /\ x < dd + DaySlots
  BY <1>1, <1>2, DcConstants DEF Scheduled
<1>4. PICK q \in Int : q = x \div DaySlots
  BY DayOf
<1>5. PICK qd \in Int : qd = q * DaySlots
  BY DaysInOrder
<1>6. qd <= x /\ x < qd + DaySlots
  BY <1>4, <1>5, DayOf
<1>7. ~(q < d)
  <2>1. q < d => qd + DaySlots <= dd
    BY <1>2, <1>5, DaysInOrder
  <2> QED
    BY <2>1, <1>3, <1>6, DcConstants
<1>8. ~(d < q)
  <2>1. d < q => dd + DaySlots <= qd
    BY <1>2, <1>5, DaysInOrder
  <2> QED
    BY <2>1, <1>3, <1>6, DcConstants
<1>9. q = d
  BY <1>7, <1>8
<1> QED
  BY <1>1, <1>4, <1>9 DEF LocalDate

\* Timers that stay set, or are set now.
LEMMA TimersKept ==
    ASSUME DcInv, now' = now, startDays' = startDays,
           \A j \in Job : dcPc'[j] = "timer" =>
               timer'[j] = NextRun(now, DailyAt[j]) \/ (dcPc[j] = "timer" /\ timer'[j] = timer[j])
    PROVE  \A j \in Job : Armed(j)' /\ RanInTime(j)'
<1> TAKE j \in Job
<1>1. RanInTime(j)'
  BY DEF DcInv, RanInTime
<1>2. ASSUME dcPc'[j] = "timer", timer'[j] = NextRun(now, DailyAt[j]) PROVE Armed(j)'
  <2>0. now \in Int /\ startDays[j] \subseteq Int
    BY DcConstants DEF DcInv, DcTypes
  <2>1. PICK d \in Int : /\ NextRun(now, DailyAt[j]) = Scheduled(d, j) /\ now < Scheduled(d, j)
                         /\ \A e \in Int : Scheduled(e, j) <= now => e < d
    BY <2>0, NextRunIsLater
  <2>2. \A e \in startDays[j] : e < d
    BY <2>0, <2>1 DEF DcInv, RanInTime
  <2>3. timer'[j] = Scheduled(d, j) /\ now' <= timer'[j]
    BY <1>2, <2>0, <2>1, ScheduledInt
  <2>4. \A e \in startDays'[j] : e < d
    BY <2>2
  <2> QED
    BY <2>3, <2>4 DEF Armed
<1>3. ASSUME dcPc[j] = "timer", timer'[j] = timer[j] PROVE Armed(j)'
  <2>1. PICK d \in Int : timer[j] = Scheduled(d, j) /\ now <= timer[j]
                         /\ \A e \in startDays[j] : e < d
    BY <1>3 DEF DcInv, Armed
  <2> QED
    BY <1>3, <2>1 DEF Armed
<1>4. dcPc'[j] # "timer" => Armed(j)'
  BY DEF Armed
<1> QED
  BY <1>1, <1>2, <1>3, <1>4

LEMMA NextRunInt ==
    ASSUME NEW t \in Int, NEW j \in Job
    PROVE  NextRun(t, DailyAt[j]) \in Int
BY NextRunIsLater, ScheduledInt

\* Rows are only added, and a newer row is not more stale.
LEMMA NewerRows ==
    ASSUME DcInv, verdict' = verdict, newest' \in [DcItem -> Int],
           \A i \in DcItem : newest'[i] >= newest[i]
    PROVE  QuietKept'
<1> SUFFICES ASSUME HasNotifier, verdict.quiet, NEW i \in verdict.syms \X DcKind
             PROVE  newest'[i] # Never /\ ~IsStale(i, newest'[i], verdict.at)
  BY DEF QuietKept, Kept
<1>1. i \in DcItem /\ i[1] \in DcSymbol /\ verdict.at \in Int
  BY DcConstants DEF DcInv, DcTypes, DcItem
<1>2. PICK u \in Int : u = newest[i]
  BY <1>1 DEF DcInv, DcTypes
<1>3. PICK v \in Int : v = newest'[i]
  BY <1>1
<1>4. u <= v /\ u # Never /\ u >= Never /\ Never \in Int /\ ~IsStale(i, u, verdict.at)
  BY <1>1, <1>2, <1>3, DcConstants DEF DcInv, QuietKept, Kept
<1>5. v # Never
  BY <1>4
<1>6. CASE i[2] = "1w"
  <2>1. PICK a \in Int : a = verdict.at
    BY <1>1
  <2>2. a - u <= WeekAge
    BY <1>4, <1>6, <2>1, DcConstants DEF IsStale
  <2>3. ~(a - v > WeekAge)
    BY <1>4, <2>2, DcConstants
  <2>4. ~IsStale(i, v, verdict.at)
    BY <1>6, <2>1, <2>3 DEF IsStale
  <2> QED
    BY <1>3, <1>5, <2>4
<1>7. CASE i[2] # "1w"
  <2>1. PICK z \in Int : z = MarketZone[i[1]]
    BY <1>1, DcConstants
  <2>2. PICK a \in Int : a = MarketDate(u, i[1])
    BY <2>1, DayOf DEF MarketDate
  <2>3. PICK b \in Int : b = MarketDate(v, i[1])
    BY <2>1, DayOf DEF MarketDate
  <2>4. a <= b
    <3>1. u + z <= v + z
      BY <1>4
    <3>2. (u + z) \div DaySlots <= (v + z) \div DaySlots
      BY <3>1, LaterDays
    <3>3. a = (u + z) \div DaySlots /\ b = (v + z) \div DaySlots
      BY <2>1, <2>2, <2>3 DEF MarketDate
    <3> QED
      BY <3>2, <3>3
  <2>5. PICK x \in Int : x = ExpectedSession(verdict.at, i[1])
    <3>1. verdict.at \in DcTime
      BY DEF DcInv, DcTypes
    <3> QED
      BY <1>1, <3>1, ScanFindsSession
  <2>6. ~(a < x)
    BY <1>4, <1>7, <2>2, <2>5 DEF IsStale
  <2>7. ~(b < x)
    BY <2>4, <2>6
  <2>8. ~IsStale(i, v, verdict.at)
    BY <1>7, <2>3, <2>5, <2>7 DEF IsStale
  <2> QED
    BY <1>3, <1>5, <2>8
<1> QED
  BY <1>6, <1>7

LEMMA DcInitial == DcInit => DcInv
<1> SUFFICES ASSUME DcInit PROVE DcInv
  OBVIOUS
<1>1. DcTypes
  <2>1. view \in [syms : SUBSET DcSymbol, newest : [DcItem -> Int]] /\ newest \in [DcItem -> Int]
    BY DcConstants DEF DcInit, NoView
  <2>2. verdict \in [quiet : BOOLEAN, at : DcTime, syms : SUBSET DcSymbol]
    BY DcConstants DEF DcInit, NoVerdict
  <2>3. starts \in 0 .. MaxStarts
    BY DcConstants DEF DcInit
  <2> QED
    BY <2>1, <2>2, <2>3, DcConstants DEF DcInit, DcTypes
<1>2. QuietKept
  BY DEF DcInit, NoVerdict, QuietKept
<1>3. \A i \in DcItem : newest[i] >= Never
  BY DcConstants DEF DcInit
<1>4. \A j \in Job : Armed(j) /\ RanInTime(j)
  BY DEF DcInit, Armed, RanInTime
<1> QED
  BY <1>1, <1>2, <1>3, <1>4 DEF DcInit, DcInv

\* The end of a check: what it says is what Check has just found.
LEMMA CheckEnds ==
    ASSUME DcInv, NEW quiet \in BOOLEAN, NEW syms \in SUBSET DcSymbol, EndCheck(quiet, syms),
           now' = now, UNCHANGED data, UNCHANGED <<startDays, starts>>,
           dcPc["datacheck"] # "off",
           quiet => \A i \in syms \X DcKind : newest[i] # Never /\ ~IsStale(i, newest[i], runAt)
    PROVE  DcInv'
<1>1. /\ verdict' = [quiet |-> ~HasNotifier \/ quiet, at |-> runAt, syms |-> syms]
      /\ view' = NoView /\ todo' = {} /\ failed' = FALSE /\ runAt' = 0
      /\ dcPc' = [dcPc EXCEPT !["datacheck"] = "timer"]
      /\ timer' = [j \in Job |-> IF j \in {"datacheck"} THEN NextRun(now, DailyAt[j]) ELSE timer[j]]
      /\ newest' = newest /\ listed' = listed
  BY DEF EndCheck, Rearm, SetTimer, data
<1>2. timer' \in [Job -> Int]
  BY <1>1, DcConstants, NextRunInt DEF DcInv, DcTypes
<1>3. verdict' \in [quiet : BOOLEAN, at : DcTime, syms : SUBSET DcSymbol]
  BY <1>1 DEF DcInv, DcTypes
<1>4. dcPc' \in [Job -> {"off", "timer", "load", "repair", "list", "cover", "push"}]
      /\ dcPc'["datacheck"] = "timer" /\ \A j \in Job : j # "datacheck" => dcPc'[j] = dcPc[j]
  BY <1>1 DEF DcInv, DcTypes, Job
<1>5. view' \in [syms : SUBSET DcSymbol, newest : [DcItem -> Int]]
  BY <1>1, DcConstants DEF NoView
<1>6. DcTypes'
  BY <1>1, <1>2, <1>3, <1>4, <1>5, DcConstants DEF DcInv, DcTypes
<1>7. QuietKept'
  BY <1>1 DEF QuietKept, Kept
<1>8. \A j \in Job : Armed(j)' /\ RanInTime(j)'
  <2>1. \A j \in Job : dcPc'[j] = "timer" =>
             timer'[j] = NextRun(now, DailyAt[j]) \/ (dcPc[j] = "timer" /\ timer'[j] = timer[j])
    BY <1>1, <1>4
  <2> QED
    BY <2>1, TimersKept
<1> QED
  BY <1>1, <1>4, <1>6, <1>7, <1>8 DEF DcInv

LEMMA DcKeeps == DcInv /\ [DcNext]_dcVars => DcInv'
<1> SUFFICES ASSUME DcInv, [DcNext]_dcVars PROVE DcInv'
  OBVIOUS
<1>0. DcTypes /\ now \in Int
  BY DcConstants DEF DcInv, DcTypes
<1>1. CASE StartProcess
  <2>1. /\ starts < MaxStarts /\ starts' = starts + 1
        /\ dcPc' = [j \in Job |-> IF j = "hk" THEN "push" ELSE IF j = "us" THEN "off" ELSE "timer"]
        /\ timer' = [j \in Job |-> IF j \in {"datacheck"} THEN NextRun(now, DailyAt[j]) ELSE timer[j]]
        /\ now' = now /\ startDays' = startDays /\ newest' = newest /\ listed' = listed
        /\ runAt' = runAt /\ view' = view /\ todo' = todo /\ failed' = failed /\ verdict' = verdict
    BY <1>1 DEF StartProcess, SetTimer, data, check
  <2>2. timer' \in [Job -> Int]
    BY <1>0, <2>1, NextRunInt DEF DcTypes
  <2>3. starts' \in 0 .. MaxStarts
    BY <1>0, <2>1, DcConstants DEF DcTypes
  <2>4. DcTypes'
    BY <1>0, <2>1, <2>2, <2>3 DEF DcTypes
  <2>5. \A j \in Job : dcPc'[j] = "timer" => timer'[j] = NextRun(now, DailyAt[j])
    BY <2>1 DEF Job
  <2>6. \A j \in Job : Armed(j)' /\ RanInTime(j)'
    BY <2>1, <2>5, TimersKept
  <2>7. QuietKept'
    BY <2>1 DEF DcInv, QuietKept, Kept
  <2>8. dcPc'["datacheck"] = "timer"
    BY <2>1 DEF Job
  <2> QED
    BY <2>1, <2>4, <2>6, <2>7, <2>8 DEF DcInv
<1>2. CASE KillProcess
  <2>1. /\ dcPc' = [j \in Job |-> "off"] /\ timer' = [j \in Job |-> 0]
        /\ view' = NoView /\ todo' = {} /\ failed' = FALSE /\ runAt' = 0 /\ verdict' = verdict
        /\ now' = now /\ startDays' = startDays /\ newest' = newest /\ listed' = listed
        /\ starts' = starts
    BY <1>2 DEF KillProcess, data
  <2>2. view' \in [syms : SUBSET DcSymbol, newest : [DcItem -> Int]]
    BY <2>1, DcConstants DEF NoView
  <2>3. DcTypes'
    BY <1>0, <2>1, <2>2, DcConstants DEF DcTypes
  <2>4. \A j \in Job : dcPc'[j] = "off"
    BY <2>1
  <2>5. \A j \in Job : Armed(j)' /\ RanInTime(j)'
    BY <2>1, <2>4, TimersKept
  <2>6. QuietKept'
    BY <2>1 DEF DcInv, QuietKept, Kept
  <2> QED
    BY <2>1, <2>3, <2>4, <2>5, <2>6 DEF DcInv
<1>3. CASE DcTick
  <2>1. /\ now' = now + 1 /\ now + 1 \in DcTime /\ UNCHANGED <<data, check, jobs, starts>>
        /\ \A j \in Job : dcPc[j] = "timer" => timer[j] > now
    BY <1>3 DEF DcTick
  <2>2. DcTypes'
    BY <1>0, <2>1 DEF DcTypes, data, check, jobs
  <2>3. QuietKept'
    BY <2>1 DEF DcInv, QuietKept, Kept, data, check
  <2>4. ASSUME NEW j \in Job PROVE Armed(j)' /\ RanInTime(j)'
    <3>1. startDays' = startDays /\ dcPc' = dcPc /\ timer' = timer
      BY <2>1 DEF jobs
    <3>2. RanInTime(j)'
      <4> SUFFICES ASSUME NEW d \in startDays[j] PROVE Scheduled(d, j) <= now'
        BY <3>1 DEF RanInTime
      <4>1. Scheduled(d, j) <= now /\ d \in Int
        BY <1>0 DEF DcInv, RanInTime, DcTypes
      <4>2. Scheduled(d, j) \in Int
        BY <4>1, ScheduledInt
      <4> QED
        BY <1>0, <2>1, <4>1, <4>2
    <3>3. Armed(j)'
      <4> SUFFICES ASSUME dcPc[j] = "timer"
                   PROVE  \E d \in Int : timer[j] = Scheduled(d, j) /\ now' <= timer[j]
                                         /\ \A e \in startDays[j] : e < d
        BY <3>1 DEF Armed
      <4>1. PICK d \in Int : timer[j] = Scheduled(d, j) /\ \A e \in startDays[j] : e < d
        BY DEF DcInv, Armed
      <4>2. now' <= timer[j]
        BY <1>0, <2>1 DEF DcTypes
      <4> QED
        BY <4>1, <4>2
    <3> QED
      BY <3>2, <3>3
  <2>5. newest' = newest /\ dcPc' = dcPc
    BY <2>1 DEF data, jobs
  <2> QED
    BY <2>2, <2>3, <2>4, <2>5 DEF DcInv
<1>4. ASSUME NEW j \in Job, TimerFires(j) PROVE DcInv'
  <2>1. /\ dcPc[j] = "timer" /\ now >= timer[j]
        /\ dcPc' = [dcPc EXCEPT ![j] = IF j \in Prep THEN "push" ELSE "load"]
        /\ startDays' = [startDays EXCEPT ![j] = @ \cup {LocalDate(now)}]
        /\ now' = now /\ newest' = newest /\ listed' = listed /\ view' = view /\ todo' = todo
        /\ failed' = failed /\ timer' = timer /\ starts' = starts
        /\ \/ runAt' = runAt /\ verdict' = verdict
           \/ runAt' = now /\ verdict' = NoVerdict
    BY <1>4 DEF TimerFires, data
  <2>2. PICK d \in Int : now = Scheduled(d, j)
    <3>1. PICK d \in Int : timer[j] = Scheduled(d, j) /\ now <= timer[j]
      BY <2>1 DEF DcInv, Armed
    <3> QED
      BY <1>0, <2>1, <3>1, ScheduledInt
  <2>3. LocalDate(now) = d
    BY <2>2, ScheduledDate
  <2>4. runAt' \in DcTime /\ verdict' \in [quiet : BOOLEAN, at : DcTime, syms : SUBSET DcSymbol]
    <3>1. NoVerdict \in [quiet : BOOLEAN, at : DcTime, syms : SUBSET DcSymbol]
      BY DcConstants DEF NoVerdict
    <3> QED
      BY <1>0, <2>1, <3>1 DEF DcTypes
  <2>5. startDays' \in [Job -> SUBSET Int]
    BY <1>0, <2>1, <2>3 DEF DcTypes
  <2>6. DcTypes'
    BY <1>0, <2>1, <2>4, <2>5 DEF DcTypes
  <2>7. QuietKept'
    BY <2>1 DEF DcInv, QuietKept, Kept, NoVerdict
  <2>8. ASSUME NEW k \in Job PROVE Armed(k)' /\ RanInTime(k)'
    <3>1. CASE k = j
      <4>1. dcPc'[k] # "timer" /\ startDays'[k] = startDays[k] \cup {d}
        BY <1>0, <2>1, <2>3, <3>1 DEF DcTypes
      <4>2. Scheduled(d, k) <= now
        BY <2>2, <3>1, <1>0
      <4> QED
        BY <2>1, <4>1, <4>2 DEF DcInv, Armed, RanInTime
    <3>2. CASE k # j
      <4>1. dcPc'[k] = dcPc[k] /\ startDays'[k] = startDays[k] /\ timer'[k] = timer[k]
        BY <1>0, <2>1, <3>2 DEF DcTypes
      <4> QED
        BY <2>1, <4>1 DEF DcInv, Armed, RanInTime
    <3> QED
      BY <3>1, <3>2
  <2>9. dcPc'["datacheck"] # "off"
    <3>1. dcPc["datacheck"] # "off"
      BY <2>1 DEF DcInv
    <3> QED
      BY <1>0, <2>1, <3>1 DEF DcTypes, Job
  <2> QED
    BY <2>1, <2>6, <2>7, <2>8, <2>9 DEF DcInv
<1>5. ASSUME NEW j \in Prep, PushReport(j) PROVE DcInv'
  <2>0. j \in Job
    BY DEF Prep, Job
  <2>1. /\ dcPc[j] = "push"
        /\ now' = now /\ startDays' = startDays /\ newest' = newest /\ listed' = listed
        /\ runAt' = runAt /\ view' = view /\ todo' = todo /\ failed' = failed /\ verdict' = verdict
        /\ starts' = starts
    BY <1>5 DEF PushReport, data, check
  <2>2. \E J \in SUBSET Prep :
          /\ timer' = [k \in Job |-> IF k \in J THEN NextRun(now, DailyAt[k]) ELSE timer[k]]
          /\ dcPc' = [k \in Job |-> IF k \in J THEN "timer" ELSE dcPc[k]]
    <3>1. CASE dcPc["us"] = "off"
      <4>1. dcPc' = [k \in Job |-> IF k \in Prep THEN "timer" ELSE dcPc[k]]
        BY <1>0, <1>5, <3>1 DEF PushReport, DcTypes, Job, Prep
      <4>2. timer' = [k \in Job |-> IF k \in Prep THEN NextRun(now, DailyAt[k]) ELSE timer[k]]
        BY <1>5, <3>1 DEF PushReport, SetTimer
      <4> QED
        BY <4>1, <4>2
    <3>2. CASE dcPc["us"] # "off"
      <4>1. dcPc' = [k \in Job |-> IF k \in {j} THEN "timer" ELSE dcPc[k]]
        BY <1>0, <1>5, <3>2 DEF PushReport, Rearm, DcTypes
      <4>2. timer' = [k \in Job |-> IF k \in {j} THEN NextRun(now, DailyAt[k]) ELSE timer[k]]
        BY <1>5, <3>2 DEF PushReport, Rearm, SetTimer
      <4> QED
        BY <4>1, <4>2
    <3> QED
      BY <3>1, <3>2
  <2>3. PICK J \in SUBSET Prep :
          /\ timer' = [k \in Job |-> IF k \in J THEN NextRun(now, DailyAt[k]) ELSE timer[k]]
          /\ dcPc' = [k \in Job |-> IF k \in J THEN "timer" ELSE dcPc[k]]
    BY <2>2
  <2>4. timer' \in [Job -> Int]
    BY <1>0, <2>3, NextRunInt DEF DcTypes
  <2>5. DcTypes'
    BY <1>0, <2>1, <2>3, <2>4 DEF DcTypes
  <2>6. \A k \in Job : dcPc'[k] = "timer" =>
           timer'[k] = NextRun(now, DailyAt[k]) \/ (dcPc[k] = "timer" /\ timer'[k] = timer[k])
    BY <2>3
  <2>7. \A k \in Job : Armed(k)' /\ RanInTime(k)'
    BY <2>1, <2>6, TimersKept
  <2>8. QuietKept'
    BY <2>1 DEF DcInv, QuietKept, Kept
  <2>9. dcPc'["datacheck"] # "off"
    <3>1. dcPc["datacheck"] # "off"
      BY <2>0, <2>1 DEF DcInv
    <3> QED
      BY <2>3, <3>1 DEF Job, Prep
  <2> QED
    BY <2>1, <2>5, <2>7, <2>8, <2>9 DEF DcInv
<1>6. CASE LoadBefore
  <2>0. dcPc["datacheck"] = "load" /\ UNCHANGED <<now, data, startDays, starts>>
    BY <1>6 DEF LoadBefore
  <2>1. CASE EndCheck(FALSE, {})
    BY <2>0, <2>1, CheckEnds
  <2>2. CASE ~EndCheck(FALSE, {})
    <3>1. /\ todo' = Incomplete([syms |-> listed, newest |-> newest], runAt)
          /\ dcPc' = [dcPc EXCEPT !["datacheck"] = "repair"]
          /\ UNCHANGED <<runAt, view, failed, verdict, timer>>
      BY <1>6, <2>2 DEF LoadBefore
    <3>2. todo' \subseteq DcItem
      BY <1>0, <3>1 DEF Incomplete, DcTypes, DcItem
    <3>3. DcTypes'
      BY <1>0, <2>0, <3>1, <3>2 DEF DcTypes, data
    <3>4. \A k \in Job : dcPc'[k] = "timer" => dcPc[k] = "timer" /\ timer'[k] = timer[k]
      BY <1>0, <3>1 DEF DcTypes
    <3>5. \A k \in Job : Armed(k)' /\ RanInTime(k)'
      BY <2>0, <3>4, TimersKept
    <3>6. QuietKept'
      BY <2>0, <3>1 DEF DcInv, QuietKept, Kept, data
    <3>7. dcPc'["datacheck"] # "off"
      BY <1>0, <3>1 DEF DcTypes, Job
    <3> QED
      BY <2>0, <3>3, <3>5, <3>6, <3>7 DEF DcInv, data
  <2> QED
    BY <2>1, <2>2
<1>7. CASE ReloadList
  <2>0. dcPc["datacheck"] = "repair" /\ UNCHANGED <<now, data, startDays, starts>>
    BY <1>7 DEF ReloadList
  <2>1. CASE EndCheck(FALSE, {})
    BY <2>0, <2>1, CheckEnds
  <2>2. CASE ~EndCheck(FALSE, {})
    <3>1. /\ view' = [view EXCEPT !.syms = listed]
          /\ dcPc' = [dcPc EXCEPT !["datacheck"] = "cover"]
          /\ UNCHANGED <<runAt, todo, failed, verdict, timer>>
      BY <1>7, <2>2 DEF ReloadList
    <3>2. view' \in [syms : SUBSET DcSymbol, newest : [DcItem -> Int]]
      BY <1>0, <3>1 DEF DcTypes
    <3>3. DcTypes'
      BY <1>0, <2>0, <3>1, <3>2 DEF DcTypes, data
    <3>4. \A k \in Job : dcPc'[k] = "timer" => dcPc[k] = "timer" /\ timer'[k] = timer[k]
      BY <1>0, <3>1 DEF DcTypes
    <3>5. \A k \in Job : Armed(k)' /\ RanInTime(k)'
      BY <2>0, <3>4, TimersKept
    <3>6. QuietKept'
      BY <2>0, <3>1 DEF DcInv, QuietKept, Kept, data
    <3>7. dcPc'["datacheck"] # "off"
      BY <1>0, <3>1 DEF DcTypes, Job
    <3> QED
      BY <2>0, <3>3, <3>5, <3>6, <3>7 DEF DcInv, data
  <2> QED
    BY <2>1, <2>2
<1>8. CASE ReloadCoverage
  <2>0. dcPc["datacheck"] = "cover" /\ UNCHANGED <<now, data, startDays, starts>>
    BY <1>8 DEF ReloadCoverage
  <2>1. CASE EndCheck(FALSE, {})
    BY <2>0, <2>1, CheckEnds
  <2>2. CASE ~EndCheck(FALSE, {})
    <3>1. PICK after : after = [view EXCEPT !.newest = newest]
      OBVIOUS
    <3>2. after.syms \in SUBSET DcSymbol /\ after.newest = newest
      BY <1>0, <3>1 DEF DcTypes
    <3>3. PICK quiet \in BOOLEAN : quiet = (~failed /\ Incomplete(after, runAt) = {})
      OBVIOUS
    <3>4. EndCheck(quiet, after.syms)
      BY <1>8, <2>2, <3>1, <3>3 DEF ReloadCoverage
    <3>5. quiet => \A i \in after.syms \X DcKind : newest[i] # Never /\ ~IsStale(i, newest[i], runAt)
      BY <3>2, <3>3 DEF Incomplete
    <3>6. PICK syms \in SUBSET DcSymbol : syms = after.syms
      BY <3>2
    <3> QED
      BY <2>0, <3>4, <3>5, <3>6, CheckEnds
  <2> QED
    BY <2>1, <2>2
<1>9. ASSUME NEW i \in DcItem, RepairBars(i) \/ RepairOptions(i) PROVE DcInv'
  <2>0. /\ todo' = todo \ {i} /\ UNCHANGED <<now, listed, runAt, view, verdict, jobs, starts>>
        /\ failed' \in {failed, TRUE}
    BY <1>9 DEF RepairBars, RepairOptions
  <2>1. newest' \in [DcItem -> Int] /\ \A k \in DcItem : newest'[k] >= newest[k]
    <3>1. CASE newest' = newest
      BY <1>0, <3>1 DEF DcTypes
    <3>2. CASE \E t \in OptionRows(i[1]) : newest' = [newest EXCEPT ![i] = Later(t, @)]
      <4>0. OptionRows(i[1]) \subseteq Int
        BY <1>0, DcConstants DEF OptionRows, Deliverable
      <4>1. PICK t \in Int : newest' = [newest EXCEPT ![i] = Later(t, @)]
        BY <3>2, <4>0
      <4>2. PICK u \in Int : u = newest[i]
        BY <1>0 DEF DcTypes
      <4>3. Later(t, u) \in Int /\ Later(t, u) >= u
        BY DEF Later
      <4>4. newest' = [newest EXCEPT ![i] = Later(t, u)]
        BY <4>1, <4>2
      <4>5. newest' \in [DcItem -> Int]
        BY <1>0, <4>3, <4>4 DEF DcTypes
      <4>6. ASSUME NEW k \in DcItem PROVE newest'[k] >= newest[k]
        <5>1. CASE k = i
          BY <1>0, <4>2, <4>3, <4>4, <5>1 DEF DcTypes
        <5>2. CASE k # i
          BY <1>0, <4>4, <5>2 DEF DcTypes
        <5> QED
          BY <5>1, <5>2
      <4> QED
        BY <4>5, <4>6
    <3> QED
      BY <1>9, <3>1, <3>2 DEF RepairBars, RepairOptions, OptionRows
  <2>2. DcTypes'
    BY <1>0, <2>0, <2>1 DEF DcTypes, jobs
  <2>3. QuietKept'
    BY <2>0, <2>1, NewerRows
  <2>4. \A k \in DcItem : newest'[k] >= Never
    <3> TAKE k \in DcItem
    <3>1. newest[k] \in Int /\ newest'[k] \in Int /\ newest[k] >= Never /\ newest'[k] >= newest[k]
      BY <1>0, <2>1 DEF DcInv, DcTypes
    <3> QED
      BY <3>1, DcConstants
  <2>5. \A k \in Job : Armed(k)' /\ RanInTime(k)'
    BY <2>0, TimersKept DEF jobs
  <2>6. dcPc' = dcPc
    BY <2>0 DEF jobs
  <2> QED
    BY <2>2, <2>3, <2>4, <2>5, <2>6 DEF DcInv
<1>10. ASSUME NEW s \in DcSymbol, EditList(s) PROVE DcInv'
  <2>1. listed' \subseteq DcSymbol /\ UNCHANGED <<now, newest, check, jobs, starts>>
    BY <1>0, <1>10 DEF EditList, DcTypes
  <2>2. DcTypes'
    BY <1>0, <2>1 DEF DcTypes, check, jobs
  <2>3. QuietKept'
    BY <2>1 DEF DcInv, QuietKept, Kept, check
  <2>4. \A k \in Job : Armed(k)' /\ RanInTime(k)'
    BY <2>1, TimersKept DEF jobs
  <2> QED
    BY <2>1, <2>2, <2>3, <2>4 DEF DcInv, jobs
<1>11. CASE UNCHANGED dcVars
  <2>1. UNCHANGED <<now, listed, newest, check, jobs, starts>>
    BY <1>11 DEF dcVars, data
  <2>2. DcTypes'
    BY <1>0, <2>1 DEF DcTypes, check, jobs
  <2>3. QuietKept'
    BY <2>1 DEF DcInv, QuietKept, Kept, check
  <2>4. \A k \in Job : Armed(k)' /\ RanInTime(k)'
    BY <2>1, TimersKept DEF jobs
  <2> QED
    BY <2>1, <2>2, <2>3, <2>4 DEF DcInv, jobs
<1> QED
  BY <1>1, <1>2, <1>3, <1>4, <1>5, <1>6, <1>7, <1>8, <1>9, <1>10, <1>11 DEF DcNext

\* A quiet verdict is the truth.
LEMMA QuietIsTrue == DcInv => DcTypeOK /\ SilentMeansComplete
<1> SUFFICES ASSUME DcInv PROVE DcTypeOK /\ SilentMeansComplete
  OBVIOUS
<1>1. DcTypeOK
  BY DEF DcInv, DcTypes, DcTypeOK
<1>2. ASSUME HasNotifier, verdict.quiet, NEW i \in verdict.syms \X DcKind
      PROVE  /\ newest[i] # Never
             /\ IF i[2] = "1w" THEN verdict.at - newest[i] <= WeekAge
                ELSE MarketDate(newest[i], i[1]) >= SessionDue(verdict.at, i[1])
  <2>1. i \in DcItem /\ i[1] \in DcSymbol /\ verdict.at \in DcTime
    BY DEF DcInv, DcTypes, DcItem
  <2>2. newest[i] # Never /\ ~IsStale(i, newest[i], verdict.at)
    BY <1>2 DEF DcInv, QuietKept, Kept
  <2>3. PICK u \in Int : u = newest[i]
    BY <2>1 DEF DcInv, DcTypes
  <2>4. CASE i[2] = "1w"
    <3>1. PICK a \in Int : a = verdict.at
      BY <2>1, DcConstants
    <3>2. ~(a - u > WeekAge)
      BY <2>2, <2>3, <2>4, <3>1 DEF IsStale
    <3>3. a - u <= WeekAge
      BY <3>2, DcConstants
    <3> QED
      BY <2>2, <2>3, <2>4, <3>1, <3>3
  <2>5. CASE i[2] # "1w"
    <3>1. PICK z \in Int : z = MarketZone[i[1]]
      BY <2>1, DcConstants
    <3>2. PICK a \in Int : a = MarketDate(newest[i], i[1])
      BY <2>3, <3>1, DayOf DEF MarketDate
    <3>3. PICK x \in Int : x = ExpectedSession(verdict.at, i[1]) /\ x = SessionDue(verdict.at, i[1])
      BY <2>1, ScanFindsSession
    <3>4. ~(a < x)
      BY <2>2, <2>5, <3>2, <3>3 DEF IsStale
    <3>5. a >= x
      BY <3>4
    <3> QED
      BY <2>2, <2>5, <3>2, <3>3, <3>5
  <2> QED
    BY <2>4, <2>5
<1> QED
  BY <1>1, <1>2 DEF SilentMeansComplete

\* The daily check for any symbols, zones, calendars and schedules: when alerts are
\* on and the check of datacheck.Service ends without one, the data of every symbol
\* it was about were complete; and RunDaily starts no job twice on one local day.
THEOREM ChecksHonest == DcSpec => ChecksAreHonest
<1> DEFINE Safe == DcTypeOK /\ SilentMeansComplete
           Once == \A j \in Job : (dcPc[j] = "timer" /\ dcPc'[j] \in {"load", "push"})
                                      => LocalDate(now) \notin startDays[j]
<1>1. DcInv => Safe
  BY QuietIsTrue
<1>2. DcInv /\ [DcNext]_dcVars => [Once]_dcVars
  <2> SUFFICES ASSUME DcInv, DcNext, NEW j \in Job, dcPc[j] = "timer", dcPc'[j] \in {"load", "push"}
               PROVE  LocalDate(now) \notin startDays[j]
    OBVIOUS
  <2>0. dcPc \in [Job -> {"off", "timer", "load", "repair", "list", "cover", "push"}]
        /\ now \in Int /\ timer[j] \in Int /\ startDays[j] \subseteq Int
    BY DcConstants DEF DcInv, DcTypes
  <2>1. dcPc["datacheck"] # "off"
    BY DEF DcInv
  <2>2. ~StartProcess /\ ~KillProcess /\ ~DcTick
    BY <2>1 DEF StartProcess, KillProcess, DcTick, jobs
  <2>3. \A k \in Prep : ~PushReport(k)
    BY <2>0 DEF PushReport, Rearm, Prep, Job
  <2>4. ~LoadBefore /\ ~ReloadList /\ ~ReloadCoverage
    BY <2>0 DEF LoadBefore, ReloadList, ReloadCoverage, EndCheck, Rearm
  <2>5. \A i \in DcItem : ~RepairBars(i) /\ ~RepairOptions(i)
    BY DEF RepairBars, RepairOptions, jobs
  <2>6. \A s \in DcSymbol : ~EditList(s)
    BY DEF EditList, jobs
  <2>7. PICK k \in Job : TimerFires(k)
    BY <2>2, <2>3, <2>4, <2>5, <2>6 DEF DcNext
  <2>8. k = j /\ now >= timer[j]
    BY <2>0, <2>7 DEF TimerFires
  <2>9. PICK d \in Int : timer[j] = Scheduled(d, j) /\ now <= timer[j]
                         /\ \A e \in startDays[j] : e < d
    BY DEF DcInv, Armed
  <2>10. LocalDate(now) = d
    BY <2>0, <2>8, <2>9, ScheduledDate
  <2> QED
    BY <2>0, <2>9, <2>10
<1>3. DcSpec => []DcInv
  BY DcInitial, DcKeeps, PTL DEF DcSpec
<1>4. DcSpec => []Safe
  BY <1>1, <1>3, PTL
<1>5. DcSpec => [][Once]_dcVars
  BY <1>2, <1>3, PTL DEF DcSpec
<1> QED
  BY <1>4, <1>5, Zenon DEF ChecksAreHonest, OncePerDay

-----------------------------------------------------------------------------
(* Wheel parameters: reading and writing *)

\* The numbers of a configuration, its keys, and the keys of an object that hold numbers.
Known     == {"full_position_price", "zero_position_price", "max_inventory",
              "covered_call_pct", "profit_take_pct", "trade_gap", "min_dte", "max_dte"}
CfgKey    == Known \cup {"curve", "warnings"}
NumberKey == Known \cup {"max_daily_orders", "lot_size", "no_trade_gap"}

\* An object that can be stored, and a configuration Validate accepts.
Obj(p) ==
    /\ p = [k \in DOMAIN p |-> p[k]]
    /\ DOMAIN p \subseteq NumberKey \cup {"price_position_curve"} \cup AuditKey
    /\ \A k \in DOMAIN p : k \in NumberKey => p[k] \in Int \cup {Null}
    /\ "price_position_curve" \in DOMAIN p => p["price_position_curve"] \in Curve \cup {Null}
    /\ "migration_warnings" \in DOMAIN p => p["migration_warnings"] \in Seq(Dead)

Cfg(c) ==
    /\ c = [k \in CfgKey |-> c[k]]
    /\ \A k \in Known : c[k] \in Int
    /\ c["curve"] \in Curve \cup {<<>>} /\ c["warnings"] \in Seq(Dead)
    /\ ValidConfig(c)

\* What an object gives for a key, or Null; what is made of it; when it is refused.
Given(p, k) ==
    IF k \in DOMAIN p THEN p[k]
    ELSE IF k = "trade_gap" /\ "no_trade_gap" \in DOMAIN p THEN p["no_trade_gap"]
    ELSE IF k = "full_position_price" /\ "price_position_curve" \in DOMAIN p
         THEN p["price_position_curve"][1].price
    ELSE IF k = "zero_position_price" /\ "price_position_curve" \in DOMAIN p
         THEN p["price_position_curve"][Len(p["price_position_curve"])].price
    ELSE Null

ReadAs(p) ==
    [k \in CfgKey |->
        IF k \in Known THEN (IF Given(p, k) = Null THEN Default[k] ELSE Given(p, k))
        ELSE IF k = "curve" THEN ValueOr(p, "price_position_curve", <<>>)
        ELSE Warnings(p)]

Readable(p) ==
    /\ "price_position_curve" \in DOMAIN p =>
          p["price_position_curve"] # Null /\ CurveShape(p["price_position_curve"])
    /\ \A k \in Known : IF Given(p, k) = Null THEN k \notin Required ELSE InRange(k, Given(p, k))

\* The sets of keys, written out.
LEMMA KeyFacts ==
    /\ Required = {"full_position_price", "zero_position_price", "max_inventory"}
    /\ DOMAIN Default = {"covered_call_pct", "profit_take_pct", "trade_gap", "min_dte", "max_dte"}
    /\ Required \cup DOMAIN Default = Known
    /\ LegacyKey = {"max_daily_orders", "lot_size", "no_trade_gap"}
    /\ AuditKey = {"migration_warnings", "migration_warning_count"}
    /\ SettableKey = NumberKey \cup {"price_position_curve"}
BY DEF Required, Anchor, Default, Known, LegacyKey, Dead, AuditKey, SettableKey, NumberKey, Tactical, Dte

\* A stored object is read as it is.
LEMMA PlainIs ==
    ASSUME NEW p, Obj(p)
    PROVE  UnwrapParams(p) = p /\ p # Refused
<1>1. "strategy" \notin DOMAIN p /\ "error" \notin DOMAIN p
  BY DEF Obj, NumberKey, Known, AuditKey
<1> QED
  BY <1>1 DEF UnwrapParams, Refused

\* normalizeLegacyParams keeps the current keys, with what replaces absent ones.
LEMMA NormalizeIs ==
    ASSUME NEW p, Obj(p)
    PROVE  /\ ("price_position_curve" \in DOMAIN p
                 /\ (p["price_position_curve"] = Null \/ ~CurveShape(p["price_position_curve"])))
              => NormalizeLegacyParams(p) = Refused
           /\ ~("price_position_curve" \in DOMAIN p
                 /\ (p["price_position_curve"] = Null \/ ~CurveShape(p["price_position_curve"])))
              => /\ NormalizeLegacyParams(p) # Refused
                 /\ NormalizeLegacyParams(p).curve = ValueOr(p, "price_position_curve", <<>>)
                 /\ NormalizeLegacyParams(p).warnings = Warnings(p)
                 /\ DOMAIN NormalizeLegacyParams(p).out \subseteq Known
                 /\ \A k \in Known : ValueOr(NormalizeLegacyParams(p).out, k, Null) = Given(p, k)
<1> DEFINE cv == ValueOr(p, "price_position_curve", <<>>)
           own == Without(p, AuditKey \cup LegacyKey \cup {"price_position_curve"})
           named == IF "no_trade_gap" \in DOMAIN p
                    THEN own ++ [trade_gap |-> p["no_trade_gap"]] ELSE own
           ends == named ++ [full_position_price |-> cv[1].price,
                             zero_position_price |-> cv[Len(cv)].price]
<1>1. DOMAIN own = DOMAIN p \cap Known /\ \A k \in DOMAIN own : own[k] = p[k]
  <2>1. DOMAIN own = DOMAIN p \ (AuditKey \cup LegacyKey \cup {"price_position_curve"})
        /\ \A k \in DOMAIN own : own[k] = p[k]
    BY DEF Without
  <2>2. DOMAIN p \subseteq Known \cup LegacyKey \cup {"price_position_curve"} \cup AuditKey
    BY KeyFacts DEF Obj, NumberKey
  <2>3. Known \cap (AuditKey \cup LegacyKey \cup {"price_position_curve"}) = {}
    BY KeyFacts DEF Known
  <2> HIDE DEF own
  <2> QED
    BY <2>1, <2>2, <2>3
<1> HIDE DEF own
<1>2. /\ DOMAIN named = DOMAIN own \cup (IF "no_trade_gap" \in DOMAIN p THEN {"trade_gap"} ELSE {})
      /\ \A k \in DOMAIN named : named[k] = IF k \in DOMAIN own THEN own[k] ELSE p["no_trade_gap"]
  BY DEF ++
<1> HIDE DEF named
<1>3. /\ DOMAIN ends = DOMAIN named \cup {"full_position_price", "zero_position_price"}
      /\ \A k \in DOMAIN ends : ends[k] = IF k \in DOMAIN named THEN named[k]
                                          ELSE IF k = "full_position_price" THEN cv[1].price
                                          ELSE cv[Len(cv)].price
  BY DEF ++
<1> HIDE DEF ends
<1>4. NormalizeLegacyParams(p) =
         IF "price_position_curve" \notin DOMAIN p
         THEN [out |-> named, curve |-> <<>>, warnings |-> Warnings(p)]
         ELSE IF cv = Null \/ ~CurveShape(cv) THEN Refused
         ELSE [out |-> ends, curve |-> cv, warnings |-> Warnings(p)]
  BY DEF NormalizeLegacyParams, named, own, ends
<1>5. "price_position_curve" \in DOMAIN p => cv = p["price_position_curve"]
  BY DEF ValueOr
<1>6. "price_position_curve" \notin DOMAIN p => cv = <<>>
  BY DEF ValueOr
<1> HIDE DEF cv
<1>7. \A o, c, w : [out |-> o, curve |-> c, warnings |-> w] # Refused
  BY DEF Refused
<1>8. CASE "price_position_curve" \notin DOMAIN p
  <2>1. /\ NormalizeLegacyParams(p).out = named /\ NormalizeLegacyParams(p).curve = <<>>
        /\ NormalizeLegacyParams(p).warnings = Warnings(p) /\ NormalizeLegacyParams(p) # Refused
    BY <1>4, <1>7, <1>8
  <2>2. DOMAIN named \subseteq Known
    BY <1>1, <1>2 DEF Known
  <2>3. ASSUME NEW k \in Known PROVE ValueOr(named, k, Null) = Given(p, k)
    BY <1>1, <1>2, <1>8 DEF ValueOr, Given
  <2> QED
    BY <1>6, <1>8, <2>1, <2>2, <2>3 DEF cv
<1>9. CASE "price_position_curve" \in DOMAIN p /\ (cv = Null \/ ~CurveShape(cv))
  BY <1>4, <1>5, <1>9
<1>10. CASE "price_position_curve" \in DOMAIN p /\ ~(cv = Null \/ ~CurveShape(cv))
  <2>1. /\ NormalizeLegacyParams(p).out = ends /\ NormalizeLegacyParams(p).curve = cv
        /\ NormalizeLegacyParams(p).warnings = Warnings(p) /\ NormalizeLegacyParams(p) # Refused
    BY <1>4, <1>7, <1>10
  <2>2. DOMAIN ends \subseteq Known
    BY <1>1, <1>2, <1>3 DEF Known
  <2>3. ASSUME NEW k \in Known PROVE ValueOr(ends, k, Null) = Given(p, k)
    BY <1>1, <1>2, <1>3, <1>5, <1>10 DEF ValueOr, Given
  <2> QED
    BY <1>5, <1>10, <2>1, <2>2, <2>3 DEF cv
<1> QED
  BY <1>8, <1>9, <1>10

\* ParseConfig, key by key.
LEMMA ParseIs ==
    ASSUME NEW p, Obj(p)
    PROVE  ParseConfig(p) = IF Readable(p) /\ ValidConfig(ReadAs(p)) THEN ReadAs(p) ELSE Refused
<1> DEFINE norm == NormalizeLegacyParams(p)
           values == BuildParams(norm.out)
           both == values ++ [curve |-> norm.curve, warnings |-> norm.warnings]
           ok == ~("price_position_curve" \in DOMAIN p
                 /\ (p["price_position_curve"] = Null \/ ~CurveShape(p["price_position_curve"])))
<1>1. ParseConfig(p) = IF norm = Refused THEN Refused ELSE IF values = Refused THEN Refused
                       ELSE IF ValidConfig(both) THEN both ELSE Refused
  BY PlainIs DEF ParseConfig
<1>2. CASE ~ok
  <2>1. norm = Refused
    BY <1>2, NormalizeIs
  <2>2. ~Readable(p)
    BY <1>2 DEF Readable
  <2> QED
    BY <1>1, <2>1, <2>2
<1>3. CASE ok
  <2>1. /\ norm # Refused /\ norm.curve = ValueOr(p, "price_position_curve", <<>>)
        /\ norm.warnings = Warnings(p) /\ DOMAIN norm.out \subseteq Known
        /\ \A k \in Known : ValueOr(norm.out, k, Null) = Given(p, k)
    BY <1>3, NormalizeIs
  <2>2. \A k \in DOMAIN norm.out : norm.out[k] = Given(p, k)
    BY <2>1 DEF ValueOr
  <2> HIDE DEF norm
  <2>3. values = IF \E k \in Known : IF Given(p, k) = Null THEN k \in Required
                                     ELSE ~InRange(k, norm.out[k])
                 THEN Refused
                 ELSE [k \in Known |-> IF Given(p, k) = Null THEN Default[k] ELSE norm.out[k]]
    BY <2>1, KeyFacts DEF BuildParams
  <2>4. \A k \in Known : Given(p, k) # Null => norm.out[k] = Given(p, k)
    BY <2>1 DEF ValueOr
  <2>5. (\E k \in Known : IF Given(p, k) = Null THEN k \in Required ELSE ~InRange(k, norm.out[k]))
           <=> ~Readable(p)
    BY <1>3, <2>4 DEF Readable
  <2>6. CASE ~Readable(p)
    <3>1. values = Refused
      BY <2>3, <2>5, <2>6
    <3> QED
      BY <1>1, <2>6, <3>1
  <2>7. CASE Readable(p)
    <3>1. values = [k \in Known |-> IF Given(p, k) = Null THEN Default[k] ELSE norm.out[k]]
      BY <2>3, <2>5, <2>7
    <3>2. values = [k \in Known |-> IF Given(p, k) = Null THEN Default[k] ELSE Given(p, k)]
      BY <2>4, <3>1
    <3> HIDE DEF values
    <3>3. values # Refused
      <4>1. DOMAIN values = Known /\ "max_inventory" \in Known
        BY <3>2 DEF Known
      <4> QED
        BY <4>1 DEF Refused
    <3>4. both = ReadAs(p)
      BY <2>1, <3>2 DEF ReadAs, CfgKey, Known, ++
    <3> HIDE DEF both
    <3> QED
      BY <1>1, <2>1, <2>7, <3>3, <3>4
  <2> QED
    BY <2>6, <2>7
<1> QED
  BY <1>2, <1>3

\* The numbers of a curve.
LEMMA CurvePoints ==
    ASSUME NEW c \in Seq([price : Int, target : Int]), Len(c) >= 2
    PROVE  /\ \A i \in 1 .. Len(c) : c[i].price \in Int /\ c[i].target \in Int
           /\ c[1].price \in Int /\ c[Len(c)].price \in Int
<1>1. PICK n \in Nat : n = Len(c)
  OBVIOUS
<1>2. 1 \in 1 .. n /\ n \in 1 .. n /\ n >= 2
  BY <1>1
<1> DEFINE P == [price : Int, target : Int]
<1>3. \A i \in 1 .. n : c[i] \in P
  <2>1. c \in Seq(P)
    OBVIOUS
  <2> HIDE DEF P
  <2> QED
    BY <1>1, <2>1
<1>4. \A i \in 1 .. n : c[i].price \in Int /\ c[i].target \in Int
  BY <1>3
<1> QED
  BY <1>1, <1>2, <1>4

\* What ParseConfig accepts is a configuration.
LEMMA AcceptedIs ==
    ASSUME NEW p, Obj(p), ParseConfig(p) # Refused
    PROVE  /\ Readable(p) /\ ParseConfig(p) = ReadAs(p) /\ Cfg(ReadAs(p))
           /\ ReadAs(p)["curve"] # <<>> => CurveShape(ReadAs(p)["curve"])
<1>1. Readable(p) /\ ParseConfig(p) = ReadAs(p) /\ ValidConfig(ReadAs(p))
  BY ParseIs
<1>2. ASSUME NEW k \in Known PROVE ReadAs(p)[k] \in Int
  <2>1. ReadAs(p)[k] = IF Given(p, k) = Null THEN Default[k] ELSE Given(p, k)
    BY DEF ReadAs, CfgKey
  <2>2. CASE Given(p, k) = Null
    <3>1. k \in DOMAIN Default
      BY <1>1, <2>2, KeyFacts DEF Readable
    <3>2. \A x \in DOMAIN Default : Default[x] \in Int
      BY StrategyAssumption DEF Default
    <3> QED
      BY <2>1, <2>2, <3>1, <3>2
  <2>3. CASE Given(p, k) # Null
    <3>1. "price_position_curve" \in DOMAIN p =>
            /\ p["price_position_curve"] \in Seq([price : Int, target : Int])
            /\ Len(p["price_position_curve"]) >= 2
      BY <1>1, EntryAssumption DEF Readable, Obj, CurveShape
    <3>2. CASE k \in DOMAIN p
      BY <2>1, <2>3, <3>2 DEF Given, Obj, NumberKey
    <3>3. CASE k \notin DOMAIN p /\ k = "trade_gap" /\ "no_trade_gap" \in DOMAIN p
      BY <2>1, <2>3, <3>3 DEF Given, Obj, NumberKey
    <3>4. CASE /\ k \notin DOMAIN p /\ ~(k = "trade_gap" /\ "no_trade_gap" \in DOMAIN p)
               /\ "price_position_curve" \in DOMAIN p
      <4>1. PICK c \in Seq([price : Int, target : Int]) : c = p["price_position_curve"] /\ Len(c) >= 2
        BY <3>1, <3>4
      <4>3. c[1].price \in Int /\ c[Len(c)].price \in Int
        BY <4>1, CurvePoints
      <4>4. Given(p, k) = c[1].price \/ Given(p, k) = c[Len(c)].price
        BY <2>3, <3>4, <4>1 DEF Given
      <4> QED
        BY <2>1, <2>3, <4>3, <4>4
    <3>5. CASE /\ k \notin DOMAIN p /\ ~(k = "trade_gap" /\ "no_trade_gap" \in DOMAIN p)
               /\ "price_position_curve" \notin DOMAIN p
      BY <2>3, <3>5 DEF Given
    <3> QED
      BY <3>2, <3>3, <3>4, <3>5
  <2> QED
    BY <2>2, <2>3
<1>3. ReadAs(p)["curve"] = ValueOr(p, "price_position_curve", <<>>) /\ ReadAs(p)["warnings"] = Warnings(p)
  BY DEF ReadAs, CfgKey, Known
<1>4. ReadAs(p)["curve"] \in Curve \cup {<<>>}
      /\ (ReadAs(p)["curve"] # <<>> => CurveShape(ReadAs(p)["curve"]))
  BY <1>1, <1>3 DEF ValueOr, Obj, Readable
<1>5. ReadAs(p)["warnings"] \in Seq(Dead)
  <2>0. /\ <<>> \in Seq(Dead) /\ <<"max_daily_orders">> \in Seq(Dead)
        /\ <<"lot_size">> \in Seq(Dead)
    <3>1. "max_daily_orders" \in Dead /\ "lot_size" \in Dead
      BY DEF Dead
    <3> QED
      BY <3>1
  <2>1. ValueOr(p, "migration_warnings", <<>>) \in Seq(Dead)
    BY <2>0, Zenon DEF ValueOr, Obj
  <2>2. Ignored(p) \in Seq(Dead)
    <3>1. PICK a \in Seq(Dead), b \in Seq(Dead) : Ignored(p) = a \o b
      BY <2>0, Zenon DEF Ignored
    <3> QED
      BY <3>1
  <2> QED
    BY <1>3, <2>1, <2>2 DEF Warnings
<1>6. ReadAs(p) = [k \in CfgKey |-> ReadAs(p)[k]]
  BY DEF ReadAs
<1> QED
  BY <1>1, <1>2, <1>4, <1>5, <1>6 DEF Cfg

\* The object that CanonicalParams writes for a configuration.
WrittenKey(c) ==
    (Known \ ((IF c["profit_take_pct"] = 0 THEN {"profit_take_pct"} ELSE {})
                \cup (IF c["curve"] = <<>> THEN {} ELSE {"full_position_price", "zero_position_price"})))
      \cup (IF c["curve"] = <<>> THEN {} ELSE {"price_position_curve"})
      \cup (IF c["warnings"] = <<>> THEN {} ELSE AuditKey)

Written(c) ==
    [k \in WrittenKey(c) |->
        IF k \in Known THEN c[k]
        ELSE IF k = "price_position_curve" THEN c["curve"]
        ELSE IF k = "migration_warnings" THEN c["warnings"]
        ELSE Len(c["warnings"])]

\* CanonicalParams writes that object.
LEMMA CanonicalIs ==
    ASSUME NEW p, ParseConfig(p) # Refused, Cfg(ParseConfig(p))
    PROVE  CanonicalParams(p) = Written(ParseConfig(p))
<1> DEFINE c == ParseConfig(p)
           empty == {k \in {"profit_take_pct"} : c[k] = 0}
           a == Without(c, empty \cup {"curve", "warnings"})
           b == a ++ [strategy |-> "wheel"]
           d == b ++ (IF c.curve = <<>> THEN <<>> ELSE [price_position_curve |-> c.curve])
           e == d ++ (IF c.warnings = <<>> THEN <<>>
                      ELSE [migration_warnings |-> c.warnings,
                            migration_warning_count |-> Len(c.warnings)])
           gone == {"strategy"} \cup (IF c.curve = <<>> THEN {}
                                      ELSE {"full_position_price", "zero_position_price"})
<1>1. MarshalConfig(c) = e
  BY DEF MarshalConfig
<1>2. CanonicalParams(p) = Without(e, gone)
  BY <1>1 DEF CanonicalParams
<1>3. c = [k \in CfgKey |-> c[k]]
  BY DEF Cfg
<1>4. empty = IF c["profit_take_pct"] = 0 THEN {"profit_take_pct"} ELSE {}
  OBVIOUS
<1> HIDE DEF c, empty
<1>5. DOMAIN a = CfgKey \ (empty \cup {"curve", "warnings"}) /\ \A k \in DOMAIN a : a[k] = c[k]
  BY <1>3 DEF Without
<1>6. DOMAIN a = Known \ empty
  <2>1. CfgKey \ {"curve", "warnings"} = Known
    BY DEF CfgKey, Known
  <2> HIDE DEF a
  <2> QED
    BY <1>5, <2>1
<1> HIDE DEF a
<1>7. DOMAIN b = DOMAIN a \cup {"strategy"} /\ \A k \in DOMAIN a : b[k] = a[k]
  BY DEF ++
<1> HIDE DEF b
<1>8. /\ DOMAIN d = DOMAIN b \cup (IF c["curve"] = <<>> THEN {} ELSE {"price_position_curve"})
      /\ \A k \in DOMAIN b : d[k] = b[k]
      /\ "price_position_curve" \notin DOMAIN b /\ c["curve"] # <<>> => d["price_position_curve"] = c["curve"]
  BY DEF ++
<1> HIDE DEF d
<1>9. /\ DOMAIN e = DOMAIN d \cup (IF c["warnings"] = <<>> THEN {} ELSE AuditKey)
      /\ \A k \in DOMAIN d : e[k] = d[k]
      /\ AuditKey \cap DOMAIN d = {} /\ c["warnings"] # <<>> =>
            /\ e["migration_warnings"] = c["warnings"]
            /\ e["migration_warning_count"] = Len(c["warnings"])
  BY DEF ++, AuditKey
<1> HIDE DEF e
<1>10. gone = {"strategy"} \cup (IF c["curve"] = <<>> THEN {}
                                 ELSE {"full_position_price", "zero_position_price"})
  OBVIOUS
<1> HIDE DEF gone
<1>11. /\ "strategy" \notin Known /\ "price_position_curve" \notin Known /\ Known \cap AuditKey = {}
       /\ {"full_position_price", "zero_position_price"} \subseteq Known
       /\ "strategy" \notin AuditKey /\ "price_position_curve" \notin AuditKey
  BY DEF Known, AuditKey
<1>12. DOMAIN e \ gone = WrittenKey(c)
  BY <1>4, <1>6, <1>7, <1>8, <1>9, <1>10, <1>11 DEF WrittenKey
<1>13. ASSUME NEW k \in DOMAIN e \ gone PROVE e[k] = Written(c)[k]
  <2>1. Written(c)[k] = IF k \in Known THEN c[k]
                        ELSE IF k = "price_position_curve" THEN c["curve"]
                        ELSE IF k = "migration_warnings" THEN c["warnings"]
                        ELSE Len(c["warnings"])
    BY <1>12 DEF Written
  <2>2. CASE k \in Known
    <3>1. k \in DOMAIN a
      BY <1>7, <1>8, <1>9, <1>11, <2>2
    <3> QED
      BY <1>5, <1>7, <1>8, <1>9, <2>1, <2>2, <3>1
  <2>3. CASE k = "price_position_curve"
    BY <1>6, <1>7, <1>8, <1>9, <1>11, <2>1, <2>3
  <2>4. CASE k \in AuditKey
    <3>1. AuditKey \cap DOMAIN d = {} /\ c["warnings"] # <<>>
      BY <1>6, <1>7, <1>8, <1>9, <1>11, <2>4
    <3> QED
      BY <1>9, <1>11, <2>1, <2>4, <3>1 DEF AuditKey
  <2> QED
    BY <1>6, <1>7, <1>8, <1>9, <1>10, <1>11, <2>2, <2>3, <2>4
<1>14. Without(e, gone) = [k \in DOMAIN e \ gone |-> e[k]]
  BY DEF Without
<1>15. Written(c) = [k \in WrittenKey(c) |-> Written(c)[k]]
  BY DEF Written
<1>16. Without(e, gone) = Written(c)
  BY <1>12, <1>13, <1>14, <1>15
<1> QED
  BY <1>2, <1>16 DEF c

\* What is written is read as it was meant.
LEMMA WrittenIsRead ==
    ASSUME NEW c, Cfg(c), c["curve"] # <<>> => CurveShape(c["curve"])
    PROVE  /\ Obj(Written(c)) /\ DOMAIN Written(c) \cap LegacyKey = {}
           /\ ParseConfig(Written(c)) = ReadAs(Written(c)) /\ ReadAs(Written(c)) # Refused
           /\ \A k \in CfgKey \ {"full_position_price", "zero_position_price"} :
                 ReadAs(Written(c))[k] = c[k]
           /\ c["curve"] = <<>> => \A k \in CfgKey : ReadAs(Written(c))[k] = c[k]
<1> DEFINE q == Written(c)
           f == ReadAs(q)
           Ends == {"full_position_price", "zero_position_price"}
<1>1. /\ c = [k \in CfgKey |-> c[k]] /\ \A k \in Known : c[k] \in Int
      /\ c["curve"] \in Curve \cup {<<>>} /\ c["warnings"] \in Seq(Dead) /\ ValidConfig(c)
  BY DEF Cfg
<1>2. /\ DOMAIN q = WrittenKey(c) /\ q = [k \in DOMAIN q |-> q[k]]
      /\ \A k \in DOMAIN q : k \in Known => q[k] = c[k]
  BY DEF Written
<1>3. /\ "price_position_curve" \in DOMAIN q <=> c["curve"] # <<>>
      /\ "price_position_curve" \in DOMAIN q => q["price_position_curve"] = c["curve"]
  BY DEF Written, WrittenKey, Known, AuditKey
<1>4. /\ "migration_warnings" \in DOMAIN q <=> c["warnings"] # <<>>
      /\ "migration_warnings" \in DOMAIN q => q["migration_warnings"] = c["warnings"]
  BY DEF Written, WrittenKey, Known, AuditKey
<1>5. /\ DOMAIN q \subseteq Known \cup {"price_position_curve"} \cup AuditKey
      /\ DOMAIN q \cap LegacyKey = {}
  BY <1>2, KeyFacts DEF WrittenKey, Known
<1>6. /\ \A k \in Known \ Ends : k # "profit_take_pct" => k \in DOMAIN q
      /\ "profit_take_pct" \in DOMAIN q <=> c["profit_take_pct"] # 0
      /\ c["curve"] = <<>> => Ends \subseteq DOMAIN q
      /\ c["curve"] # <<>> => Ends \cap DOMAIN q = {}
  BY <1>2 DEF WrittenKey, Known, AuditKey
<1> HIDE DEF q
<1>7. Obj(q)
  BY <1>1, <1>2, <1>3, <1>4, <1>5, KeyFacts DEF Obj, NumberKey
<1>8. \A k \in Known : c[k] # Null
  BY <1>1, EntryAssumption
<1>9. \A k \in Known : k \in DOMAIN q => Given(q, k) = c[k] /\ Given(q, k) # Null
  BY <1>2, <1>8 DEF Given
<1>10. c["profit_take_pct"] = 0 => Given(q, "profit_take_pct") = Null
  BY <1>6 DEF Given
<1>11. \A k \in Known \ Ends : (IF Given(q, k) = Null THEN Default[k] ELSE Given(q, k)) = c[k]
  BY <1>6, <1>9, <1>10 DEF Default, Known
<1>12. \A k \in CfgKey : f[k] = IF k \in Known THEN (IF Given(q, k) = Null THEN Default[k] ELSE Given(q, k))
                              ELSE IF k = "curve" THEN ValueOr(q, "price_position_curve", <<>>)
                              ELSE Warnings(q)
  BY DEF ReadAs
<1>13. ValueOr(q, "price_position_curve", <<>>) = c["curve"]
  BY <1>3 DEF ValueOr
<1>14. Warnings(q) = c["warnings"]
  <2>1. Ignored(q) = <<>>
    <3>1. "max_daily_orders" \notin DOMAIN q /\ "lot_size" \notin DOMAIN q
      BY <1>5, KeyFacts
    <3> QED
      BY <3>1 DEF Ignored
  <2>2. ValueOr(q, "migration_warnings", <<>>) = c["warnings"]
    BY <1>4 DEF ValueOr
  <2> QED
    BY <1>1, <2>1, <2>2 DEF Warnings
<1>15. \A k \in CfgKey \ Ends : f[k] = c[k]
  <2>1. "curve" \notin Known /\ "warnings" \notin Known /\ "curve" \in CfgKey /\ "warnings" \in CfgKey
    BY DEF CfgKey, Known
  <2> HIDE DEF f
  <2> QED
    BY <1>11, <1>12, <1>13, <1>14, <2>1 DEF CfgKey
<1>16. c["curve"] = <<>> => \A k \in CfgKey : f[k] = c[k]
  <2> SUFFICES ASSUME c["curve"] = <<>> PROVE \A k \in Ends : f[k] = c[k]
    BY <1>15
  <2>1. Ends \subseteq Known /\ Ends \subseteq CfgKey
    BY DEF CfgKey, Known
  <2> HIDE DEF f, Ends
  <2> QED
    BY <1>6, <1>9, <1>12, <2>1
<1>17. ValidConfig(f)
  <2>1. {"max_inventory", "curve", "min_dte", "max_dte"} \subseteq CfgKey \ Ends
    BY DEF CfgKey, Known
  <2>2. f.max_inventory = c.max_inventory /\ f.curve = c.curve /\ f.min_dte = c.min_dte
        /\ f.max_dte = c.max_dte
    BY <1>15, <2>1
  <2>3. c.curve = <<>> => f.full_position_price = c.full_position_price
                          /\ f.zero_position_price = c.zero_position_price
    <3>1. Ends \subseteq CfgKey
      BY DEF CfgKey, Known
    <3> QED
      BY <1>16, <3>1
  <2> HIDE DEF f
  <2> QED
    BY <1>1, <2>2, <2>3 DEF ValidConfig
<1>18. Readable(q)
  <2>1. "price_position_curve" \in DOMAIN q => q["price_position_curve"] # Null
                                               /\ CurveShape(q["price_position_curve"])
    BY <1>1, <1>3, EntryAssumption
  <2>2. c["min_dte"] \in MinDte .. MaxDte /\ c["max_dte"] \in MinDte .. MaxDte
    <3>1. c.min_dte >= MinDte /\ c.max_dte <= MaxDte /\ c.min_dte <= c.max_dte
      BY <1>1 DEF ValidConfig
    <3>2. PICK x \in Int, y \in Int : x = c.min_dte /\ y = c.max_dte
      BY <1>1 DEF Known
    <3>3. MinDte \in Int /\ MaxDte \in Int
      BY StrategyAssumption
    <3> QED
      BY <3>1, <3>2, <3>3
  <2>3. ASSUME NEW k \in Known PROVE IF Given(q, k) = Null THEN k \notin Required ELSE InRange(k, Given(q, k))
    <3>1. CASE k \in DOMAIN q
      BY <1>9, <2>2, <3>1 DEF InRange, Dte
    <3>2. CASE k \notin DOMAIN q /\ k = "profit_take_pct"
      BY <1>6, <1>10, <3>2, KeyFacts
    <3>3. CASE k \notin DOMAIN q /\ k # "profit_take_pct"
      <4>1. k \in Ends /\ c["curve"] # <<>>
        BY <1>6, <3>3
      <4>2. k \notin Dte
        BY <4>1 DEF Dte
      <4>3. Given(q, k) # Null
        <5>1. PICK cv \in Seq([price : Int, target : Int]) :
                 cv = q["price_position_curve"] /\ "price_position_curve" \in DOMAIN q /\ Len(cv) >= 2
          BY <1>1, <1>3, <4>1, EntryAssumption DEF CurveShape
        <5>3. cv[1].price \in Int /\ cv[Len(cv)].price \in Int
          BY <5>1, CurvePoints
        <5>4. Given(q, k) = cv[1].price \/ Given(q, k) = cv[Len(cv)].price
          BY <3>3, <4>1, <5>1 DEF Given
        <5> QED
          BY <5>3, <5>4, EntryAssumption
      <4> QED
        BY <4>2, <4>3 DEF InRange
    <3> QED
      BY <3>1, <3>2, <3>3
  <2> QED
    BY <2>1, <2>3 DEF Readable
<1>19. ParseConfig(q) = f
  BY <1>7, <1>17, <1>18, ParseIs
<1>20. f # Refused
  <2>1. DOMAIN f = CfgKey /\ "curve" \in CfgKey
    BY DEF ReadAs, CfgKey
  <2> HIDE DEF f
  <2> QED
    BY <2>1 DEF Refused
<1> QED
  BY <1>5, <1>7, <1>15, <1>16, <1>19, <1>20 DEF q

\* CanonicalParams is its own inverse on what it wrote and keeps the meaning.
LEMMA SaveKeeps ==
    ASSUME NEW p, Obj(p), ParseConfig(p) # Refused
    PROVE  /\ CanonicalParams(p) # Refused /\ Obj(CanonicalParams(p))
           /\ DOMAIN CanonicalParams(p) \cap LegacyKey = {}
           /\ CanonicalParams(CanonicalParams(p)) = CanonicalParams(p)
           /\ Meaning(CanonicalParams(p)) = Meaning(p)
<1> DEFINE c == ParseConfig(p)
           q == CanonicalParams(p)
           f == ParseConfig(q)
           Ends == {"full_position_price", "zero_position_price"}
<1>1. Cfg(c) /\ (c["curve"] # <<>> => CurveShape(c["curve"]))
  BY AcceptedIs
<1>2. q = Written(c)
  BY <1>1, CanonicalIs
<1> HIDE DEF c
<1>3. /\ Obj(q) /\ DOMAIN q \cap LegacyKey = {} /\ f # Refused
      /\ \A k \in CfgKey \ Ends : f[k] = c[k]
      /\ c["curve"] = <<>> => \A k \in CfgKey : f[k] = c[k]
  BY <1>1, <1>2, WrittenIsRead
<1>4. Cfg(f)
  BY <1>3, AcceptedIs
<1>5. CanonicalParams(q) = Written(f)
  BY <1>3, <1>4, CanonicalIs
<1>6. q # Refused
  <2>1. "error" \notin DOMAIN q
    BY <1>3 DEF Obj, NumberKey, Known, AuditKey
  <2> QED
    BY <2>1 DEF Refused
<1> HIDE DEF q, f
<1>7. /\ f["profit_take_pct"] = c["profit_take_pct"] /\ f["curve"] = c["curve"]
      /\ f["warnings"] = c["warnings"] /\ f["max_inventory"] = c["max_inventory"]
  <2>1. {"profit_take_pct", "curve", "warnings", "max_inventory"} \subseteq CfgKey \ Ends
    BY DEF CfgKey, Known
  <2> HIDE DEF Ends
  <2> QED
    BY <1>3, <2>1
<1>8. Written(f) = Written(c)
  <2>1. WrittenKey(f) = WrittenKey(c)
    BY <1>7 DEF WrittenKey
  <2>2. ASSUME NEW k \in WrittenKey(c), k \in Known PROVE f[k] = c[k]
    <3>1. CASE c["curve"] = <<>>
      BY <1>3, <2>2, <3>1 DEF CfgKey
    <3>2. CASE c["curve"] # <<>>
      <4>1. k \notin Ends
        BY <2>2, <3>2 DEF WrittenKey, AuditKey
      <4> QED
        BY <1>3, <2>2, <4>1 DEF CfgKey
    <3> QED
      BY <3>1, <3>2
  <2> QED
    BY <1>7, <2>1, <2>2 DEF Written
<1>9. \A x \in TradePrice : TargetInventory(f, x) = TargetInventory(c, x)
  <2>1. c["curve"] = <<>> => /\ f.full_position_price = c.full_position_price
                             /\ f.zero_position_price = c.zero_position_price
    <3>1. Ends \subseteq CfgKey
      BY DEF CfgKey, Known
    <3> QED
      BY <1>3, <3>1
  <2>2. f.curve = c.curve /\ f.max_inventory = c.max_inventory
    BY <1>7
  <2> QED
    BY <2>1, <2>2 DEF TargetInventory
<1>10. \A k \in Tactical \cup Dte \cup {"max_inventory"} : f[k] = c[k]
  <2>1. Tactical \cup Dte \cup {"max_inventory"} \subseteq CfgKey \ Ends
    BY DEF CfgKey, Known, Tactical, Dte
  <2> HIDE DEF Ends
  <2> QED
    BY <1>3, <2>1
<1>11. /\ Meaning(q) = [targets |-> [x \in TradePrice |-> TargetInventory(f, x)],
                        numbers |-> [k \in Tactical \cup Dte \cup {"max_inventory"} |-> f[k]]]
       /\ Meaning(p) = [targets |-> [x \in TradePrice |-> TargetInventory(c, x)],
                        numbers |-> [k \in Tactical \cup Dte \cup {"max_inventory"} |-> c[k]]]
  BY <1>3 DEF Meaning, f, c
<1>12. Meaning(q) = Meaning(p)
  BY <1>9, <1>10, <1>11
<1> QED
  BY <1>2, <1>3, <1>5, <1>6, <1>8, <1>12 DEF q

\* Only what ParseConfig accepts is written.
LEMMA CanonicalAccepts ==
    ASSUME NEW p, CanonicalParams(p) # Refused
    PROVE  ParseConfig(p) # Refused
BY DEF CanonicalParams

\* The forms in which an object comes back mean the object.
LEMMA FormsAgree ==
    ASSUME NEW p, Obj(p),
           NEW form \in {p, [strategy |-> "wheel"] ++ p, [strategy |-> "wheel", params |-> p]}
    PROVE  CanonicalParams(form) = CanonicalParams(p)
<1>1. "strategy" \notin DOMAIN p /\ "params" \notin DOMAIN p /\ p = [k \in DOMAIN p |-> p[k]]
  BY DEF Obj, NumberKey, Known, AuditKey
<1>2. UnwrapParams(form) = p
  <2>1. CASE form = p
    BY <2>1, PlainIs
  <2>2. CASE form = [strategy |-> "wheel"] ++ p
    <3>1. /\ DOMAIN form = {"strategy"} \cup DOMAIN p /\ form["strategy"] = "wheel"
          /\ \A k \in DOMAIN p : form[k] = p[k]
      BY <1>1, <2>2 DEF ++
    <3>2. UnwrapParams(form) = Without(form, {"strategy"})
      BY <1>1, <3>1 DEF UnwrapParams
    <3>3. Without(form, {"strategy"}) = [k \in DOMAIN p |-> p[k]]
      BY <1>1, <3>1 DEF Without
    <3> QED
      BY <1>1, <3>2, <3>3
  <2>3. CASE form = [strategy |-> "wheel", params |-> p]
    BY <2>3 DEF UnwrapParams
  <2> QED
    BY <2>1, <2>2, <2>3
<1>3. ParseConfig(form) = ParseConfig(p)
  BY <1>2, PlainIs DEF ParseConfig
<1> QED
  BY <1>3 DEF CanonicalParams

\* An object that can be stored, that means what was meant, in canonical form once it
\* was saved.
StInv ==
    /\ Obj(params) /\ saved \in BOOLEAN /\ SavingKeepsMeaning /\ SavedIsCanonical

\* Objects of earlier releases can be stored.
LEMMA StInitial == StInit => StInv
<1> SUFFICES ASSUME StInit PROVE Obj(params)
  BY DEF StInit, StInv, SavingKeepsMeaning, SavedIsCanonical
<1> DEFINE ok == {"full_position_price", "zero_position_price", "price_position_curve", "max_inventory"}
           small(r, S) == /\ r = [k \in DOMAIN r |-> r[k]] /\ DOMAIN r \subseteq S
                          /\ \A k \in DOMAIN r : IF k = "price_position_curve" THEN r[k] \in Curve
                                                 ELSE r[k] \in Int
<1>1. PICK a, g, d :
         /\ params = [max_inventory |-> 4] ++ a ++ g ++ d
         /\ \/ a = [full_position_price |-> 2, zero_position_price |-> 6]
            \/ \E c \in Curve : a = [price_position_curve |-> c]
            \/ \E c \in Curve : a = [price_position_curve |-> c, full_position_price |-> 0]
         /\ g \in {<<>>, [no_trade_gap |-> 0], [no_trade_gap |-> 0, trade_gap |-> 2]}
         /\ d \in {<<>>, [lot_size |-> 1], [lot_size |-> 1, max_daily_orders |-> 2]}
  BY DEF StInit, LegacyRow
<1>2. small(a, ok)
  BY <1>1
<1>e. ASSUME NEW S PROVE small(<<>>, S)
  <2>1. DOMAIN <<>> = {} /\ <<>> = [k \in {} |-> <<>>[k]]
    OBVIOUS
  <2> QED
    BY <2>1
<1>3. small(g, {"no_trade_gap", "trade_gap"})
  <2>1. CASE g = <<>>
    BY <2>1, <1>e
  <2>2. CASE g = [no_trade_gap |-> 0]
    BY <2>2
  <2>3. CASE g = [no_trade_gap |-> 0, trade_gap |-> 2]
    BY <2>3
  <2> QED
    BY <1>1, <2>1, <2>2, <2>3
<1>4. small(d, {"lot_size", "max_daily_orders"})
  <2>1. CASE d = <<>>
    BY <2>1, <1>e
  <2>2. CASE d = [lot_size |-> 1]
    BY <2>2
  <2>3. CASE d = [lot_size |-> 1, max_daily_orders |-> 2]
    BY <2>3
  <2> QED
    BY <1>1, <2>1, <2>2, <2>3
<1>5. small([max_inventory |-> 4], ok)
  OBVIOUS
<1>6. ASSUME NEW r, NEW s, NEW R, NEW S, small(r, R), small(s, S) PROVE small(r ++ s, R \cup S)
  BY <1>6 DEF ++
<1> HIDE DEF small
<1>7. small([max_inventory |-> 4] ++ a, ok \cup ok)
  BY <1>2, <1>5, <1>6
<1>8. small([max_inventory |-> 4] ++ a ++ g, ok \cup ok \cup {"no_trade_gap", "trade_gap"})
  BY <1>3, <1>6, <1>7
<1>9. small(params, ok \cup ok \cup {"no_trade_gap", "trade_gap"} \cup {"lot_size", "max_daily_orders"})
  BY <1>1, <1>4, <1>6, <1>8
<1>10. "price_position_curve" \notin NumberKey /\ "migration_warnings" \notin ok
       /\ ok \cup ok \cup {"no_trade_gap", "trade_gap"} \cup {"lot_size", "max_daily_orders"}
            \subseteq NumberKey \cup {"price_position_curve"}
       /\ "migration_warnings" \notin NumberKey \cup {"price_position_curve"}
  BY DEF NumberKey, Known
<1> QED
  BY <1>9, <1>10 DEF Obj, small

\* Whatever object is stored, a save leaves a canonical one with its meaning.
LEMMA StoreKeeps ==
    ASSUME NEW p, Obj(p), CanonicalParams(p) # Refused, params' = CanonicalParams(p), saved' = TRUE,
           meant' = Meaning(p)
    PROVE  StInv'
<1>1. ParseConfig(p) # Refused
  BY CanonicalAccepts
<1>2. /\ Obj(params') /\ DOMAIN params' \cap LegacyKey = {}
      /\ CanonicalParams(params') = params' /\ Meaning(params') = Meaning(p)
  BY <1>1, SaveKeeps
<1> QED
  BY <1>2 DEF StInv, SavingKeepsMeaning, SavedIsCanonical

\* Saving again and editing preserve it.
LEMMA StStep == StInv /\ [StNext]_stVars => StInv'
<1> SUFFICES ASSUME StInv, [StNext]_stVars PROVE StInv'
  OBVIOUS
<1>1. CASE Resave
  <2>1. PICK form \in {params, [strategy |-> "wheel"] ++ params,
                       [strategy |-> "wheel", params |-> params]} : Store(form)
    BY <1>1 DEF Resave
  <2>2. CanonicalParams(form) = CanonicalParams(params)
    BY FormsAgree DEF StInv
  <2>3. /\ CanonicalParams(params) # Refused /\ params' = CanonicalParams(params) /\ saved' = TRUE
        /\ meant' = Meaning(params) /\ Obj(params)
    BY <1>1, <2>1, <2>2 DEF Resave, Store, StInv, SavingKeepsMeaning
  <2> QED
    BY <2>3, StoreKeeps
<1>2. ASSUME NEW k \in DOMAIN Entry, NEW v \in Entry[k] \cup {Null}, Edit([x \in {k} |-> v] ++ params)
      PROVE  StInv'
  <2> DEFINE p == [x \in {k} |-> v] ++ params
  <2>1. DOMAIN p = {k} \cup DOMAIN params /\ p = [x \in DOMAIN p |-> p[x]] /\ p[k] = v
        /\ \A x \in DOMAIN params : x # k => p[x] = params[x]
    BY DEF ++
  <2>2. k \in NumberKey \cup {"price_position_curve"} /\ "price_position_curve" \notin NumberKey
        /\ "migration_warnings" \notin NumberKey
    BY EntryAssumption, KeyFacts DEF NumberKey, Known
  <2>3. IF k = "price_position_curve" THEN v \in Curve \cup {Null} ELSE v \in Int \cup {Null}
    BY EntryAssumption
  <2>4. Obj(params)
    BY DEF StInv
  <2> HIDE DEF p
  <2>5. Obj(p)
    BY <2>1, <2>2, <2>3, <2>4 DEF Obj
  <2>6. CanonicalParams(p) # Refused /\ params' = CanonicalParams(p) /\ saved' = TRUE /\ meant' = Meaning(p)
    BY <1>2 DEF Edit, Store, p
  <2> QED
    BY <2>5, <2>6, StoreKeeps
<1>3. ASSUME NEW k \in DOMAIN params, Edit(Without(params, {k})) PROVE StInv'
  <2> DEFINE p == Without(params, {k})
  <2>1. DOMAIN p = DOMAIN params \ {k} /\ p = [x \in DOMAIN p |-> p[x]]
        /\ \A x \in DOMAIN p : p[x] = params[x]
    BY DEF Without
  <2>2. Obj(params)
    BY DEF StInv
  <2> HIDE DEF p
  <2>3. Obj(p)
    BY <2>1, <2>2 DEF Obj
  <2>4. CanonicalParams(p) # Refused /\ params' = CanonicalParams(p) /\ saved' = TRUE /\ meant' = Meaning(p)
    BY <1>3 DEF Edit, Store, p
  <2> QED
    BY <2>3, <2>4, StoreKeeps
<1>4. CASE UNCHANGED stVars
  BY <1>4 DEF stVars, StInv, SavingKeepsMeaning, SavedIsCanonical
<1> QED
  BY <1>1, <1>2, <1>3, <1>4 DEF StNext

-----------------------------------------------------------------------------
(* Wheel parameters: the target inventory *)

\* A set of naturals has a least one.
LEMMA LeastNumber ==
    ASSUME NEW S \in SUBSET Nat, S # {}
    PROVE  \E x \in S : \A y \in S : x <= y
<1> DEFINE less == OpToRel(<, Nat)
<1>1. IsWellFoundedOn(less, Nat)
  BY NatLessThanWellFounded
<1>2. \A x, y \in Nat : <<y, x>> \notin less => x <= y
  BY DEF OpToRel
<1> HIDE DEF less
<1>3. PICK x \in S : \A y \in S : <<y, x>> \notin less
  BY <1>1, WFMin, Zenon
<1> QED
  BY <1>2, <1>3

\* A curve whose prices rise and whose targets fall from each point to every later
\* one, and the cases of InterpolateTargetInventory at a price.
Falling(c) ==
    /\ Len(c) \in Nat /\ Len(c) >= 2
    /\ \A i \in 1 .. Len(c) : c[i].price \in Int /\ c[i].target \in Int /\ c[i].target >= 0
    /\ \A i, j \in 1 .. Len(c) : i < j => c[i].price < c[j].price /\ c[j].target <= c[i].target

Before(c, x, f)  == x <= c[1].price /\ f = Whole(c[1].target)
Behind(c, x, f)  == c[1].price < x /\ c[Len(c)].price <= x /\ f = Whole(c[Len(c)].target)
Among(c, x, f, i) ==
    /\ c[i-1].price < x /\ x <= c[i].price /\ x < c[Len(c)].price
    /\ f = Between(c[i-1], c[i], x)

OnCurve(c, x, f) ==
    Before(c, x, f) \/ Behind(c, x, f) \/ \E i \in 2 .. Len(c) : Among(c, x, f, i)

\* A fraction between two whole numbers.
Fraction(f, lo, hi) ==
    /\ f.num \in Int /\ f.den \in Int /\ f.den > 0
    /\ lo * f.den <= f.num /\ f.num <= hi * f.den

\* The checks on neighbours put every two points in order.
LEMMA ShapeFalls ==
    ASSUME NEW c \in Seq([price : Int, target : Int]), CurveShape(c)
    PROVE  Falling(c)
<1> DEFINE P == [price : Int, target : Int]
<1>1. PICK n \in Nat : n = Len(c) /\ n >= 2
  BY DEF CurveShape
<1>2. \A i \in 1 .. n : c[i] \in P
  <2>1. c \in Seq(P)
    OBVIOUS
  <2> HIDE DEF P
  <2> QED
    BY <1>1, <2>1
<1>3. \A i \in 1 .. n : c[i].price \in Int /\ c[i].target \in Int
  BY <1>2
<1>4. \A i \in 1 .. n : c[i].target >= 0
  BY <1>1 DEF CurveShape
<1>5. \A i \in 2 .. n : c[i].price > c[i-1].price /\ c[i].target <= c[i-1].target
  BY <1>1 DEF CurveShape
<1>6. ASSUME NEW i \in 1 .. n PROVE \A j \in 1 .. n : i < j => c[i].price < c[j].price /\ c[j].target <= c[i].target
  <2> DEFINE S == {j \in Nat : j <= n /\ i < j /\ ~(c[i].price < c[j].price /\ c[j].target <= c[i].target)}
  <2>0. SUFFICES ASSUME NEW b \in 1 .. n, i < b, ~(c[i].price < c[b].price /\ c[b].target <= c[i].target)
                 PROVE  FALSE
    OBVIOUS
  <2>1. b \in S
    BY <2>0
  <2>2. PICK j \in S : \A k \in S : j <= k
    BY <2>1, LeastNumber
  <2>3. j \in Nat /\ j <= n /\ i < j /\ ~(c[i].price < c[j].price /\ c[j].target <= c[i].target)
    OBVIOUS
  <2>4. j \in 2 .. n /\ j - 1 \in 1 .. n /\ j - 1 \in Nat
    BY <2>3
  <2>5. c[j].price > c[j-1].price /\ c[j].target <= c[j-1].target
    BY <1>5, <2>4
  <2>6. j - 1 # i
    BY <2>3, <2>5
  <2>7. j - 1 \notin S
    BY <2>2, <2>3, <2>4
  <2>8. c[i].price < c[j-1].price /\ c[j-1].target <= c[i].target
    BY <2>3, <2>4, <2>6, <2>7
  <2>9. \A k \in {i, j - 1, j} : c[k].price \in Int /\ c[k].target \in Int
    <3>1. j \in 1 .. n
      BY <2>4
    <3> QED
      BY <1>3, <2>4, <3>1
  <2>10. PICK p \in Int, q \in Int, r \in Int : p = c[i].price /\ q = c[j-1].price /\ r = c[j].price
    BY <2>9
  <2>11. PICK u \in Int, v \in Int, w \in Int : u = c[i].target /\ v = c[j-1].target /\ w = c[j].target
    BY <2>9
  <2>12. p < r /\ w <= u
    <3>1. r > q /\ w <= v
      BY <2>5, <2>10, <2>11
    <3>2. p < q /\ v <= u
      BY <2>8, <2>10, <2>11
    <3> QED
      BY <3>1, <3>2
  <2>13. c[i].price < c[j].price /\ c[j].target <= c[i].target
    BY <2>10, <2>11, <2>12
  <2> QED
    BY <2>3, <2>13
<1> QED
  BY <1>1, <1>3, <1>4, <1>6 DEF Falling

\* The segment InterpolateTargetInventory looks for exists, and holds the price.
LEMMA InterpolatesOnCurve ==
    ASSUME NEW c, Falling(c), NEW x \in Int
    PROVE  OnCurve(c, x, InterpolateTargetInventory(c, x))
<1> DEFINE Q(j) == x <= c[j].price /\ \A h \in 2 .. j - 1 : x > c[h].price
           i == CHOOSE j \in 2 .. Len(c) : Q(j)
<1>1. PICK n \in Nat : n = Len(c) /\ n >= 2
  BY DEF Falling
<1>2. \A k \in 1 .. n : c[k].price \in Int
  BY <1>1 DEF Falling
<1>3. CASE x <= c[1].price
  BY <1>3 DEF InterpolateTargetInventory, OnCurve, Before
<1>4. CASE ~(x <= c[1].price) /\ x >= c[n].price
  <2>1. c[1].price < x
    BY <1>1, <1>2, <1>4
  <2> QED
    BY <1>1, <1>4, <2>1 DEF InterpolateTargetInventory, OnCurve, Behind
<1>5. CASE ~(x <= c[1].price) /\ ~(x >= c[n].price)
  <2>1. c[1].price < x /\ x < c[n].price
    BY <1>1, <1>2, <1>5
  <2> DEFINE S == {j \in Nat : 2 <= j /\ j <= n /\ x <= c[j].price}
  <2>2. n \in S
    BY <1>1, <1>2, <2>1
  <2>3. PICK m \in S : \A k \in S : m <= k
    BY <2>2, LeastNumber
  <2>4. m \in 2 .. n /\ x <= c[m].price
    OBVIOUS
  <2>5. ASSUME NEW h \in 2 .. m - 1 PROVE x > c[h].price
    <3>1. h \in Nat /\ 2 <= h /\ h <= n /\ h < m
      BY <2>4
    <3>2. h \notin S
      BY <2>3, <2>4, <3>1
    <3> QED
      BY <1>2, <3>1, <3>2
  <2>6. Q(m)
    BY <2>4, <2>5
  <2>7. i \in 2 .. n /\ Q(i)
    BY <1>1, <2>4, <2>6
  <2>8. InterpolateTargetInventory(c, x) = Between(c[i-1], c[i], x)
    BY <1>1, <1>5 DEF InterpolateTargetInventory
  <2> HIDE DEF i
  <2>9. c[i-1].price < x
    <3>1. CASE i = 2
      BY <2>1, <3>1
    <3>2. CASE i # 2
      BY <1>2, <2>7, <3>2
    <3> QED
      BY <3>1, <3>2
  <2>10. Among(c, x, InterpolateTargetInventory(c, x), i)
    BY <1>1, <2>1, <2>7, <2>8, <2>9 DEF Among
  <2> QED
    BY <1>1, <2>7, <2>10 DEF OnCurve
<1> QED
  BY <1>3, <1>4, <1>5

\* Products with a number that is not negative keep the order.
LEMMA Products ==
    ASSUME NEW a \in Int, NEW b \in Int, NEW k \in Int, a <= b, k >= 0
    PROVE  a * k <= b * k /\ k * a <= k * b /\ a * k \in Int /\ b * k \in Int
OBVIOUS

\* Fractions on either side of a whole number are in its order.
LEMMA FractionsApart ==
    ASSUME NEW f, NEW g, NEW m \in Int, NEW n \in Int, NEW lo \in Int, NEW hi \in Int, n <= m,
           Fraction(f, m, hi), Fraction(g, lo, n)
    PROVE  g.num * f.den <= f.num * g.den
<1>1. PICK fn \in Int, fd \in Int, gn \in Int, gd \in Int :
         fn = f.num /\ fd = f.den /\ gn = g.num /\ gd = g.den
  BY DEF Fraction
<1>2. fd > 0 /\ gd > 0 /\ m * fd <= fn /\ gn <= n * gd
  BY <1>1 DEF Fraction
<1>3. gn * fd <= (n * gd) * fd
  BY <1>2, Products
<1>4. (n * gd) * fd <= (m * gd) * fd
  <2>1. n * gd <= m * gd /\ n * gd \in Int /\ m * gd \in Int
    BY <1>2, Products
  <2> QED
    BY <1>2, <2>1, Products
<1>5. (m * fd) * gd <= fn * gd
  BY <1>2, Products
<1>6. (m * gd) * fd = (m * fd) * gd
  OBVIOUS
<1>7. gn * fd <= fn * gd
  <2>1. PICK u \in Int, v \in Int, w \in Int, z \in Int, r \in Int :
           u = gn * fd /\ v = (n * gd) * fd /\ w = (m * gd) * fd /\ z = fn * gd /\ r = (m * fd) * gd
    OBVIOUS
  <2>2. u <= v /\ v <= w /\ w = r /\ r <= z
    BY <1>3, <1>4, <1>5, <1>6, <2>1
  <2>3. u <= z
    BY <2>2
  <2> QED
    BY <2>1, <2>3
<1> QED
  BY <1>1, <1>7

\* Interpolation between two points stays between their targets, and falls.
LEMMA BetweenFalls ==
    ASSUME NEW a, NEW b, NEW x \in Int,
           a.price \in Int, b.price \in Int, a.target \in Int, b.target \in Int,
           a.price < b.price, b.target <= a.target, a.price <= x, x <= b.price
    PROVE  /\ Fraction(Between(a, b, x), b.target, a.target)
           /\ \A y \in Int : x <= y => Between(a, b, y).num <= Between(a, b, x).num
<1>1. PICK p \in Int, q \in Int, s \in Int, t \in Int, d \in Int, e \in Int, k \in Int :
         /\ p = a.price /\ q = b.price /\ s = a.target /\ t = b.target
         /\ d = q - p /\ e = s - t /\ k = x - p
  OBVIOUS
<1>2. d > 0 /\ e >= 0 /\ 0 <= k /\ k <= d
  BY <1>1
<1>3. \A y \in Int : Between(a, b, y).num = s * d + (y - p) * (t - s) /\ Between(a, b, y).den = d
  BY <1>1 DEF Between
<1>4. \A y \in Int : (y - p) * (t - s) = -((y - p) * e)
  BY <1>1
<1>5. ASSUME NEW y \in Int
      PROVE  Between(a, b, y).num = s * d - (y - p) * e
  <2>1. PICK u \in Int, v \in Int, w \in Int : u = s * d /\ v = (y - p) * (t - s) /\ w = (y - p) * e
    OBVIOUS
  <2>2. Between(a, b, y).num = u + v /\ v = -w
    BY <1>3, <1>4, <2>1
  <2>3. u + v = u - w
    BY <2>2
  <2> QED
    BY <2>1, <2>2, <2>3
<1>6. 0 <= k * e /\ k * e <= d * e /\ k * e \in Int /\ d * e \in Int
  <2>1. 0 * e <= k * e /\ k * e <= d * e
    BY <1>2, Products
  <2> QED
    BY <2>1
<1>7. t * d = s * d - d * e /\ t * d \in Int /\ s * d \in Int
  BY <1>1
<1>8. Fraction(Between(a, b, x), t, s)
  <2>1. PICK u \in Int, v \in Int, w \in Int, z \in Int :
           u = s * d /\ v = k * e /\ w = d * e /\ z = t * d
    BY <1>6, <1>7
  <2>2. Between(a, b, x).num = u - v /\ Between(a, b, x).den = d
    BY <1>1, <1>3, <1>5, <2>1
  <2>3. z <= u - v /\ u - v <= u /\ u - v \in Int
    BY <1>6, <1>7, <2>1
  <2> QED
    BY <1>2, <2>1, <2>2, <2>3 DEF Fraction
<1>9. ASSUME NEW y \in Int, x <= y PROVE Between(a, b, y).num <= Between(a, b, x).num
  <2>1. PICK m \in Int : m = y - p /\ k <= m
    BY <1>1, <1>9
  <2>2. k * e <= m * e
    BY <1>2, <2>1, Products
  <2>3. Between(a, b, y).num = s * d - m * e /\ Between(a, b, x).num = s * d - k * e
    BY <1>1, <1>5, <2>1
  <2>4. PICK u \in Int, v \in Int, w \in Int : u = s * d /\ v = k * e /\ w = m * e
    OBVIOUS
  <2> QED
    BY <2>2, <2>3, <2>4
<1> QED
  BY <1>1, <1>8, <1>9

\* The targets that bound the inventory at a price.
LEMMA OnCurveBounds ==
    ASSUME NEW c, Falling(c), NEW x \in Int, NEW f
    PROVE  /\ Before(c, x, f) => Fraction(f, c[1].target, c[1].target)
           /\ Behind(c, x, f) => Fraction(f, c[Len(c)].target, c[Len(c)].target)
           /\ \A i \in 2 .. Len(c) : Among(c, x, f, i) => Fraction(f, c[i].target, c[i-1].target)
<1>1. PICK n \in Nat : n = Len(c) /\ n >= 2
  BY DEF Falling
<1>2. c[1].target \in Int /\ c[n].target \in Int
  BY <1>1 DEF Falling
<1>3. ASSUME NEW m \in Int PROVE Fraction(Whole(m), m, m)
  BY DEF Fraction, Whole
<1>4. ASSUME NEW i \in 2 .. n, Among(c, x, f, i) PROVE Fraction(f, c[i].target, c[i-1].target)
  <2>1. i \in 1 .. n /\ i - 1 \in 1 .. n /\ i - 1 < i
    OBVIOUS
  <2>2. /\ c[i].price \in Int /\ c[i-1].price \in Int /\ c[i].target \in Int /\ c[i-1].target \in Int
        /\ c[i-1].price < c[i].price /\ c[i].target <= c[i-1].target
    BY <1>1, <2>1 DEF Falling
  <2>3. c[i-1].price <= x /\ x <= c[i].price /\ f = Between(c[i-1], c[i], x)
    BY <1>4, <2>2 DEF Among
  <2> QED
    BY <2>2, <2>3, BetweenFalls
<1> QED
  BY <1>1, <1>2, <1>3, <1>4 DEF Before, Behind

\* The inventory at a price is between those of the ends of the curve.
LEMMA OnCurveRange ==
    ASSUME NEW c, Falling(c), NEW x \in Int, NEW f, OnCurve(c, x, f),
           NEW max \in Int, \A i \in 1 .. Len(c) : c[i].target <= max
    PROVE  f.num >= 0 /\ f.num <= max * f.den /\ f.den \in Int /\ f.num \in Int
<1>1. PICK n \in Nat : n = Len(c) /\ n >= 2
  BY DEF Falling
<1>2. PICK i \in 1 .. n, j \in 1 .. n : Fraction(f, c[i].target, c[j].target)
  <2>1. 1 \in 1 .. n /\ n \in 1 .. n /\ \A i \in 2 .. n : i \in 1 .. n /\ i - 1 \in 1 .. n
    BY <1>1
  <2> QED
    BY <1>1, <2>1, OnCurveBounds, Zenon DEF OnCurve
<1>3. PICK lo \in Int, hi \in Int, num \in Int, den \in Int :
         /\ lo = c[i].target /\ hi = c[j].target /\ num = f.num /\ den = f.den
         /\ lo >= 0 /\ hi <= max /\ den > 0 /\ lo * den <= num /\ num <= hi * den
  BY <1>1, <1>2 DEF Falling, Fraction
<1>4. 0 <= lo * den
  <2>1. 0 * den <= lo * den
    BY <1>3, Products
  <2> QED
    BY <2>1
<1>5. hi * den <= max * den
  BY <1>3, Products
<1>6. 0 <= num /\ num <= max * den
  <2>1. PICK u \in Int, v \in Int, w \in Int : u = lo * den /\ v = hi * den /\ w = max * den
    OBVIOUS
  <2>2. 0 <= u /\ u <= num /\ num <= v /\ v <= w
    BY <1>3, <1>4, <1>5, <2>1
  <2>3. 0 <= num /\ num <= w
    BY <2>2
  <2> QED
    BY <2>1, <2>3
<1> QED
  BY <1>3, <1>6

\* The inventory never grows with the price.
LEMMA OnCurveFalls ==
    ASSUME NEW c, Falling(c), NEW x \in Int, NEW y \in Int, x <= y,
           NEW f, NEW g, OnCurve(c, x, f), OnCurve(c, y, g)
    PROVE  g.num * f.den <= f.num * g.den
<1>1. PICK n \in Nat : n = Len(c) /\ n >= 2
  BY DEF Falling
<1>2. /\ \A i \in 1 .. n : c[i].price \in Int /\ c[i].target \in Int
      /\ \A i, j \in 1 .. n : i < j => c[i].price < c[j].price /\ c[j].target <= c[i].target
  BY <1>1 DEF Falling
<1>3. \A i, j \in 1 .. n : i <= j => c[i].price <= c[j].price /\ c[j].target <= c[i].target
  BY <1>2
<1>4. 1 \in 1 .. n /\ n \in 1 .. n
  BY <1>1
<1>5. ASSUME NEW h \in 1 .. n, NEW i \in 1 .. n, NEW j \in 1 .. n, NEW k \in 1 .. n, i <= j,
             Fraction(f, c[i].target, c[h].target), Fraction(g, c[k].target, c[j].target)
      PROVE  g.num * f.den <= f.num * g.den
  <2>1. c[j].target <= c[i].target
    BY <1>3, <1>5
  <2>2. c[h].target \in Int /\ c[i].target \in Int /\ c[j].target \in Int /\ c[k].target \in Int
    BY <1>2
  <2> QED
    BY <1>5, <2>1, <2>2, FractionsApart
<1>6. CASE Before(c, x, f)
  <2>1. Fraction(f, c[1].target, c[1].target)
    BY <1>6, OnCurveBounds
  <2>2. PICK j \in 1 .. n, k \in 1 .. n : Fraction(g, c[k].target, c[j].target)
    <3>1. \A i \in 2 .. n : i \in 1 .. n /\ i - 1 \in 1 .. n
      OBVIOUS
    <3> QED
      BY <1>1, <1>4, <3>1, OnCurveBounds, Zenon DEF OnCurve
  <2> QED
    BY <1>4, <1>5, <2>1, <2>2
<1>7. CASE Behind(c, y, g)
  <2>1. Fraction(g, c[n].target, c[n].target)
    BY <1>1, <1>7, OnCurveBounds
  <2>2. PICK i \in 1 .. n, h \in 1 .. n : Fraction(f, c[i].target, c[h].target)
    <3>1. \A i \in 2 .. n : i \in 1 .. n /\ i - 1 \in 1 .. n
      OBVIOUS
    <3> QED
      BY <1>1, <1>4, <3>1, OnCurveBounds, Zenon DEF OnCurve
  <2> QED
    BY <1>4, <1>5, <2>1, <2>2
<1>8. CASE Behind(c, x, f) /\ ~Behind(c, y, g)
  <2>1. c[1].price < y /\ c[n].price <= y
    BY <1>1, <1>2, <1>4, <1>8 DEF Behind
  <2> QED
    BY <1>1, <1>2, <1>4, <1>8, <2>1 DEF OnCurve, Before, Among
<1>9. CASE Before(c, y, g) /\ ~Before(c, x, f)
  <2>1. x <= c[1].price
    BY <1>2, <1>4, <1>9 DEF Before
  <2>2. \A i \in 2 .. n : c[1].price <= c[i-1].price
    BY <1>3, <1>4
  <2> QED
    BY <1>1, <1>2, <1>4, <1>9, <2>1, <2>2 DEF OnCurve, Behind, Among
<1>10. ASSUME NEW i \in 2 .. n, NEW j \in 2 .. n, Among(c, x, f, i), Among(c, y, g, j)
       PROVE  g.num * f.den <= f.num * g.den
  <2>0. i \in 1 .. n /\ j \in 1 .. n /\ i - 1 \in 1 .. n /\ j - 1 \in 1 .. n
    OBVIOUS
  <2>1. Fraction(f, c[i].target, c[i-1].target) /\ Fraction(g, c[j].target, c[j-1].target)
    BY <1>1, <1>10, OnCurveBounds
  <2>2. CASE i < j
    BY <1>5, <2>0, <2>1, <2>2
  <2>3. CASE i = j
    <3>1. /\ f = Between(c[i-1], c[i], x) /\ g = Between(c[i-1], c[i], y)
          /\ c[i-1].price < x /\ x <= c[i].price
      BY <1>10, <2>3 DEF Among
    <3>2. /\ c[i].price \in Int /\ c[i-1].price \in Int /\ c[i].target \in Int /\ c[i-1].target \in Int
          /\ c[i-1].price < c[i].price /\ c[i].target <= c[i-1].target
      BY <1>2, <2>0
    <3>3. c[i-1].price <= x
      BY <3>1, <3>2
    <3>4. g.num <= f.num
      BY <3>1, <3>2, <3>3, BetweenFalls
    <3>5. f.den = g.den
      BY <3>1 DEF Between
    <3>6. PICK u \in Int, v \in Int, d \in Int : u = g.num /\ v = f.num /\ d = f.den /\ d > 0
      BY <2>1 DEF Fraction
    <3>7. u * d <= v * d
      BY <3>4, <3>6, Products
    <3> QED
      BY <3>5, <3>6, <3>7
  <2>4. CASE j < i
    <3>1. c[j].price <= c[i-1].price
      BY <1>3, <2>0, <2>4
    <3>2. c[i-1].price < x /\ y <= c[j].price
      BY <1>10 DEF Among
    <3>3. c[j].price \in Int /\ c[i-1].price \in Int
      BY <1>2, <2>0
    <3> QED
      BY <3>1, <3>2, <3>3
  <2> QED
    BY <2>2, <2>3, <2>4
<1> QED
  BY <1>1, <1>6, <1>7, <1>8, <1>9, <1>10 DEF OnCurve

\* The curve a configuration follows: its own, or the line between its end points.
Points(c) ==
    IF c["curve"] # <<>> THEN c["curve"]
    ELSE <<[price |-> c["full_position_price"], target |-> c["max_inventory"]],
           [price |-> c["zero_position_price"], target |-> 0]>>

\* TargetInventory follows that curve, with one or without.
LEMMA PointsFall ==
    ASSUME NEW c, Cfg(c), NEW x \in Int
    PROVE  /\ Falling(Points(c)) /\ OnCurve(Points(c), x, TargetInventory(c, x))
           /\ c["max_inventory"] \in Int
           /\ \A i \in 1 .. Len(Points(c)) : Points(c)[i].target <= c["max_inventory"]
<1>1. /\ c["full_position_price"] \in Int /\ c["zero_position_price"] \in Int
      /\ c["max_inventory"] \in Int /\ c["max_inventory"] > 0
  BY DEF Cfg, Known, ValidConfig
<1>2. CASE c["curve"] # <<>>
  <2>1. PICK q \in Seq([price : Int, target : Int]) : q = c["curve"] /\ q = Points(c)
    BY <1>2, EntryAssumption DEF Cfg, Points
  <2>2. CurveShape(q) /\ \A i \in 1 .. Len(q) : q[i].target <= c["max_inventory"]
    BY <1>2, <2>1 DEF Cfg, ValidConfig, ValidatePricePositionCurve
  <2>3. Falling(q)
    BY <2>2, ShapeFalls
  <2>4. TargetInventory(c, x) = InterpolateTargetInventory(q, x)
    BY <1>2, <2>1 DEF TargetInventory
  <2>5. OnCurve(q, x, TargetInventory(c, x))
    BY <2>3, <2>4, InterpolatesOnCurve
  <2> QED
    BY <1>1, <2>1, <2>2, <2>3, <2>5
<1>3. CASE c["curve"] = <<>>
  <2> DEFINE q == Points(c)
  <2>1. c["full_position_price"] > 0 /\ c["zero_position_price"] > c["full_position_price"]
    BY <1>3 DEF Cfg, ValidConfig
  <2>2. /\ Len(q) = 2
        /\ q[1] = [price |-> c["full_position_price"], target |-> c["max_inventory"]]
        /\ q[2] = [price |-> c["zero_position_price"], target |-> 0]
    BY <1>3 DEF Points
  <2>3. /\ q[1].price = c["full_position_price"] /\ q[1].target = c["max_inventory"]
        /\ q[2].price = c["zero_position_price"] /\ q[2].target = 0
    BY <2>2
  <2> HIDE DEF q
  <2>4. Falling(q)
    <3>1. \A i \in 1 .. 2 : q[i].price \in Int /\ q[i].target \in Int /\ q[i].target >= 0
      BY <1>1, <2>3
    <3>2. \A i, j \in 1 .. 2 : i < j => i = 1 /\ j = 2
      OBVIOUS
    <3>3. q[1].price < q[2].price /\ q[2].target <= q[1].target
      BY <1>1, <2>1, <2>3
    <3> QED
      BY <2>2, <3>1, <3>2, <3>3 DEF Falling
  <2>5. \A i \in 1 .. Len(q) : q[i].target <= c["max_inventory"]
    BY <1>1, <2>2, <2>3
  <2>6. TargetInventory(c, x) = IF x <= q[1].price THEN Whole(q[1].target)
                                ELSE IF x >= q[2].price THEN Whole(q[2].target)
                                ELSE Between(q[1], q[2], x)
    BY <1>3, <2>2, <2>3 DEF TargetInventory
  <2>7. OnCurve(q, x, TargetInventory(c, x))
    <3>1. CASE x <= q[1].price
      BY <2>6, <3>1 DEF OnCurve, Before
    <3>2. CASE ~(x <= q[1].price) /\ x >= q[2].price
      <4>1. q[1].price < x /\ q[2].price <= x
        BY <1>1, <2>3, <3>2
      <4> QED
        BY <2>2, <2>6, <3>2, <4>1 DEF OnCurve, Behind
    <3>3. CASE ~(x <= q[1].price) /\ ~(x >= q[2].price)
      <4>1. q[1].price < x /\ x <= q[2].price /\ x < q[2].price
        BY <1>1, <2>3, <3>3
      <4>2. Among(q, x, TargetInventory(c, x), 2)
        BY <2>2, <2>6, <3>3, <4>1 DEF Among
      <4>3. 2 \in 2 .. Len(q)
        BY <2>2
      <4> QED
        BY <4>2, <4>3 DEF OnCurve
    <3> QED
      BY <3>1, <3>2, <3>3
  <2> QED
    BY <1>1, <2>4, <2>5, <2>7 DEF q
<1> QED
  BY <1>2, <1>3

\* The target of an accepted object is in range and falls.
LEMMA TargetsFall == StInv => TargetFallsWithPrice
<1> SUFFICES ASSUME StInv, ParseConfig(params) # Refused PROVE TargetFallsWithPrice
  BY DEF TargetFallsWithPrice
<1> DEFINE c == ParseConfig(params)
<1>1. Cfg(c)
  BY AcceptedIs DEF StInv
<1> HIDE DEF c
<1>2. \A x \in TradePrice : x \in Int
  BY StrategyAssumption
<1>3. ASSUME NEW x \in TradePrice
      PROVE  TargetInventory(c, x).num >= 0
             /\ TargetInventory(c, x).num <= c["max_inventory"] * TargetInventory(c, x).den
  BY <1>1, <1>2, PointsFall, OnCurveRange
<1>4. ASSUME NEW x \in TradePrice, NEW y \in TradePrice, x <= y
      PROVE  TargetInventory(c, y).num * TargetInventory(c, x).den
               <= TargetInventory(c, x).num * TargetInventory(c, y).den
  <2>1. /\ Falling(Points(c)) /\ OnCurve(Points(c), x, TargetInventory(c, x))
        /\ OnCurve(Points(c), y, TargetInventory(c, y))
    BY <1>1, <1>2, PointsFall
  <2> QED
    BY <1>2, <1>4, <2>1, OnCurveFalls
<1> QED
  BY <1>3, <1>4 DEF TargetFallsWithPrice, c

\* Every specification of saves and edits is faithful (CanonicalParams, ParseConfig,
\* TargetInventory): for any curves and any entries, a saved object means what was
\* entered, is its own canonical form without legacy keys, and the target it asks
\* for lies between zero and the maximum and never grows with the price.
THEOREM SavesFaithful == StSpec => []SavesAreFaithful
<1>1. StInv => SavesAreFaithful
  <2> SUFFICES ASSUME StInv PROVE SavesAreFaithful
    OBVIOUS
  <2>1. StTypeOK
    BY KeyFacts DEF StInv, Obj, StTypeOK
  <2> QED
    BY <2>1, TargetsFall DEF StInv, SavesAreFaithful
<1> QED
  BY <1>1, StInitial, StStep, PTL DEF StSpec

=============================================================================
