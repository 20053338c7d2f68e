----------------------------- MODULE ConfigStore -----------------------------
(***************************************************************************)
(* internal/config/store.go: the key-value file ~/.wbot/wbot.conf.  Set    *)
(* loads the file, changes one key and writes it back through a temporary  *)
(* file and a rename, under the mutex of its Store.  A process may be      *)
(* killed anywhere; requests of one server share one Store, and a second   *)
(* Store on the same directory (another process) does not share its mutex. *)
(***************************************************************************)
EXTENDS Integers

CONSTANTS
    Key,       \* whitelisted keys
    Value,     \* values
    Unset,     \* no value
    Caller,    \* concurrent calls of Set or Lookup
    Stores,    \* Stores on the directory
    Torn       \* a file of which only a part was written


VARIABLES
    storeOf,    \* caller -> the Store it uses, which never changes
    file,       \* content of wbot.conf
    mutex,      \* Store -> the caller inside, or Unset
    cfPc,       \* caller -> control point
    cfArg,      \* caller -> key and value of its Set
    cfMem,      \* caller -> the map it has loaded and changed
    tmp,        \* caller -> content of its temporary file
    cfSeen,     \* caller -> what its last load returned
    acked       \* writes acknowledged to their callers, newest last per key

cfVars == <<storeOf, file, mutex, cfPc, cfArg, cfMem, tmp, cfSeen, acked>>

Content == [Key -> Value \cup {Unset}]
Empty   == [k \in Key |-> Unset]

ASSUME ConfigAssumption ==
    Unset \notin Value \cup Caller /\ Torn \notin Content \cup {Unset}

CfTypeOK ==
    /\ storeOf \in [Caller -> Stores]
    /\ file \in Content \cup {Torn}
    /\ mutex \in [Stores -> Caller \cup {Unset}]
    /\ cfPc \in [Caller -> {"start", "lock", "write", "sync", "rename", "done", "read"}]
    /\ acked \in Content

CfInit ==
    /\ storeOf \in [Caller -> Stores]
    /\ file = Empty
    /\ mutex = [s \in Stores |-> Unset]
    /\ cfPc = [c \in Caller |-> "start"]
    /\ cfArg = [c \in Caller |-> <<>>]
    /\ cfMem = [c \in Caller |-> Empty]
    /\ tmp = [c \in Caller |-> Unset]
    /\ cfSeen = [c \in Caller |-> Empty]
    /\ acked = Empty

CfGoto(c, label) == cfPc' = [cfPc EXCEPT ![c] = label]
Unlock(c) == mutex' = [mutex EXCEPT ![storeOf[c]] = IF @ = c THEN Unset ELSE @]

\* Set is called with a whitelisted key and a value that is neither empty nor
\* too long (others are refused before the lock), or List or Lookup is called.
CallSet(c, k, v) ==
    /\ cfPc[c] = "start"
    /\ cfArg' = [cfArg EXCEPT ![c] = <<k, v>>]
    /\ CfGoto(c, "lock")
    /\ UNCHANGED <<storeOf, file, mutex, cfMem, tmp, cfSeen, acked>>

Lookup(c) ==
    /\ cfPc[c] = "start" /\ mutex[storeOf[c]] = Unset
    /\ cfSeen' = [cfSeen EXCEPT ![c] = file]
    /\ CfGoto(c, "read")
    /\ UNCHANGED <<storeOf, file, mutex, cfArg, cfMem, tmp, acked>>

\* Mutant: the file is read before the mutex is taken.
LoadUnlocked(c) ==
    /\ cfPc[c] = "lock"
    /\ cfMem' = [cfMem EXCEPT ![c] = [file EXCEPT ![cfArg[c][1]] = cfArg[c][2]]]
    /\ CfGoto(c, "write")
    /\ UNCHANGED <<storeOf, file, mutex, cfArg, tmp, cfSeen, acked>>

\* The mutex is taken, the file loaded and the key changed in memory.
Load(c) ==
    /\ cfPc[c] = "lock" /\ mutex[storeOf[c]] = Unset
    /\ mutex' = [mutex EXCEPT ![storeOf[c]] = c]
    /\ cfMem' = [cfMem EXCEPT ![c] = [file EXCEPT ![cfArg[c][1]] = cfArg[c][2]]]
    /\ CfGoto(c, "write")
    /\ UNCHANGED <<storeOf, file, cfArg, tmp, cfSeen, acked>>

\* Mutant: the configuration file itself is written.
WriteInPlace(c) ==
    /\ cfPc[c] = "write"
    /\ file' = Torn
    /\ CfGoto(c, "sync")
    /\ UNCHANGED <<storeOf, mutex, cfArg, cfMem, tmp, cfSeen, acked>>

\* save: the temporary file is created, restricted and written; until Sync
\* only a part of it is on disk.
WriteTemp(c) ==
    /\ cfPc[c] = "write"
    /\ tmp' = [tmp EXCEPT ![c] = Torn]
    /\ CfGoto(c, "sync")
    /\ UNCHANGED <<storeOf, file, mutex, cfArg, cfMem, cfSeen, acked>>

SyncTemp(c) ==
    /\ cfPc[c] = "sync"
    /\ tmp' = [tmp EXCEPT ![c] = cfMem[c]]
    /\ CfGoto(c, "rename")
    /\ UNCHANGED <<storeOf, file, mutex, cfArg, cfMem, cfSeen, acked>>

\* The rename replaces the file; Set returns and releases the mutex.
Rename(c) ==
    /\ cfPc[c] = "rename"
    /\ file' = tmp[c]
    /\ tmp' = [tmp EXCEPT ![c] = Unset]
    /\ acked' = [acked EXCEPT ![cfArg[c][1]] = cfArg[c][2]]
    /\ Unlock(c) /\ CfGoto(c, "done")
    /\ UNCHANGED <<storeOf, cfArg, cfMem, cfSeen>>

\* A step of save fails: the temporary file is removed, the caller is told.
SaveFails(c) ==
    /\ cfPc[c] \in {"write", "sync", "rename"}
    /\ tmp' = [tmp EXCEPT ![c] = Unset]
    /\ Unlock(c) /\ CfGoto(c, "done")
    /\ UNCHANGED <<storeOf, file, cfArg, cfMem, cfSeen, acked>>

\* The process of a Store is killed: its calls end, its temporary files stay.
KillStore(s) ==
    /\ \E c \in Caller : storeOf[c] = s /\ cfPc[c] \in {"lock", "write", "sync", "rename"}
    /\ cfPc' = [c \in Caller |-> IF storeOf[c] = s THEN "done" ELSE cfPc[c]]
    /\ mutex' = [mutex EXCEPT ![s] = Unset]
    /\ UNCHANGED <<storeOf, file, cfArg, cfMem, tmp, cfSeen, acked>>

CfNext ==
    \/ \E c \in Caller :
          \/ \E k \in Key, v \in Value : CallSet(c, k, v)
          \/ Lookup(c) \/ Load(c) \/ WriteTemp(c) \/ SyncTemp(c) \/ Rename(c) \/ SaveFails(c)
    \/ \E s \in Stores : KillStore(s)

CfSpec == CfInit /\ [][CfNext]_cfVars

-----------------------------------------------------------------------------
(* Properties *)

\* "tmp+rename atomic writes": whoever reads the file, in whichever process and
\* after whatever kill, finds a complete one.
NeverTorn == file # Torn /\ \A c \in Caller : cfSeen[c] # Torn

\* Within one Store no acknowledged write is undone by another one that was
\* under way: the file holds the value acknowledged last for every key.  (Two
\* Stores on one directory do not promise this.)
NoLostUpdate ==
    (\A c, d \in Caller : storeOf[c] = storeOf[d]) => \A k \in Key : file[k] = acked[k]

\* The file is whole and holds what was acknowledged.
ConfigFileIsSafe ==
    /\ CfTypeOK
    /\ NeverTorn
    /\ NoLostUpdate
=============================================================================
