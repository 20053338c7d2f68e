------------------------------ MODULE RateLimit ------------------------------
(***************************************************************************)
(* Limiter.Wait of internal/futu/ratelimit.go: the pool that spaces the    *)
(* gateway requests of all goroutines of a process, and, when              *)
(* FUTU_RATELIMIT_DIR is set, of all processes on the host.                *)
(*                                                                         *)
(* Time is discrete and relative: what the code keeps as a point in time   *)
(* is kept here as the time left until it, 0 once it has passed.  Tick     *)
(* lets one unit go by, between any two steps of any goroutine.            *)
(***************************************************************************)
EXTENDS Integers, FiniteSetsExt

CONSTANTS
  Process,     \* running wbot processes, each with its own Limiter
  Goroutine,   \* callers of Wait
  ProcessOf,   \* the process a goroutine belongs to
  Shared,      \* processes whose limiter has a persistPath
  Gap,         \* the limiter's gap
  Faults,      \* subset of {"io", "write", "crash"}
  None

ASSUME ConstantsAssumption ==
  /\ ProcessOf \in [Goroutine -> Process]
  /\ Shared \subseteq Process
  /\ Gap \in Nat \ {0}
  /\ Faults \subseteq {"io", "write", "crash"}
  /\ None \notin Goroutine

VARIABLES
  next,     \* Limiter.next of each process
  mu,       \* Limiter.mu of each process: its holder
  flock,    \* the holder of the lock on the timestamp file
  window,   \* the stamp in the file plus gap; 0 also for an empty file
  pc,       \* the next step of each caller
  stamp,    \* the clock reading of the caller's decision, plus gap
  wait,     \* what is left of the caller's time.After
  own,      \* since the last pass decided in each process (plus gap)
  quiet     \* since the last pass decided under the file lock (plus gap)

vars == <<next, mu, flock, window, pc, stamp, wait, own, quiet>>

\* Stages of a call.  "lock" waits for Limiter.mu, "open" is about to open and
\* lock the file, "shared" and "alone" sample the clock and decide with and
\* without the file, "unread" has the lock and could not read the file,
\* "truncate" and "write" stamp the file, "mark" sets Limiter.next, "sleep" is
\* the select, "passed" has returned nil.
Stage == {"idle", "lock", "open", "shared", "unread", "alone", "truncate",
          "write", "mark", "sleep", "passed"}
HoldsMu == {"open", "shared", "unread", "alone", "truncate", "write", "mark"}
HoldsFlock == {"shared", "unread", "truncate", "write"}
\* The pass is decided and Limiter.next does not show it yet.
Deciding == {"truncate", "write", "mark"}

Time == 0..Gap

TypeOK ==
  /\ next \in [Process -> Time]
  /\ mu \in [Process -> Goroutine \cup {None}]
  /\ flock \in Goroutine \cup {None}
  /\ window \in Time
  /\ pc \in [Goroutine -> Stage]
  /\ stamp \in [Goroutine -> Time]
  /\ wait \in [Goroutine -> Time]
  /\ own \in [Process -> Time]
  /\ quiet \in Time

\* A fresh start: no process has passed, and the file is absent or old.
Init ==
  /\ next = [q \in Process |-> 0]
  /\ mu = [q \in Process |-> None]
  /\ flock = None
  /\ window = 0
  /\ pc = [g \in Goroutine |-> "idle"]
  /\ stamp = [g \in Goroutine |-> 0]
  /\ wait = [g \in Goroutine |-> 0]
  /\ own = [q \in Process |-> 0]
  /\ quiet = 0

------------------------------------------------------------------------------
Goto(g, stage) == pc' = [pc EXCEPT ![g] = stage]

\* A request enters Wait.
Call(g) ==
  /\ pc[g] = "idle"
  /\ Goto(g, "lock")
  /\ UNCHANGED <<next, mu, flock, window, stamp, wait, own, quiet>>

\* l.mu.Lock(), and the choice between the two kinds of limiter.
Lock(g) ==
  /\ pc[g] = "lock"
  /\ mu[ProcessOf[g]] = None
  /\ mu' = [mu EXCEPT ![ProcessOf[g]] = g]
  /\ Goto(g, IF ProcessOf[g] \in Shared THEN "open" ELSE "alone")
  /\ UNCHANGED <<next, flock, window, stamp, wait, own, quiet>>

\* The file is opened and flockExclusive waits for its lock.
OpenFile(g) ==
  /\ pc[g] = "open"
  /\ flock = None
  /\ flock' = g
  /\ Goto(g, "shared")
  /\ UNCHANGED <<next, mu, window, stamp, wait, own, quiet>>

\* Opening or locking fails: the caller degrades to the limiter in memory.
OpenFails(g) ==
  /\ "io" \in Faults
  /\ pc[g] = "open"
  /\ Goto(g, "alone")
  /\ UNCHANGED <<next, mu, flock, window, stamp, wait, own, quiet>>

\* The iteration passes: now is kept to be stamped.
Pass(g, stage) ==
  /\ stamp' = [stamp EXCEPT ![g] = Gap]
  /\ own' = [own EXCEPT ![ProcessOf[g]] = Gap]
  /\ Goto(g, stage)
  /\ UNCHANGED <<next, mu, wait>>

\* The iteration must wait: the mutex is released and the caller sleeps.
Sleep(g, left) ==
  /\ wait' = [wait EXCEPT ![g] = left]
  /\ mu' = [mu EXCEPT ![ProcessOf[g]] = None]
  /\ Goto(g, "sleep")
  /\ UNCHANGED <<next, stamp, own>>

\* time.Now() against l.next, for a limiter without a file or without its lock.
DecideAlone(g) ==
  /\ pc[g] = "alone"
  /\ \/ next[ProcessOf[g]] = 0 /\ Pass(g, "mark")
     \/ next[ProcessOf[g]] > 0 /\ Sleep(g, next[ProcessOf[g]])
  /\ UNCHANGED <<flock, window, quiet>>

\* Mutant: the gate in memory is forgotten when the file is there.
FileOnly(g) ==
  /\ pc[g] = "shared"
  /\ \/ window = 0 /\ Pass(g, "truncate") /\ quiet' = Gap /\ UNCHANGED flock
     \/ window > 0 /\ Sleep(g, window) /\ flock' = None /\ UNCHANGED quiet
  /\ UNCHANGED window

\* Mutant: the file stays locked while the caller sleeps.
SleepsLocked(g) ==
  LET left == Max({window, next[ProcessOf[g]]})
  IN /\ pc[g] = "shared"
     /\ \/ left = 0 /\ Pass(g, "truncate") /\ quiet' = Gap
        \/ left > 0 /\ Sleep(g, left) /\ UNCHANGED quiet
     /\ UNCHANGED <<window, flock>>

\* The clock is sampled under the file lock and compared with both gates; a
\* caller that must wait waits for the later one, and the lock goes on return.
DecideShared(g) ==
  LET left == Max({window, next[ProcessOf[g]]})
  IN /\ pc[g] = "shared"
     /\ \/ /\ left = 0
           /\ Pass(g, "truncate")
           /\ quiet' = Gap
           /\ UNCHANGED flock
        \/ /\ left > 0
           /\ Sleep(g, left)
           /\ flock' = None
           /\ UNCHANGED quiet
     /\ UNCHANGED window

\* ReadAll or ParseInt fails: last stays zero, as if nobody had passed.
ReadFails(g) ==
  /\ "io" \in Faults
  /\ pc[g] = "shared"
  /\ Goto(g, "unread")
  /\ UNCHANGED <<next, mu, flock, window, stamp, wait, own, quiet>>

\* Mutant: a caller that cannot read the file passes.
UnreadPasses(g) ==
  /\ pc[g] = "unread"
  /\ Pass(g, "truncate") /\ quiet' = Gap
  /\ UNCHANGED <<window, flock>>

\* The same decision with last at zero: only the gate in memory counts.
DecideUnread(g) ==
  /\ pc[g] = "unread"
  /\ \/ /\ next[ProcessOf[g]] = 0
        /\ Pass(g, "truncate")
        /\ quiet' = Gap
        /\ UNCHANGED flock
     \/ /\ next[ProcessOf[g]] > 0
        /\ Sleep(g, next[ProcessOf[g]])
        /\ flock' = None
        /\ UNCHANGED quiet
  /\ UNCHANGED window

\* Mutant: the lock is released once the decision is taken.
UnlockThenStamp(g) ==
  /\ pc[g] = "truncate"
  /\ window' = 0
  /\ flock' = None
  /\ Goto(g, "write")
  /\ UNCHANGED <<next, mu, stamp, wait, own, quiet>>

\* f.Truncate(0): from here to the write the file is empty.
Truncate(g) ==
  /\ pc[g] = "truncate"
  /\ window' = 0
  /\ Goto(g, "write")
  /\ UNCHANGED <<next, mu, flock, stamp, wait, own, quiet>>

\* The stamp is written, and flockRelease runs on return.
WriteStamp(g) ==
  /\ pc[g] = "write"
  /\ window' = stamp[g]
  /\ flock' = None
  /\ Goto(g, "mark")
  /\ UNCHANGED <<next, mu, stamp, wait, own, quiet>>

\* Mutant: the path of a failed stamp forgets the lock.
KeepsFlock(g) ==
  /\ "write" \in Faults
  /\ pc[g] \in {"truncate", "write"}
  /\ quiet' = 0
  /\ Goto(g, "mark")
  /\ UNCHANGED <<next, mu, flock, window, stamp, wait, own>>

\* Truncate, Seek or Fprintf fails: the caller passes, and other processes do
\* not see it.
StampFails(g) ==
  /\ "write" \in Faults
  /\ pc[g] \in {"truncate", "write"}
  /\ flock' = None
  /\ quiet' = 0
  /\ Goto(g, "mark")
  /\ UNCHANGED <<next, mu, window, stamp, wait, own>>

\* l.next = now.Add(l.gap), Unlock, return nil.
Mark(g) ==
  /\ pc[g] = "mark"
  /\ next' = [next EXCEPT ![ProcessOf[g]] = stamp[g]]
  /\ mu' = [mu EXCEPT ![ProcessOf[g]] = None]
  /\ stamp' = [stamp EXCEPT ![g] = 0]
  /\ Goto(g, "passed")
  /\ UNCHANGED <<flock, window, wait, own, quiet>>

\* The request that was let through is made; its caller may come back.
Request(g) ==
  /\ pc[g] = "passed"
  /\ Goto(g, "idle")
  /\ UNCHANGED <<next, mu, flock, window, stamp, wait, own, quiet>>

\* The timer fires and the loop starts over.
Wake(g) ==
  /\ pc[g] = "sleep"
  /\ wait[g] = 0
  /\ Goto(g, "lock")
  /\ UNCHANGED <<next, mu, flock, window, stamp, wait, own, quiet>>

\* ctx is done while the caller sleeps: Wait returns its error.
Cancel(g) ==
  /\ pc[g] = "sleep"
  /\ wait' = [wait EXCEPT ![g] = 0]
  /\ Goto(g, "idle")
  /\ UNCHANGED <<next, mu, flock, window, stamp, own, quiet>>

\* A process stops and is started again: its memory and its locks go, the file
\* stays.  A pass that had not been stamped has not become a request either.
Crash(q) ==
  /\ "crash" \in Faults
  /\ next' = [next EXCEPT ![q] = 0]
  /\ own' = [own EXCEPT ![q] = 0]
  /\ mu' = [mu EXCEPT ![q] = None]
  /\ pc' = [g \in Goroutine |-> IF ProcessOf[g] = q THEN "idle" ELSE pc[g]]
  /\ stamp' = [g \in Goroutine |-> IF ProcessOf[g] = q THEN 0 ELSE stamp[g]]
  /\ wait' = [g \in Goroutine |-> IF ProcessOf[g] = q THEN 0 ELSE wait[g]]
  /\ flock' = IF flock # None /\ ProcessOf[flock] = q THEN None ELSE flock
  /\ quiet' = IF \E g \in Goroutine :
                   ProcessOf[g] = q /\ pc[g] \in {"truncate", "write"}
              THEN 0 ELSE quiet
  /\ UNCHANGED window

\* Mutant: the time left until an instant goes below zero.
Negative(t) == t - 1

Less(t) == IF t = 0 THEN 0 ELSE t - 1

\* One unit of time goes by for everyone.
Tick ==
  /\ next' = [q \in Process |-> Less(next[q])]
  /\ own' = [q \in Process |-> Less(own[q])]
  /\ window' = Less(window)
  /\ quiet' = Less(quiet)
  /\ stamp' = [g \in Goroutine |-> Less(stamp[g])]
  /\ wait' = [g \in Goroutine |-> Less(wait[g])]
  /\ UNCHANGED <<mu, flock, pc>>

Run(g) ==
  \/ Lock(g)
  \/ OpenFile(g)
  \/ DecideAlone(g)
  \/ DecideShared(g)
  \/ DecideUnread(g)
  \/ Truncate(g)
  \/ WriteStamp(g)
  \/ Mark(g)
  \/ Request(g)
  \/ Wake(g)

Next ==
  \/ \E g \in Goroutine :
       \/ Call(g) \/ Run(g) \/ Cancel(g)
       \/ OpenFails(g) \/ ReadFails(g) \/ StampFails(g)
  \/ \E q \in Process : Crash(q)
  \/ Tick

Spec == Init /\ [][Next]_vars

\* Goroutines are scheduled and time passes.  Nothing is assumed of the order
\* in which waiters get a lock.
FairSpec == Spec /\ WF_vars(Tick) /\ \A g \in Goroutine : WF_vars(Run(g))

------------------------------------------------------------------------------
\* The step in which a goroutine's iteration decides to pass.
PassesNow(g) == pc[g] \notin Deciding /\ pc'[g] \in Deciding

\* Two passes of one process are decided at least a gap apart, whatever the
\* state of the file, of its lock and of the other processes
\* (ratelimit.go:15-18).
ProcessGap ==
  [][\A g \in Goroutine : PassesNow(g) => own[ProcessOf[g]] = 0]_vars

\* A pass that was decided on the file, read under its lock, is at least a gap
\* after every earlier pass under that lock, whichever processes they belong to,
\* however often these are started anew, and also when the earlier caller could
\* not read the file itself.  The exceptions are the two in which the code
\* degrades to the limiter in memory (ratelimit.go:73-75): the stamp of the
\* earlier pass could not be written, or the later caller cannot read it.
SharedGap ==
  [][\A g \in Goroutine : PassesNow(g) /\ pc[g] = "shared" => quiet = 0]_vars

\* Both gaps: of a process, and of all processes on the host.
GapsAreKept == ProcessGap /\ SharedGap

\* Callers never block each other for good: while someone waits someone passes,
\* unless the waiting one gives up, and unless processes keep being killed
\* after they have stamped the file (ratelimit.go:36-58).
PoolMovesOn ==
  <>[][\A q \in Process : ~ Crash(q)]_vars =>
    \A g \in Goroutine :
      pc[g] = "lock" ~> (pc[g] = "idle" \/ \E h \in Goroutine : pc[h] = "passed")

\* A pass leaves no lock behind, and a lock always has a holder that is going
\* to release it: a sleeping or finished caller holds nothing.
LocksAreHeld ==
  /\ \A q \in Process : \A g \in Goroutine :
       mu[q] = g <=> ProcessOf[g] = q /\ pc[g] \in HoldsMu
  /\ \A g \in Goroutine : flock = g <=> pc[g] \in HoldsFlock

\* What makes the gap hold.  A process's own gate covers its last pass as soon
\* as that pass is marked, and the caller's reading covers it until then.
MemoryRhythm ==
  /\ \A g \in Goroutine : pc[g] \in Deciding => own[ProcessOf[g]] <= stamp[g]
  /\ \A q \in Process :
       (\A g \in Goroutine : ProcessOf[g] = q => pc[g] \notin Deciding)
         => own[q] <= next[q]

\* The same for the file and the pass that is being stamped.
FileRhythm ==
  /\ \A g \in Goroutine : pc[g] \in {"truncate", "write"} => quiet <= stamp[g]
  /\ (\A g \in Goroutine : pc[g] \notin {"truncate", "write"}) => quiet <= window

IndInv == TypeOK /\ LocksAreHeld /\ MemoryRhythm /\ FileRhythm

==============================================================================
