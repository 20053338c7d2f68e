-------------------------- MODULE FutuClientProofs ---------------------------
(***************************************************************************)
(* The two parts of the futu client: the limiter of its requests and the   *)
(* connection its trade operations share.                                  *)
(*                                                                         *)
(* The gaps of RateLimit for any number of processes and callers, any gap  *)
(* and all faults.  The mutex of a process and the lock of the file make   *)
(* the inductive invariant: between the decision to pass and its record    *)
(* (in Limiter.next, in the file) nobody else decides, and the record      *)
(* takes over the clock reading of the decision.                           *)
(*                                                                         *)
(* The connection of TradeConn for any number of operations and any list   *)
(* of accounts: it is counted by who holds a lease, and it is open once or *)
(* not at all because it is closed before it is forgotten.                 *)
(***************************************************************************)
EXTENDS RateLimit, TradeConn, FiniteSetTheorems, WellFoundedInduction, TLAPS

\* Time that passes shortens what is left and keeps its order.
LEMMA LessFacts ==
  ASSUME NEW s \in Time, NEW t \in Time
  PROVE  /\ Less(t) \in Time
         /\ s <= t => Less(s) <= Less(t)
  BY ConstantsAssumption DEF Time, Less

\* A caller waits for the later of the two gates, so it passes when both have
\* gone by.
LEMMA LaterGate ==
  ASSUME NEW a \in Time, NEW b \in Time
  PROVE  /\ Max({a, b}) \in Time
         /\ Max({a, b}) = 0 => a = 0 /\ b = 0
<1>1. \E x \in {a, b} : \A y \in {a, b} : x >= y
  BY ConstantsAssumption DEF Time
<1>2. /\ Max({a, b}) \in {a, b}
      /\ \A y \in {a, b} : Max({a, b}) >= y
  BY <1>1 DEF Max
<1>. QED
  BY <1>2, ConstantsAssumption DEF Time

\* The initial state satisfies the invariant.
LEMMA InitInv == Init => IndInv
  BY ConstantsAssumption DEF Init, IndInv, TypeOK, LocksAreHeld, MemoryRhythm,
     FileRhythm, Time, Stage, HoldsMu, HoldsFlock, Deciding

\* Every step preserves the invariant.
LEMMA StepInv == IndInv /\ [Next]_vars => IndInv'
<1>. SUFFICES ASSUME IndInv, [Next]_vars PROVE IndInv'
  OBVIOUS
<1>. USE ConstantsAssumption
<1>0. TypeOK /\ LocksAreHeld /\ MemoryRhythm /\ FileRhythm
  BY DEF IndInv
<1>1. ASSUME NEW g \in Goroutine, Call(g) PROVE IndInv'
  <2>1. TypeOK'
    BY <1>0, <1>1 DEF Call, Goto, TypeOK, Time, Stage
  <2>2. LocksAreHeld'
    BY <1>0, <1>1 DEF Call, Goto, TypeOK, LocksAreHeld, Stage, HoldsMu, HoldsFlock
  <2>3. MemoryRhythm'
    BY <1>0, <1>1 DEF Call, Goto, TypeOK, LocksAreHeld, MemoryRhythm, Time, HoldsMu, Deciding
  <2>4. FileRhythm'
    BY <1>0, <1>1 DEF Call, Goto, TypeOK, LocksAreHeld, FileRhythm, Time, HoldsFlock
  <2>. QED
    BY <2>1, <2>2, <2>3, <2>4 DEF IndInv
<1>2. ASSUME NEW g \in Goroutine, Lock(g) PROVE IndInv'
  <2>1. TypeOK'
    BY <1>0, <1>2 DEF Lock, Goto, TypeOK, Time, Stage
  <2>2. LocksAreHeld'
    BY <1>0, <1>2 DEF Lock, Goto, TypeOK, LocksAreHeld, Stage, HoldsMu, HoldsFlock
  <2>3. MemoryRhythm'
    BY <1>0, <1>2 DEF Lock, Goto, TypeOK, LocksAreHeld, MemoryRhythm, Time, HoldsMu, Deciding
  <2>4. FileRhythm'
    BY <1>0, <1>2 DEF Lock, Goto, TypeOK, LocksAreHeld, FileRhythm, Time, HoldsFlock
  <2>. QED
    BY <2>1, <2>2, <2>3, <2>4 DEF IndInv
<1>3. ASSUME NEW g \in Goroutine, OpenFile(g) PROVE IndInv'
  <2>1. TypeOK'
    BY <1>0, <1>3 DEF OpenFile, Goto, TypeOK, Time, Stage
  <2>2. LocksAreHeld'
    BY <1>0, <1>3 DEF OpenFile, Goto, TypeOK, LocksAreHeld, Stage, HoldsMu, HoldsFlock
  <2>3. MemoryRhythm'
    BY <1>0, <1>3 DEF OpenFile, Goto, TypeOK, LocksAreHeld, MemoryRhythm, Time, HoldsMu, Deciding
  <2>4. FileRhythm'
    BY <1>0, <1>3 DEF OpenFile, Goto, TypeOK, LocksAreHeld, FileRhythm, Time, HoldsFlock
  <2>. QED
    BY <2>1, <2>2, <2>3, <2>4 DEF IndInv
<1>4. ASSUME NEW g \in Goroutine, OpenFails(g) PROVE IndInv'
  <2>1. TypeOK'
    BY <1>0, <1>4 DEF OpenFails, Goto, TypeOK, Time, Stage
  <2>2. LocksAreHeld'
    BY <1>0, <1>4 DEF OpenFails, Goto, TypeOK, LocksAreHeld, Stage, HoldsMu, HoldsFlock
  <2>3. MemoryRhythm'
    BY <1>0, <1>4 DEF OpenFails, Goto, TypeOK, LocksAreHeld, MemoryRhythm, Time, HoldsMu, Deciding
  <2>4. FileRhythm'
    BY <1>0, <1>4 DEF OpenFails, Goto, TypeOK, LocksAreHeld, FileRhythm, Time, HoldsFlock
  <2>. QED
    BY <2>1, <2>2, <2>3, <2>4 DEF IndInv
<1>5. ASSUME NEW g \in Goroutine, DecideAlone(g) PROVE IndInv'
  <2>1. TypeOK'
    BY <1>0, <1>5 DEF DecideAlone, Goto, Pass, Sleep, TypeOK, Time, Stage
  <2>2. LocksAreHeld'
    BY <1>0, <1>5 DEF DecideAlone, Goto, Pass, Sleep, TypeOK, LocksAreHeld, Stage, HoldsMu, HoldsFlock
  <2>3. MemoryRhythm'
    BY <1>0, <1>5 DEF DecideAlone, Goto, Pass, Sleep, TypeOK, LocksAreHeld, MemoryRhythm, Time, HoldsMu, Deciding
  <2>4. FileRhythm'
    BY <1>0, <1>5 DEF DecideAlone, Goto, Pass, Sleep, TypeOK, LocksAreHeld, FileRhythm, Time, HoldsFlock
  <2>. QED
    BY <2>1, <2>2, <2>3, <2>4 DEF IndInv
<1>6. ASSUME NEW g \in Goroutine, DecideShared(g) PROVE IndInv'
  <2>0. /\ Max({window, next[ProcessOf[g]]}) \in Time
        /\ Max({window, next[ProcessOf[g]]}) = 0 => window = 0 /\ next[ProcessOf[g]] = 0
    BY <1>0, LaterGate DEF TypeOK
  <2>1. TypeOK'
    BY <1>0, <1>6, <2>0 DEF DecideShared, Goto, Pass, Sleep, TypeOK, Time, Stage
  <2>2. LocksAreHeld'
    BY <1>0, <1>6 DEF DecideShared, Goto, Pass, Sleep, TypeOK, LocksAreHeld, Stage, HoldsMu, HoldsFlock
  <2>3. MemoryRhythm'
    BY <1>0, <1>6, <2>0 DEF DecideShared, Goto, Pass, Sleep, TypeOK, LocksAreHeld, MemoryRhythm, Time, HoldsMu, Deciding
  <2>4. FileRhythm'
    BY <1>0, <1>6, <2>0 DEF DecideShared, Goto, Pass, Sleep, TypeOK, LocksAreHeld, FileRhythm, Time, HoldsFlock
  <2>. QED
    BY <2>1, <2>2, <2>3, <2>4 DEF IndInv
<1>7. ASSUME NEW g \in Goroutine, Truncate(g) PROVE IndInv'
  <2>1. TypeOK'
    BY <1>0, <1>7 DEF Truncate, Goto, TypeOK, Time, Stage
  <2>2. LocksAreHeld'
    BY <1>0, <1>7 DEF Truncate, Goto, TypeOK, LocksAreHeld, Stage, HoldsMu, HoldsFlock
  <2>3. MemoryRhythm'
    BY <1>0, <1>7 DEF Truncate, Goto, TypeOK, LocksAreHeld, MemoryRhythm, Time, HoldsMu, Deciding
  <2>4. FileRhythm'
    BY <1>0, <1>7 DEF Truncate, Goto, TypeOK, LocksAreHeld, FileRhythm, Time, HoldsFlock
  <2>. QED
    BY <2>1, <2>2, <2>3, <2>4 DEF IndInv
<1>8. ASSUME NEW g \in Goroutine, WriteStamp(g) PROVE IndInv'
  <2>1. TypeOK'
    BY <1>0, <1>8 DEF WriteStamp, Goto, TypeOK, Time, Stage
  <2>2. LocksAreHeld'
    BY <1>0, <1>8 DEF WriteStamp, Goto, TypeOK, LocksAreHeld, Stage, HoldsMu, HoldsFlock
  <2>3. MemoryRhythm'
    BY <1>0, <1>8 DEF WriteStamp, Goto, TypeOK, LocksAreHeld, MemoryRhythm, Time, HoldsMu, Deciding
  <2>4. FileRhythm'
    BY <1>0, <1>8 DEF WriteStamp, Goto, TypeOK, LocksAreHeld, FileRhythm, Time, HoldsFlock
  <2>. QED
    BY <2>1, <2>2, <2>3, <2>4 DEF IndInv
<1>9. ASSUME NEW g \in Goroutine, StampFails(g) PROVE IndInv'
  <2>1. TypeOK'
    BY <1>0, <1>9 DEF StampFails, Goto, TypeOK, Time, Stage
  <2>2. LocksAreHeld'
    BY <1>0, <1>9 DEF StampFails, Goto, TypeOK, LocksAreHeld, Stage, HoldsMu, HoldsFlock
  <2>3. MemoryRhythm'
    BY <1>0, <1>9 DEF StampFails, Goto, TypeOK, LocksAreHeld, MemoryRhythm, Time, HoldsMu, Deciding
  <2>4. FileRhythm'
    BY <1>0, <1>9 DEF StampFails, Goto, TypeOK, LocksAreHeld, FileRhythm, Time, HoldsFlock
  <2>. QED
    BY <2>1, <2>2, <2>3, <2>4 DEF IndInv
<1>10. ASSUME NEW g \in Goroutine, Mark(g) PROVE IndInv'
  <2>1. TypeOK'
    BY <1>0, <1>10 DEF Mark, Goto, TypeOK, Time, Stage
  <2>2. LocksAreHeld'
    BY <1>0, <1>10 DEF Mark, Goto, TypeOK, LocksAreHeld, Stage, HoldsMu, HoldsFlock
  <2>3. MemoryRhythm'
    BY <1>0, <1>10 DEF Mark, Goto, TypeOK, LocksAreHeld, MemoryRhythm, Time, HoldsMu, Deciding
  <2>4. FileRhythm'
    BY <1>0, <1>10 DEF Mark, Goto, TypeOK, LocksAreHeld, FileRhythm, Time, HoldsFlock
  <2>. QED
    BY <2>1, <2>2, <2>3, <2>4 DEF IndInv
<1>11. ASSUME NEW g \in Goroutine, Request(g) PROVE IndInv'
  <2>1. TypeOK'
    BY <1>0, <1>11 DEF Request, Goto, TypeOK, Time, Stage
  <2>2. LocksAreHeld'
    BY <1>0, <1>11 DEF Request, Goto, TypeOK, LocksAreHeld, Stage, HoldsMu, HoldsFlock
  <2>3. MemoryRhythm'
    BY <1>0, <1>11 DEF Request, Goto, TypeOK, LocksAreHeld, MemoryRhythm, Time, HoldsMu, Deciding
  <2>4. FileRhythm'
    BY <1>0, <1>11 DEF Request, Goto, TypeOK, LocksAreHeld, FileRhythm, Time, HoldsFlock
  <2>. QED
    BY <2>1, <2>2, <2>3, <2>4 DEF IndInv
<1>12. ASSUME NEW g \in Goroutine, Wake(g) PROVE IndInv'
  <2>1. TypeOK'
    BY <1>0, <1>12 DEF Wake, Goto, TypeOK, Time, Stage
  <2>2. LocksAreHeld'
    BY <1>0, <1>12 DEF Wake, Goto, TypeOK, LocksAreHeld, Stage, HoldsMu, HoldsFlock
  <2>3. MemoryRhythm'
    BY <1>0, <1>12 DEF Wake, Goto, TypeOK, LocksAreHeld, MemoryRhythm, Time, HoldsMu, Deciding
  <2>4. FileRhythm'
    BY <1>0, <1>12 DEF Wake, Goto, TypeOK, LocksAreHeld, FileRhythm, Time, HoldsFlock
  <2>. QED
    BY <2>1, <2>2, <2>3, <2>4 DEF IndInv
<1>13. ASSUME NEW g \in Goroutine, Cancel(g) PROVE IndInv'
  <2>1. TypeOK'
    BY <1>0, <1>13 DEF Cancel, Goto, TypeOK, Time, Stage
  <2>2. LocksAreHeld'
    BY <1>0, <1>13 DEF Cancel, Goto, TypeOK, LocksAreHeld, Stage, HoldsMu, HoldsFlock
  <2>3. MemoryRhythm'
    BY <1>0, <1>13 DEF Cancel, Goto, TypeOK, LocksAreHeld, MemoryRhythm, Time, HoldsMu, Deciding
  <2>4. FileRhythm'
    BY <1>0, <1>13 DEF Cancel, Goto, TypeOK, LocksAreHeld, FileRhythm, Time, HoldsFlock
  <2>. QED
    BY <2>1, <2>2, <2>3, <2>4 DEF IndInv
<1>14. ASSUME NEW q \in Process, Crash(q) PROVE IndInv'
  <2>1. TypeOK'
    BY <1>0, <1>14 DEF Crash, TypeOK, Time, Stage
  <2>2. LocksAreHeld'
    BY <1>0, <1>14 DEF Crash, TypeOK, LocksAreHeld, Stage, HoldsMu, HoldsFlock
  <2>3. MemoryRhythm'
    BY <1>0, <1>14 DEF Crash, TypeOK, LocksAreHeld, MemoryRhythm, Time, HoldsMu, Deciding
  <2>4. FileRhythm'
    BY <1>0, <1>14 DEF Crash, TypeOK, LocksAreHeld, FileRhythm, Time, HoldsFlock
  <2>. QED
    BY <2>1, <2>2, <2>3, <2>4 DEF IndInv
<1>15. ASSUME Tick PROVE IndInv'
  <2>1. TypeOK'
    BY <1>0, <1>15, LessFacts DEF Tick, TypeOK
  <2>2. LocksAreHeld'
    BY <1>0, <1>15 DEF Tick, LocksAreHeld
  <2>3. MemoryRhythm'
    BY <1>0, <1>15, LessFacts DEF Tick, TypeOK, MemoryRhythm
  <2>4. FileRhythm'
    BY <1>0, <1>15, LessFacts DEF Tick, TypeOK, FileRhythm
  <2>. QED
    BY <2>1, <2>2, <2>3, <2>4 DEF IndInv
<1>16. CASE UNCHANGED vars
  BY <1>0, <1>16 DEF vars, IndInv, TypeOK, LocksAreHeld, MemoryRhythm, FileRhythm
<1>17. ASSUME NEW g \in Goroutine, ReadFails(g) PROVE IndInv'
  <2>1. TypeOK'
    BY <1>0, <1>17 DEF ReadFails, Goto, TypeOK, Time, Stage
  <2>2. LocksAreHeld'
    BY <1>0, <1>17 DEF ReadFails, Goto, TypeOK, LocksAreHeld, Stage, HoldsMu, HoldsFlock
  <2>3. MemoryRhythm'
    BY <1>0, <1>17 DEF ReadFails, Goto, TypeOK, LocksAreHeld, MemoryRhythm, Time, HoldsMu, Deciding
  <2>4. FileRhythm'
    BY <1>0, <1>17 DEF ReadFails, Goto, TypeOK, LocksAreHeld, FileRhythm, Time, HoldsFlock
  <2>. QED
    BY <2>1, <2>2, <2>3, <2>4 DEF IndInv
<1>18. ASSUME NEW g \in Goroutine, DecideUnread(g) PROVE IndInv'
  <2>1. TypeOK'
    BY <1>0, <1>18 DEF DecideUnread, Goto, Pass, Sleep, TypeOK, Time, Stage
  <2>2. LocksAreHeld'
    BY <1>0, <1>18 DEF DecideUnread, Goto, Pass, Sleep, TypeOK, LocksAreHeld, Stage, HoldsMu, HoldsFlock
  <2>3. MemoryRhythm'
    BY <1>0, <1>18 DEF DecideUnread, Goto, Pass, Sleep, TypeOK, LocksAreHeld, MemoryRhythm, Time, HoldsMu, Deciding
  <2>4. FileRhythm'
    BY <1>0, <1>18 DEF DecideUnread, Goto, Pass, Sleep, TypeOK, LocksAreHeld, FileRhythm, Time, HoldsFlock
  <2>. QED
    BY <2>1, <2>2, <2>3, <2>4 DEF IndInv
<1>. QED
  BY <1>1, <1>2, <1>3, <1>4, <1>5, <1>6, <1>7, <1>8, <1>9, <1>10, <1>11, <1>12, <1>13, <1>14, <1>15, <1>16,
     <1>17, <1>18 DEF Next, Run

\* The invariant holds in every reachable state.
THEOREM Inductive == Spec => []IndInv
<1>1. Init => IndInv
  BY InitInv
<1>2. IndInv /\ [Next]_vars => IndInv'
  BY StepInv
<1>. QED
  BY <1>1, <1>2, PTL DEF Spec

\* A lock is held by exactly the callers that the code says hold it, so
\* nobody sleeps or returns with one.
THEOREM LocksHeld == Spec => [](TypeOK /\ LocksAreHeld)
<1>1. IndInv => TypeOK /\ LocksAreHeld
  BY DEF IndInv
<1>. QED
  BY <1>1, Inductive, PTL

\* Only a decision makes a caller pass, and it passes when the gates it
\* looked at have gone by.
LEMMA OpenGates ==
  ASSUME IndInv, [Next]_vars, NEW g \in Goroutine, PassesNow(g)
  PROVE  /\ pc[g] \in {"alone", "shared", "unread"}
         /\ next[ProcessOf[g]] = 0
         /\ pc[g] = "shared" => window = 0
<1>. USE ConstantsAssumption
<1>0. TypeOK /\ pc[g] \in Stage /\ pc[g] \notin Deciding /\ pc'[g] \in Deciding
  BY DEF IndInv, TypeOK, PassesNow
<1>1. ASSUME NEW h \in Goroutine,
             Call(h) \/ Lock(h) \/ OpenFile(h) \/ OpenFails(h) \/ ReadFails(h) \/ Truncate(h)
               \/ WriteStamp(h) \/ StampFails(h) \/ Mark(h) \/ Request(h)
               \/ Wake(h) \/ Cancel(h)
      PROVE  FALSE
  BY <1>0, <1>1 DEF Call, Lock, OpenFile, OpenFails, ReadFails, Truncate, WriteStamp,
     StampFails, Mark, Request, Wake, Cancel, Goto, TypeOK, Stage, Deciding
<1>2. ASSUME NEW h \in Goroutine, DecideAlone(h)
      PROVE  pc[g] = "alone" /\ next[ProcessOf[g]] = 0
  BY <1>0, <1>2 DEF DecideAlone, Pass, Sleep, Goto, TypeOK, Deciding
<1>3. ASSUME NEW h \in Goroutine, DecideShared(h)
      PROVE  pc[g] = "shared" /\ next[ProcessOf[g]] = 0 /\ window = 0
  <2>1. Max({window, next[ProcessOf[h]]}) = 0 => window = 0 /\ next[ProcessOf[h]] = 0
    BY <1>0, LaterGate DEF TypeOK
  <2>. QED
    BY <1>0, <1>3, <2>1 DEF DecideShared, Pass, Sleep, Goto, TypeOK, Deciding
<1>4. ASSUME NEW h \in Goroutine, DecideUnread(h)
      PROVE  pc[g] = "unread" /\ next[ProcessOf[g]] = 0
  BY <1>0, <1>4 DEF DecideUnread, Pass, Sleep, Goto, TypeOK, Deciding
<1>5. (\E q \in Process : Crash(q)) \/ Tick \/ UNCHANGED vars => FALSE
  BY <1>0 DEF Crash, Tick, vars, TypeOK, Deciding
<1>. QED
  BY <1>1, <1>2, <1>3, <1>4, <1>5 DEF Next, Run

\* Passes of one process are a gap apart.
THEOREM GapInProcess == Spec => ProcessGap
<1>1. IndInv /\ [Next]_vars
        => (\A g \in Goroutine : PassesNow(g) => own[ProcessOf[g]] = 0)
  <2>. SUFFICES ASSUME IndInv, [Next]_vars, NEW g \in Goroutine, PassesNow(g)
                PROVE  own[ProcessOf[g]] = 0
    OBVIOUS
  <2>1. pc[g] \in {"alone", "shared", "unread"} /\ next[ProcessOf[g]] = 0
    BY OpenGates
  <2>2. ASSUME NEW h \in Goroutine, ProcessOf[h] = ProcessOf[g]
        PROVE  pc[h] \notin Deciding
    BY <2>1, <2>2, ConstantsAssumption DEF IndInv, TypeOK, LocksAreHeld, HoldsMu, Deciding
  <2>. QED
    BY <2>1, <2>2, ConstantsAssumption DEF IndInv, TypeOK, MemoryRhythm, Time
<1>. QED
  BY <1>1, Inductive, PTL DEF Spec, ProcessGap

\* A pass decided on the file is a gap after the last pass under its lock, across
\* processes, restarts and failed reads: between a decision and its stamp nobody else
\* has the lock, and the stamp, where it was written, is still in the file.
THEOREM GapAcrossProcesses == Spec => SharedGap
<1>1. IndInv /\ [Next]_vars
        => (\A g \in Goroutine : PassesNow(g) /\ pc[g] = "shared" => quiet = 0)
  <2>. SUFFICES ASSUME IndInv, [Next]_vars, NEW g \in Goroutine, PassesNow(g),
                       pc[g] = "shared"
                PROVE  quiet = 0
    OBVIOUS
  <2>1. window = 0
    BY OpenGates
  <2>2. ASSUME NEW h \in Goroutine PROVE pc[h] \notin {"truncate", "write"}
    BY DEF IndInv, LocksAreHeld, HoldsFlock
  <2>. QED
    BY <2>1, <2>2, ConstantsAssumption DEF IndInv, TypeOK, FileRhythm, Time
<1>. QED
  BY <1>1, Inductive, PTL DEF Spec, SharedGap

\* Both gaps hold of every behaviour of the limiter.
THEOREM GapsKept == Spec => GapsAreKept
  BY GapInProcess, GapAcrossProcesses DEF GapsAreKept

-----------------------------------------------------------------------------
(* The connection of the trade operations *)

Leases  == {o \in Op : tcPc[o] \notin {"start", "end"}}
Outcome == {Nobody, NoAccount} \cup {Accounts[i] : i \in DOMAIN Accounts}

\* What an operation was given suits what it asked for.
Given(o) ==
    \/ tcAcc[o] = Nobody
    \/ tcAcc[o] = NoAccount /\ \A i \in DOMAIN Accounts : ~Suits(Accounts[i], tcAsk[o])
    \/ \E i \in DOMAIN Accounts : tcAcc[o] = Accounts[i] /\ Suits(Accounts[i], tcAsk[o])

TcInv ==
    /\ TcTypeOK
    /\ tcAsk \in [Op -> Asked] /\ tcAcc \in [Op -> Outcome]
    /\ refs = Cardinality(Leases)
    /\ sockets = IF conn = "nil" THEN 0 ELSE 1
    /\ \A o \in Op : dials[o] <= tries[o]
    /\ \A o \in Op : Given(o)

\* The first of some places of the list is one of them.
LEMMA FirstIsIn ==
    ASSUME NEW S \in SUBSET Nat, S # {}
    PROVE  First(S) \in S
<1> DEFINE less == {ss \in Nat \X Nat : ss[1] < ss[2]}
<1>1. IsWellFoundedOn(less, Nat)
  BY NatLessThanWellFounded, Zenon DEF OpToRel
<1> HIDE DEF less
<1>2. \E x \in S : \A y \in S : <<y, x>> \notin less
  <2>1. S \subseteq Nat
    OBVIOUS
  <2> QED
    BY <1>1, <2>1, WFMin, Zenon
<1>3. \A x, y \in Nat : <<y, x>> \notin less => x <= y
  BY DEF less
<1>4. \E x \in S : \A y \in S : x <= y
  BY <1>2, <1>3
<1> QED
  BY <1>4 DEF First

\* secMarketToTrdMarket translates the number of a market into the account's.
LEMMA MarketsAgree ==
    ASSUME NEW sec \in SecMarket, NEW markets \in SUBSET {1, 2, 3}
    PROVE  SecMarketToTrdMarket(sec) \in markets <=> \E m \in markets : TrdName[m] = SecName[sec]
<1>1. TrdName[1] = "HK" /\ TrdName[2] = "US" /\ TrdName[3] = "CN"
  BY DEF TrdName
<1>2. CASE sec = 1
  BY <1>1, <1>2 DEF SecMarketToTrdMarket, SecName, SecMarket
<1>3. CASE sec = 11
  BY <1>1, <1>3 DEF SecMarketToTrdMarket, SecName, SecMarket
<1>4. CASE sec \in {21, 22}
  BY <1>1, <1>4 DEF SecMarketToTrdMarket, SecName, SecMarket
<1> QED
  BY <1>2, <1>3, <1>4 DEF SecMarket

\* AccountForSymbol returns an account that suits, if there is one.
LEMMA AccountSuits ==
    ASSUME NEW q \in Asked
    PROVE  \/ /\ AccountForSymbol(q) = NoAccount
              /\ \A i \in DOMAIN Accounts : ~Suits(Accounts[i], q)
           \/ \E i \in DOMAIN Accounts : AccountForSymbol(q) = Accounts[i] /\ Suits(Accounts[i], q)
<1>0. q.sec \in SecMarket /\ q.option \in BOOLEAN /\ DOMAIN Accounts \subseteq Nat
  BY TradeConnAssumption
<1>1. CASE q.accID # 0
  <2> DEFINE matched == {i \in DOMAIN Accounts : Accounts[i].env = q.env
                                                  /\ (q.accID # 0 => Accounts[i].id = q.accID)}
  <2>1. AccountForSymbol(q) = IF matched = {} THEN NoAccount ELSE Accounts[First(matched)]
    BY <1>1 DEF AccountForSymbol, Account
  <2>2. \A i \in DOMAIN Accounts : Suits(Accounts[i], q) <=> i \in matched
    BY <1>1 DEF Suits
  <2>3. matched \in SUBSET Nat /\ matched \subseteq DOMAIN Accounts
    BY <1>0
  <2> HIDE DEF matched
  <2>4. matched # {} => First(matched) \in matched
    BY <2>3, FirstIsIn
  <2> QED
    BY <2>1, <2>2, <2>3, <2>4
<1>2. CASE q.accID = 0
  <2> DEFINE fits(a) == /\ a.env = q.env
                        /\ a.type = "option" => q.option
                        /\ a.type = "stock" => ~q.option
                        /\ SecMarketToTrdMarket(q.sec) \in a.markets
             matched == {i \in DOMAIN Accounts : fits(Accounts[i])}
  <2>1. AccountForSymbol(q) = IF matched = {} THEN NoAccount ELSE Accounts[First(matched)]
    BY <1>2 DEF AccountForSymbol
  <2>2. \A i \in DOMAIN Accounts : Suits(Accounts[i], q) <=> i \in matched
    <3> SUFFICES ASSUME NEW i \in DOMAIN Accounts PROVE Suits(Accounts[i], q) <=> fits(Accounts[i])
      OBVIOUS
    <3>1. Accounts[i].markets \in SUBSET {1, 2, 3}
      BY TradeConnAssumption
    <3>2. SecMarketToTrdMarket(q.sec) \in Accounts[i].markets
          <=> \E m \in Accounts[i].markets : TrdName[m] = SecName[q.sec]
      BY <1>0, <3>1, MarketsAgree
    <3> QED
      BY <1>0, <1>2, <3>2 DEF Suits
  <2>3. matched \in SUBSET Nat /\ matched \subseteq DOMAIN Accounts
    BY <1>0
  <2> HIDE DEF matched
  <2>4. matched # {} => First(matched) \in matched
    BY <2>3, FirstIsIn
  <2> QED
    BY <2>1, <2>2, <2>3, <2>4
<1> QED
  BY <1>1, <1>2

\* The leases are counted: one more, one less, or the same ones.
LEMMA LeasesCount ==
    ASSUME TcInv, NEW o \in Op, \A x \in Op \ {o} : tcPc'[x] = tcPc[x]
    PROVE  /\ o \notin Leases /\ o \in Leases' => Cardinality(Leases') = refs + 1
           /\ o \in Leases /\ o \notin Leases' => Cardinality(Leases') = refs - 1
           /\ o \in Leases /\ o \in Leases' => Cardinality(Leases') = refs
<1>1. IsFiniteSet(Leases) /\ Cardinality(Leases) \in Nat /\ refs = Cardinality(Leases)
  <2>1. Leases \subseteq Op
    BY DEF Leases
  <2> QED
    BY <2>1, TradeConnAssumption, FS_Subset, FS_CardinalityType DEF TcInv
<1>2. \A x \in Op \ {o} : x \in Leases' <=> x \in Leases
  BY DEF Leases
<1>3. Leases \subseteq Op /\ Leases' \subseteq Op
  BY DEF Leases
<1>4. CASE o \notin Leases /\ o \in Leases'
  <2>1. Leases' = Leases \cup {o}
    BY <1>2, <1>3, <1>4
  <2>2. Cardinality(Leases \cup {o}) = Cardinality(Leases) + 1
    BY <1>1, <1>4, FS_AddElement
  <2> QED
    BY <1>1, <1>4, <2>1, <2>2
<1>5. CASE o \in Leases /\ o \notin Leases'
  <2>1. Leases' = Leases \ {o}
    BY <1>2, <1>3, <1>5
  <2>2. Cardinality(Leases \ {o}) = Cardinality(Leases) - 1
    BY <1>1, <1>5, FS_RemoveElement
  <2> QED
    BY <1>1, <1>5, <2>1, <2>2
<1>6. CASE o \in Leases /\ o \in Leases'
  <2>1. Leases' = Leases
    BY <1>2, <1>3, <1>6
  <2> QED
    BY <1>1, <1>6, <2>1
<1> QED
  BY <1>4, <1>5, <1>6

\* What an operation was given changes with the gateway's answer only.
LEMMA GivenKept ==
    ASSUME TcInv, UNCHANGED <<tcAsk, tcAcc>>
    PROVE  /\ tcAsk' \in [Op -> Asked] /\ tcAcc' \in [Op -> Outcome]
           /\ \A o \in Op : Given(o)'
BY DEF TcInv, Given

\* Every step preserves the invariant of the connection.
LEMMA TcInvStep == TcInv /\ [TcNext]_tcVars => TcInv'
<1> SUFFICES ASSUME TcInv, [TcNext]_tcVars PROVE TcInv'
  OBVIOUS
<1>0. TcTypeOK /\ Nobody \notin Op
  BY TradeConnAssumption DEF TcInv
<1> USE <1>0 DEF TcGoto, TcTypeOK
<1>1. ASSUME NEW o \in Op, AcquireTrade(o) PROVE TcInv'
  <2>0. o \notin Leases /\ o \in Leases' /\ \A x \in Op \ {o} : tcPc'[x] = tcPc[x]
    BY <1>1 DEF AcquireTrade, Leases
  <2>1. Cardinality(Leases') = refs + 1
    BY <2>0, LeasesCount
  <2> QED
    BY <1>1, <2>1, GivenKept DEF AcquireTrade, TcInv
<1>2. ASSUME NEW o \in Op, ConnectLease(o) PROVE TcInv'
  <2>0. o \in Leases
    BY <1>2 DEF ConnectLease, Leases
  <2>1. CASE TcGoto(o, "leased") /\ refs' = refs
    <3>0. o \in Leases' /\ \A x \in Op \ {o} : tcPc'[x] = tcPc[x]
      BY <2>1 DEF Leases
    <3>1. Cardinality(Leases') = refs
      BY <2>0, <3>0, LeasesCount
    <3>2. conn' \in {"nil", "up", "stale"} /\ sockets' \in Nat
          /\ sockets' = IF conn' = "nil" THEN 0 ELSE 1
      BY <1>2 DEF ConnectLease, Connected, TcInv
    <3> QED
      BY <1>2, <2>1, <3>1, <3>2, GivenKept DEF ConnectLease, TcInv
  <2>2. CASE TcGoto(o, "end") /\ refs' = refs - 1 /\ UNCHANGED <<conn, sockets>>
    <3>0. o \notin Leases' /\ \A x \in Op \ {o} : tcPc'[x] = tcPc[x]
      BY <2>2 DEF Leases
    <3>1. Cardinality(Leases') = refs - 1
      BY <2>0, <3>0, LeasesCount
    <3> QED
      BY <1>2, <2>2, <3>1, GivenKept DEF ConnectLease, TcInv
  <2> QED
    BY <1>2, <2>1, <2>2 DEF ConnectLease
<1>3. ASSUME NEW o \in Op, LockConn(o) PROVE TcInv'
  <2>1. o \in Leases /\ o \in Leases' /\ \A x \in Op \ {o} : tcPc'[x] = tcPc[x]
    BY <1>3 DEF LockConn, Leases
  <2>2. Cardinality(Leases') = refs
    BY <2>1, LeasesCount
  <2> QED
    BY <1>3, <2>2, GivenKept DEF LockConn, TcInv
<1>4. ASSUME NEW o \in Op, TryConnect(o) PROVE TcInv'
  <2>1. o \in Leases /\ o \in Leases' /\ \A x \in Op \ {o} : tcPc'[x] = tcPc[x]
    BY <1>4 DEF TryConnect, Leases
  <2>2. Cardinality(Leases') = refs
    BY <2>1, LeasesCount
  <2>3. /\ conn' \in {"nil", "up", "stale"} /\ sockets' \in Nat
        /\ sockets' = IF conn' = "nil" THEN 0 ELSE 1
    BY <1>4 DEF TryConnect, Connected, TcInv
  <2>4. /\ tries' \in [Op -> 0 .. 2] /\ dials' \in [Op -> Nat]
        /\ \A x \in Op : dials'[x] <= tries'[x]
    <3>1. CASE UNCHANGED <<tries, dials>>
      BY <3>1 DEF TcInv
    <3>2. CASE /\ tries[o] < 2 /\ tries' = [tries EXCEPT ![o] = @ + 1]
               /\ dials' = dials \/ dials' = [dials EXCEPT ![o] = @ + 1]
      <4>1. tries' \in [Op -> 0 .. 2] /\ dials' \in [Op -> Nat]
        BY <3>2
      <4>2. \A x \in Op : /\ tries'[x] = IF x = o THEN tries[x] + 1 ELSE tries[x]
                          /\ dials'[x] = dials[x] \/ (x = o /\ dials'[x] = dials[x] + 1)
        BY <3>2
      <4>3. \A x \in Op : tries[x] \in Nat /\ dials[x] \in Nat /\ dials[x] <= tries[x]
        BY DEF TcInv
      <4> QED
        BY <4>1, <4>2, <4>3
    <3> QED
      BY <1>4, <3>1, <3>2 DEF TryConnect
  <2> QED
    BY <1>4, <2>2, <2>3, <2>4, GivenKept DEF TryConnect, TcInv
<1>5. ASSUME NEW o \in Op, CallAnswers(o) PROVE TcInv'
  <2>1. o \in Leases /\ o \in Leases' /\ \A x \in Op \ {o} : tcPc'[x] = tcPc[x]
    BY <1>5 DEF CallAnswers, Leases
  <2>2. Cardinality(Leases') = refs
    BY <2>1, LeasesCount
  <2>3. /\ tcAsk' \in [Op -> Asked] /\ tcAcc' \in [Op -> Outcome]
        /\ \A x \in Op : Given(x)'
    <3>1. CASE tcAcc' = tcAcc
      BY <1>5, <3>1, GivenKept DEF CallAnswers
    <3>2. CASE tcAcc' = [tcAcc EXCEPT ![o] = AccountForSymbol(tcAsk[o])]
      <4>0. tcAsk' = tcAsk /\ tcAsk \in [Op -> Asked] /\ tcAcc \in [Op -> Outcome] /\ tcAsk[o] \in Asked
        BY <1>5 DEF CallAnswers, TcInv
      <4>1. \/ /\ AccountForSymbol(tcAsk[o]) = NoAccount
               /\ \A i \in DOMAIN Accounts : ~Suits(Accounts[i], tcAsk[o])
            \/ \E i \in DOMAIN Accounts : /\ AccountForSymbol(tcAsk[o]) = Accounts[i]
                                          /\ Suits(Accounts[i], tcAsk[o])
        BY <4>0, AccountSuits
      <4>2. AccountForSymbol(tcAsk[o]) \in Outcome
        BY <4>1 DEF Outcome
      <4>3. tcAcc'[o] = AccountForSymbol(tcAsk[o]) /\ \A x \in Op \ {o} : tcAcc'[x] = tcAcc[x]
        BY <3>2, <4>0
      <4>4. Given(o)'
        BY <4>0, <4>1, <4>3 DEF Given
      <4>5. \A x \in Op \ {o} : Given(x)'
        BY <4>0, <4>3 DEF Given, TcInv
      <4> QED
        BY <3>2, <4>0, <4>2, <4>4, <4>5
    <3> QED
      BY <1>5, <3>1, <3>2 DEF CallAnswers
  <2> QED
    BY <1>5, <2>2, <2>3 DEF CallAnswers, TcInv
<1>6. ASSUME NEW o \in Op, CallFails(o) PROVE TcInv'
  <2>1. o \in Leases /\ o \in Leases' /\ \A x \in Op \ {o} : tcPc'[x] = tcPc[x]
    BY <1>6 DEF CallFails, Leases
  <2>2. Cardinality(Leases') = refs
    BY <2>1, LeasesCount
  <2> QED
    BY <1>6, <2>2, GivenKept DEF CallFails, TcInv
<1>7. ASSUME NEW o \in Op, Invalidate(o) PROVE TcInv'
  <2>1. o \in Leases /\ o \in Leases' /\ \A x \in Op \ {o} : tcPc'[x] = tcPc[x]
    BY <1>7 DEF Invalidate, Leases
  <2>2. Cardinality(Leases') = refs
    BY <2>1, LeasesCount
  <2>3. sockets' = 0 /\ conn' = "nil"
    BY <1>7 DEF Invalidate, TcInv
  <2> QED
    BY <1>7, <2>2, <2>3, GivenKept DEF Invalidate, TcInv
<1>8. ASSUME NEW o \in Op, UnlockConn(o) PROVE TcInv'
  <2>1. o \in Leases /\ o \in Leases' /\ \A x \in Op \ {o} : tcPc'[x] = tcPc[x]
    BY <1>8 DEF UnlockConn, Leases
  <2>2. Cardinality(Leases') = refs
    BY <2>1, LeasesCount
  <2> QED
    BY <1>8, <2>2, GivenKept DEF UnlockConn, TcInv
<1>9. ASSUME NEW o \in Op, CloseLease(o) PROVE TcInv'
  <2>1. o \in Leases /\ o \notin Leases' /\ \A x \in Op \ {o} : tcPc'[x] = tcPc[x]
    BY <1>9 DEF CloseLease, Leases
  <2>2. Cardinality(Leases') = refs - 1
    BY <2>1, LeasesCount
  <2> QED
    BY <1>9, <2>2, GivenKept DEF CloseLease, TcInv
<1>10. CASE GatewayDrops \/ UNCHANGED tcVars
  <2>1. UNCHANGED <<tcPc, tcAsk, refs, sockets, connMu, tries, dials, tcAcc>> /\ Leases' = Leases
    BY <1>10 DEF GatewayDrops, tcVars, Leases
  <2>2. conn' \in {"nil", "up", "stale"} /\ (conn' = "nil" <=> conn = "nil")
    BY <1>10 DEF GatewayDrops, tcVars
  <2> QED
    BY <2>1, <2>2, GivenKept DEF TcInv
<1> QED
  BY <1>1, <1>2, <1>3, <1>4, <1>5, <1>6, <1>7, <1>8, <1>9, <1>10 DEF TcNext, TcStep

\* withClient, AcquireTrade and AccountForSymbol: whatever the operations, the drops and
\* the errors, one connection at most is open, an operation dials twice at most, every
\* lease is given back, and an account suits what was asked for.
THEOREM ConnectionSound == TcSpec => []TradeConnSound
<1>1. TcInit => TcInv
  <2> SUFFICES ASSUME TcInit PROVE TcInv
    OBVIOUS
  <2>1. Leases = {} /\ Cardinality({}) = 0
    BY FS_EmptySet DEF TcInit, Leases
  <2>2. TcTypeOK
    BY DEF TcInit, TcTypeOK
  <2>3. tcAcc \in [Op -> Outcome] /\ \A o \in Op : Given(o)
    BY DEF TcInit, Outcome, Given
  <2> QED
    BY <2>1, <2>2, <2>3 DEF TcInit, TcInv
<1>2. TcInv => TradeConnSound
  <2> SUFFICES ASSUME TcInv PROVE TradeConnSound
    OBVIOUS
  <2>1. OneConnection
    <3>1. \A o \in Op : dials[o] <= 2
      BY DEF TcInv, TcTypeOK
    <3>2. (\A o \in Op : tcPc[o] = "end") => refs = 0
      <4> SUFFICES ASSUME \A o \in Op : tcPc[o] = "end" PROVE refs = 0
        OBVIOUS
      <4>1. Leases = {}
        BY DEF Leases
      <4> QED
        BY <4>1, FS_EmptySet DEF TcInv
    <3> QED
      BY <3>1, <3>2 DEF OneConnection, TcInv
  <2>2. RightAccount
    <3> SUFFICES ASSUME NEW o \in Op
                 PROVE  CASE tcAcc[o] = Nobody    -> TRUE
                          [] tcAcc[o] = NoAccount -> \A i \in DOMAIN Accounts : ~Suits(Accounts[i], tcAsk[o])
                          [] OTHER                -> Suits(tcAcc[o], tcAsk[o])
      BY DEF RightAccount
    <3>1. Given(o)
      BY DEF TcInv
    <3>2. CASE tcAcc[o] = Nobody
      BY <3>2, TradeConnAssumption
    <3>3. CASE tcAcc[o] = NoAccount /\ \A i \in DOMAIN Accounts : ~Suits(Accounts[i], tcAsk[o])
      BY <3>3, TradeConnAssumption
    <3>4. CASE \E i \in DOMAIN Accounts : tcAcc[o] = Accounts[i] /\ Suits(Accounts[i], tcAsk[o])
      <4>1. PICK i \in DOMAIN Accounts : tcAcc[o] = Accounts[i] /\ Suits(Accounts[i], tcAsk[o])
        BY <3>4
      <4>2. tcAcc[o] # Nobody /\ tcAcc[o] # NoAccount /\ Suits(tcAcc[o], tcAsk[o])
        BY <4>1, TradeConnAssumption
      <4> QED
        BY <4>2
    <3> QED
      BY <3>1, <3>2, <3>3, <3>4 DEF Given
  <2> QED
    BY <2>1, <2>2 DEF TradeConnSound, TcInv
<1> QED
  BY <1>1, <1>2, TcInvStep, PTL DEF TcSpec
=============================================================================
