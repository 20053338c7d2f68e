--------------------------- MODULE LLMSignalProofs ---------------------------
(***************************************************************************)
(* What a decision of the language model may add to the rows of a symbol,  *)
(* for any number of requests, rows and contracts and any quota.           *)
(*                                                                         *)
(* The argument for the runner.  A row is settled when it can no longer be *)
(* in play, or was confirmed too late.  Being settled lasts, and the three *)
(* reads of a submission each settle a part: Dedupe leaves only confirmed  *)
(* rows, ListPendingOrders finds the contracts of those, and validate      *)
(* keeps the runner off them, so that all earlier rows of its contract are *)
(* settled when it appends.                                                *)
(*                                                                         *)
(* The argument for the quota.  A submission is on its way when nothing it *)
(* has read stops it any more.  It gets there while the quota of the day   *)
(* is not used up, and what it adds it adds by ceasing to be on its way.   *)
(***************************************************************************)
EXTENDS LLMSignal, FiniteSetTheorems, SequenceTheorems, TLAPS

Settled(r) ==
  \/ "CLOSED" \in acts[r]
  \/ r \in late
  \/ r \notin recent /\ "CONFIRM" \notin acts[r]

Runners == {r \in 1..last : signals[r].by = "runner"}

\* A submission carries a contract, and one at the gate the row it appended.
Carries ==
  /\ \A p \in Proc : pc[p] \in {"validate", "count", "append"} => choice[p] \in Contract
  /\ \A p \in Request : pc[p] = "list" => choice[p] \in Contract
  /\ \A p \in Proc : pc[p] = "gate" => row[p] \in 1..last

\* What the runner knows of its earlier rows after each of its reads.
RunnerKnows ==
  /\ pc[Scheduler] = "list" => \A r \in Runners : Settled(r) \/ "CONFIRM" \in acts[r]
  /\ pc[Scheduler] \in {"generate", "validate"} /\ Scheduler \notin blind
     => \A r \in Runners :
          Settled(r) \/ signals[r].contract \in open[Scheduler]
  /\ pc[Scheduler] \in {"count", "append"} /\ Scheduler \notin blind
     => \A r \in Runners : signals[r].contract = choice[Scheduler] => Settled(r)
  /\ \A r, s \in Runners : r < s /\ signals[r].contract = signals[s].contract => Settled(r)

IndInv == TypeOK /\ Carries /\ RunnerKnows

\* The approved rows of the day that no failed read is to blame for, and the
\* submissions that may still add one.
Spent == {r \in Approved(today) : signals[r].by # "misled"}
OnTheWay ==
  {p \in Proc :
     \/ pc[p] = "count" /\ Cardinality(Approved(listed[p])) < MaxDaily
     \/ pc[p] = "append" /\ p \notin blind
     \/ pc[p] = "gate" /\ signals[row[p]].by # "misled"}

QuotaInv == Cardinality(Spent) + Cardinality(OnTheWay) <= MaxDaily + Cardinality(Proc) - 1

------------------------------------------------------------------------------

\* The rows of a symbol are a sequence that grows at its end.
LEMMA AppendRow ==
  ASSUME NEW n \in Nat, NEW T, NEW f \in [1..n -> T], NEW e \in T
  PROVE  /\ Append(f, e) \in [1..(n + 1) -> T]
         /\ \A i \in 1..n : Append(f, e)[i] = f[i]
         /\ Append(f, e)[n + 1] = e
<1>1. f \in Seq(T)
  BY SeqDef
<1>2. Len(f) = n
  BY <1>1, LenProperties
<1>3. /\ Append(f, e) \in Seq(T) /\ Len(Append(f, e)) = n + 1
      /\ \A i \in 1..n : Append(f, e)[i] = f[i]
      /\ Append(f, e)[n + 1] = e
  BY <1>1, <1>2, AppendProperties
<1>4. Append(f, e) \in [1..(n + 1) -> T]
  BY <1>3, LenProperties
<1> QED
  BY <1>3, <1>4

LEMMA ProcIsFinite == IsFiniteSet(Proc) /\ Scheduler \in Proc
BY ConstantsAssumption, FS_AddElement DEF Proc

\* The submission that returns is idle and holds nothing.
LEMMA ReturnFacts ==
  ASSUME TypeOK, NEW p \in Proc, Return(p)
  PROVE  /\ \A q \in Proc : /\ pc'[q] = IF q = p THEN "idle" ELSE pc[q]
                            /\ open'[q] = IF q = p THEN None ELSE open[q]
                            /\ choice'[q] = IF q = p THEN None ELSE choice[q]
                            /\ listed'[q] = IF q = p THEN {} ELSE listed[q]
                            /\ row'[q] = IF q = p THEN 0 ELSE row[q]
         /\ blind' = blind \ {p}
         /\ pc' \in [Proc -> Stage]
         /\ open' \in [Proc -> (SUBSET (Contract \cup Wheel)) \cup {None}]
         /\ choice' \in [Proc -> Contract \cup {None}]
         /\ listed' \in [Proc -> SUBSET (1..last)]
         /\ row' \in [Proc -> 0..last]
<1>1. last \in Nat /\ 0 \in 0..last
  BY ConstantsAssumption DEF TypeOK
<1>2. pc' \in [Proc -> Stage] /\ \A q \in Proc : pc'[q] = IF q = p THEN "idle" ELSE pc[q]
  BY DEF Return, Goto, TypeOK, Stage
<1>3. /\ open' \in [Proc -> (SUBSET (Contract \cup Wheel)) \cup {None}]
      /\ \A q \in Proc : open'[q] = IF q = p THEN None ELSE open[q]
  <2>1. open' = [open EXCEPT ![p] = None]
    BY DEF Return
  <2> QED
    BY <2>1 DEF TypeOK
<1>4. /\ choice' \in [Proc -> Contract \cup {None}]
      /\ \A q \in Proc : choice'[q] = IF q = p THEN None ELSE choice[q]
  BY DEF Return, TypeOK
<1>5. /\ listed' \in [Proc -> SUBSET (1..last)]
      /\ \A q \in Proc : listed'[q] = IF q = p THEN {} ELSE listed[q]
  BY DEF Return, TypeOK
<1>6. row' \in [Proc -> 0..last] /\ \A q \in Proc : row'[q] = IF q = p THEN 0 ELSE row[q]
  BY <1>1 DEF Return, TypeOK
<1> QED
  BY <1>2, <1>3, <1>4, <1>5, <1>6 DEF Return

\* TypeOK and Carries are preserved while the rows stay.
LEMMA TypeStep == IndInv /\ [Next]_vars => TypeOK' /\ Carries'
<1> SUFFICES ASSUME IndInv, [Next]_vars PROVE TypeOK' /\ Carries'
  OBVIOUS
<1>0. TypeOK /\ Carries /\ MaxSignals \in Nat /\ last \in Nat
  BY ConstantsAssumption DEF IndInv, TypeOK
<1> USE <1>0 DEF store, local
<1>1. ASSUME NEW p \in Proc, Return(p), UNCHANGED <<signals, last, recent, today, resting, late, claims>>,
             acts' \in [1..last -> SUBSET Action]
      PROVE  TypeOK' /\ Carries'
  BY <1>1, ReturnFacts DEF TypeOK, Carries, Proc
<1>2. ASSUME NEW p \in Proc, ListFails(p) \/ Refuse(p) \/ AppendFails(p) \/ GateFails(p)
      PROVE  TypeOK' /\ Carries'
  BY <1>1, <1>2 DEF ListFails, Refuse, AppendFails, GateFails, TypeOK
<1>3. CASE GenerateFails
  BY <1>1, <1>3, ProcIsFinite DEF GenerateFails, TypeOK
<1>4. ASSUME NEW p \in Proc, Gate(p) PROVE TypeOK' /\ Carries'
  <2>1. acts' \in [1..last -> SUBSET Action]
    <3>1. PICK a \in Action : acts' = [acts EXCEPT ![row[p]] = @ \cup {a}]
      BY <1>4 DEF Gate, Record, Action
    <3> QED
      BY <3>1 DEF TypeOK
  <2> QED
    BY <1>1, <1>4, <2>1 DEF Gate
<1>5. ASSUME NEW p \in Proc, AppendSignal(p) PROVE TypeOK' /\ Carries'
  <2> DEFINE by == IF p \in blind THEN "misled" ELSE IF p = Scheduler THEN "runner" ELSE "request"
             new == [contract |-> choice[p], by |-> by]
  <2>1. /\ last' = last + 1 /\ last' \in 0..MaxSignals /\ last' \in 1..last' /\ 1..last \subseteq 1..last'
        /\ 0..last \subseteq 0..last'
    BY <1>5 DEF AppendSignal, TypeOK
  <2>2. new \in Row
    BY <1>5 DEF AppendSignal, Carries, Row
  <2>3. signals' \in [1..last' -> Row]
    BY <1>5, <2>1, <2>2, AppendRow DEF AppendSignal, TypeOK
  <2>4. acts' \in [1..last' -> SUBSET Action]
    BY <1>5, <2>1, AppendRow DEF AppendSignal, TypeOK
  <2>5. claims' \in [1..last' -> {"none", "placing", "done"}]
    BY <1>5, <2>1, AppendRow DEF AppendSignal, TypeOK
  <2>6. /\ recent' \subseteq 1..last' /\ today' \subseteq 1..last' /\ late' \subseteq 1..last'
        /\ resting' \subseteq Wheel /\ blind' \subseteq Proc
    BY <1>5, <2>1 DEF AppendSignal, TypeOK
  <2>7. /\ pc' \in [Proc -> Stage] /\ row' \in [Proc -> 0..last']
        /\ listed' \in [Proc -> SUBSET (1..last')]
        /\ open' \in [Proc -> (SUBSET (Contract \cup Wheel)) \cup {None}]
        /\ choice' \in [Proc -> Contract \cup {None}]
    BY <1>5, <2>1 DEF AppendSignal, TypeOK, Goto, Stage
  <2>8. Carries'
    BY <1>5, <2>1 DEF AppendSignal, TypeOK, Goto, Carries, Proc
  <2> QED
    BY <2>1, <2>3, <2>4, <2>5, <2>6, <2>7, <2>8 DEF TypeOK
<1>6. ASSUME NEW p \in Proc, ListPendingOrders(p) PROVE TypeOK' /\ Carries'
  <2>1. {signals[r].contract : r \in PendingRows} \subseteq Contract
    BY DEF PendingRows, TypeOK, Row
  <2>2. PICK orders, loaded \in SUBSET (Contract \cup Wheel) :
           open' = [open EXCEPT ![p] = Declared(orders, loaded)]
    BY <1>6, <2>1 DEF ListPendingOrders, TypeOK
  <2>3. Declared(orders, loaded) \in (SUBSET (Contract \cup Wheel)) \cup {None}
    BY DEF Declared
  <2>4. open' \in [Proc -> (SUBSET (Contract \cup Wheel)) \cup {None}]
    BY <2>2, <2>3 DEF TypeOK
  <2>5. pc' \in [Proc -> Stage] /\ blind' \subseteq Proc
    BY <1>6 DEF ListPendingOrders, Goto, Stage, TypeOK
  <2>6. TypeOK'
    BY <1>6, <2>4, <2>5 DEF ListPendingOrders, TypeOK
  <2>7. Carries'
    BY <1>6 DEF ListPendingOrders, Goto, TypeOK, Carries, Proc
  <2> QED
    BY <2>6, <2>7
<1>7. ASSUME NEW p \in Proc, Accept(p) PROVE TypeOK' /\ Carries'
  <2>1. /\ pc' \in [Proc -> Stage] /\ listed' \in [Proc -> SUBSET (1..last)]
    BY <1>7 DEF Accept, Goto, Stage, TypeOK
  <2>8. open' = [open EXCEPT ![p] = None]
    BY <1>7 DEF Accept
  <2>9. open' \in [Proc -> (SUBSET (Contract \cup Wheel)) \cup {None}]
    BY <2>8 DEF TypeOK
  <2>2. TypeOK'
    BY <1>7, <2>1, <2>9 DEF Accept, TypeOK
  <2>3. Carries'
    BY <1>7 DEF Accept, Goto, TypeOK, Carries, Proc
  <2> QED
    BY <2>2, <2>3
<1>8. ASSUME NEW p \in Proc, CountQuota(p) PROVE TypeOK' /\ Carries'
  <2>1. CASE Return(p)
    BY <1>1, <1>8, <2>1 DEF CountQuota, TypeOK
  <2>2. CASE ~Return(p)
    BY <1>8, <2>2 DEF CountQuota, Goto, Stage, TypeOK, Carries, Proc
  <2> QED
    BY <2>1, <2>2
<1>9. ASSUME NEW p \in Request, Receive(p) PROVE TypeOK' /\ Carries'
  BY <1>9 DEF Receive, Goto, Stage, TypeOK, Carries, Proc
<1>10. CASE Dedupe \/ Generate
  <2>1. CASE Dedupe
    BY <2>1, ProcIsFinite, ConstantsAssumption DEF Dedupe, Goto, Stage, TypeOK, Carries
  <2>2. CASE Generate
    <3>1. PICK c \in Contract : choice' = [choice EXCEPT ![Scheduler] = c]
      BY <2>2 DEF Generate
    <3>2. TypeOK'
      BY <2>2, <3>1, ProcIsFinite DEF Generate, Goto, Stage, TypeOK
    <3>3. Carries'
      BY <2>2, <3>1, ProcIsFinite, ConstantsAssumption DEF Generate, Goto, TypeOK, Carries, Proc
    <3> QED
      BY <3>2, <3>3
  <2> QED
    BY <1>10, <2>1, <2>2
<1>11. CASE WheelOrder \/ Claim \/ Confirm \/ Decline \/ Fill
  <2>1. UNCHANGED <<signals, last, recent, today, local, blind>>
    BY <1>11 DEF WheelOrder, Claim, Confirm, Decline, Fill
  <2>2. acts' \in [1..last -> SUBSET Action]
    BY <1>11 DEF WheelOrder, Claim, Confirm, Decline, Fill, Record, TypeOK, Action
  <2>3. claims' \in [1..last -> {"none", "placing", "done"}]
    BY <1>11 DEF WheelOrder, Claim, Confirm, Decline, Fill, TypeOK
  <2>4. late' \subseteq 1..last /\ resting' \subseteq Wheel
    BY <1>11 DEF WheelOrder, Claim, Confirm, Decline, Fill, TypeOK
  <2> QED
    BY <2>1, <2>2, <2>3, <2>4 DEF TypeOK, Carries
<1>12. CASE Age \/ NextDay \/ UNCHANGED vars
  BY <1>12 DEF Age, NextDay, vars, TypeOK, Carries
<1>13. CASE Restart
  <2>1. /\ pc' \in [Proc -> Stage] /\ \A p \in Proc : pc'[p] = "idle"
        /\ choice' \in [Proc -> Contract \cup {None}]
        /\ listed' \in [Proc -> SUBSET (1..last)]
        /\ row' \in [Proc -> 0..last]
    BY <1>13 DEF Restart, Stage
  <2>8. open' = [p \in Proc |-> None]
    BY <1>13 DEF Restart
  <2>9. open' \in [Proc -> (SUBSET (Contract \cup Wheel)) \cup {None}]
    BY <2>8 DEF TypeOK
  <2>2. claims' \in [1..last -> {"none", "placing", "done"}]
    BY <1>13 DEF Restart, TypeOK
  <2>3. blind' = {} /\ UNCHANGED <<signals, last, acts, recent, today, resting, late>>
    BY <1>13 DEF Restart
  <2> QED
    BY <2>1, <2>9, <2>2, <2>3 DEF TypeOK, Carries, Proc
<1> QED
  BY <1>2, <1>3, <1>4, <1>5, <1>6, <1>7, <1>8, <1>9, <1>10, <1>11, <1>12, <1>13 DEF Next

------------------------------------------------------------------------------
\* The rows.

\* What every step leaves of a row: its contract and writer, its actions, its
\* age, and that a late CONFIRM is noted as such.
RowsKept ==
  /\ last <= last' /\ last' \in Nat
  /\ \A r \in 1..last :
       /\ signals'[r] = signals[r]
       /\ acts[r] \subseteq acts'[r]
       /\ r \in late => r \in late'
       /\ r \in recent' => r \in recent
       /\ "CONFIRM" \in acts'[r] /\ "CONFIRM" \notin acts[r] /\ r \notin recent => r \in late'

LEMMA RowsStep == IndInv /\ [Next]_vars => RowsKept
<1> SUFFICES ASSUME IndInv, [Next]_vars PROVE RowsKept
  OBVIOUS
<1>0. TypeOK /\ Carries /\ last \in Nat
  BY ConstantsAssumption DEF IndInv, TypeOK
<1> USE <1>0 DEF store, local, RowsKept
<1>1. ASSUME UNCHANGED <<signals, last, acts, late>>, recent' \subseteq recent PROVE RowsKept
  BY <1>1
<1>2. ASSUME NEW p \in Proc,
             ListPendingOrders(p) \/ ListFails(p) \/ Refuse(p) \/ Accept(p) \/ CountQuota(p)
               \/ AppendFails(p) \/ GateFails(p)
      PROVE  RowsKept
  BY <1>1, <1>2 DEF ListPendingOrders, ListFails, Refuse, Accept, CountQuota, AppendFails, GateFails
<1>3. CASE Dedupe \/ Generate \/ GenerateFails \/ WheelOrder \/ Claim \/ NextDay \/ UNCHANGED vars
  BY <1>1, <1>3 DEF Dedupe, Generate, GenerateFails, WheelOrder, Claim, NextDay, vars
<1>4. ASSUME NEW p \in Request, Receive(p) PROVE RowsKept
  BY <1>1, <1>4 DEF Receive
<1>5. ASSUME NEW p \in Proc, AppendSignal(p) PROVE RowsKept
  <2>1. /\ last' = last + 1 /\ recent' = recent \cup {last + 1} /\ late' = late
        /\ \A r \in 1..last : signals'[r] = signals[r] /\ acts'[r] = acts[r]
    BY <1>5, AppendRow DEF AppendSignal, TypeOK, Carries, Row
  <2> QED
    BY <2>1
<1>6. ASSUME NEW p \in Proc, Gate(p) PROVE RowsKept
  <2>1. PICK a \in {"LLM_REVIEW", "CLOSED"} : acts' = [acts EXCEPT ![row[p]] = @ \cup {a}]
    BY <1>6 DEF Gate, Record
  <2>2. \A r \in 1..last : acts'[r] = acts[r] \/ acts'[r] = acts[r] \cup {a}
    BY <2>1 DEF TypeOK
  <2> QED
    BY <1>6, <2>2 DEF Gate
<1>7. CASE Confirm
  <2>1. PICK r \in 1..last, a \in {"CONFIRM", "CLOSED"} :
          /\ acts' = [acts EXCEPT ![r] = @ \cup {a}]
          /\ late' = IF a = "CONFIRM" /\ r \notin recent THEN late \cup {r} ELSE late
    BY <1>7 DEF Confirm, Record
  <2>2. \A s \in 1..last : acts'[s] = IF s = r THEN acts[s] \cup {a} ELSE acts[s]
    BY <2>1 DEF TypeOK
  <2> QED
    BY <1>7, <2>1, <2>2 DEF Confirm
<1>8. CASE Decline \/ Fill
  <2>1. PICK r \in 1..last : acts' = [acts EXCEPT ![r] = @ \cup {"CLOSED"}]
    BY <1>8 DEF Decline, Fill, Record
  <2>2. \A s \in 1..last : acts'[s] = acts[s] \/ acts'[s] = acts[s] \cup {"CLOSED"}
    BY <2>1 DEF TypeOK
  <2> QED
    BY <1>8, <2>2 DEF Decline, Fill
<1>9. CASE Age \/ Restart
  BY <1>1, <1>9 DEF Age, Restart
<1> QED
  BY <1>2, <1>3, <1>4, <1>5, <1>6, <1>7, <1>8, <1>9 DEF Next

LEMMA LastIsNat == TypeOK => last \in Nat
BY ConstantsAssumption DEF TypeOK

\* A settled row stays settled, and a confirmed one is confirmed.
LEMMA SettledKept ==
  ASSUME RowsKept, last \in Nat, NEW r \in 1..last
  PROVE  /\ Settled(r) => Settled(r)'
         /\ "CONFIRM" \in acts[r] => "CONFIRM" \in acts'[r]
         /\ r \in 1..last'
<1>1. r \in 1..last'
  BY DEF RowsKept
<1>2. acts[r] \subseteq acts'[r]
  BY DEF RowsKept
<1>3. Settled(r) => Settled(r)'
  BY DEF RowsKept, Settled
<1> QED
  BY <1>1, <1>2, <1>3

\* The runner's rows while it does not append one.
LEMMA RunnersKept ==
  ASSUME TypeOK, RowsKept,
         last' = last \/ (last' = last + 1 /\ signals'[last'].by # "runner")
  PROVE  Runners' = Runners /\ \A r \in Runners : r \in 1..last /\ signals'[r] = signals[r]
BY DEF RowsKept, Runners, TypeOK

\* A step in which the runner itself does not move.
LEMMA RunnerRests ==
  ASSUME IndInv, RowsKept,
         last' = last \/ (last' = last + 1 /\ signals'[last'].by # "runner"),
         \/ pc'[Scheduler] \in {"idle", "gate"}
         \/ /\ pc'[Scheduler] = pc[Scheduler] /\ open'[Scheduler] = open[Scheduler]
            /\ choice'[Scheduler] = choice[Scheduler]
            /\ Scheduler \notin blind' => Scheduler \notin blind
  PROVE  RunnerKnows'
<1>1. /\ Runners' = Runners
      /\ \A r \in Runners : r \in 1..last /\ signals'[r] = signals[r]
  BY RunnersKept DEF IndInv
<1>2. \A r \in Runners : /\ Settled(r) => Settled(r)'
                         /\ "CONFIRM" \in acts[r] => "CONFIRM" \in acts'[r]
  BY <1>1, SettledKept, LastIsNat DEF IndInv
<1>3. RunnerKnows
  BY DEF IndInv
<1>4. pc'[Scheduler] = "list" => \A r \in Runners' : Settled(r)' \/ "CONFIRM" \in acts'[r]
  BY <1>1, <1>2, <1>3 DEF RunnerKnows
<1>5. pc'[Scheduler] \in {"generate", "validate"} /\ Scheduler \notin blind'
      => \A r \in Runners' :
           Settled(r)' \/ signals'[r].contract \in open'[Scheduler]
  BY <1>1, <1>2, <1>3 DEF RunnerKnows
<1>6. pc'[Scheduler] \in {"count", "append"} /\ Scheduler \notin blind'
      => \A r \in Runners' : signals'[r].contract = choice'[Scheduler] => Settled(r)'
  BY <1>1, <1>2, <1>3 DEF RunnerKnows
<1>7. \A r, s \in Runners' : r < s /\ signals'[r].contract = signals'[s].contract => Settled(r)'
  BY <1>1, <1>2, <1>3 DEF RunnerKnows
<1> QED
  BY <1>4, <1>5, <1>6, <1>7 DEF RunnerKnows

\* Each read of the runner settles what its contract needs, and what it appends comes
\* after settled rows only.
LEMMA RunnerStep == IndInv /\ [Next]_vars => RunnerKnows'
<1> SUFFICES ASSUME IndInv, [Next]_vars PROVE RunnerKnows'
  OBVIOUS
<1>0. TypeOK /\ Carries /\ RunnerKnows /\ last \in Nat /\ Scheduler \in Proc /\ Scheduler \notin Request
  BY ConstantsAssumption, ProcIsFinite DEF IndInv, TypeOK
<1>k. RowsKept
  BY RowsStep
<1> USE <1>0 DEF store, local
<1>1. ASSUME NEW p \in Proc, Return(p), last' = last PROVE RunnerKnows'
  BY <1>1, <1>k, ReturnFacts, RunnerRests
<1>2. ASSUME NEW p \in Proc, ListFails(p) \/ Refuse(p) \/ AppendFails(p) \/ GateFails(p) \/ Gate(p)
      PROVE  RunnerKnows'
  BY <1>1, <1>2 DEF ListFails, Refuse, AppendFails, GateFails, Gate
<1>3. CASE GenerateFails
  BY <1>1, <1>3 DEF GenerateFails
<1>4. CASE WheelOrder \/ Claim \/ Confirm \/ Decline \/ Fill \/ Age \/ NextDay \/ UNCHANGED vars
  <2>1. UNCHANGED <<last, pc, open, choice, blind>>
    BY <1>4 DEF WheelOrder, Claim, Confirm, Decline, Fill, Age, NextDay, vars
  <2> QED
    BY <1>k, <2>1, RunnerRests
<1>5. CASE Restart
  <2>1. last' = last /\ pc'[Scheduler] = "idle"
    BY <1>5 DEF Restart
  <2> QED
    BY <1>k, <2>1, RunnerRests
<1>6. ASSUME NEW p \in Request, Receive(p) PROVE RunnerKnows'
  <2>1. /\ last' = last /\ blind' = blind /\ pc'[Scheduler] = pc[Scheduler]
        /\ open'[Scheduler] = open[Scheduler] /\ choice'[Scheduler] = choice[Scheduler]
    BY <1>6 DEF Receive, Goto, TypeOK
  <2> QED
    BY <1>k, <2>1, RunnerRests
<1>7. ASSUME NEW p \in Request, ListPendingOrders(p) \/ Accept(p) \/ CountQuota(p) \/ AppendSignal(p)
      PROVE  RunnerKnows'
  <2>0. p \in Proc /\ p # Scheduler
    BY DEF Proc
  <2>1. CASE Return(p)
    BY <1>1, <1>7, <2>0, <2>1 DEF CountQuota, ListPendingOrders, Accept, AppendSignal, Return, Goto, TypeOK
  <2>2. CASE ~Return(p)
    <3>1. /\ pc'[Scheduler] = pc[Scheduler] /\ open'[Scheduler] = open[Scheduler]
          /\ choice'[Scheduler] = choice[Scheduler]
      BY <1>7, <2>0, <2>2 DEF ListPendingOrders, Accept, CountQuota, AppendSignal, Goto, TypeOK
    <3>2. Scheduler \notin blind' => Scheduler \notin blind
      BY <1>7, <2>0, <2>2 DEF ListPendingOrders, Accept, CountQuota, AppendSignal
    <3>3. last' = last \/ (last' = last + 1 /\ signals'[last'].by # "runner")
      <4>1. CASE AppendSignal(p)
        <5>1. choice[p] \in Contract
          BY <2>0, <4>1 DEF AppendSignal, Carries
        <5>2. /\ last' = last + 1
              /\ signals' = Append(signals, [contract |-> choice[p],
                                             by |-> IF p \in blind THEN "misled" ELSE "request"])
          BY <2>0, <4>1 DEF AppendSignal
        <5>3. signals'[last + 1] = [contract |-> choice[p],
                                    by |-> IF p \in blind THEN "misled" ELSE "request"]
          BY <5>1, <5>2, AppendRow DEF TypeOK, Row
        <5>4. signals'[last + 1].by \in {"misled", "request"}
          BY <5>3
        <5> QED
          BY <5>2, <5>4
      <4>2. CASE ~AppendSignal(p)
        BY <1>7, <2>2, <4>2 DEF ListPendingOrders, Accept, CountQuota
      <4> QED
        BY <4>1, <4>2
    <3> QED
      BY <1>k, <3>1, <3>2, <3>3, RunnerRests
  <2> QED
    BY <2>1, <2>2
<1>8. CASE Dedupe
  <2>0. \A r \in recent : "CONFIRM" \in acts[r] \/ "CLOSED" \in acts[r]
    BY <1>8 DEF Dedupe, HasRecentUndisposedSignal, Undisposed
  <2>1. pc'[Scheduler] = "list" /\ UNCHANGED <<last, signals, acts, late, recent>>
    BY <1>8 DEF Dedupe, Goto, TypeOK
  <2>2. \A r \in Runners' : Settled(r)' \/ "CONFIRM" \in acts'[r]
    BY <2>0, <2>1 DEF Runners, Settled
  <2>3. \A r, s \in Runners' : r < s /\ signals'[r].contract = signals'[s].contract => Settled(r)'
    BY <2>1 DEF RunnerKnows, Runners, Settled
  <2> QED
    BY <2>1, <2>2, <2>3 DEF RunnerKnows
<1>9. CASE ListPendingOrders(Scheduler)
  <2> DEFINE pending == {signals[r].contract : r \in PendingRows} \cup resting
  <2>1. PICK loaded \in SUBSET pending :
          /\ open' = [open EXCEPT ![Scheduler] = Declared(pending, loaded)]
          /\ blind' = IF loaded = pending THEN blind ELSE blind \cup {Scheduler}
    BY <1>9 DEF ListPendingOrders
  <2>2. /\ pc[Scheduler] = "list" /\ pc'[Scheduler] = "generate"
        /\ UNCHANGED <<last, signals, acts, late, recent>>
    BY <1>9 DEF ListPendingOrders, Goto, TypeOK
  <2>3. \A r \in Runners : Settled(r) \/ signals[r].contract \in pending
    BY <2>2 DEF RunnerKnows, Settled, Runners, PendingRows, IsPending
  <2>4. Scheduler \notin blind' => \A r \in Runners : Settled(r) \/ signals[r].contract \in open'[Scheduler]
    <3> SUFFICES ASSUME Scheduler \notin blind', NEW r \in Runners, ~Settled(r)
                 PROVE  signals[r].contract \in open'[Scheduler]
      OBVIOUS
    <3>1. loaded = pending /\ signals[r].contract \in pending
      BY <2>1, <2>3
    <3>2. Declared(pending, loaded) = pending
      BY <3>1 DEF Declared
    <3> QED
      BY <2>1, <3>1, <3>2 DEF TypeOK
  <2> HIDE DEF pending
  <2>5. Runners' = Runners /\ \A r \in Runners : Settled(r)' <=> Settled(r)
    BY <2>2 DEF Runners, Settled
  <2>6. \A r, s \in Runners' : r < s /\ signals'[r].contract = signals'[s].contract => Settled(r)'
    BY <2>2, <2>5 DEF RunnerKnows
  <2> QED
    BY <2>2, <2>4, <2>5, <2>6 DEF RunnerKnows
<1>10. CASE Generate
  <2>1. /\ pc[Scheduler] = "generate" /\ pc'[Scheduler] = "validate" /\ UNCHANGED <<open, blind>>
        /\ UNCHANGED <<last, signals, acts, late, recent>>
    BY <1>10 DEF Generate, Goto, TypeOK
  <2>2. Runners' = Runners /\ \A r \in Runners : Settled(r)' <=> Settled(r)
    BY <2>1 DEF Runners, Settled
  <2>3. \A r, s \in Runners' : r < s /\ signals'[r].contract = signals'[s].contract => Settled(r)'
    BY <2>1, <2>2 DEF RunnerKnows
  <2> QED
    BY <2>1, <2>2, <2>3 DEF RunnerKnows
<1>11. CASE Accept(Scheduler)
  <2>1. /\ pc[Scheduler] = "validate" /\ pc'[Scheduler] = "count" /\ UNCHANGED <<choice, blind>>
        /\ choice[Scheduler] \notin open[Scheduler]
        /\ UNCHANGED <<last, signals, acts, late, recent>>
    BY <1>11 DEF Accept, Goto, TypeOK
  <2>2. Runners' = Runners /\ \A r \in Runners : Settled(r)' <=> Settled(r)
    BY <2>1 DEF Runners, Settled
  <2>3. \A r, s \in Runners' : r < s /\ signals'[r].contract = signals'[s].contract => Settled(r)'
    BY <2>1, <2>2 DEF RunnerKnows
  <2> QED
    BY <2>1, <2>2, <2>3 DEF RunnerKnows
<1>12. CASE CountQuota(Scheduler)
  <2>1. CASE Return(Scheduler)
    BY <1>1, <1>12, <2>1 DEF CountQuota
  <2>2. CASE ~Return(Scheduler)
    <3>1. /\ pc[Scheduler] = "count" /\ pc'[Scheduler] = "append" /\ choice' = choice
          /\ Scheduler \notin blind' => Scheduler \notin blind
          /\ UNCHANGED <<last, signals, acts, late, recent>>
      BY <1>12, <2>2 DEF CountQuota, Goto, TypeOK
    <3>2. Runners' = Runners /\ \A r \in Runners : Settled(r)' <=> Settled(r)
      BY <3>1 DEF Runners, Settled
    <3>3. \A r, s \in Runners' : r < s /\ signals'[r].contract = signals'[s].contract => Settled(r)'
      BY <3>1, <3>2 DEF RunnerKnows
    <3> QED
      BY <3>1, <3>2, <3>3 DEF RunnerKnows
  <2> QED
    BY <2>1, <2>2
<1>13. CASE AppendSignal(Scheduler)
  <2> DEFINE new == [contract |-> choice[Scheduler],
                     by |-> IF Scheduler \in blind THEN "misled" ELSE "runner"]
  <2>1. /\ pc[Scheduler] = "append" /\ pc'[Scheduler] = "gate"
        /\ last' = last + 1 /\ signals' = Append(signals, new)
    BY <1>13 DEF AppendSignal, Goto, TypeOK
  <2>2. new \in Row
    BY <2>1 DEF Carries, Row
  <2>3. signals'[last + 1] = new /\ \A r \in 1..last : signals'[r] = signals[r]
    BY <2>1, <2>2, AppendRow DEF TypeOK
  <2>4. CASE Scheduler \in blind
    <3>0. signals'[last + 1].by = "misled"
      BY <2>3, <2>4
    <3>1. signals'[last'].by # "runner"
      BY <2>1, <3>0
    <3> QED
      BY <1>k, <2>1, <3>1, RunnerRests
  <2>5. CASE Scheduler \notin blind
    <3>1. \A r \in Runners : signals[r].contract = choice[Scheduler] => Settled(r)
      BY <2>1, <2>5 DEF RunnerKnows
    <3>2. \A r \in Runners' : r \in Runners \/ r = last + 1
      <4>1. \A r \in Runners' : r \in 1..(last + 1) /\ signals'[r].by = "runner"
        BY <2>1 DEF Runners
      <4>2. \A r \in 1..last : signals'[r] = signals[r]
        BY <2>3
      <4>3. \A r \in Runners' : r \in 1..last => signals[r].by = "runner"
        BY <4>1, <4>2
      <4> QED
        BY <4>1, <4>3 DEF Runners
    <3>3. \A r \in Runners : r \in 1..last /\ (Settled(r) => Settled(r)')
      BY <1>k, SettledKept DEF Runners
    <3>4. signals'[last + 1].contract = choice[Scheduler]
      BY <2>3
    <3>5. ASSUME NEW r \in Runners', NEW s \in Runners', r < s,
                 signals'[r].contract = signals'[s].contract
          PROVE  Settled(r)'
      <4>1. r \in Runners
        BY <3>2, <3>3, <3>5
      <4>2. CASE s = last + 1
        BY <2>3, <3>1, <3>3, <3>4, <3>5, <4>1, <4>2
      <4>3. CASE s \in Runners
        BY <2>3, <3>3, <3>5, <4>1, <4>3 DEF RunnerKnows
      <4> QED
        BY <3>2, <4>2, <4>3
    <3> QED
      BY <2>1, <3>5 DEF RunnerKnows
  <2> QED
    BY <2>4, <2>5
<1> QED
  BY <1>2, <1>3, <1>4, <1>5, <1>6, <1>7, <1>8, <1>9, <1>10, <1>11, <1>12, <1>13 DEF Next, Proc

\* A row is in play only while it is not settled.
LEMMA SettledIsOut ==
  ASSUME NEW r \in 1..last, Settled(r), InPlay(r)
  PROVE  r \in late
BY DEF Settled, InPlay, Undisposed, IsPending

\* The invariant of the submissions holds in every run.
THEOREM Inductive == Spec => []IndInv
<1>1. Init => IndInv
  <2> SUFFICES ASSUME Init PROVE IndInv
    OBVIOUS
  <2>0. last = 0 /\ 1..last = {} /\ 0 \in 0..MaxSignals /\ 0 \in 0..last
    BY ConstantsAssumption DEF Init
  <2>1. signals \in [1..last -> Row] /\ acts \in [1..last -> SUBSET Action]
        /\ claims \in [1..last -> {"none", "placing", "done"}]
    BY <2>0 DEF Init
  <2>2. TypeOK
    BY <2>0, <2>1 DEF Init, TypeOK, Stage
  <2>3. Carries
    BY DEF Init, Carries, Proc
  <2>4. RunnerKnows
    BY <2>0, ProcIsFinite DEF Init, RunnerKnows, Runners
  <2> QED
    BY <2>2, <2>3, <2>4 DEF IndInv
<1>2. IndInv /\ [Next]_vars => IndInv'
  BY TypeStep, RunnerStep DEF IndInv
<1> QED
  BY <1>1, <1>2, PTL DEF Spec

\* llmstrategy.Runner: what it reads before it asks the model still protects it when
\* it appends; no two rows of the runner for one contract are in play at once, except
\* after a CONFIRM that came too late.
THEOREM NoRowsStack == Spec => []RowsAreSound
<1>1. IndInv => RowsAreSound
  <2> SUFFICES ASSUME IndInv PROVE NoStackedRows
    BY DEF IndInv, RowsAreSound
  <2> SUFFICES ASSUME NEW r \in 1..last, NEW s \in 1..last, r < s,
                      signals[r].contract = signals[s].contract,
                      signals[r].by = "runner", signals[s].by = "runner",
                      InPlay(r)
               PROVE  r \in late
    BY DEF NoStackedRows
  <2>1. Settled(r)
    BY DEF IndInv, RunnerKnows, Runners
  <2> QED
    BY <2>1, SettledIsOut
<1> QED
  BY <1>1, Inductive, PTL

------------------------------------------------------------------------------
\* The quota.

\* A set grows by at most one with an element.
LEMMA OneMore ==
  ASSUME NEW S, IsFiniteSet(S), NEW x
  PROVE  /\ IsFiniteSet(S \cup {x}) /\ Cardinality(S \cup {x}) \in Nat
         /\ Cardinality(S \cup {x}) <= Cardinality(S) + 1
<1>0. Cardinality(S) \in Nat
  BY FS_CardinalityType
<1>1. CASE x \in S
  <2>1. S \cup {x} = S
    BY <1>1
  <2>2. IsFiniteSet(S \cup {x}) /\ Cardinality(S \cup {x}) = Cardinality(S)
    BY <2>1, Zenon
  <2> QED
    BY <1>0, <2>2
<1>2. CASE x \notin S
  <2>1. IsFiniteSet(S \cup {x}) /\ Cardinality(S \cup {x}) = Cardinality(S) + 1
    BY <1>2, FS_AddElement
  <2> QED
    BY <1>0, <2>1
<1> QED
  BY <1>1, <1>2

\* The sets that are counted are finite.
LEMMA Countable ==
  ASSUME TypeOK
  PROVE  /\ \A rows \in SUBSET (1..last) : IsFiniteSet(Approved(rows)) /\ Cardinality(Approved(rows)) \in Nat
         /\ IsFiniteSet(Spent) /\ Cardinality(Spent) \in Nat /\ Spent \subseteq Approved(today)
         /\ Cardinality(Spent) <= Cardinality(Approved(today))
         /\ OnTheWay \subseteq Proc /\ IsFiniteSet(OnTheWay) /\ Cardinality(OnTheWay) \in Nat
         /\ Cardinality(OnTheWay) <= Cardinality(Proc)
<1>1. IsFiniteSet(1..last) /\ last \in Nat
  BY LastIsNat, FS_Interval
<1>2. \A rows \in SUBSET (1..last) : IsFiniteSet(Approved(rows)) /\ Cardinality(Approved(rows)) \in Nat
  <2> SUFFICES ASSUME NEW rows \in SUBSET (1..last)
               PROVE  IsFiniteSet(Approved(rows)) /\ Cardinality(Approved(rows)) \in Nat
    OBVIOUS
  <2>1. Approved(rows) \subseteq 1..last
    BY DEF Approved
  <2> QED
    BY <1>1, <2>1, FS_Subset, FS_CardinalityType
<1>3. Spent \subseteq Approved(today) /\ today \in SUBSET (1..last)
  BY DEF Spent, TypeOK
<1>4. IsFiniteSet(Approved(today))
  BY <1>2, <1>3
<1>5. IsFiniteSet(Spent) /\ Cardinality(Spent) <= Cardinality(Approved(today))
  BY <1>3, <1>4, FS_Subset
<1>6. OnTheWay \subseteq Proc
  BY DEF OnTheWay
<1>7. IsFiniteSet(OnTheWay) /\ Cardinality(OnTheWay) <= Cardinality(Proc)
  BY <1>6, ProcIsFinite, FS_Subset
<1> QED
  BY <1>2, <1>3, <1>5, <1>6, <1>7, FS_CardinalityType

\* A submission that does not move is not on its way when it was not.
LEMMA WayKept ==
  ASSUME TypeOK, Carries, RowsKept, TypeOK', NEW q \in Proc, q \in OnTheWay',
         pc'[q] = pc[q], listed'[q] = listed[q], row'[q] = row[q], q \in blind => q \in blind'
  PROVE  q \in OnTheWay
<1>1. CASE pc[q] = "count"
  <2>1. Cardinality(Approved(listed[q])') < MaxDaily
    BY <1>1 DEF OnTheWay, Approved
  <2>2. listed[q] \in SUBSET (1..last) /\ listed[q] \in SUBSET (1..last')
    BY DEF TypeOK
  <2>3. Approved(listed[q]) \subseteq Approved(listed[q])'
    BY <2>2 DEF Approved, RowsKept
  <2>4. IsFiniteSet(Approved(listed[q])') /\ Cardinality(Approved(listed[q])') \in Nat
    <3>1. Approved(listed[q])' \subseteq 1..last
      BY <2>2 DEF Approved
    <3> QED
      BY <3>1, LastIsNat, FS_Interval, FS_Subset, FS_CardinalityType
  <2>5. Cardinality(Approved(listed[q])) <= Cardinality(Approved(listed[q])')
        /\ Cardinality(Approved(listed[q])) \in Nat
    BY <2>3, <2>4, FS_Subset, FS_CardinalityType
  <2>6. Cardinality(Approved(listed[q])) < MaxDaily
    BY <2>1, <2>4, <2>5, ConstantsAssumption
  <2> QED
    BY <1>1, <2>6 DEF OnTheWay
<1>2. CASE pc[q] = "append"
  BY <1>2 DEF OnTheWay
<1>3. CASE pc[q] = "gate"
  <2>1. row[q] \in 1..last
    BY <1>3 DEF Carries
  <2> QED
    BY <1>3, <2>1 DEF OnTheWay, RowsKept
<1> QED
  BY <1>1, <1>2, <1>3 DEF OnTheWay

\* A step that approves nothing and brings nobody on the way.
LEMMA QuotaQuiet ==
  ASSUME TypeOK, TypeOK', QuotaInv, OnTheWay' \subseteq OnTheWay, Spent' \subseteq Spent
  PROVE  QuotaInv'
<1>1. /\ IsFiniteSet(Spent) /\ IsFiniteSet(OnTheWay)
      /\ Cardinality(Spent) \in Nat /\ Cardinality(OnTheWay) \in Nat
  BY Countable
<1>2. /\ Cardinality(Spent') <= Cardinality(Spent) /\ Cardinality(Spent') \in Nat
      /\ Cardinality(OnTheWay') <= Cardinality(OnTheWay) /\ Cardinality(OnTheWay') \in Nat
  BY <1>1, FS_Subset, FS_CardinalityType
<1>3. Cardinality(Proc) \in Nat /\ MaxDaily \in Nat
  BY ProcIsFinite, FS_CardinalityType, ConstantsAssumption
<1> QED
  BY <1>1, <1>2, <1>3 DEF QuotaInv

\* The approved rows of the day when a step approves nothing.
LEMMA SpentKept ==
  ASSUME TypeOK, RowsKept, today' \subseteq today \cup (last + 1)..last',
         \A r \in 1..last : "LLM_REVIEW" \in acts'[r] => "LLM_REVIEW" \in acts[r],
         \A r \in (last + 1)..last' : "LLM_REVIEW" \notin acts'[r]
  PROVE  Spent' \subseteq Spent
<1> SUFFICES ASSUME NEW r \in Spent' PROVE r \in Spent
  OBVIOUS
<1>1. r \in today' /\ "LLM_REVIEW" \in acts'[r] /\ signals'[r].by # "misled"
  BY DEF Spent, Approved
<1>2. r \in today /\ r \in 1..last
  BY <1>1 DEF TypeOK
<1> QED
  BY <1>1, <1>2 DEF Spent, Approved, RowsKept

\* A submission reaches its way while the quota is not spent, and leaves it with the
\* row it adds.
LEMMA QuotaStep == IndInv /\ QuotaInv /\ [Next]_vars => QuotaInv'
<1> SUFFICES ASSUME IndInv, QuotaInv, [Next]_vars PROVE QuotaInv'
  OBVIOUS
<1>0. TypeOK /\ Carries /\ last \in Nat /\ Scheduler \in Proc
  BY ProcIsFinite, LastIsNat DEF IndInv
<1>t. TypeOK' /\ RowsKept
  BY TypeStep, RowsStep
<1> USE <1>0, <1>t DEF store, local
<1>1. ASSUME NEW p \in Proc,
             \A q \in Proc \ {p} : /\ pc'[q] = pc[q] /\ listed'[q] = listed[q] /\ row'[q] = row[q]
                                   /\ q \in blind => q \in blind',
             p \in OnTheWay' => p \in OnTheWay,
             UNCHANGED <<last, acts, today>>
      PROVE  QuotaInv'
  <2>1. OnTheWay' \subseteq OnTheWay
    BY <1>1, WayKept DEF OnTheWay
  <2>2. Spent' \subseteq Spent
    BY <1>1, SpentKept
  <2> QED
    BY <2>1, <2>2, QuotaQuiet
<1>2. ASSUME NEW p \in Proc, Return(p), UNCHANGED <<last, acts, today>> PROVE QuotaInv'
  <2>1. pc'[p] = "idle"
    BY <1>2, ReturnFacts
  <2>2. p \notin OnTheWay'
    BY <2>1 DEF OnTheWay
  <2> QED
    BY <1>1, <1>2, <2>2, ReturnFacts
<1>3. ASSUME NEW p \in Proc, ListFails(p) \/ Refuse(p) \/ AppendFails(p) \/ GateFails(p) PROVE QuotaInv'
  BY <1>2, <1>3 DEF ListFails, Refuse, AppendFails, GateFails
<1>4. CASE GenerateFails
  BY <1>2, <1>4 DEF GenerateFails
<1>5. ASSUME NEW p \in Proc, ListPendingOrders(p) PROVE QuotaInv'
  <2>1. pc'[p] \in {"generate", "validate"}
    BY <1>5 DEF ListPendingOrders, Goto, TypeOK
  <2>2. p \notin OnTheWay'
    BY <2>1 DEF OnTheWay
  <2>3. \A q \in Proc \ {p} : /\ pc'[q] = pc[q] /\ listed'[q] = listed[q] /\ row'[q] = row[q]
                              /\ q \in blind => q \in blind'
    BY <1>5 DEF ListPendingOrders, Goto, TypeOK
  <2>4. UNCHANGED <<last, acts, today>>
    BY <1>5 DEF ListPendingOrders
  <2> QED
    BY <1>1, <2>2, <2>3, <2>4
<1>6. ASSUME NEW p \in Request, Receive(p) PROVE QuotaInv'
  <2>1. p \in Proc /\ pc'[p] = "list"
    BY <1>6 DEF Receive, Goto, TypeOK, Proc
  <2>2. p \notin OnTheWay'
    BY <2>1 DEF OnTheWay
  <2>3. \A q \in Proc \ {p} : /\ pc'[q] = pc[q] /\ listed'[q] = listed[q] /\ row'[q] = row[q]
                              /\ q \in blind => q \in blind'
    BY <1>6 DEF Receive, Goto, TypeOK
  <2>4. UNCHANGED <<last, acts, today>>
    BY <1>6 DEF Receive
  <2> QED
    BY <1>1, <2>1, <2>2, <2>3, <2>4
<1>7. CASE Dedupe \/ Generate
  <2>1. pc'[Scheduler] \in {"list", "validate"}
    BY <1>7 DEF Dedupe, Generate, Goto, TypeOK
  <2>2. Scheduler \notin OnTheWay'
    BY <2>1 DEF OnTheWay
  <2>3. \A q \in Proc \ {Scheduler} : /\ pc'[q] = pc[q] /\ listed'[q] = listed[q] /\ row'[q] = row[q]
                                      /\ q \in blind => q \in blind'
    BY <1>7 DEF Dedupe, Generate, Goto, TypeOK
  <2>4. UNCHANGED <<last, acts, today>>
    BY <1>7 DEF Dedupe, Generate
  <2> QED
    BY <1>1, <2>2, <2>3, <2>4
<1>8. ASSUME NEW p \in Proc, CountQuota(p) PROVE QuotaInv'
  <2>0. UNCHANGED <<last, acts, today>>
    BY <1>8 DEF CountQuota
  <2>1. CASE Return(p)
    BY <1>2, <2>0, <2>1
  <2>2. CASE ~Return(p)
    <3>1. PICK counted \in SUBSET Approved(listed[p]) :
            /\ Cardinality(counted) < MaxDaily
            /\ Goto(p, "append")
            /\ listed' = [listed EXCEPT ![p] = {}]
            /\ blind' = IF counted = Approved(listed[p]) THEN blind ELSE blind \cup {p}
            /\ UNCHANGED <<open, choice, row>>
      BY <1>8, <2>2 DEF CountQuota
    <3>2. pc[p] = "count" /\ pc'[p] = "append"
      BY <1>8, <3>1 DEF CountQuota, Goto, TypeOK
    <3>3. p \in OnTheWay' => p \in OnTheWay
      BY <3>1, <3>2 DEF OnTheWay
    <3>4. \A q \in Proc \ {p} : /\ pc'[q] = pc[q] /\ listed'[q] = listed[q] /\ row'[q] = row[q]
                                /\ q \in blind => q \in blind'
      BY <3>1 DEF Goto, TypeOK
    <3> QED
      BY <1>1, <2>0, <3>3, <3>4
  <2> QED
    BY <2>1, <2>2
<1>9. ASSUME NEW p \in Proc, Accept(p) PROVE QuotaInv'
  <2>1. /\ pc'[p] = "count" /\ listed'[p] = today
        /\ UNCHANGED <<last, signals, acts, today, row, blind>>
        /\ \A q \in Proc \ {p} : pc'[q] = pc[q] /\ listed'[q] = listed[q]
    BY <1>9 DEF Accept, Goto, TypeOK
  <2>2. CASE p \notin OnTheWay'
    BY <1>1, <2>1, <2>2
  <2>3. CASE p \in OnTheWay'
    <3>1. Cardinality(Approved(today)) < MaxDaily
      BY <2>1, <2>3 DEF OnTheWay, Approved
    <3>2. Spent' = Spent
      BY <2>1 DEF Spent, Approved
    <3>3. Cardinality(Spent) <= Cardinality(Approved(today)) /\ Cardinality(Spent) \in Nat
          /\ Cardinality(Approved(today)) \in Nat
      BY Countable DEF TypeOK
    <3>4. Cardinality(OnTheWay') <= Cardinality(Proc) /\ Cardinality(OnTheWay') \in Nat
      <4>1. OnTheWay' \subseteq Proc
        BY DEF OnTheWay
      <4> QED
        BY <4>1, ProcIsFinite, FS_Subset, FS_CardinalityType
    <3>5. Cardinality(Proc) \in Nat /\ MaxDaily \in Nat
      BY ProcIsFinite, FS_CardinalityType, ConstantsAssumption
    <3> QED
      BY <3>1, <3>2, <3>3, <3>4, <3>5 DEF QuotaInv
  <2> QED
    BY <2>2, <2>3
<1>10. ASSUME NEW p \in Proc, AppendSignal(p) PROVE QuotaInv'
  <2> DEFINE by == IF p \in blind THEN "misled" ELSE IF p = Scheduler THEN "runner" ELSE "request"
             new == [contract |-> choice[p], by |-> by]
  <2>1. /\ pc[p] = "append" /\ pc'[p] = "gate" /\ last' = last + 1 /\ row'[p] = last + 1
        /\ today' = today \cup {last + 1} /\ blind' = blind
        /\ signals' = Append(signals, new) /\ acts' = Append(acts, {})
        /\ \A q \in Proc \ {p} : pc'[q] = pc[q] /\ listed'[q] = listed[q] /\ row'[q] = row[q]
    BY <1>10 DEF AppendSignal, Goto, TypeOK
  <2>2. new \in Row
    BY <2>1 DEF Carries, Row
  <2>3. signals'[last + 1] = new
    BY <2>1, <2>2, AppendRow DEF TypeOK
  <2>4. acts'[last + 1] = {} /\ \A r \in 1..last : acts'[r] = acts[r]
    BY <2>1, AppendRow DEF TypeOK
  <2>5. p \in OnTheWay' => p \in OnTheWay
    <3>0. p \in blind => signals'[last + 1].by = "misled"
      BY <2>3
    <3>1. p \in blind => signals'[row'[p]].by = "misled"
      BY <2>1, <3>0
    <3> QED
      BY <2>1, <3>1 DEF OnTheWay
  <2>6. OnTheWay' \subseteq OnTheWay
    BY <2>1, <2>5, WayKept DEF OnTheWay
  <2>7. Spent' \subseteq Spent
    <3>1. (last + 1)..last' = {last + 1}
      BY <2>1
    <3>2. today' \subseteq today \cup (last + 1)..last'
      BY <2>1, <3>1
    <3>3. \A r \in (last + 1)..last' : "LLM_REVIEW" \notin acts'[r]
      BY <2>4, <3>1
    <3> QED
      BY <2>4, <3>2, <3>3, SpentKept
  <2> QED
    BY <2>6, <2>7, QuotaQuiet
<1>11. ASSUME NEW p \in Proc, Gate(p) PROVE QuotaInv'
  <2>1. /\ pc[p] = "gate" /\ row[p] \in 1..last /\ pc'[p] = "idle"
        /\ UNCHANGED <<signals, last, today>>
        /\ \A q \in Proc \ {p} : /\ pc'[q] = pc[q] /\ listed'[q] = listed[q] /\ row'[q] = row[q]
                                 /\ q \in blind => q \in blind'
    BY <1>11, ReturnFacts DEF Gate, Carries
  <2>2. OnTheWay' \subseteq OnTheWay \ {p}
    BY <2>1, WayKept DEF OnTheWay
  <2>3. PICK a \in {"LLM_REVIEW", "CLOSED"} : acts' = [acts EXCEPT ![row[p]] = @ \cup {a}]
    BY <1>11 DEF Gate, Record
  <2>4. \A r \in 1..last : r # row[p] => acts'[r] = acts[r]
    BY <2>3 DEF TypeOK
  <2>5. Spent' \subseteq Spent \cup {row[p]}
    BY <2>1, <2>4 DEF Spent, Approved, TypeOK
  <2>6. CASE signals[row[p]].by = "misled"
    <3>1. Spent' \subseteq Spent
      BY <2>1, <2>5, <2>6 DEF Spent
    <3> QED
      BY <2>2, <3>1, QuotaQuiet
  <2>7. CASE signals[row[p]].by # "misled"
    <3>1. p \in OnTheWay
      BY <2>1, <2>7 DEF OnTheWay
    <3>2. /\ IsFiniteSet(Spent) /\ IsFiniteSet(OnTheWay)
          /\ Cardinality(Spent) \in Nat /\ Cardinality(OnTheWay) \in Nat
      BY Countable
    <3>3. IsFiniteSet(Spent \cup {row[p]}) /\ Cardinality(Spent \cup {row[p]}) <= Cardinality(Spent) + 1
          /\ Cardinality(Spent \cup {row[p]}) \in Nat
      BY <3>2, OneMore
    <3>4. IsFiniteSet(OnTheWay \ {p}) /\ Cardinality(OnTheWay \ {p}) = Cardinality(OnTheWay) - 1
      BY <3>1, <3>2, FS_RemoveElement
    <3>5. Cardinality(Spent') <= Cardinality(Spent \cup {row[p]}) /\ Cardinality(Spent') \in Nat
      BY <2>5, <3>3, FS_Subset, FS_CardinalityType
    <3>6. Cardinality(OnTheWay') <= Cardinality(OnTheWay \ {p}) /\ Cardinality(OnTheWay') \in Nat
      BY <2>2, <3>4, FS_Subset, FS_CardinalityType
    <3>7. Cardinality(Proc) \in Nat /\ MaxDaily \in Nat
      BY ProcIsFinite, FS_CardinalityType, ConstantsAssumption
    <3> QED
      BY <3>2, <3>3, <3>4, <3>5, <3>6, <3>7 DEF QuotaInv
  <2> QED
    BY <2>6, <2>7
<1>12. CASE WheelOrder \/ Claim \/ Confirm \/ Decline \/ Fill \/ Age \/ NextDay \/ UNCHANGED vars
  <2>1. UNCHANGED <<last, pc, listed, row, blind>> /\ today' \subseteq today
    BY <1>12 DEF WheelOrder, Claim, Confirm, Decline, Fill, Age, NextDay, vars
  <2>2. \A r \in 1..last : "LLM_REVIEW" \in acts'[r] => "LLM_REVIEW" \in acts[r]
    <3>1. CASE acts' = acts
      BY <3>1
    <3>2. CASE \E s \in 1..last, a \in {"CONFIRM", "CLOSED"} : acts' = [acts EXCEPT ![s] = @ \cup {a}]
      <4>1. PICK s \in 1..last, a \in {"CONFIRM", "CLOSED"} : acts' = [acts EXCEPT ![s] = @ \cup {a}]
        BY <3>2
      <4>2. \A r \in 1..last : acts'[r] = acts[r] \/ acts'[r] = acts[r] \cup {a}
        BY <4>1 DEF TypeOK
      <4> QED
        BY <4>2
    <3> QED
      BY <1>12, <3>1, <3>2 DEF WheelOrder, Claim, Confirm, Decline, Fill, Age, NextDay, vars, Record
  <2>3. OnTheWay' \subseteq OnTheWay
    BY <2>1, WayKept DEF OnTheWay
  <2>4. Spent' \subseteq Spent
    BY <2>1, <2>2, SpentKept
  <2> QED
    BY <2>3, <2>4, QuotaQuiet
<1>13. CASE Restart
  <2>1. UNCHANGED <<last, acts, today>> /\ \A q \in Proc : pc'[q] = "idle"
    BY <1>13 DEF Restart
  <2>2. OnTheWay' = {}
    BY <2>1 DEF OnTheWay
  <2>3. Spent' \subseteq Spent
    BY <2>1, SpentKept
  <2> QED
    BY <2>2, <2>3, QuotaQuiet
<1> QED
  BY <1>3, <1>4, <1>5, <1>6, <1>7, <1>8, <1>9, <1>10, <1>11, <1>12, <1>13 DEF Next

\* llmsignal.Service.Submit: the daily quota is exceeded by at most the submissions
\* that were on their way when it was reached.
THEOREM QuotaHolds == Spec => []QuotaOvershoot
<1>1. Init => QuotaInv
  <2> SUFFICES ASSUME Init PROVE QuotaInv
    OBVIOUS
  <2>1. Spent = {} /\ OnTheWay = {}
    BY DEF Init, Spent, Approved, OnTheWay
  <2>2. Cardinality(Proc) \in Nat /\ MaxDaily \in Nat \ {0}
    BY ProcIsFinite, FS_CardinalityType, ConstantsAssumption
  <2> QED
    BY <2>1, <2>2, FS_EmptySet DEF QuotaInv
<1>2. IndInv /\ QuotaInv => QuotaOvershoot
  <2> SUFFICES ASSUME IndInv, QuotaInv PROVE QuotaOvershoot
    OBVIOUS
  <2>1. Cardinality(Spent) \in Nat /\ Cardinality(OnTheWay) \in Nat
    BY Countable DEF IndInv
  <2>2. Cardinality(Proc) \in Nat /\ MaxDaily \in Nat
    BY ProcIsFinite, FS_CardinalityType, ConstantsAssumption
  <2>3. Cardinality(Spent) <= MaxDaily + Cardinality(Proc) - 1
    BY <2>1, <2>2 DEF QuotaInv
  <2> QED
    BY <2>3 DEF QuotaOvershoot, Spent
<1> QED
  BY <1>1, <1>2, Inductive, QuotaStep, PTL DEF Spec
=============================================================================
