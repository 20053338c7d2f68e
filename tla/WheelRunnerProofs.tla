-------------------------- MODULE WheelRunnerProofs --------------------------
(***************************************************************************)
(* The wheel runner: the books of the audit queue, for any watchlist, any  *)
(* number of workers, any depth of the queue and any faults; the recorder  *)
(* of the snapshots, for any passes, batches and depth; and, of the market *)
(* data of a pass, whose the positions are, how old the greeks may be, and *)
(* that the chain was searched as far as it has to be.                     *)
(*                                                                         *)
(* The queue.  An audit is in one of three places: a place of the queue,   *)
(* the hands of a worker, or the pass that marked its symbol and has yet   *)
(* to send it.  A symbol is marked while it has an audit in one of them,   *)
(* and the mark is what keeps a second audit of it out, so all audits on   *)
(* their way are of different symbols: removing the mark at the end of one *)
(* cannot lose the mark of another, and the verdict of a row comes from    *)
(* the one worker that will ever hold it.                                  *)
(***************************************************************************)
EXTENDS ReviewQueue, LivePass, SnapshotRecorder, FiniteSetTheorems, FunctionTheorems,
        SequenceTheorems, WellFoundedInduction, TLAPS

Place    == 1 .. Len(reviewCh)
Held(w)  == pc[w] \in Busy
Marking  == pass \in {"send", "drop"}
Appended == {"commit", "enqueue", "send", "drop", "dropClear"}
Unsent   == {"commit", "enqueue", "send"}

\* The audits on their way are of different symbols.
Exclusive ==
    /\ \A k, l \in Place : SymOf(reviewCh[k]) = SymOf(reviewCh[l]) => k = l
    /\ \A k \in Place, w \in Worker : Held(w) => SymOf(reviewCh[k]) # SymOf(task[w])
    /\ \A v, w \in Worker : Held(v) /\ Held(w) /\ SymOf(task[v]) = SymOf(task[w]) => v = w
    /\ Marking => /\ \A k \in Place : SymOf(reviewCh[k]) # decision.symbol
                  /\ \A w \in Worker : Held(w) => SymOf(task[w]) # decision.symbol

\* A symbol is marked while an audit of it is on its way, and only then.
Marked ==
    \A y \in Symbol : y \in inflight <=>
        \/ \E k \in Place : SymOf(reviewCh[k]) = y
        \/ \E w \in Worker : Held(w) /\ SymOf(task[w]) = y
        \/ Marking /\ decision.symbol = y

\* The row the pass is about is the newest, and until it is sent nobody has it.
PassKnows ==
    /\ pass = "append" => newest < MaxSignals
    /\ pass \in Appended => newest > 0 /\ alerts[newest] = decision
    /\ pass \in Unsent => /\ \A k \in Place : reviewCh[k] # newest
                          /\ \A w \in Worker : task[w] # newest

\* Nothing is recorded of a row before a worker has it, and an idle worker has none.
Untouched ==
    /\ \A i \in Id : i > newest => acts[i] = {}
    /\ pass \in Unsent => acts[newest] = {}
    /\ \A w \in Worker : ~Held(w) => task[w] = None

\* Nothing is sent on a closed queue, and workers leave an empty one.
Closed ==
    /\ closed => cancelled /\ pass \in {"next", "returned"}
    /\ \A w \in Worker : pc[w] = "exited" => closed /\ reviewCh = <<>>
    /\ pass = "returned" => closed /\ \A w \in Worker : pc[w] = "exited"

IndInv ==
    /\ TypeOK
    /\ Exclusive
    /\ Marked
    /\ PassKnows
    /\ Untouched
    /\ VerdictEndsAudit
    /\ Closed

-----------------------------------------------------------------------------

\* A row appended at the end leaves the earlier ones where they are.
LEMMA AppendFacts ==
    ASSUME NEW S, NEW s \in Seq(S), NEW e \in S
    PROVE  /\ Append(s, e) \in Seq(S)
           /\ Len(Append(s, e)) = Len(s) + 1
           /\ \A k \in 1 .. Len(s) : Append(s, e)[k] = s[k]
           /\ Append(s, e)[Len(s) + 1] = e
BY AppendProperties, LenProperties

\* Taking the head moves every other element one place forward.
LEMMA TakeFacts ==
    ASSUME NEW S, NEW s \in Seq(S), s # <<>>
    PROVE  /\ Head(s) = s[1] /\ Head(s) \in S
           /\ Tail(s) \in Seq(S)
           /\ Len(s) \in Nat \ {0} /\ Len(Tail(s)) = Len(s) - 1
           /\ \A k \in 1 .. Len(Tail(s)) : k + 1 \in 1 .. Len(s) /\ Tail(s)[k] = s[k + 1]
<1>1. Len(s) \in Nat \ {0} /\ Len(Tail(s)) = Len(s) - 1 /\ Tail(s) \in Seq(S)
      /\ \A k \in 1 .. Len(Tail(s)) : Tail(s)[k] = s[k + 1]
  BY HeadTailProperties, LenProperties, EmptySeq
<1>2. Head(s) = s[1] /\ Head(s) \in S
  BY <1>1, ElementOfSeq
<1> QED
  BY <1>1, <1>2

\* The rows are numbered from 1, every place of the queue and every busy worker holds
\* one of them, and None is no row.
LEMMA RowFacts ==
    ASSUME TypeOK
    PROVE  /\ newest \in Nat /\ Rows = 1 .. newest /\ Rows \subseteq Id /\ None \notin Rows
           /\ \A i \in Rows : alerts[i] \in Decision /\ SymOf(i) \in Symbol
           /\ Len(reviewCh) \in Nat /\ DOMAIN reviewCh = Place
           /\ \A k \in Place : reviewCh[k] \in Rows
           /\ \A w \in Worker : Held(w) => task[w] \in Rows
<1>1. newest \in Nat /\ Rows = 1 .. newest /\ \A i \in Rows : alerts[i] \in Decision
  BY LenProperties, ElementOfSeq DEF TypeOK, newest, Rows
<1>2. Rows \subseteq Id /\ None \notin Rows
  BY <1>1, ConstantsAssumption DEF TypeOK, Id
<1>3. \A i \in Rows : SymOf(i) \in Symbol
  BY <1>1 DEF SymOf, Decision
<1>4. /\ Len(reviewCh) \in Nat /\ DOMAIN reviewCh = Place
      /\ \A k \in Place : reviewCh[k] \in Rows
  BY LenProperties, ElementOfSeq DEF TypeOK, Place
<1>5. \A w \in Worker : Held(w) => task[w] \in Rows
  BY DEF TypeOK, Held
<1> QED
  BY <1>1, <1>2, <1>3, <1>4, <1>5

LEMMA DecisionFacts == \A d \in Decision : d.symbol \in Symbol
BY DEF Decision

\* TypeOK is preserved.
LEMMA TypeStep == IndInv /\ [Next]_vars => TypeOK'
<1> SUFFICES ASSUME IndInv, [Next]_vars PROVE TypeOK'
  OBVIOUS
<1>0. TypeOK
  BY DEF IndInv
<1> USE <1>0, RowFacts, ConstantsAssumption DEF TypeOK, newest, Rows, Busy, Verdict, store, world,
        passing, workers
<1>1. ASSUME NEW d \in Decision, RunSymbol(d) PROVE TypeOK'
  BY <1>1 DEF RunSymbol
<1>2. ASSUME AppendSignal PROVE TypeOK'
  <2>1. CASE UNCHANGED alerts
    BY <1>2, <2>1 DEF AppendSignal, EndTurn
  <2>2. CASE alerts' = Append(alerts, decision) /\ pass' = "commit"
    <3>1. decision \in Decision /\ newest < MaxSignals
      BY <1>2 DEF AppendSignal, IndInv, PassKnows
    <3>2. alerts' \in Seq(Decision) /\ newest' = newest + 1
      BY <2>2, <3>1, AppendFacts
    <3>3. Rows \subseteq Rows'
      BY <3>2, LenProperties
    <3>4. reviewCh \in Seq(Rows') /\ task \in [Worker -> Rows' \cup {None}]
      BY <3>3
    <3>5. lastAlert \in [Symbol -> {None} \cup [at : Rows', closeAt : Rows' \cup {None}]]
      BY <3>3
    <3> QED
      BY <1>2, <2>2, <3>1, <3>2, <3>4, <3>5 DEF AppendSignal
  <2> QED
    BY <1>2, <2>1, <2>2 DEF AppendSignal
<1>3. ASSUME CommitAlertBaseline PROVE TypeOK'
  <2>1. newest \in Rows
    BY <1>3 DEF CommitAlertBaseline, IndInv, PassKnows, Appended
  <2>2. decision.symbol \in Symbol
    BY <1>3, DecisionFacts DEF CommitAlertBaseline
  <2>4. PICK c \in Rows \cup {None} :
          lastAlert' = [lastAlert EXCEPT ![decision.symbol] = [at |-> newest, closeAt |-> c]]
    BY <1>3, <2>1, <2>2 DEF CommitAlertBaseline
  <2>3. lastAlert' \in [Symbol -> {None} \cup [at : Rows, closeAt : Rows \cup {None}]]
    BY <2>1, <2>4
  <2> QED
    BY <1>3, <2>3 DEF CommitAlertBaseline
<1>4. ASSUME MarkInflight PROVE TypeOK'
  <2>1. decision \in Decision /\ decision.symbol \in Symbol
    BY <1>4, DecisionFacts DEF MarkInflight
  <2>2. inflight' \subseteq Symbol
    BY <1>4, <2>1 DEF MarkInflight
  <2> QED
    BY <1>4, <2>1, <2>2 DEF MarkInflight, EndTurn
<1>5. ASSUME SendReview PROVE TypeOK'
  <2>1. newest \in Rows
    BY <1>5 DEF SendReview, IndInv, PassKnows, Appended
  <2>2. reviewCh' \in Seq(Rows) /\ Len(reviewCh') <= QueueDepth
    <3>1. CASE UNCHANGED reviewCh
      BY <3>1
    <3>2. CASE Len(reviewCh) < QueueDepth /\ reviewCh' = Append(reviewCh, newest)
      <4>1. reviewCh' \in Seq(Rows) /\ Len(reviewCh') = Len(reviewCh) + 1
        BY <2>1, <3>2, AppendFacts
      <4> QED
        BY <3>2, <4>1
    <3> QED
      BY <1>5, <3>1, <3>2 DEF SendReview
  <2> QED
    BY <1>5, <2>2 DEF SendReview, EndTurn
<1>6. ASSUME DropReview PROVE TypeOK'
  BY <1>6 DEF DropReview
<1>7. ASSUME DropClears PROVE TypeOK'
  BY <1>7 DEF DropClears, EndTurn
<1>8. ASSUME CloseQueue \/ CloseReturns PROVE TypeOK'
  BY <1>8 DEF CloseQueue, CloseReturns
<1>9. ASSUME NEW w \in Worker, TakeTask(w) PROVE TypeOK'
  <2>1. /\ reviewCh' \in Seq(Rows) /\ Len(reviewCh') <= QueueDepth
        /\ Head(reviewCh) \in Rows
    BY <1>9, TakeFacts DEF TakeTask
  <2> QED
    BY <1>9, <2>1 DEF TakeTask
<1>10. ASSUME NEW w \in Worker, ReviewAlert(w) \/ ReviewAgain(w) PROVE TypeOK'
  <2>1. PICK d \in Verdict \cup {"LLM_REVIEW_FAILED"} : Gate(w, d)
    BY <1>10 DEF ReviewAlert, ReviewAgain
  <2>2. acts' \in [Id -> SUBSET (Verdict \cup {"LLM_REVIEW_FAILED"})]
    <3>1. acts' = acts \/ acts' = [acts EXCEPT ![task[w]] = @ \cup {d}]
      BY <2>1 DEF Gate
    <3> QED
      BY <3>1
  <2>3. pc' \in [Worker -> {"idle", "exited"} \cup Busy] /\ \A v \in Worker : pc'[v] \in Busy => pc[v] \in Busy
    BY <1>10 DEF ReviewAlert, ReviewAgain
  <2> QED
    BY <1>10, <2>2, <2>3 DEF ReviewAlert, ReviewAgain
<1>11. ASSUME NEW w \in Worker, Pause(w) \/ Panic(w) \/ ClearSuppression(w) PROVE TypeOK'
  <2>1. CASE Pause(w)
    BY <2>1 DEF Pause
  <2>2. CASE Panic(w)
    BY <2>2 DEF Panic
  <2>3. CASE ClearSuppression(w)
    BY <2>3 DEF ClearSuppression
  <2> QED
    BY <1>11, <2>1, <2>2, <2>3
<1>12. ASSUME NEW w \in Worker, ReleaseSymbol(w) \/ WorkerExits(w) PROVE TypeOK'
  <2>1. CASE ReleaseSymbol(w)
    BY <2>1 DEF ReleaseSymbol
  <2>2. CASE WorkerExits(w)
    BY <2>2 DEF WorkerExits
  <2> QED
    BY <1>12, <2>1, <2>2
<1>13. ASSUME NEW i \in Id, WindowExpires(i) PROVE TypeOK'
  <2>1. age[i] \in 0 .. 2 /\ age[i] < 2
    BY <1>13 DEF WindowExpires
  <2>2. age' \in [Id -> 0 .. 2]
    BY <1>13, <2>1 DEF WindowExpires
  <2> QED
    BY <1>13, <2>2 DEF WindowExpires
<1>14. CASE Cancel \/ UNCHANGED vars
  BY <1>14 DEF Cancel, vars
<1> QED
  BY <1>1, <1>2, <1>3, <1>4, <1>5, <1>6, <1>7, <1>8, <1>9, <1>10, <1>11, <1>12, <1>13, <1>14
     DEF Next, PassStep, WorkerStep

\* Rows keep their number and their symbol.
LEMMA RowsKept ==
    ASSUME IndInv, [Next]_vars
    PROVE  \A i \in Rows : i \in Rows' /\ SymOf(i)' = SymOf(i)
<1>0. TypeOK
  BY DEF IndInv
<1>1. CASE UNCHANGED alerts
  BY <1>1 DEF Rows, SymOf
<1>2. CASE AppendSignal /\ alerts' = Append(alerts, decision)
  <2>1. decision \in Decision
    BY <1>0, <1>2 DEF AppendSignal, TypeOK
  <2>2. newest' = newest + 1 /\ alerts' \in Seq(Decision) /\ \A i \in 1 .. newest : alerts'[i] = alerts[i]
    BY <1>0, <1>2, <2>1, AppendFacts DEF TypeOK, newest
  <2>3. Rows' = 1 .. newest'
    BY <2>2, LenProperties DEF Rows, newest
  <2> QED
    BY <1>0, <2>2, <2>3, RowFacts DEF SymOf
<1>3. AppendSignal => UNCHANGED alerts \/ alerts' = Append(alerts, decision)
  BY DEF AppendSignal
<1>4. [Next]_vars => AppendSignal \/ UNCHANGED alerts
  BY DEF Next, PassStep, WorkerStep, RunSymbol, CommitAlertBaseline, MarkInflight, SendReview, DropReview,
     DropClears, CloseQueue, CloseReturns, TakeTask, ReviewAlert, Pause, ReviewAgain, Panic,
     ClearSuppression, ReleaseSymbol, WorkerExits, WindowExpires, Cancel, vars, store
<1> QED
  BY <1>1, <1>2, <1>3, <1>4

\* A step that moves no audit and marks no symbol keeps the books.
LEMMA BooksKept ==
    ASSUME IndInv, [Next]_vars,
           reviewCh' = reviewCh, inflight' = inflight, task' = task,
           \A w \in Worker : Held(w)' <=> Held(w),
           Marking' <=> Marking, Marking => decision' = decision
    PROVE  Exclusive' /\ Marked'
<1> USE RowsKept, RowFacts DEF IndInv, Place
<1>1. Exclusive'
  BY DEF Exclusive
<1>2. Marked'
  BY DEF Marked
<1> QED
  BY <1>1, <1>2

\* The pass: what it knows of its row, and the books it alone keeps.
LEMMA PassKeepsBooks ==
    ASSUME IndInv, [Next]_vars,
           (\E d \in Decision : RunSymbol(d)) \/ PassStep
    PROVE  Exclusive' /\ Marked'
<1> USE DEF IndInv
<1>0. UNCHANGED <<pc, task>> /\ \A w \in Worker : Held(w)' <=> Held(w)
  BY DEF RunSymbol, PassStep, AppendSignal, CommitAlertBaseline, MarkInflight, SendReview, DropReview,
     DropClears, CloseQueue, CloseReturns, workers, Held
<1>1. CASE MarkInflight
  <2>1. CASE decision.symbol \in inflight
    BY <1>0, <1>1, <2>1, BooksKept DEF MarkInflight, EndTurn, Marking
  <2>2. CASE decision.symbol \notin inflight
    <3>1. /\ pass' = "send" /\ inflight' = inflight \cup {decision.symbol}
          /\ decision' = decision /\ reviewCh' = reviewCh /\ alerts' = alerts /\ ~Marking
      BY <1>1, <2>2 DEF MarkInflight, store, Marking
    <3>2. decision.symbol \in Symbol
      BY <1>1, DecisionFacts DEF MarkInflight, TypeOK
    <3>3. Exclusive'
      BY <1>0, <2>2, <3>1, <3>2, RowFacts, RowsKept DEF Exclusive, Marked, Marking, Place
    <3>4. Marked'
      BY <1>0, <3>1, <3>2, RowFacts, RowsKept DEF Marked, Marking, Place
    <3> QED
      BY <3>3, <3>4
  <2> QED
    BY <2>1, <2>2
<1>2. CASE SendReview
  <2>1. CASE UNCHANGED reviewCh
    BY <1>0, <1>2, <2>1, BooksKept DEF SendReview, EndTurn, Marking, Place
  <2>2. CASE reviewCh' = Append(reviewCh, newest) /\ EndTurn
    <3>1. /\ newest \in Rows /\ SymOf(newest) = decision.symbol
          /\ inflight' = inflight /\ Marking /\ ~Marking'
      BY <1>2, <2>2, RowFacts DEF SendReview, EndTurn, PassKnows, Appended, Marking, SymOf
    <3>2. /\ Len(reviewCh') = Len(reviewCh) + 1
          /\ \A k \in Place : reviewCh'[k] = reviewCh[k]
          /\ reviewCh'[Len(reviewCh) + 1] = newest
      BY <2>2, <3>1, AppendFacts DEF TypeOK, Place
    <3>3. Place' = Place \cup {Len(reviewCh) + 1}
      BY <3>2, RowFacts DEF Place
    <3>4. \A k \in Place : (SymOf(reviewCh[k]))' = SymOf(reviewCh[k]) /\ SymOf(reviewCh[k]) # decision.symbol
      BY <3>1, <3>2, RowFacts, RowsKept DEF Exclusive
    <3>5. \A k \in Place' : k = Len(reviewCh) + 1 => (SymOf(reviewCh[k]))' = decision.symbol
      BY <3>1, <3>2, RowsKept
    <3>6. \A w \in Worker : Held(w) =>
              (SymOf(task[w]))' = SymOf(task[w]) /\ SymOf(task[w]) # decision.symbol
      BY <1>0, <3>1, RowFacts, RowsKept DEF Exclusive
    <3>7. Exclusive'
      BY <1>0, <3>1, <3>3, <3>4, <3>5, <3>6 DEF Exclusive
    <3>8. Marked'
      BY <1>0, <3>1, <3>3, <3>4, <3>5, <3>6 DEF Marked
    <3> QED
      BY <3>7, <3>8
  <2> QED
    BY <1>2, <2>1, <2>2 DEF SendReview
<1>3. CASE DropReview
  <2>1. /\ Marking /\ ~Marking' /\ inflight' = inflight \ {decision.symbol} /\ reviewCh' = reviewCh
        /\ Place' = Place
    BY <1>3 DEF DropReview, Marking, Place
  <2>2. Exclusive'
    BY <1>0, <2>1, RowFacts, RowsKept DEF Exclusive
  <2>3. Marked'
    BY <1>0, <2>1, RowFacts, RowsKept DEF Exclusive, Marked
  <2> QED
    BY <2>2, <2>3
<1>4. CASE (\E d \in Decision : RunSymbol(d)) \/ AppendSignal \/ CommitAlertBaseline
           \/ DropClears \/ CloseQueue \/ CloseReturns
  <2>1. /\ UNCHANGED <<reviewCh, inflight, task>>
        /\ ~Marking /\ ~Marking'
    BY <1>4 DEF RunSymbol, AppendSignal, CommitAlertBaseline, DropClears, CloseQueue, CloseReturns,
       EndTurn, workers, passing, Marking
  <2> QED
    BY <1>0, <2>1, BooksKept
<1> QED
  BY <1>1, <1>2, <1>3, <1>4 DEF PassStep

\* A worker takes an audit from the queue's head and gives its mark back at the end.
LEMMA WorkerKeepsBooks ==
    ASSUME IndInv, [Next]_vars, NEW w \in Worker, WorkerStep(w)
    PROVE  Exclusive' /\ Marked'
<1> USE DEF IndInv
<1>1. CASE TakeTask(w)
  <2>1. /\ ~Held(w) /\ Held(w)'
        /\ \A v \in Worker \ {w} : (Held(v)' <=> Held(v)) /\ task'[v] = task[v]
        /\ task'[w] = reviewCh[1]
        /\ UNCHANGED <<inflight, pass, decision>>
    BY <1>1, TakeFacts DEF TakeTask, Held, Busy, TypeOK, passing
  <2>2. 1 \in Place /\ \A k \in Place' : k + 1 \in Place /\ reviewCh'[k] = reviewCh[k + 1]
    BY <1>1, TakeFacts DEF TakeTask, TypeOK, Place
  <2>3. \A k \in Place : k = 1 \/ (k - 1 \in Place' /\ reviewCh'[k - 1] = reviewCh[k])
    BY <1>1, <2>2, TakeFacts DEF TakeTask, TypeOK, Place
  <2>4. \A k \in Place' : (SymOf(reviewCh[k]))' = SymOf(reviewCh[k + 1])
    BY <2>2, RowFacts, RowsKept
  <2>5. (SymOf(task[w]))' = SymOf(reviewCh[1])
    BY <2>1, <2>2, RowFacts, RowsKept
  <2>6. \A v \in Worker \ {w} : Held(v) => (SymOf(task[v]))' = SymOf(task[v])
    BY <2>1, RowFacts, RowsKept
  <2>7. \A k \in Place' : k \in Nat /\ k + 1 # 1
    BY DEF Place
  <2>8. Exclusive'
    <3>1. \A k, l \in Place' : (SymOf(reviewCh[k]))' = (SymOf(reviewCh[l]))' => k = l
      BY <2>2, <2>4, <2>7 DEF Exclusive
    <3>2. \A k \in Place', v \in Worker : Held(v)' => (SymOf(reviewCh[k]))' # (SymOf(task[v]))'
      BY <2>1, <2>2, <2>4, <2>5, <2>6, <2>7 DEF Exclusive
    <3>3. \A u, v \in Worker : Held(u)' /\ Held(v)' /\ (SymOf(task[u]))' = (SymOf(task[v]))' => u = v
      BY <2>1, <2>2, <2>5, <2>6 DEF Exclusive
    <3>4. Marking' => /\ \A k \in Place' : (SymOf(reviewCh[k]))' # decision'.symbol
                      /\ \A v \in Worker : Held(v)' => (SymOf(task[v]))' # decision'.symbol
      BY <2>1, <2>2, <2>4, <2>5, <2>6 DEF Exclusive, Marking
    <3> QED
      BY <3>1, <3>2, <3>3, <3>4 DEF Exclusive
  <2>9. Marked'
    <3> SUFFICES ASSUME NEW y \in Symbol
                 PROVE  y \in inflight <=>
                            \/ \E k \in Place' : (SymOf(reviewCh[k]))' = y
                            \/ \E v \in Worker : Held(v)' /\ (SymOf(task[v]))' = y
                            \/ Marking' /\ decision'.symbol = y
      BY <2>1 DEF Marked
    <3>1. (\E k \in Place : SymOf(reviewCh[k]) = y)
             <=> SymOf(reviewCh[1]) = y \/ \E k \in Place' : (SymOf(reviewCh[k]))' = y
      <4>1. ASSUME NEW k \in Place, SymOf(reviewCh[k]) = y, k # 1
            PROVE  \E l \in Place' : (SymOf(reviewCh[l]))' = y
        <5>1. k - 1 \in Place' /\ k - 1 + 1 = k
          BY <2>3, <4>1 DEF Place
        <5> QED
          BY <2>4, <4>1, <5>1
      <4> QED
        BY <2>2, <2>4, <4>1
    <3>2. (\E v \in Worker : Held(v)' /\ (SymOf(task[v]))' = y)
             <=> SymOf(reviewCh[1]) = y \/ \E v \in Worker : Held(v) /\ SymOf(task[v]) = y
      BY <2>1, <2>5, <2>6
    <3> QED
      BY <2>1, <3>1, <3>2 DEF Marked, Marking
  <2> QED
    BY <2>8, <2>9
<1>2. CASE ReleaseSymbol(w)
  <2>1. /\ Held(w) /\ ~Held(w)'
        /\ \A v \in Worker \ {w} : (Held(v)' <=> Held(v)) /\ task'[v] = task[v]
        /\ inflight' = inflight \ {SymOf(task[w])}
        /\ UNCHANGED <<reviewCh, pass, decision>> /\ Place' = Place
    BY <1>2 DEF ReleaseSymbol, Held, Busy, TypeOK, passing, Place
  <2>2. \A v \in Worker \ {w} : Held(v) => (SymOf(task[v]))' = SymOf(task[v])
    BY <2>1, RowFacts, RowsKept
  <2>3. \A k \in Place : (SymOf(reviewCh[k]))' = SymOf(reviewCh[k])
    BY <2>1, RowFacts, RowsKept
  <2>4. Exclusive'
    BY <2>1, <2>2, <2>3 DEF Exclusive, Marking
  <2>5. Marked'
    BY <2>1, <2>2, <2>3 DEF Exclusive, Marked, Marking
  <2> QED
    BY <2>4, <2>5
<1>3. CASE ReviewAlert(w) \/ Pause(w) \/ ReviewAgain(w) \/ Panic(w) \/ ClearSuppression(w)
           \/ WorkerExits(w)
  <2>1. UNCHANGED <<reviewCh, inflight, task, pass, decision>>
    BY <1>3 DEF ReviewAlert, Pause, ReviewAgain, Panic, ClearSuppression, WorkerExits, passing
  <2>2. \A v \in Worker : Held(v)' <=> Held(v)
    BY <1>3 DEF ReviewAlert, Pause, ReviewAgain, Panic, ClearSuppression, WorkerExits, Held, Busy, TypeOK
  <2> QED
    BY <2>1, <2>2, BooksKept DEF Marking
<1> QED
  BY <1>1, <1>2, <1>3 DEF WorkerStep

\* Every step keeps the books.
LEMMA BooksStep == IndInv /\ [Next]_vars => Exclusive' /\ Marked'
<1> SUFFICES ASSUME IndInv, [Next]_vars PROVE Exclusive' /\ Marked'
  OBVIOUS
<1>1. CASE (\E i \in Id : WindowExpires(i)) \/ Cancel \/ UNCHANGED vars
  <2>1. UNCHANGED <<reviewCh, inflight, task, pc, pass, decision>>
    BY <1>1 DEF WindowExpires, Cancel, vars, passing, workers
  <2> QED
    BY <2>1, BooksKept DEF Held, Marking
<1> QED
  BY <1>1, PassKeepsBooks, WorkerKeepsBooks DEF Next

\* What the invariant says of rows and records.
Records == PassKnows /\ Untouched /\ VerdictEndsAudit

\* The pass knows its row, and hands over rows nothing is recorded of.
LEMMA PassKeepsRecords ==
    ASSUME IndInv, [Next]_vars, (\E d \in Decision : RunSymbol(d)) \/ PassStep
    PROVE  Records'
<1> USE RowFacts DEF IndInv
<1>0. UNCHANGED <<pc, task, acts>> /\ \A w \in Worker : Held(w)' <=> Held(w)
  BY DEF RunSymbol, PassStep, AppendSignal, CommitAlertBaseline, MarkInflight, SendReview, DropReview,
     DropClears, CloseQueue, CloseReturns, workers, store, Held
<1>1. CASE AppendSignal /\ alerts' = Append(alerts, decision)
  <2>1. decision \in Decision /\ newest < MaxSignals
    BY <1>1 DEF AppendSignal, TypeOK, PassKnows
  <2>2. newest' = newest + 1 /\ alerts' \in Seq(Decision) /\ alerts'[newest + 1] = decision
    BY <1>1, <2>1, AppendFacts DEF TypeOK, newest
  <2>3. Rows' = Rows \cup {newest'} /\ newest' \notin Rows /\ newest' \in Id /\ newest' > newest
    BY <2>1, <2>2, LenProperties, ConstantsAssumption DEF Rows, newest, Id
  <2>4. UNCHANGED <<reviewCh, Place, Queued>> /\ (pass' \in Appended => decision' = decision)
        /\ pass' # "append"
    BY <1>1 DEF AppendSignal, Place, Queued, EndTurn, Appended
  <2>5. \A w \in Worker : task[w] # newest'
    BY <2>2, <2>3, ConstantsAssumption DEF TypeOK, Id
  <2>6. \A k \in Place : reviewCh[k] # newest'
    BY <2>3
  <2>7. PassKnows'
    BY <1>0, <2>2, <2>4, <2>5, <2>6 DEF PassKnows
  <2>8. Untouched'
    BY <1>0, <2>2, <2>3 DEF Untouched, Id
  <2>9. VerdictEndsAudit'
    BY <1>0, <2>3, <2>4 DEF VerdictEndsAudit, Untouched
  <2> QED
    BY <2>7, <2>8, <2>9 DEF Records
<1>2. CASE UNCHANGED <<alerts, reviewCh>>
  <2>1. UNCHANGED <<newest, Rows, Place, Queued>>
    BY <1>2 DEF newest, Rows, Place, Queued
  <2>2. /\ pass' = "append" => newest < MaxSignals
        /\ pass' \in Appended => pass \in Appended /\ decision' = decision
        /\ pass' \in Unsent => pass \in Unsent
    BY <1>2 DEF RunSymbol, PassStep, AppendSignal, CommitAlertBaseline, MarkInflight, SendReview,
       DropReview, DropClears, CloseQueue, CloseReturns, EndTurn, passing, Appended, Unsent,
       AppendFacts, TypeOK, newest
  <2>3. PassKnows'
    BY <1>0, <1>2, <2>1, <2>2 DEF PassKnows
  <2>4. Untouched' /\ VerdictEndsAudit'
    BY <1>0, <1>2, <2>1, <2>2 DEF Untouched, VerdictEndsAudit
  <2> QED
    BY <2>3, <2>4 DEF Records
<1>3. CASE SendReview /\ reviewCh' = Append(reviewCh, newest) /\ EndTurn
  <2>1. UNCHANGED <<alerts, newest, Rows>> /\ pass' = "next"
    BY <1>3 DEF SendReview, EndTurn, store, newest, Rows
  <2>2. newest \in Rows /\ acts[newest] = {}
    BY <1>3 DEF SendReview, PassKnows, Untouched, Appended, Unsent
  <2>3. reviewCh' \in Seq(Rows) /\ Len(reviewCh') = Len(reviewCh) + 1
        /\ (\A k \in Place : reviewCh'[k] = reviewCh[k]) /\ reviewCh'[Len(reviewCh) + 1] = newest
    BY <1>3, <2>2, AppendFacts DEF TypeOK, Place
  <2>4. DOMAIN reviewCh' = Place \cup {Len(reviewCh) + 1}
    BY <2>3, LenProperties DEF Place
  <2>5. Queued' = Queued \cup {newest}
    BY <2>3, <2>4 DEF Queued
  <2>6. PassKnows' /\ Untouched'
    BY <1>0, <2>1 DEF PassKnows, Untouched, Appended, Unsent
  <2>7. VerdictEndsAudit'
    BY <1>0, <2>1, <2>2, <2>5 DEF VerdictEndsAudit
  <2> QED
    BY <2>6, <2>7 DEF Records
<1>4. \/ AppendSignal /\ alerts' = Append(alerts, decision)
      \/ UNCHANGED <<alerts, reviewCh>>
      \/ SendReview /\ reviewCh' = Append(reviewCh, newest) /\ EndTurn
  BY DEF RunSymbol, PassStep, AppendSignal, CommitAlertBaseline, MarkInflight, SendReview, DropReview,
     DropClears, CloseQueue, CloseReturns, store
<1> QED
  BY <1>1, <1>2, <1>3, <1>4

\* One call of RecordLLMGate, by the only worker that has the row.
LEMMA GateKeepsRecords ==
    ASSUME IndInv, NEW w \in Worker, NEW d \in Verdict \cup {"LLM_REVIEW_FAILED"}, Gate(w, d),
           pc[w] \in {"gate", "again"}, pc'[w] \in Busy, d \in Verdict => pc'[w] = "release",
           \A v \in Worker \ {w} : pc'[v] = pc[v],
           UNCHANGED <<alerts, reviewCh, pass, decision, task>>
    PROVE  Records'
<1> USE RowFacts DEF IndInv
<1>1. UNCHANGED <<newest, Rows, Place, Queued>>
  BY DEF newest, Rows, Place, Queued
<1>2. Held(w) /\ task[w] \in Rows
  BY DEF Held, Busy
<1>3. \A i \in Id : i # task[w] => acts'[i] = acts[i]
  BY DEF Gate, TypeOK
<1>4. acts'[task[w]] \cap Verdict # {} => d \in Verdict \/ acts[task[w]] \cap Verdict # {}
  BY <1>2 DEF Gate, TypeOK
<1>5. PassKnows'
  BY <1>1 DEF PassKnows
<1>6. Untouched'
  BY <1>1, <1>2, <1>3 DEF Untouched, PassKnows, Held
<1>7. VerdictEndsAudit'
  <2> SUFFICES ASSUME NEW i \in Rows, acts'[i] \cap Verdict # {}
               PROVE  i \notin Queued /\ \A v \in Worker : task[v] = i => pc'[v] = "release"
    BY <1>1 DEF VerdictEndsAudit
  <2>1. CASE i # task[w]
    BY <1>3, <2>1 DEF VerdictEndsAudit
  <2>2. CASE i = task[w]
    <3>1. pc'[w] = "release"
      BY <1>4, <2>2 DEF VerdictEndsAudit
    <3>2. \A v \in Worker : task[v] = i => v = w
      BY <1>2, <2>2 DEF Exclusive, Untouched
    <3>3. i \notin Queued
      BY <1>2, <2>2 DEF Exclusive, Queued
    <3> QED
      BY <3>1, <3>2, <3>3
  <2> QED
    BY <2>1, <2>2
<1> QED
  BY <1>5, <1>6, <1>7 DEF Records

\* The workers: a verdict is recorded by the one that holds the row, who then only
\* releases the symbol.
LEMMA WorkerKeepsRecords ==
    ASSUME IndInv, [Next]_vars, NEW w \in Worker, WorkerStep(w)
    PROVE  Records'
<1> USE RowFacts DEF IndInv
<1>0. UNCHANGED <<alerts, newest, Rows, pass, decision>>
  BY DEF WorkerStep, TakeTask, ReviewAlert, Pause, ReviewAgain, Panic, ClearSuppression,
     ReleaseSymbol, WorkerExits, store, passing, newest, Rows
<1>1. CASE TakeTask(w)
  <2>1. /\ \A v \in Worker \ {w} : pc'[v] = pc[v] /\ task'[v] = task[v]
        /\ pc'[w] = "gate" /\ task'[w] = reviewCh[1] /\ acts' = acts
    BY <1>1, TakeFacts DEF TakeTask, TypeOK, store
  <2>2. 1 \in Place /\ \A k \in Place' : k + 1 \in Place /\ reviewCh'[k] = reviewCh[k + 1]
    BY <1>1, TakeFacts DEF TakeTask, TypeOK, Place
  <2>3. DOMAIN reviewCh' = Place'
    BY <1>1, TakeFacts, LenProperties DEF TakeTask, TypeOK, Place
  <2>4. Queued' \subseteq Queued /\ reviewCh[1] \in Queued
    BY <2>2, <2>3 DEF Queued
  <2>5. PassKnows'
    BY <1>0, <2>1, <2>2 DEF PassKnows
  <2>6. Untouched'
    BY <1>0, <2>1 DEF Untouched, Held, Busy
  <2>7. VerdictEndsAudit'
    BY <1>0, <2>1, <2>4 DEF VerdictEndsAudit
  <2> QED
    BY <2>5, <2>6, <2>7 DEF Records
<1>2. CASE ReviewAlert(w) \/ ReviewAgain(w)
  <2>1. PICK d \in Verdict \cup {"LLM_REVIEW_FAILED"} :
          /\ Gate(w, d)
          /\ d \in Verdict => pc' = [pc EXCEPT ![w] = "release"]
          /\ pc' \in {[pc EXCEPT ![w] = "release"], [pc EXCEPT ![w] = "wait"], [pc EXCEPT ![w] = "clear"]}
    BY <1>2 DEF ReviewAlert, ReviewAgain, Verdict
  <2>2. /\ pc[w] \in {"gate", "again"} /\ pc'[w] \in Busy /\ (d \in Verdict => pc'[w] = "release")
        /\ \A v \in Worker \ {w} : pc'[v] = pc[v]
    BY <1>2, <2>1 DEF ReviewAlert, ReviewAgain, TypeOK, Busy
  <2>3. UNCHANGED <<alerts, reviewCh, pass, decision, task>>
    BY <1>2 DEF ReviewAlert, ReviewAgain, passing
  <2> QED
    BY <2>1, <2>2, <2>3, GateKeepsRecords
<1>3. CASE ReleaseSymbol(w)
  <2>1. /\ UNCHANGED <<acts, reviewCh, Place, Queued>>
        /\ \A v \in Worker \ {w} : pc'[v] = pc[v] /\ task'[v] = task[v]
        /\ task'[w] = None /\ pc'[w] = "idle"
    BY <1>3 DEF ReleaseSymbol, TypeOK, store, Place, Queued
  <2>2. newest # None
    BY ConstantsAssumption
  <2> QED
    BY <1>0, <2>1, <2>2 DEF Records, PassKnows, Untouched, VerdictEndsAudit, Held, Busy
<1>4. CASE Pause(w) \/ Panic(w) \/ ClearSuppression(w) \/ WorkerExits(w)
  <2>1. UNCHANGED <<acts, reviewCh, Place, Queued, task>>
    BY <1>4 DEF Pause, Panic, ClearSuppression, WorkerExits, store, Place, Queued
  <2>2. /\ pc[w] # "release" /\ (Held(w)' <=> Held(w))
        /\ \A v \in Worker \ {w} : pc'[v] = pc[v]
    BY <1>4 DEF Pause, Panic, ClearSuppression, WorkerExits, TypeOK, Held, Busy
  <2>3. PassKnows'
    BY <1>0, <2>1 DEF PassKnows
  <2>4. Untouched'
    BY <1>0, <2>1, <2>2 DEF Untouched, Held
  <2>5. VerdictEndsAudit'
    BY <1>0, <2>1, <2>2 DEF VerdictEndsAudit
  <2> QED
    BY <2>3, <2>4, <2>5 DEF Records
<1> QED
  BY <1>1, <1>2, <1>3, <1>4 DEF WorkerStep

\* A closed queue stays closed, and nobody sends on it.
LEMMA ClosedStep == IndInv /\ [Next]_vars => Closed'
<1> SUFFICES ASSUME IndInv, [Next]_vars PROVE Closed'
  OBVIOUS
<1> USE DEF IndInv, TypeOK, Closed, store, world, passing, workers
<1>1. CASE (\E d \in Decision : RunSymbol(d)) \/ PassStep
  BY <1>1 DEF RunSymbol, PassStep, AppendSignal, CommitAlertBaseline, MarkInflight, SendReview,
     DropReview, DropClears, CloseQueue, CloseReturns, EndTurn
<1>2. ASSUME NEW w \in Worker, WorkerStep(w) PROVE Closed'
  BY <1>2 DEF WorkerStep, TakeTask, ReviewAlert, Pause, ReviewAgain, Panic, ClearSuppression,
     ReleaseSymbol, WorkerExits, Busy
<1>3. CASE (\E i \in Id : WindowExpires(i)) \/ Cancel \/ UNCHANGED vars
  BY <1>3 DEF WindowExpires, Cancel, vars
<1> QED
  BY <1>1, <1>2, <1>3 DEF Next

-----------------------------------------------------------------------------
(* The theorems *)

\* The books of the queue are an invariant of the runner.
THEOREM Inductive == Spec => []IndInv
<1>1. Init => IndInv
  <2> SUFFICES ASSUME Init PROVE IndInv
    OBVIOUS
  <2> USE DEF Init
  <2>1. TypeOK
    <3>1. alerts \in Seq(Decision) /\ newest = 0 /\ reviewCh \in Seq(Rows) /\ Len(reviewCh) = 0
      BY EmptySeq DEF newest
    <3>2. 0 <= MaxSignals /\ 0 <= QueueDepth
      BY ConstantsAssumption
    <3>3. /\ acts \in [Id -> SUBSET (Verdict \cup {"LLM_REVIEW_FAILED"})]
          /\ age \in [Id -> 0 .. 2]
          /\ lastAlert \in [Symbol -> {None} \cup [at : Rows, closeAt : Rows \cup {None}]]
      OBVIOUS
    <3>4. /\ pc \in [Worker -> {"idle", "exited"} \cup Busy]
          /\ task \in [Worker -> Rows \cup {None}]
          /\ \A w \in Worker : pc[w] \notin Busy
      BY DEF Busy
    <3> QED
      BY <3>1, <3>2, <3>3, <3>4 DEF TypeOK
  <2>2. Place = {} /\ Queued = {} /\ newest = 0 /\ Rows = {}
    BY DEF Place, Queued, newest, Rows
  <2>3. Exclusive /\ Marked
    BY <2>2 DEF Exclusive, Marked, Marking, Held, Busy
  <2>4. PassKnows /\ Untouched /\ VerdictEndsAudit
    BY <2>2 DEF PassKnows, Untouched, VerdictEndsAudit, Appended, Unsent
  <2>5. Closed
    BY DEF Closed
  <2> QED
    BY <2>1, <2>3, <2>4, <2>5 DEF IndInv
<1>2. IndInv /\ [Next]_vars => IndInv'
  <2> SUFFICES ASSUME IndInv, [Next]_vars PROVE IndInv'
    OBVIOUS
  <2>1. TypeOK' /\ Exclusive' /\ Marked' /\ Closed'
    BY TypeStep, BooksStep, ClosedStep
  <2>2. Records'
    <3>1. CASE (\E i \in Id : WindowExpires(i)) \/ Cancel \/ UNCHANGED vars
      <4>1. UNCHANGED <<alerts, acts, reviewCh, task, pc, pass, decision>>
        BY <3>1 DEF WindowExpires, Cancel, vars, passing, workers, store
      <4> QED
        BY <4>1 DEF IndInv, Records, PassKnows, Untouched, VerdictEndsAudit, newest, Rows, Place,
           Queued, Held
    <3> QED
      BY <3>1, PassKeepsRecords, WorkerKeepsRecords DEF Next
  <2> QED
    BY <2>1, <2>2 DEF IndInv, Records
<1> QED
  BY <1>1, <1>2, PTL DEF Spec

\* A recorded verdict ends the audit of its row, whatever is retried, panics or is
\* dropped: reviewAlert never approves what it has rejected, nor the other way round.
THEOREM OneVerdict == Spec => []VerdictEndsAudit
<1>1. IndInv => VerdictEndsAudit
  BY DEF IndInv
<1> QED
  BY <1>1, Inductive, PTL

\* The queue holds no row twice.
LEMMA QueueIsSet == ASSUME IndInv PROVE Cardinality(Queued) = Len(reviewCh)
<1> USE RowFacts DEF IndInv
<1>1. \A k, l \in Place : reviewCh[k] = reviewCh[l] => k = l
  BY DEF Exclusive
<1>2. Queued = {reviewCh[k] : k \in Place}
  BY DEF Queued
<1> DEFINE place == [k \in Place |-> reviewCh[k]]
<1>3. place \in [Place -> Queued] /\ \A i \in Queued : \E k \in Place : place[k] = i
  BY <1>2
<1>4. \A k, l \in Place : place[k] = place[l] => k = l
  BY <1>1
<1>5. place \in Bijection(Place, Queued)
  BY <1>3, <1>4, Fun_IsBij
<1> QED
  BY <1>5, FS_CountingElements DEF ExistsBijection, Place

\* reviewInflight marks exactly the symbols with an audit on its way, of which there
\* is one each, and Close returns with the queue drained and no symbol marked.
THEOREM AuditsExact == Spec => []AuditsAreExact
<1>1. IndInv => InflightIsExact
  <2> SUFFICES ASSUME IndInv PROVE InflightIsExact
    OBVIOUS
  <2> USE RowFacts DEF IndInv
  <2>1. Queued = {reviewCh[k] : k \in Place} /\ Running = {task[w] : w \in {v \in Worker : Held(v)}}
    BY DEF Queued, Running, Held
  <2>2. \A y \in Symbol : y \in {SymOf(i) : i \in Queued \cup Running} <=>
            \/ \E k \in Place : SymOf(reviewCh[k]) = y
            \/ \E w \in Worker : Held(w) /\ SymOf(task[w]) = y
    BY <2>1
  <2>3. {SymOf(i) : i \in Queued \cup Running} \subseteq Symbol
    BY <2>1
  <2>4. inflight \subseteq Symbol /\ (Marking => decision.symbol \in Symbol)
    BY DecisionFacts DEF TypeOK, Marking
  <2>5. inflight = {SymOf(i) : i \in Queued \cup Running}
                   \cup (IF pass \in {"send", "drop"} THEN {decision.symbol} ELSE {})
    BY <2>2, <2>3, <2>4 DEF Marked, Marking
  <2>6. \A i, j \in Queued \cup Running : SymOf(i) = SymOf(j) => i = j
    BY <2>1 DEF Exclusive
  <2>7. \A v, w \in Worker : pc[v] \in Busy /\ pc[w] \in Busy /\ task[v] = task[w] => v = w
    BY DEF Exclusive, Held
  <2> QED
    BY <2>5, <2>6, <2>7, QueueIsSet DEF InflightIsExact
<1>2. IndInv => CloseDrains
  <2> SUFFICES ASSUME IndInv, pass = "returned" PROVE reviewCh = <<>> /\ inflight = {}
    BY DEF CloseDrains
  <2>1. reviewCh = <<>> /\ \A w \in Worker : ~Held(w)
    BY ConstantsAssumption DEF IndInv, Closed, Held, Busy
  <2>2. Place = {} /\ ~Marking
    BY <2>1 DEF Place, Marking
  <2> QED
    BY <2>1, <2>2 DEF IndInv, Marked, TypeOK
<1>3. IndInv => AuditsAreExact
  BY <1>1, <1>2 DEF IndInv, AuditsAreExact
<1> QED
  BY <1>3, Inductive, PTL
-----------------------------------------------------------------------------
(* The recorder of the snapshots *)

\* What stands in the table: a batch and a record of it.
TableRow == Nat \X Nat

\* A pass past the check of the flag is alone in the mutex, and close waits for it.
MutexGuards ==
    \A p \in Pass : srPc[p] = "checked" => srMu = {p} /\ ~srClosed /\ srNext <= MaxBatches

\* A batch that was accepted has been tried, is being written or is still buffered.
Accounted ==
    LET tried == Len(srTried)
        taken == tried + (IF srBatch = 0 THEN 0 ELSE 1)
    IN  /\ Len(srSent) = taken + Len(srQueue)
        /\ \A i \in 1 .. tried : srSent[i] = srTried[i]
        /\ srBatch # 0 => srSent[tried + 1] = srBatch
        /\ \A i \in 1 .. Len(srQueue) : srSent[taken + i] = srQueue[i]

\* Batches go through the channel in the order of their numbers, and so do their rows.
Ordered ==
    /\ \A i \in 1 .. Len(srQueue) :
          srQueue[i] \in 1 .. MaxBatches /\ srQueue[i] < srNext /\ srBatch < srQueue[i]
    /\ \A i, j \in 1 .. Len(srQueue) : i < j => srQueue[i] < srQueue[j]
    /\ srBatch < srNext
    /\ \A i \in 1 .. Len(srRows) :
          /\ srRows[i][1] < srNext
          /\ srBatch # 0 => srRows[i][1] <= srBatch
          /\ \A k \in 1 .. Len(srQueue) : srRows[i][1] <= srQueue[k]
    /\ \A i, j \in 1 .. Len(srRows) : i < j => srRows[i][1] <= srRows[j][1]

\* The worker leaves a closed and empty channel, and close returns after it.
LeftEmpty ==
    /\ srDone => srClosed /\ srQueue = <<>> /\ srBatch = 0
    /\ srCloser = "returned" => srDone

SrInv ==
    /\ SrTypeOK /\ ~srPanic
    /\ srQueue \in Seq(Nat) /\ srSent \in Seq(Nat) /\ srTried \in Seq(Nat)
    /\ srRows \in Seq(TableRow)
    /\ MutexGuards
    /\ Accounted
    /\ Ordered
    /\ LeftEmpty

\* Every step of a pass, of the worker and of close preserves the invariant.
LEMMA RecorderStep == SrInv /\ [SrNext]_srVars => SrInv'
<1> SUFFICES ASSUME SrInv, [SrNext]_srVars PROVE SrInv'
  OBVIOUS
<1>0. /\ SrTypeOK /\ ~srPanic /\ MutexGuards /\ Accounted /\ Ordered /\ LeftEmpty
      /\ srQueue \in Seq(Nat) /\ srSent \in Seq(Nat) /\ srTried \in Seq(Nat)
      /\ srRows \in Seq(TableRow)
  BY DEF SrInv
<1>a. PICK tried \in Nat, queued \in Nat, sent \in Nat, rows \in Nat, taken \in Nat :
           /\ tried = Len(srTried) /\ queued = Len(srQueue) /\ sent = Len(srSent)
           /\ rows = Len(srRows) /\ taken = tried + (IF srBatch = 0 THEN 0 ELSE 1)
  <2>1. Len(srTried) \in Nat /\ Len(srQueue) \in Nat /\ Len(srSent) \in Nat /\ Len(srRows) \in Nat
    BY <1>0, LenProperties
  <2>2. \A n \in Nat : n + (IF srBatch = 0 THEN 0 ELSE 1) \in Nat
    OBVIOUS
  <2> QED
    BY <2>1, <2>2
<1>taken. taken = IF srBatch = 0 THEN tried ELSE tried + 1
  BY <1>a
<1>b. /\ sent = taken + queued
      /\ \A i \in 1 .. tried : srSent[i] = srTried[i]
      /\ srBatch # 0 => srSent[tried + 1] = srBatch
      /\ \A i \in 1 .. queued : srSent[taken + i] = srQueue[i]
  BY <1>0, <1>a DEF Accounted
<1>c. /\ \A i \in 1 .. queued :
            srQueue[i] \in 1 .. MaxBatches /\ srQueue[i] < srNext /\ srBatch < srQueue[i]
      /\ \A i, j \in 1 .. queued : i < j => srQueue[i] < srQueue[j]
      /\ srBatch < srNext
      /\ \A i \in 1 .. rows :
            /\ srRows[i][1] < srNext
            /\ srBatch # 0 => srRows[i][1] <= srBatch
            /\ \A k \in 1 .. queued : srRows[i][1] <= srQueue[k]
      /\ \A i, j \in 1 .. rows : i < j => srRows[i][1] <= srRows[j][1]
  BY <1>0, <1>a DEF Ordered
<1>d. /\ srNext \in Nat /\ srBatch \in Nat /\ srRow \in Nat
      /\ \A i \in 1 .. rows : srRows[i][1] \in Nat /\ srRows[i][2] \in Nat
      /\ \A i \in 1 .. queued : srQueue[i] \in Nat
      /\ \A i \in 1 .. rows : srRows[i] \in TableRow
  <2>1. srNext \in Nat /\ srBatch \in Nat /\ srRow \in Nat
    BY <1>0, RecorderAssumption DEF SrTypeOK
  <2>2. \A i \in 1 .. rows : srRows[i] \in TableRow
    BY <1>0, <1>a, ElementOfSeq
  <2>3. \A i \in 1 .. queued : srQueue[i] \in Nat
    BY <1>0, <1>a, ElementOfSeq
  <2> QED
    BY <2>1, <2>2, <2>3 DEF TableRow
<1>1. ASSUME NEW p \in Pass, EnqueueChecks(p) PROVE SrInv'
  <2>1. /\ srPc[p] = "collect" /\ srNext <= MaxBatches /\ srMu = {} /\ ~srClosed
        /\ srMu' = {p} /\ srPc' = [srPc EXCEPT ![p] = "checked"]
        /\ UNCHANGED <<srClosed, srQueue, srSent, srNext, srWorker, srCloser, srPanic>>
    BY <1>1 DEF EnqueueChecks, SrGoto
  <2>2. MutexGuards'
    BY <1>0, <2>1 DEF MutexGuards, SrTypeOK
  <2>3. SrTypeOK'
    BY <1>0, <2>1 DEF SrTypeOK, srWorker
  <2>4. Accounted' /\ Ordered' /\ LeftEmpty'
    BY <1>0, <2>1 DEF Accounted, Ordered, LeftEmpty, srWorker
  <2> QED
    BY <1>0, <2>1, <2>2, <2>3, <2>4 DEF SrInv, srWorker
<1>2. ASSUME NEW p \in Pass, EnqueueSends(p) PROVE SrInv'
  <2>1. /\ srPc[p] = "checked" /\ ~srClosed /\ srMu = {p} /\ srNext <= MaxBatches
        /\ \A q \in Pass : srPc[q] = "checked" => q = p
    BY <1>0, <1>2 DEF EnqueueSends, MutexGuards
  <2>2. /\ srNext' = srNext + 1 /\ ~srPanic' /\ srMu' = srMu \ {p}
        /\ srPc' = [srPc EXCEPT ![p] = "collect"]
        /\ UNCHANGED <<srClosed, srWorker, srCloser>>
        /\ \/ UNCHANGED <<srQueue, srSent>>
           \/ srQueue' = Append(srQueue, srNext) /\ srSent' = Append(srSent, srNext)
    BY <1>0, <1>2, <2>1 DEF EnqueueSends, SrGoto
  <2>3. MutexGuards'
    BY <1>0, <2>1, <2>2 DEF MutexGuards, SrTypeOK
  <2>4. SrTypeOK'
    BY <1>0, <2>1, <2>2, RecorderAssumption DEF SrTypeOK, srWorker
  <2>5. LeftEmpty'
    BY <1>0, <2>1, <2>2 DEF LeftEmpty, srWorker
  <2>6. UNCHANGED <<srBatch, srRow, srRows, srTried>>
    BY <2>2 DEF srWorker
  <2>7. CASE UNCHANGED <<srQueue, srSent>>
    <3>1. Accounted'
      BY <1>0, <2>6, <2>7 DEF Accounted
    <3>2. Ordered'
      BY <1>a, <1>c, <1>d, <2>2, <2>6, <2>7 DEF Ordered
    <3> QED
      BY <1>0, <2>2, <2>3, <2>4, <2>5, <2>6, <2>7, <3>1, <3>2 DEF SrInv
  <2>8. CASE srQueue' = Append(srQueue, srNext) /\ srSent' = Append(srSent, srNext)
    <3>1. /\ srQueue' \in Seq(Nat) /\ Len(srQueue') = queued + 1
          /\ \A i \in 1 .. queued : srQueue'[i] = srQueue[i]
          /\ srQueue'[queued + 1] = srNext
      BY <1>0, <1>a, <1>d, <2>8, AppendFacts
    <3>2. /\ srSent' \in Seq(Nat) /\ Len(srSent') = sent + 1
          /\ \A i \in 1 .. sent : srSent'[i] = srSent[i]
          /\ srSent'[sent + 1] = srNext
      BY <1>0, <1>a, <1>d, <2>8, AppendFacts
    <3>3. \A i \in 1 .. queued + 1 : i \in 1 .. queued \/ i = queued + 1
      OBVIOUS
    <3>4. Accounted'
      <4>1. /\ tried <= taken /\ sent + 1 = taken + (queued + 1)
            /\ srBatch # 0 => tried + 1 \in 1 .. sent
            /\ \A i \in 1 .. tried : i \in 1 .. sent
            /\ \A i \in 1 .. queued : taken + i \in 1 .. sent
        BY <1>taken, <1>b
      <4>2. \A i \in 1 .. tried : srSent'[i] = srTried[i]
        BY <1>b, <3>2, <4>1
      <4>3. srBatch # 0 => srSent'[tried + 1] = srBatch
        BY <1>b, <3>2, <4>1
      <4>4. \A i \in 1 .. queued + 1 : srSent'[taken + i] = srQueue'[i]
        BY <1>b, <3>1, <3>2, <3>3, <4>1
      <4>5. /\ Len(srTried') = tried /\ Len(srQueue') = queued + 1 /\ Len(srSent') = sent + 1
            /\ taken = tried + (IF srBatch' = 0 THEN 0 ELSE 1)
        BY <1>a, <2>6, <3>1, <3>2
      <4> QED
        BY <2>6, <4>1, <4>2, <4>3, <4>4, <4>5 DEF Accounted
    <3>5. Ordered'
      <4>1. \A i \in 1 .. queued + 1 :
              srQueue'[i] \in 1 .. MaxBatches /\ srQueue'[i] < srNext + 1 /\ srBatch < srQueue'[i]
        <5>1. ASSUME NEW i \in 1 .. queued
              PROVE  srQueue'[i] \in 1 .. MaxBatches /\ srQueue'[i] < srNext + 1 /\ srBatch < srQueue'[i]
          BY <1>c, <1>d, <3>1
        <5>2. /\ srQueue'[queued + 1] \in 1 .. MaxBatches /\ srQueue'[queued + 1] < srNext + 1
              /\ srBatch < srQueue'[queued + 1]
          BY <1>0, <1>c, <1>d, <2>1, <3>1, RecorderAssumption DEF SrTypeOK
        <5> QED
          BY <3>3, <5>1, <5>2
      <4>2. \A i, j \in 1 .. queued + 1 : i < j => srQueue'[i] < srQueue'[j]
        <5> SUFFICES ASSUME NEW i \in 1 .. queued + 1, NEW j \in 1 .. queued + 1, i < j
                     PROVE  srQueue'[i] < srQueue'[j]
          OBVIOUS
        <5>1. i \in 1 .. queued /\ (j \in 1 .. queued \/ j = queued + 1)
          OBVIOUS
        <5> QED
          BY <1>c, <3>1, <5>1
      <4>3. \A i \in 1 .. rows :
              /\ srRows[i][1] < srNext + 1
              /\ srBatch # 0 => srRows[i][1] <= srBatch
              /\ \A k \in 1 .. queued + 1 : srRows[i][1] <= srQueue'[k]
        <5> TAKE i \in 1 .. rows
        <5>1. PICK of \in Nat : of = srRows[i][1]
          BY <1>d
        <5>2. of < srNext /\ (srBatch # 0 => of <= srBatch) /\ \A k \in 1 .. queued : of <= srQueue[k]
          BY <1>c, <5>1
        <5>3. of < srNext + 1 /\ of <= srNext
          BY <1>d, <5>2
        <5>4. \A k \in 1 .. queued + 1 : of <= srQueue'[k]
          BY <3>1, <3>3, <5>2, <5>3
        <5> QED
          BY <5>1, <5>2, <5>3, <5>4
      <4> QED
        BY <1>a, <1>c, <1>d, <2>2, <2>6, <3>1, <4>1, <4>2, <4>3 DEF Ordered
    <3> QED
      BY <1>0, <2>2, <2>3, <2>4, <2>5, <2>6, <3>1, <3>2, <3>4, <3>5 DEF SrInv
  <2> QED
    BY <2>2, <2>7, <2>8
<1>3. CASE WorkerReceives /\ srQueue # <<>>
  <2>1. /\ ~srDone /\ srBatch = 0 /\ srBatch' = Head(srQueue) /\ srRow' = 0
        /\ srQueue' = Tail(srQueue)
        /\ UNCHANGED <<srDone, srPc, srMu, srClosed, srSent, srNext, srRows, srTried, srCloser, srPanic>>
    BY <1>3 DEF WorkerReceives
  <2>2. /\ srBatch' = srQueue[1] /\ srQueue' \in Seq(Nat) /\ queued \in Nat \ {0}
        /\ Len(srQueue') = queued - 1
        /\ \A k \in 1 .. queued - 1 : srQueue'[k] = srQueue[k + 1]
    BY <1>0, <1>a, <1>3, <2>1, TakeFacts
  <2>3. /\ srBatch' \in 1 .. MaxBatches /\ srBatch' # 0 /\ srBatch' \in Nat /\ srBatch' < srNext
    <3>1. 1 \in 1 .. queued
      BY <2>2
    <3> QED
      BY <1>c, <2>2, <3>1, RecorderAssumption
  <2>4. SrTypeOK'
    BY <1>0, <2>1, <2>3, RecorderAssumption DEF SrTypeOK
  <2>5. MutexGuards' /\ LeftEmpty'
    BY <1>0, <2>1 DEF MutexGuards, LeftEmpty
  <2>6. Accounted'
    <3>1. taken = tried /\ sent = tried + queued /\ \A i \in 1 .. queued : srSent[tried + i] = srQueue[i]
      BY <1>taken, <1>b, <2>1
    <3>2. sent = (tried + 1) + (queued - 1)
      BY <2>2, <3>1
    <3>3. srSent[tried + 1] = srBatch'
      <4>1. 1 \in 1 .. queued
        BY <2>2
      <4> QED
        BY <2>2, <3>1, <4>1
    <3>4. \A i \in 1 .. queued - 1 : srSent[(tried + 1) + i] = srQueue'[i]
      <4> TAKE i \in 1 .. queued - 1
      <4>1. i + 1 \in 1 .. queued /\ (tried + 1) + i = tried + (i + 1)
        BY <2>2
      <4> QED
        BY <2>2, <3>1, <4>1
    <3>5. /\ Len(srTried') = tried /\ Len(srQueue') = queued - 1 /\ Len(srSent') = sent
          /\ tried + (IF srBatch' = 0 THEN 0 ELSE 1) = tried + 1
      BY <1>a, <2>1, <2>2, <2>3
    <3> QED
      BY <1>b, <2>1, <3>2, <3>3, <3>4, <3>5 DEF Accounted
  <2>7. Ordered'
    <3>1. \A k \in 1 .. queued - 1 : k + 1 \in 1 .. queued /\ 1 < k + 1 /\ 1 \in 1 .. queued
      BY <2>2
    <3>2. \A i \in 1 .. queued - 1 :
              srQueue'[i] \in 1 .. MaxBatches /\ srQueue'[i] < srNext /\ srBatch' < srQueue'[i]
      BY <1>c, <2>2, <3>1
    <3>3. \A i, j \in 1 .. queued - 1 : i < j => srQueue'[i] < srQueue'[j]
      <4> SUFFICES ASSUME NEW i \in 1 .. queued - 1, NEW j \in 1 .. queued - 1, i < j
                   PROVE  srQueue'[i] < srQueue'[j]
        OBVIOUS
      <4>1. i + 1 < j + 1
        BY <2>2
      <4> QED
        BY <1>c, <2>2, <3>1, <4>1
    <3>4. \A i \in 1 .. rows : /\ srRows[i][1] <= srBatch'
                               /\ \A k \in 1 .. queued - 1 : srRows[i][1] <= srQueue'[k]
      <4>1. 1 \in 1 .. queued
        BY <2>2
      <4> QED
        BY <1>c, <2>2, <3>1, <4>1
    <3> QED
      BY <1>a, <1>c, <2>1, <2>2, <2>3, <3>2, <3>3, <3>4 DEF Ordered
  <2> QED
    BY <1>0, <2>1, <2>2, <2>4, <2>5, <2>6, <2>7 DEF SrInv
<1>4. CASE WorkerReceives /\ srQueue = <<>>
  <2>1. /\ srBatch = 0 /\ srClosed /\ srDone' = TRUE
        /\ UNCHANGED <<srBatch, srRow, srQueue, srPc, srMu, srClosed, srSent, srNext, srRows,
                       srTried, srCloser, srPanic>>
    BY <1>4 DEF WorkerReceives
  <2>2. SrTypeOK' /\ MutexGuards'
    BY <1>0, <2>1 DEF SrTypeOK, MutexGuards
  <2>3. LeftEmpty'
    BY <1>4, <2>1 DEF LeftEmpty
  <2>4. Accounted' /\ Ordered'
    BY <1>0, <2>1 DEF Accounted, Ordered
  <2> QED
    BY <1>0, <2>1, <2>2, <2>3, <2>4 DEF SrInv
<1>5. CASE AppendQuoteSnapshot
  <2>1. /\ srBatch # 0 /\ srRow < BatchSize /\ srRow' = srRow + 1
        /\ srRows' = srRows \/ srRows' = Append(srRows, <<srBatch, srRow + 1>>)
        /\ UNCHANGED <<srPc, srMu, srClosed, srQueue, srSent, srNext, srBatch, srTried, srDone,
                       srCloser, srPanic>>
    BY <1>5 DEF AppendQuoteSnapshot
  <2>2. SrTypeOK'
    BY <1>0, <2>1, RecorderAssumption DEF SrTypeOK
  <2>3. MutexGuards' /\ LeftEmpty' /\ Accounted'
    BY <1>0, <2>1 DEF MutexGuards, LeftEmpty, Accounted
  <2>4. CASE srRows' = srRows
    <3>1. Ordered'
      BY <1>0, <2>1, <2>4 DEF Ordered
    <3> QED
      BY <1>0, <2>1, <2>2, <2>3, <2>4, <3>1 DEF SrInv
  <2>5. CASE srRows' = Append(srRows, <<srBatch, srRow + 1>>)
    <3>1. <<srBatch, srRow + 1>> \in TableRow
      BY <1>d DEF TableRow
    <3>2. /\ srRows' \in Seq(TableRow) /\ Len(srRows') = rows + 1
          /\ \A i \in 1 .. rows : srRows'[i] = srRows[i]
          /\ srRows'[rows + 1] = <<srBatch, srRow + 1>>
      BY <1>0, <1>a, <2>5, <3>1, AppendFacts
    <3>3. srRows'[rows + 1][1] = srBatch
      BY <3>2
    <3>4. \A i \in 1 .. rows + 1 : i \in 1 .. rows \/ i = rows + 1
      OBVIOUS
    <3>5. \A k \in 1 .. queued : srBatch <= srQueue[k]
      BY <1>c, <1>d
    <3>6. \A i \in 1 .. rows + 1 :
              /\ srRows'[i][1] < srNext
              /\ srRows'[i][1] <= srBatch
              /\ \A k \in 1 .. queued : srRows'[i][1] <= srQueue[k]
      <4>1. ASSUME NEW i \in 1 .. rows
            PROVE  /\ srRows'[i][1] < srNext
                   /\ srRows'[i][1] <= srBatch
                   /\ \A k \in 1 .. queued : srRows'[i][1] <= srQueue[k]
        BY <1>c, <2>1, <3>2
      <4>2. /\ srBatch < srNext /\ srBatch <= srBatch
        BY <1>c, <1>d
      <4> QED
        BY <3>3, <3>4, <3>5, <4>1, <4>2
    <3>7. \A i, j \in 1 .. rows + 1 : i < j => srRows'[i][1] <= srRows'[j][1]
      <4> SUFFICES ASSUME NEW i \in 1 .. rows + 1, NEW j \in 1 .. rows + 1, i < j
                   PROVE  srRows'[i][1] <= srRows'[j][1]
        OBVIOUS
      <4>1. i \in 1 .. rows /\ (j \in 1 .. rows \/ j = rows + 1)
        OBVIOUS
      <4>2. CASE j = rows + 1
        BY <3>3, <3>6, <4>2
      <4>3. CASE j \in 1 .. rows
        BY <1>c, <3>2, <4>1, <4>3
      <4> QED
        BY <4>1, <4>2, <4>3
    <3>8. Ordered'
      BY <1>a, <1>c, <2>1, <3>2, <3>6, <3>7 DEF Ordered
    <3> QED
      BY <1>0, <2>1, <2>2, <2>3, <3>2, <3>8 DEF SrInv
  <2> QED
    BY <2>1, <2>4, <2>5
<1>6. CASE BatchEnds
  <2>1. /\ srBatch # 0 /\ srTried' = Append(srTried, srBatch) /\ srBatch' = 0 /\ srRow' = 0
        /\ UNCHANGED <<srPc, srMu, srClosed, srQueue, srSent, srNext, srRows, srDone, srCloser, srPanic>>
    BY <1>6 DEF BatchEnds
  <2>2. /\ srTried' \in Seq(Nat) /\ Len(srTried') = tried + 1
        /\ \A i \in 1 .. tried : srTried'[i] = srTried[i]
        /\ srTried'[tried + 1] = srBatch
    BY <1>0, <1>a, <1>d, <2>1, AppendFacts
  <2>3. SrTypeOK'
    BY <1>0, <2>1, RecorderAssumption DEF SrTypeOK
  <2>4. MutexGuards' /\ LeftEmpty'
    BY <1>0, <2>1 DEF MutexGuards, LeftEmpty
  <2>5. Accounted'
    <3>1. taken = tried + 1
      BY <1>taken, <2>1
    <3>2. \A i \in 1 .. tried + 1 : srSent[i] = srTried'[i]
      <4>1. \A i \in 1 .. tried + 1 : i \in 1 .. tried \/ i = tried + 1
        OBVIOUS
      <4> QED
        BY <1>b, <2>1, <2>2, <4>1
    <3>3. /\ sent = (tried + 1) + queued
          /\ \A i \in 1 .. queued : srSent[(tried + 1) + i] = srQueue[i]
      BY <1>b, <3>1
    <3>4. /\ Len(srTried') = tried + 1 /\ Len(srQueue') = queued /\ Len(srSent') = sent
          /\ (tried + 1) + (IF srBatch' = 0 THEN 0 ELSE 1) = tried + 1
      BY <1>a, <2>1, <2>2
    <3> QED
      BY <2>1, <3>2, <3>3, <3>4 DEF Accounted
  <2>6. Ordered'
    <3>1. 0 < srNext /\ \A i \in 1 .. queued : 0 < srQueue[i]
      <4>1. srNext \in 1 .. MaxBatches + 1 /\ MaxBatches \in Nat
        BY <1>0, RecorderAssumption DEF SrTypeOK
      <4>2. \A n \in 1 .. MaxBatches : 0 < n
        BY <4>1
      <4> QED
        BY <1>c, <4>1, <4>2
    <3> QED
      BY <1>a, <1>c, <2>1, <3>1, Zenon DEF Ordered
  <2> QED
    BY <1>0, <2>1, <2>2, <2>3, <2>4, <2>5, <2>6 DEF SrInv
<1>7. CASE CloseRecorder
  <2>1. /\ srCloser = "idle" /\ srMu = {} /\ srClosed' = TRUE /\ srCloser' = "waiting"
        /\ UNCHANGED <<srPc, srMu, srQueue, srSent, srNext, srBatch, srRow, srRows, srTried, srDone, srPanic>>
    BY <1>7 DEF CloseRecorder, srWorker
  <2>2. SrTypeOK' /\ MutexGuards' /\ LeftEmpty'
    BY <1>0, <2>1 DEF SrTypeOK, MutexGuards, LeftEmpty
  <2>3. Accounted' /\ Ordered'
    BY <1>0, <2>1 DEF Accounted, Ordered
  <2> QED
    BY <1>0, <2>1, <2>2, <2>3 DEF SrInv
<1>8. CASE RecorderReturns
  <2>1. /\ srDone /\ srCloser' = "returned"
        /\ UNCHANGED <<srPc, srMu, srClosed, srQueue, srSent, srNext, srBatch, srRow, srRows,
                       srTried, srDone, srPanic>>
    BY <1>8 DEF RecorderReturns, srWorker
  <2>2. SrTypeOK' /\ MutexGuards' /\ LeftEmpty'
    BY <1>0, <2>1 DEF SrTypeOK, MutexGuards, LeftEmpty
  <2>3. Accounted' /\ Ordered'
    BY <1>0, <2>1 DEF Accounted, Ordered
  <2> QED
    BY <1>0, <2>1, <2>2, <2>3 DEF SrInv
<1>9. CASE UNCHANGED srVars
  BY <1>0, <1>9 DEF srVars, SrInv, SrTypeOK, MutexGuards, Accounted, Ordered, LeftEmpty
<1> QED
  BY <1>1, <1>2, <1>3, <1>4, <1>5, <1>6, <1>7, <1>8, <1>9 DEF SrNext

\* "makes close and enqueue race-free" (snapshot_recorder.go): for any passes, batches
\* and depth of the channel, no order of recording and closing ends in a send on the
\* closed channel, and close returns only when every accepted batch has been tried, in
\* order and unmixed.
THEOREM RecorderSafe == SrSpec => []RecorderIsSafe
<1>1. SrInit => SrInv
  <2> SUFFICES ASSUME SrInit PROVE SrInv
    OBVIOUS
  <2>1. /\ \A p \in Pass : srPc[p] = "collect"
        /\ srQueue = <<>> /\ srSent = <<>> /\ srTried = <<>> /\ srRows = <<>>
        /\ srBatch = 0 /\ srNext = 1 /\ ~srDone /\ srCloser = "idle" /\ ~srPanic
    BY DEF SrInit
  <2>2. SrTypeOK
    <3>1. 1 \in 1 .. MaxBatches + 1 /\ 0 \in 0 .. MaxBatches /\ 0 \in 0 .. BatchSize
      BY RecorderAssumption
    <3>2. srPc \in [Pass -> {"collect", "checked"}] /\ srMu \subseteq Pass
      BY DEF SrInit
    <3> QED
      BY <3>1, <3>2 DEF SrInit, SrTypeOK
  <2>3. Accounted /\ Ordered
    <3>1. /\ Len(srQueue) = 0 /\ Len(srSent) = 0 /\ Len(srTried) = 0 /\ Len(srRows) = 0
          /\ 0 + (IF srBatch = 0 THEN 0 ELSE 1) = 0 /\ 0 + 0 = 0 /\ srBatch < srNext /\ 1 .. 0 = {}
      BY <2>1, EmptySeq
    <3>2. Accounted
      BY <2>1, <3>1 DEF Accounted
    <3>3. Ordered
      BY <3>1, Zenon DEF Ordered
    <3> QED
      BY <3>2, <3>3
  <2>4. MutexGuards /\ LeftEmpty
    BY <2>1 DEF MutexGuards, LeftEmpty
  <2>5. srQueue \in Seq(Nat) /\ srSent \in Seq(Nat) /\ srTried \in Seq(Nat) /\ srRows \in Seq(TableRow)
    BY <2>1
  <2> QED
    BY <2>1, <2>2, <2>3, <2>4, <2>5 DEF SrInv
<1>2. SrInv => RecorderIsSafe
  <2> SUFFICES ASSUME SrInv PROVE RecorderIsSafe
    OBVIOUS
  <2>1. ASSUME srCloser = "returned" PROVE srTried = srSent
    <3>1. srDone /\ srQueue = <<>> /\ srBatch = 0
      BY <2>1 DEF SrInv, LeftEmpty
    <3>2. PICK tried \in Nat : tried = Len(srTried)
      BY LenProperties DEF SrInv
    <3>3. Len(srQueue) = 0
      BY <3>1
    <3>4. Len(srSent) = tried /\ \A i \in 1 .. tried : srSent[i] = srTried[i]
      BY <3>1, <3>2, <3>3 DEF SrInv, Accounted
    <3> QED
      BY <3>2, <3>4, SeqEqual DEF SrInv
  <2>2. \A i, j \in DOMAIN srRows : i < j => srRows[i][1] <= srRows[j][1]
    BY LenProperties DEF SrInv, Ordered
  <2> QED
    BY <2>1, <2>2 DEF SrInv, RecorderIsSafe, NoSendOnClosed, CloseFlushesSnapshots
<1> QED
  BY <1>1, <1>2, RecorderStep, PTL DEF SrSpec

-----------------------------------------------------------------------------
(* The market data of a pass *)

\* A pass holds what the broker may report.
Reported == held \subseteq Position

\* A pass began in the past, and the greeks it has applied were fresh then or are newer.
GreeksInv ==
    /\ lpNow \in Nat /\ lpBegan \in Nat /\ lpBegan <= lpNow
    /\ greeks \in [Codes -> Int] /\ optQuotes \in [Codes -> [at : Int, greeks : Int]]
    /\ lpPc # "idle" =>
         \A c \in Codes : optQuotes[c].greeks # -1 => lpBegan - optQuotes[c].greeks <= GreeksTTL

\* Whose a position is does not depend on the pass: filterPositions and
\* closePositionLegs give no leg to two symbols, none to the inventory and to the legs
\* to close, and lose no short leg, whatever the broker reports.
THEOREM Attribution == LpSpec => []AttributionSound
<1>1. LpInit => Reported
  BY DEF LpInit, Reported
<1>2. Reported /\ [LpNext]_lpVars => Reported'
  BY DEF Reported, LpNext, lpVars, BeginPass, AskLevel, FetchOptionQuote, EndPage, AskHeld, EndPass, LpTick
<1>3. Reported => AttributionSound
  <2> SUFFICES ASSUME Reported PROVE AttributionSound
    OBVIOUS
  <2> DEFINE closing(u) == ClosePositionLegs(u, held)
             all(u) == Mine(u, held) \cup closing(u)
  <2>1. ASSUME NEW u \in Underlying, NEW p \in held, p \in Mine(u, held)
        PROVE  \/ p.form = "option" /\ p.code \in Chain[u] /\ ContractOf[p.code].letters = Letters[u]
               \/ p.form = "stock" /\ p.code = u
    BY <2>1, LivePassAssumption DEF Reported, Mine, FilterPositions
  <2>2. ASSUME NEW u \in Underlying, NEW p \in held, p \in closing(u)
        PROVE  p.form = "option" /\ p.code \notin Chain[u] /\ ContractOf[p.code].letters = Letters[u]
    BY <2>2 DEF ClosePositionLegs, FilterPositions
  <2>3. \A u \in Underlying : Mine(u, held) \subseteq held /\ closing(u) \subseteq held
    BY DEF Mine, ClosePositionLegs, FilterPositions
  <2>4. ASSUME NEW u \in Underlying, NEW v \in Underlying, u # v PROVE all(u) \cap all(v) = {}
    <3>1. Letters[u] # Letters[v]
      BY <2>4, LivePassAssumption
    <3> SUFFICES ASSUME NEW p \in held, p \in all(u), p \in all(v) PROVE FALSE
      BY <2>3
    <3> QED
      BY <2>1, <2>2, <2>4, <3>1
  <2>5. ASSUME NEW u \in Underlying PROVE Mine(u, held) \cap closing(u) = {}
    <3> SUFFICES ASSUME NEW p \in held, p \in Mine(u, held), p \in closing(u) PROVE FALSE
      BY <2>3
    <3> QED
      BY <2>1, <2>2
  <2>6. ASSUME NEW p \in held, NEW u \in Underlying,
               p.form = "option" /\ SignedOK(p) /\ SignedQty(p) < 0,
               Chain[u] # {} /\ ContractOf[p.code].letters = Letters[u]
        PROVE  p \in all(u)
    BY <2>6 DEF Mine, ClosePositionLegs, FilterPositions
  <2> QED
    BY <2>4, <2>5, <2>6 DEF AttributionSound
<1> QED
  BY <1>1, <1>2, <1>3, PTL DEF LpSpec

LEMMA GreeksStep == GreeksInv /\ [LpNext]_lpVars => GreeksInv'
<1> USE DEF NoQuote
<1> SUFFICES ASSUME GreeksInv, [LpNext]_lpVars PROVE GreeksInv'
  OBVIOUS
<1>0. GreeksTTL \in Nat
  BY LivePassAssumption
<1> USE <1>0
<1>1. ASSUME NEW symbols, NEW next, OptionQuotes(symbols, next), lpPc # "idle",
             UNCHANGED <<greeks, lpNow, lpBegan>>
      PROVE  GreeksInv'
  <2>1. PICK got \in SUBSET symbols, t \in ParseQuoteTime :
             optQuotes' = [c \in Codes |->
                IF c \in Fresh(got) THEN [at |-> t, greeks |-> greeks[c]]
                ELSE IF c \in got THEN [at |-> t, greeks |-> -1] ELSE optQuotes[c]]
    BY <1>1 DEF OptionQuotes
  <2>2. t \in Int
    BY DEF ParseQuoteTime, GreeksInv
  <2>3. ASSUME NEW c \in Codes
        PROVE  /\ optQuotes'[c] \in [at : Int, greeks : Int]
               /\ optQuotes'[c].greeks # -1 => lpBegan - optQuotes'[c].greeks <= GreeksTTL
    <3>1. CASE c \in Fresh(got)
      <4>1. optQuotes'[c] = [at |-> t, greeks |-> greeks[c]] /\ greeks[c] \in Int
        BY <2>1, <3>1 DEF GreeksInv
      <4>2. lpNow - greeks[c] <= GreeksTTL
        BY <3>1 DEF Fresh
      <4> QED
        BY <2>2, <4>1, <4>2 DEF GreeksInv
    <3>2. CASE c \notin Fresh(got) /\ c \in got
      BY <2>1, <2>2, <3>2
    <3>3. CASE c \notin Fresh(got) /\ c \notin got
      BY <1>1, <2>1, <3>3 DEF GreeksInv
    <3> QED
      BY <3>1, <3>2, <3>3
  <2>4. optQuotes' \in [Codes -> [at : Int, greeks : Int]]
    BY <2>1, <2>3
  <2> QED
    BY <1>1, <2>3, <2>4 DEF GreeksInv
<1>2. ASSUME NEW c \in Codes, FetchOptionQuote(c) PROVE GreeksInv'
  <2>1. lpNow' = lpNow + 1 /\ UNCHANGED <<lpPc, lpBegan>> /\ lpPc # "idle"
    BY <1>2 DEF FetchOptionQuote
  <2>2. CASE UNCHANGED <<greeks, optQuotes>>
    BY <2>1, <2>2 DEF GreeksInv
  <2>3. CASE /\ greeks' = [greeks EXCEPT ![c] = lpNow + 1]
             /\ optQuotes' = [optQuotes EXCEPT ![c] =
                   [at |-> IF c \in answered THEN @.at ELSE lpNow + 1, greeks |-> lpNow + 1]]
    <3>1. greeks' \in [Codes -> Int] /\ lpNow + 1 \in Nat
      BY <2>3 DEF GreeksInv
    <3>2. /\ optQuotes' \in [Codes -> [at : Int, greeks : Int]]
          /\ optQuotes'[c].greeks = lpNow + 1
          /\ \A d \in Codes \ {c} : optQuotes'[d] = optQuotes[d]
      BY <2>3 DEF GreeksInv
    <3>3. lpBegan - (lpNow + 1) <= GreeksTTL
      BY DEF GreeksInv
    <3> QED
      BY <2>1, <3>1, <3>2, <3>3 DEF GreeksInv
  <2> QED
    BY <1>2, <2>2, <2>3 DEF FetchOptionQuote
<1>3. ASSUME NEW u \in Underlying, NEW ps \in SUBSET Position, BeginPass(u, ps) PROVE GreeksInv'
  <2>1. lpBegan' = lpNow /\ optQuotes' = [c \in Codes |-> NoQuote] /\ UNCHANGED <<greeks, lpNow>>
    BY <1>3 DEF BeginPass
  <2> QED
    BY <2>1 DEF GreeksInv
<1>4. CASE AskLevel
  <2>1. lpPc = "level" /\ UNCHANGED <<greeks, lpNow, lpBegan>>
    BY <1>4 DEF AskLevel
  <2>2. CASE UNCHANGED optQuotes
    BY <2>1, <2>2 DEF GreeksInv
  <2>3. CASE OptionQuotes(LevelContracts(level + 1), "fetch")
    BY <1>1, <2>1, <2>3
  <2> QED
    BY <1>4, <2>2, <2>3 DEF AskLevel
<1>5. CASE EndPage
  BY <1>5 DEF EndPage, GreeksInv
<1>6. CASE AskHeld
  BY <1>1, <1>6 DEF AskHeld
<1>7. CASE EndPass
  BY <1>7 DEF EndPass, GreeksInv
<1>8. CASE LpTick
  BY <1>8 DEF LpTick, GreeksInv
<1>9. CASE UNCHANGED lpVars
  BY <1>9 DEF lpVars, GreeksInv
<1> QED
  BY <1>2, <1>3, <1>4, <1>5, <1>6, <1>7, <1>8, <1>9 DEF LpNext

\* However passes share the cache of option-quotes (fetchOptionQuote, greeksTTL) and
\* however long their fetches take, no decision rests on greeks that were older than
\* greeksTTL when its pass began: for any chains, any limits and any number of passes.
THEOREM GreeksYoung == LpSpec => []GreeksAgeBounded
<1>1. LpInit => GreeksInv
  BY DEF LpInit, GreeksInv, NoQuote
<1>2. GreeksInv => GreeksAgeBounded
  BY DEF GreeksInv, GreeksAgeBounded
<1> QED
  BY <1>1, <1>2, GreeksStep, PTL DEF LpSpec

-----------------------------------------------------------------------------
(* The levels of the expansion *)

\* A nonempty set of natural numbers has a least one.
LEMMA LeastNat ==
    ASSUME NEW S \in SUBSET Nat, S # {}
    PROVE  \E x \in S : \A y \in S : x <= y
<1> DEFINE less == OpToRel(<, Nat)
<1>1. IsWellFoundedOn(less, Nat)
  BY NatLessThanWellFounded
<1>2. \A x, y \in Nat : <<y, x>> \notin less => x <= y
  BY DEF OpToRel
<1> HIDE DEF less
<1>3. PICK x \in S : \A y \in S : <<y, x>> \notin less
  BY <1>1, WFMin, Zenon
<1> QED
  BY <1>2, <1>3

UpTo(S, x) == {y \in S : y <= x}

\* Ascending lists the numbers of a finite set, each once and in order: the number of
\* those up to an element is a bijection onto the places.
LEMMA AscendingFacts ==
    ASSUME NEW S \in SUBSET Int, IsFiniteSet(S)
    PROVE  /\ Cardinality(S) \in Nat
           /\ \A i \in 1 .. Cardinality(S) : Ascending(S)[i] \in S
           /\ \A x \in S : \E i \in 1 .. Cardinality(S) : Ascending(S)[i] = x
           /\ \A i, j \in 1 .. Cardinality(S) : i < j => Ascending(S)[i] < Ascending(S)[j]
<1> DEFINE n == Cardinality(S)
           rank == [x \in S |-> Cardinality(UpTo(S, x))]
<1>1. n \in Nat
  BY FS_CardinalityType
<1>2. \A x \in S : /\ IsFiniteSet(UpTo(S, x)) /\ Cardinality(UpTo(S, x)) \in Nat
                   /\ Cardinality(UpTo(S, x)) <= n
                   /\ Cardinality(UpTo(S, x)) # 0
  <2> TAKE x \in S
  <2>1. UpTo(S, x) \in SUBSET S /\ x \in UpTo(S, x)
    BY DEF UpTo
  <2>2. IsFiniteSet(UpTo(S, x)) /\ Cardinality(UpTo(S, x)) <= n
    BY <2>1, FS_Subset
  <2> QED
    BY <2>1, <2>2, FS_CardinalityType, FS_EmptySet
<1>3. ASSUME NEW x \in S, NEW y \in S, x < y PROVE rank[x] < rank[y]
  <2>1. UpTo(S, x) \in SUBSET UpTo(S, y) /\ UpTo(S, x) # UpTo(S, y)
    <3>1. x \in Int /\ y \in Int /\ \A z \in S : z \in Int /\ (z <= x => z <= y)
      BY <1>3
    <3>2. y \in UpTo(S, y) /\ y \notin UpTo(S, x)
      BY <1>3, <3>1 DEF UpTo
    <3>3. UpTo(S, x) \subseteq UpTo(S, y)
      BY <3>1 DEF UpTo
    <3> QED
      BY <3>2, <3>3
  <2>2. /\ Cardinality(UpTo(S, x)) <= Cardinality(UpTo(S, y))
        /\ Cardinality(UpTo(S, y)) # Cardinality(UpTo(S, x))
    BY <1>2, <2>1, FS_Subset
  <2> QED
    BY <1>2, <2>2
<1>4. rank \in [S -> 1 .. n]
  BY <1>1, <1>2
<1> HIDE DEF rank
<1>5. \A x, y \in S : rank[x] = rank[y] => x = y
  BY <1>3, <1>4
<1>6. rank \in Injection(S, 1 .. n)
  BY <1>4, <1>5 DEF Injection, IsInjective
<1>7. IsFiniteSet(1 .. n) /\ Cardinality(1 .. n) = n
  BY <1>1, FS_Interval
<1>8. rank \in Surjection(S, 1 .. n)
  BY <1>6, <1>7, FS_Injection
<1>9. \A i \in 1 .. n : \E x \in S : rank[x] = i
  BY <1>8 DEF Surjection
<1>10. \A i \in 1 .. n : Ascending(S)[i] \in S /\ rank[Ascending(S)[i]] = i
  <2> TAKE i \in 1 .. n
  <2>1. Ascending(S)[i] = CHOOSE x \in S : Cardinality(UpTo(S, x)) = i
    BY DEF Ascending, UpTo
  <2>2. \E x \in S : Cardinality(UpTo(S, x)) = i
    BY <1>9 DEF rank
  <2> QED
    BY <2>1, <2>2 DEF rank
<1>11. ASSUME NEW x \in S PROVE \E i \in 1 .. n : Ascending(S)[i] = x
  BY <1>4, <1>5, <1>10
<1>12. ASSUME NEW i \in 1 .. n, NEW j \in 1 .. n, i < j PROVE Ascending(S)[i] < Ascending(S)[j]
  <2>1. PICK x \in S, y \in S : x = Ascending(S)[i] /\ y = Ascending(S)[j]
    BY <1>10
  <2>2. rank[x] = i /\ rank[y] = j
    BY <1>10, <2>1
  <2>3. x # y /\ ~(y < x)
    BY <1>3, <1>12, <2>2
  <2> QED
    BY <2>1, <2>3
<1> QED
  BY <1>1, <1>10, <1>11, <1>12

StrikeSet(u) == {ContractOf[c].strike : c \in Chain[u]}

LEMMA StrikeFacts ==
    ASSUME NEW u \in Underlying
    PROVE  /\ StrikeSet(u) \in SUBSET Nat /\ IsFiniteSet(StrikeSet(u))
           /\ IsFiniteSet(Chain[u]) /\ Chain[u] \subseteq Codes
           /\ Strikes(u) = Ascending(StrikeSet(u))
           /\ DOMAIN Strikes(u) = 1 .. Cardinality(StrikeSet(u))
<1>1. IsFiniteSet(Chain[u]) /\ Chain[u] \subseteq Codes
  BY LivePassAssumption, FS_Subset DEF Codes
<1>2. StrikeSet(u) \in SUBSET Nat
  BY <1>1, LivePassAssumption DEF StrikeSet, Codes
<1>3. IsFiniteSet(StrikeSet(u))
  <2> DEFINE f == [c \in Chain[u] |-> ContractOf[c].strike]
  <2>1. f \in Surjection(Chain[u], StrikeSet(u))
    BY DEF Surjection, StrikeSet
  <2> QED
    BY <1>1, <2>1, FS_Surjection
<1>4. Strikes(u) = Ascending(StrikeSet(u))
  BY DEF Strikes, StrikeSet
<1>5. DOMAIN Strikes(u) = 1 .. Cardinality(StrikeSet(u))
  BY <1>4 DEF Ascending
<1> QED
  BY <1>1, <1>2, <1>3, <1>4, <1>5

\* A chain with a contract has a level nearest to the price.
LEMMA CenterFacts ==
    ASSUME NEW u \in Underlying, Chain[u] # {}
    PROVE  Center(u) \in 1 .. Cardinality(StrikeSet(u))
<1> DEFINE n == Cardinality(StrikeSet(u))
           s == Strikes(u)
           d(i) == AbsDiff(s[i], SpotPrice[u])
           D == {d(i) : i \in 1 .. n}
<1>1. StrikeSet(u) # {} /\ StrikeSet(u) \in SUBSET Int
  <2>1. StrikeSet(u) # {}
    BY DEF StrikeSet
  <2> QED
    BY <2>1, StrikeFacts
<1>2. n \in Nat /\ n # 0
  BY <1>1, StrikeFacts, FS_CardinalityType, FS_EmptySet
<1>3. \A i \in 1 .. n : s[i] \in Nat
  <2>1. \A i \in 1 .. n : s[i] \in StrikeSet(u)
    BY <1>1, StrikeFacts, AscendingFacts
  <2> QED
    BY <2>1, StrikeFacts
<1>4. \A i \in 1 .. n : d(i) \in Nat
  BY <1>3, LivePassAssumption DEF AbsDiff
<1> HIDE DEF d
<1>5. D \in SUBSET Nat /\ D # {}
  BY <1>2, <1>4
<1>6. PICK m \in D : \A y \in D : m <= y
  BY <1>5, LeastNat
<1> DEFINE I == {i \in 1 .. n : d(i) = m}
<1>7. I \in SUBSET Nat /\ I # {}
  BY <1>2, <1>6
<1>8. PICK i \in I : \A j \in I : i <= j
  BY <1>7, LeastNat
<1>9. \A j \in 1 .. n : d(i) < d(j) \/ (d(i) = d(j) /\ i <= j)
  <2> TAKE j \in 1 .. n
  <2>1. d(i) = m /\ m <= d(j) /\ d(j) \in Nat /\ m \in Nat
    BY <1>4, <1>5, <1>6, <1>8
  <2>2. CASE d(j) = m
    BY <1>8, <2>1, <2>2
  <2>3. CASE d(j) # m
    BY <2>1, <2>3
  <2> QED
    BY <2>2, <2>3
<1>10. DOMAIN s = 1 .. n
  BY StrikeFacts
<1>11. \E k \in DOMAIN s : \A j \in DOMAIN s : d(k) < d(j) \/ (d(k) = d(j) /\ k <= j)
  BY <1>8, <1>9, <1>10
<1>12. Center(u) \in DOMAIN s
  BY <1>11 DEF Center, d
<1> QED
  BY <1>10, <1>12

\* The offsets 0, -1, 1, -2, 2, ... reach every level within the radius.
LEMMA OffsetReaches ==
    ASSUME NEW o \in Int, NEW r \in Nat, o <= r, -o <= r
    PROVE  \E k \in 1 .. 2 * r + 1 : Offset(k) = o
<1>1. CASE o >= 0
  <2>1. 2 * o + 1 \in 1 .. 2 * r + 1 /\ (2 * o + 1) % 2 = 1 /\ (2 * o + 1) \div 2 = o
    BY <1>1
  <2>2. Offset(2 * o + 1) = o
    BY <2>1 DEF Offset
  <2> QED
    BY <2>1, <2>2
<1>2. CASE o < 0
  <2>1. PICK m \in Nat : m = -o
    BY <1>2
  <2>2. 2 * m \in 1 .. 2 * r + 1 /\ (2 * m) % 2 = 0 /\ (2 * m) \div 2 = m
    BY <1>2, <2>1
  <2>3. Offset(2 * m) = o
    BY <2>1, <2>2 DEF Offset
  <2> QED
    BY <2>2, <2>3
<1> QED
  BY <1>1, <1>2

\* The strikes between a contract and the money, its own included, as in CollectionComplete.
Away(u, c) ==
    {s \in StrikeSet(u) : \/ ContractOf[c].strike <= s /\ s < Strikes(u)[Center(u)]
                          \/ Strikes(u)[Center(u)] < s /\ s <= ContractOf[c].strike}

\* As many as there are levels between the two.
LEMMA AwayCounts ==
    ASSUME NEW u \in Underlying, NEW c \in Chain[u], Cardinality(Away(u, c)) <= Radius,
           NEW i \in 1 .. Cardinality(StrikeSet(u)), Strikes(u)[i] = ContractOf[c].strike
    PROVE  i - Center(u) <= Radius /\ Center(u) - i <= Radius
<1> DEFINE n == Cardinality(StrikeSet(u))
           s == Strikes(u)
           m == Center(u)
           J == {j \in 1 .. n : (i <= j /\ j < m) \/ (m < j /\ j <= i)}
           f == [j \in J |-> s[j]]
<1>1. StrikeSet(u) \in SUBSET Int /\ IsFiniteSet(StrikeSet(u)) /\ n \in Nat
  BY StrikeFacts, FS_CardinalityType
<1>2. m \in 1 .. n
  BY CenterFacts
<1>3. /\ \A j \in 1 .. n : s[j] \in StrikeSet(u) /\ s[j] \in Int
      /\ \A j, k \in 1 .. n : j < k => s[j] < s[k]
  BY <1>1, StrikeFacts, AscendingFacts
<1> HIDE DEF s, m
<1>4. \A j, k \in 1 .. n : j <= k => s[j] <= s[k]
  BY <1>1, <1>3
<1>5. \A j \in J : s[j] \in Away(u, c)
  <2> TAKE j \in J
  <2>1. j \in 1 .. n /\ s[i] = ContractOf[c].strike
    BY DEF s
  <2>2. \/ s[i] <= s[j] /\ s[j] < s[m]
        \/ s[m] < s[j] /\ s[j] <= s[i]
    BY <1>2, <1>3, <1>4
  <2> QED
    BY <1>3, <2>1, <2>2 DEF Away, s, m
<1>6. f \in Injection(J, Away(u, c))
  <2>1. \A j, k \in J : s[j] = s[k] => j = k
    BY <1>1, <1>3
  <2> QED
    BY <1>5, <2>1 DEF Injection, IsInjective
<1>7. IsFiniteSet(Away(u, c)) /\ Cardinality(Away(u, c)) \in Nat
  <2>1. Away(u, c) \in SUBSET StrikeSet(u)
    BY DEF Away
  <2> QED
    BY <1>1, <2>1, FS_Subset, FS_CardinalityType
<1>8. Cardinality(J) <= Cardinality(Away(u, c)) /\ IsFiniteSet(J)
  BY <1>6, <1>7, FS_Injection
<1>9. CASE i < m
  <2>1. J = i .. m - 1
    BY <1>1, <1>2, <1>9
  <2>2. Cardinality(J) = m - i
    <3>1. PICK a \in Int, b \in Int : a = i /\ b = m - 1
      BY <1>1, <1>2
    <3>2. Cardinality(a .. b) = b - a + 1
      BY <1>1, <1>2, <1>9, <3>1, FS_Interval
    <3> HIDE DEF J
    <3> QED
      BY <1>1, <1>2, <2>1, <3>1, <3>2
  <2> QED
    BY <1>1, <1>2, <1>7, <1>8, <1>9, <2>2, LivePassAssumption DEF m
<1>10. CASE i > m
  <2>1. J = m + 1 .. i
    BY <1>1, <1>2, <1>10
  <2>2. Cardinality(J) = i - m
    <3>1. PICK a \in Int, b \in Int : a = m + 1 /\ b = i
      BY <1>1, <1>2
    <3>2. Cardinality(a .. b) = b - a + 1
      BY <1>1, <1>2, <1>10, <3>1, FS_Interval
    <3> HIDE DEF J
    <3> QED
      BY <1>1, <1>2, <2>1, <3>1, <3>2
  <2> QED
    BY <1>1, <1>2, <1>7, <1>8, <1>10, <2>2, LivePassAssumption DEF m
<1>11. CASE i = m
  BY <1>1, <1>2, <1>11, LivePassAssumption DEF m
<1> QED
  BY <1>1, <1>2, <1>9, <1>10, <1>11

\* The expansion lists the strike of every contract within the radius, and never
\* more levels than fit into it.
LEMMA LevelsReach ==
    ASSUME NEW u \in Underlying
    PROVE  /\ Len(AtmExpansionLevels(u)) \in 0 .. 2 * Radius + 1
           /\ \A c \in Chain[u] : Cardinality(Away(u, c)) <= Radius =>
                \E k \in 1 .. Len(AtmExpansionLevels(u)) :
                   AtmExpansionLevels(u)[k] = ContractOf[c].strike
<1> DEFINE n == Cardinality(StrikeSet(u))
           s == Strikes(u)
           m == Center(u)
           K == {k \in 1 .. 2 * Radius + 1 : m + Offset(k) \in 1 .. n}
           ks == Ascending(K)
           levels == [i \in 1 .. Cardinality(K) |-> s[m + Offset(ks[i])]]
<1>1. n \in Nat /\ DOMAIN s = 1 .. n /\ Radius \in Nat
  BY StrikeFacts, FS_CardinalityType, LivePassAssumption
<1>2. K \in SUBSET (1 .. 2 * Radius + 1) /\ K \in SUBSET Int
  BY <1>1
<1>3. IsFiniteSet(K) /\ Cardinality(K) \in 0 .. 2 * Radius + 1
  <2>1. IsFiniteSet(1 .. 2 * Radius + 1) /\ Cardinality(1 .. 2 * Radius + 1) = 2 * Radius + 1
    BY <1>1, FS_Interval
  <2>2. IsFiniteSet(K) /\ Cardinality(K) <= 2 * Radius + 1
    BY <1>2, <2>1, FS_Subset
  <2> QED
    BY <1>1, <2>2, FS_CardinalityType
<1>4. CASE Chain[u] = {}
  <2>1. DOMAIN ks = 1 .. Cardinality(K)
    BY DEF Ascending
  <2>2. AtmExpansionLevels(u) = levels \/ AtmExpansionLevels(u) = <<>>
    BY <1>1, <2>1 DEF AtmExpansionLevels
  <2>3. PICK l \in 0 .. 2 * Radius + 1 : l = Cardinality(K)
    BY <1>3
  <2> HIDE DEF ks, K, s
  <2>4. Len(levels) = l
    BY <1>1, <2>3
  <2> HIDE DEF levels
  <2> QED
    BY <1>1, <1>4, <2>2, <2>3, <2>4
<1>5. CASE Chain[u] # {}
  <2>1. m \in 1 .. n
    BY <1>5, CenterFacts
  <2>2. s # <<>>
    BY <1>1, <2>1
  <2>3. DOMAIN ks = 1 .. Cardinality(K)
    BY DEF Ascending
  <2>4. AtmExpansionLevels(u) = levels
    BY <1>1, <2>2, <2>3 DEF AtmExpansionLevels
  <2> HIDE DEF ks, K, s
  <2>5. Len(AtmExpansionLevels(u)) = Cardinality(K)
    <3>1. PICK l \in Nat : l = Cardinality(K)
      BY <1>3
    <3> QED
      BY <2>4, <3>1
  <2>6. ASSUME NEW c \in Chain[u], Cardinality(Away(u, c)) <= Radius
        PROVE  \E k \in 1 .. Cardinality(K) : levels[k] = ContractOf[c].strike
    <3>1. PICK i \in 1 .. n : s[i] = ContractOf[c].strike
      <4>1. ContractOf[c].strike \in StrikeSet(u)
        BY DEF StrikeSet
      <4>2. StrikeSet(u) \in SUBSET Int /\ IsFiniteSet(StrikeSet(u))
        BY StrikeFacts
      <4>3. \E j \in 1 .. n : Ascending(StrikeSet(u))[j] = ContractOf[c].strike
        BY <4>1, <4>2, AscendingFacts
      <4> QED
        BY <4>3, StrikeFacts DEF s
    <3>2. i - m <= Radius /\ m - i <= Radius
      BY <2>6, <3>1, AwayCounts DEF s
    <3>3. PICK o \in Int : o = i - m /\ o <= Radius /\ -o <= Radius
      BY <1>1, <2>1, <3>1, <3>2
    <3>4. PICK k \in 1 .. 2 * Radius + 1 : Offset(k) = o
      BY <1>1, <3>3, OffsetReaches
    <3>5. m + Offset(k) = i
      BY <1>1, <2>1, <3>1, <3>3, <3>4
    <3>6. k \in K
      BY <3>1, <3>4, <3>5 DEF K
    <3>7. PICK j \in 1 .. Cardinality(K) : ks[j] = k
      BY <1>2, <1>3, <3>6, AscendingFacts DEF ks
    <3>8. levels[j] = s[i]
      BY <3>5, <3>7
    <3> QED
      BY <3>1, <3>7, <3>8
  <2> HIDE DEF levels
  <2> QED
    BY <1>3, <2>4, <2>5, <2>6
<1> QED
  BY <1>4, <1>5

-----------------------------------------------------------------------------
(* The collection of a pass *)

\* A finite set has subsets of every size up to its own.
LEMMA SubsetOfSize ==
    ASSUME NEW S, IsFiniteSet(S), NEW n \in Nat, n <= Cardinality(S)
    PROVE  \E T \in SUBSET S : Cardinality(T) = n
<1> DEFINE Sizes == {k \in Nat : n <= k /\ \E T \in SUBSET S : Cardinality(T) = k}
<1>1. Sizes # {}
  BY FS_CardinalityType
<1>2. PICK k \in Sizes : \A l \in Sizes : k <= l
  BY <1>1, LeastNat
<1>3. PICK T \in SUBSET S : Cardinality(T) = k
  BY <1>2
<1>4. CASE k # n
  <2>1. IsFiniteSet(T) /\ k \in Nat /\ n < k
    BY <1>2, <1>4, FS_Subset
  <2>2. PICK x : x \in T
    BY <1>3, <2>1, FS_EmptySet
  <2>3. Cardinality(T \ {x}) = k - 1 /\ T \ {x} \in SUBSET S
    BY <1>3, <2>1, <2>2, FS_RemoveElement
  <2>4. k - 1 \in Nat /\ n <= k - 1
    BY <2>1
  <2>5. k - 1 \in Sizes
    BY <2>3, <2>4
  <2> QED
    BY <1>2, <2>1, <2>5
<1> QED
  BY <1>3, <1>4

\* What CollectionComplete asks for.
Collected == {"held", "heldFetch", "evaluate"}
Enough == Cardinality(QualityCandidates) >= MinQuality
GoodKept == \E S \in SUBSET (selected \cap Good) :
               Cardinality(S) = MinQuality /\ \A c \in S : optQuotes[c].greeks # -1
AllNear == \A c \in Chain[lpSym] :
              ContractOf[c].kind = DesiredOptionType /\ Cardinality(Away(lpSym, c)) <= Radius
                => c \in selected
Complete ==
    lpPc \in Collected /\ DesiredOptionType # "none" =>
        \/ lpPc = "held" /\ Enough
        \/ lpPc # "held" /\ GoodKept
        \/ AllNear

\* While the expansion runs, the levels asked so far are selected.
Asked ==
    lpPc \in {"level", "fetch"} =>
        /\ level <= Len(AtmExpansionLevels(lpSym))
        /\ \A k \in 1 .. level : LevelContracts(k) \subseteq selected

CollectInv == GreeksInv /\ LpTypeOK /\ Asked /\ Complete

LEMMA CompleteIs == Complete => CollectionComplete
BY DEF Complete, Collected, Enough, GoodKept, AllNear, Away, StrikeSet, CollectionComplete

LEMMA LevelInChain ==
    ASSUME lpSym \in Underlying, NEW k
    PROVE  LevelContracts(k) \subseteq Codes
BY StrikeFacts DEF LevelContracts

LEMMA DirectionKept ==
    ASSUME UNCHANGED <<lpSym, held>>
    PROVE  /\ DesiredOptionType' = DesiredOptionType
           /\ \A k : LevelContracts(k)' = LevelContracts(k)
<1>1. DesiredOptionType' = DesiredOptionType
  BY DEF DesiredOptionType, Input
<1> QED
  BY <1>1 DEF LevelContracts

LEMMA AllNearKept ==
    ASSUME UNCHANGED <<lpSym, held, selected>>, AllNear
    PROVE  AllNear'
<1>1. DesiredOptionType' = DesiredOptionType
  BY DirectionKept
<1> QED
  BY <1>1 DEF AllNear

\* Once every level is asked, every near contract of the direction is selected.
LEMMA AllAsked ==
    ASSUME CollectInv, lpPc = "level", level = Len(AtmExpansionLevels(lpSym))
    PROVE  AllNear
<1> SUFFICES ASSUME NEW c \in Chain[lpSym], ContractOf[c].kind = DesiredOptionType,
                    Cardinality(Away(lpSym, c)) <= Radius
             PROVE  c \in selected
  BY DEF AllNear
<1>1. lpSym \in Underlying
  BY DEF CollectInv, LpTypeOK
<1>2. PICK k \in 1 .. level : AtmExpansionLevels(lpSym)[k] = ContractOf[c].strike
  BY <1>1, LevelsReach
<1>3. c \in LevelContracts(k)
  BY <1>2 DEF LevelContracts
<1> QED
  BY <1>2, <1>3 DEF CollectInv, Asked

\* Enough candidates are good contracts with greeks, and as many can be named.
LEMMA EnoughKept ==
    ASSUME CollectInv, Enough
    PROVE  GoodKept
<1>1. /\ QualityCandidates \subseteq selected \cap Good
      /\ \A c \in QualityCandidates : optQuotes[c].greeks # -1
  BY DEF QualityCandidates, ValidQuote
<1>2. IsFiniteSet(QualityCandidates) /\ Cardinality(QualityCandidates) \in Nat
  <2>1. QualityCandidates \in SUBSET Codes /\ IsFiniteSet(Codes)
    BY <1>1, LivePassAssumption DEF CollectInv, LpTypeOK, Codes
  <2> QED
    BY <2>1, FS_Subset, FS_CardinalityType
<1>3. MinQuality \in Nat /\ MinQuality <= Cardinality(QualityCandidates)
  BY <1>2, LivePassAssumption DEF Enough
<1>4. PICK S \in SUBSET QualityCandidates : Cardinality(S) = MinQuality
  BY <1>2, <1>3, SubsetOfSize
<1> QED
  BY <1>1, <1>4 DEF GoodKept

LEMMA LegsInCodes ==
    ASSUME LpTypeOK
    PROVE  UnquotedLegs \subseteq Codes
BY LivePassAssumption
   DEF LpTypeOK, UnquotedLegs, Input, PositionsInput, Mine, FilterPositions, ClosePositionLegs, Codes

\* Asking for quotes changes only what was asked for.
LEMMA QuotesType ==
    ASSUME NEW symbols \in SUBSET Codes, NEW next, OptionQuotes(symbols, next),
           answered \subseteq Codes
    PROVE  /\ answered' \subseteq Codes /\ toFetch' \subseteq Codes /\ lpPc' = next
           /\ \A c \in Codes \ symbols : optQuotes'[c] = optQuotes[c]
<1>1. PICK got \in SUBSET symbols, t \in ParseQuoteTime :
        /\ answered' = answered \cup got
        /\ toFetch' = symbols \ Fresh(got)
        /\ optQuotes' = [c \in Codes |->
              IF c \in Fresh(got) THEN [at |-> t, greeks |-> greeks[c]]
              ELSE IF c \in got THEN [at |-> t, greeks |-> -1] ELSE optQuotes[c]]
        /\ lpPc' = next
  BY DEF OptionQuotes
<1>2. Fresh(got) \subseteq got
  BY DEF Fresh
<1>3. \A c \in Codes \ symbols : c \notin Fresh(got) /\ c \notin got
  BY <1>2
<1> QED
  BY <1>1, <1>3

LEMMA BeginCollects ==
    ASSUME CollectInv, NEW u \in Underlying, NEW ps \in SUBSET Position, BeginPass(u, ps)
    PROVE  LpTypeOK' /\ Asked' /\ Complete'
<1>1. /\ lpSym' = u /\ held' = ps /\ level' = 0 /\ selected' = {} /\ toFetch' = {}
      /\ answered' = {} /\ passes < MaxPasses /\ passes' = passes + 1
      /\ lpPc' \in {"idle", "held", "level"} /\ (lpPc' = "held" => DesiredOptionType' = "none")
      /\ UNCHANGED <<greeks, lpNow>>
  BY DEF BeginPass
<1>2. LpTypeOK'
  <2>1. passes' \in 0 .. MaxPasses /\ 0 \in 0 .. 2 * Radius + 1
    BY <1>1, LivePassAssumption DEF CollectInv, LpTypeOK
  <2> QED
    BY <1>1, <2>1 DEF CollectInv, LpTypeOK
<1>3. Asked'
  <2>1. Len(AtmExpansionLevels(u)) \in 0 .. 2 * Radius + 1
    BY LevelsReach
  <2>2. 0 <= Len(AtmExpansionLevels(u)) /\ 1 .. 0 = {}
    BY <2>1
  <2> QED
    BY <1>1, <2>2 DEF Asked
<1>4. Complete'
  BY <1>1 DEF Complete, Collected
<1> QED
  BY <1>2, <1>3, <1>4

LEMMA LevelCollects ==
    ASSUME CollectInv, AskLevel
    PROVE  LpTypeOK' /\ Asked' /\ Complete'
<1>1. /\ lpPc = "level"
      /\ UNCHANGED <<lpSym, held, greeks, lpNow, lpBegan, passes>>
  BY DEF AskLevel
<1>2. lpSym \in Underlying /\ level \in Nat /\ Radius \in Nat
  BY LivePassAssumption DEF CollectInv, LpTypeOK
<1>3. PICK n \in 0 .. 2 * Radius + 1 : n = Len(AtmExpansionLevels(lpSym))
  BY <1>2, LevelsReach
<1>4. /\ DesiredOptionType' = DesiredOptionType
      /\ \A k : LevelContracts(k)' = LevelContracts(k)
  BY <1>1, DirectionKept
<1>5. CASE level = n /\ lpPc' = "held" /\ UNCHANGED <<level, selected, toFetch, answered, optQuotes>>
  <2>1. AllNear'
    BY <1>1, <1>3, <1>5, AllAsked, AllNearKept
  <2>2. LpTypeOK'
    BY <1>1, <1>5 DEF CollectInv, LpTypeOK
  <2>3. Asked'
    BY <1>5 DEF Asked
  <2> QED
    BY <2>1, <2>2, <2>3 DEF Complete
<1>6. CASE /\ level < n /\ level' = level + 1
           /\ selected' = selected \cup LevelContracts(level + 1)
           /\ \/ UNCHANGED <<lpPc, toFetch, answered, optQuotes>>
              \/ OptionQuotes(LevelContracts(level + 1), "fetch")
              \/ lpPc' = "idle" /\ UNCHANGED <<toFetch, answered, optQuotes>>
  <2>1. LevelContracts(level + 1) \in SUBSET Codes
    BY <1>2, LevelInChain
  <2>2. toFetch' \subseteq Codes /\ answered' \subseteq Codes /\ lpPc' \in {"level", "fetch", "idle"}
    <3>1. CASE OptionQuotes(LevelContracts(level + 1), "fetch")
      BY <2>1, <3>1, QuotesType DEF CollectInv, LpTypeOK
    <3>2. CASE UNCHANGED <<toFetch, answered>> /\ (lpPc' = lpPc \/ lpPc' = "idle")
      BY <1>1, <3>2 DEF CollectInv, LpTypeOK
    <3> QED
      BY <1>6, <3>1, <3>2
  <2>3. level' \in 0 .. 2 * Radius + 1
    BY <1>2, <1>3, <1>6
  <2>4. LpTypeOK'
    BY <1>1, <1>6, <2>1, <2>2, <2>3 DEF CollectInv, LpTypeOK
  <2>5. Asked'
    <3>1. level' <= n
      BY <1>2, <1>3, <1>6
    <3>2. ASSUME NEW k \in 1 .. level' PROVE LevelContracts(k) \subseteq selected'
      <4>1. k = level + 1 \/ k \in 1 .. level
        BY <1>2, <1>6
      <4>2. k \in 1 .. level => LevelContracts(k) \subseteq selected
        BY <1>1 DEF CollectInv, Asked
      <4> QED
        BY <1>6, <4>1, <4>2
    <3>3. \A k \in 1 .. level' : LevelContracts(k)' \subseteq selected'
      BY <1>4, <3>2
    <3> QED
      BY <1>1, <1>3, <3>1, <3>3 DEF Asked
  <2>6. Complete'
    BY <2>2 DEF Complete, Collected
  <2> QED
    BY <2>4, <2>5, <2>6
<1> QED
  BY <1>3, <1>5, <1>6 DEF AskLevel

LEMMA AskedKept ==
    ASSUME CollectInv, UNCHANGED <<lpSym, held, level, selected>>,
           lpPc' \in {"level", "fetch"} => lpPc \in {"level", "fetch"}
    PROVE  Asked'
<1>1. \A k : LevelContracts(k)' = LevelContracts(k)
  BY DirectionKept
<1> QED
  BY <1>1 DEF CollectInv, Asked

LEMMA FetchCollects ==
    ASSUME CollectInv, NEW c \in Codes, FetchOptionQuote(c)
    PROVE  LpTypeOK' /\ Asked' /\ Complete'
<1>1. /\ lpPc \in {"fetch", "heldFetch"} /\ lpNow < MaxTime
      /\ lpNow' = lpNow + 1 /\ toFetch' = toFetch \ {c}
      /\ \/ /\ greeks' = [greeks EXCEPT ![c] = lpNow + 1]
            /\ optQuotes' = [optQuotes EXCEPT ![c] =
                  [at |-> IF c \in answered THEN @.at ELSE lpNow + 1, greeks |-> lpNow + 1]]
         \/ UNCHANGED <<greeks, optQuotes>>
      /\ UNCHANGED <<lpPc, lpSym, held, level, selected, answered, lpBegan, passes>>
  BY DEF FetchOptionQuote
<1>2. lpNow \in Nat /\ MaxTime \in Nat
  BY LivePassAssumption DEF CollectInv, LpTypeOK
<1>3. LpTypeOK'
  <2>1. lpNow + 1 \in 0 .. MaxTime /\ lpNow + 1 \in -1 .. MaxTime
    BY <1>1, <1>2
  <2>2. greeks' \in [Codes -> -1 .. MaxTime]
    BY <1>1, <2>1 DEF CollectInv, LpTypeOK
  <2>3. toFetch' \subseteq Codes
    BY <1>1 DEF CollectInv, LpTypeOK
  <2> QED
    BY <1>1, <2>1, <2>2, <2>3 DEF CollectInv, LpTypeOK
<1>4. Asked'
  BY <1>1, AskedKept
<1>5. Complete'
  <2>1. CASE lpPc = "fetch"
    BY <1>1, <2>1 DEF Complete, Collected
  <2>2. CASE lpPc = "heldFetch"
    <3>1. DesiredOptionType' = DesiredOptionType
      BY <1>1, DirectionKept
    <3>2. AllNear => AllNear'
      BY <1>1, AllNearKept
    <3>3. \A d \in Codes : optQuotes[d].greeks # -1 => optQuotes'[d].greeks # -1
      <4>1. optQuotes \in [Codes -> [at : Int, greeks : Int]] /\ lpNow + 1 # -1
        BY <1>2 DEF CollectInv, GreeksInv
      <4> QED
        BY <1>1, <4>1
    <3>4. GoodKept => GoodKept'
      <4>1. selected \subseteq Codes
        BY DEF CollectInv, LpTypeOK
      <4> QED
        BY <1>1, <3>3, <4>1 DEF GoodKept
    <3> QED
      BY <1>1, <2>2, <3>1, <3>2, <3>4 DEF CollectInv, Complete, Collected
  <2> QED
    BY <1>1, <2>1, <2>2
<1> QED
  BY <1>3, <1>4, <1>5

LEMMA PageCollects ==
    ASSUME CollectInv, EndPage
    PROVE  LpTypeOK' /\ Asked' /\ Complete'
<1>1. /\ \/ lpPc = "fetch" /\ lpPc' = "held" /\ Enough
         \/ lpPc = "fetch" /\ lpPc' = "level"
         \/ lpPc = "heldFetch" /\ lpPc' = "evaluate"
      /\ UNCHANGED <<lpSym, held, level, selected, toFetch, answered, optQuotes, greeks,
                     lpNow, lpBegan, passes>>
  BY DEF EndPage, Enough
<1>2. LpTypeOK'
  BY <1>1 DEF CollectInv, LpTypeOK
<1>3. Asked'
  BY <1>1, AskedKept
<1>4. Complete'
  <2>1. DesiredOptionType' = DesiredOptionType
    BY <1>1, DirectionKept
  <2>2. Enough' = Enough
    BY <1>1 DEF Enough, QualityCandidates, ValidQuote
  <2>3. GoodKept' = GoodKept
    BY <1>1 DEF GoodKept
  <2>4. AllNear => AllNear'
    BY <1>1, AllNearKept
  <2> QED
    BY <1>1, <2>1, <2>2, <2>3, <2>4 DEF CollectInv, Complete, Collected
<1> QED
  BY <1>2, <1>3, <1>4

LEMMA HeldCollects ==
    ASSUME CollectInv, AskHeld
    PROVE  LpTypeOK' /\ Asked' /\ Complete'
<1>1. PICK symbols \in SUBSET UnquotedLegs : OptionQuotes(symbols, "heldFetch")
  BY DEF AskHeld
<1>2. /\ lpPc = "held"
      /\ UNCHANGED <<lpSym, held, level, selected, greeks, lpNow, lpBegan, passes>>
  BY DEF AskHeld
<1>3. symbols \in SUBSET Codes
  BY LegsInCodes DEF CollectInv
<1>4. /\ answered' \subseteq Codes /\ toFetch' \subseteq Codes /\ lpPc' = "heldFetch"
      /\ \A c \in Codes \ symbols : optQuotes'[c] = optQuotes[c]
  BY <1>1, <1>3, QuotesType DEF CollectInv, LpTypeOK
<1>5. LpTypeOK'
  BY <1>2, <1>4 DEF CollectInv, LpTypeOK
<1>6. Asked'
  BY <1>4 DEF Asked
<1>7. GoodKept => GoodKept'
  <2>1. \A c \in symbols : optQuotes[c].greeks = -1
    BY DEF UnquotedLegs, NoQuote
  <2>2. selected \subseteq Codes
    BY DEF CollectInv, LpTypeOK
  <2>3. \A c \in selected : optQuotes[c].greeks # -1 => optQuotes'[c].greeks # -1
    BY <1>4, <2>1, <2>2
  <2> QED
    BY <1>2, <2>3 DEF GoodKept
<1>8. Complete'
  <2>1. DesiredOptionType' = DesiredOptionType
    BY <1>2, DirectionKept
  <2>2. AllNear => AllNear'
    BY <1>2, AllNearKept
  <2>3. Enough => GoodKept'
    BY <1>7, EnoughKept
  <2> QED
    BY <1>2, <1>4, <2>1, <2>2, <2>3 DEF CollectInv, Complete, Collected
<1> QED
  BY <1>5, <1>6, <1>8

LEMMA CollectStep == CollectInv /\ [LpNext]_lpVars => CollectInv'
<1> SUFFICES ASSUME CollectInv, [LpNext]_lpVars PROVE CollectInv'
  OBVIOUS
<1>1. GreeksInv'
  BY GreeksStep DEF CollectInv
<1>2. CASE \E u \in Underlying, ps \in SUBSET Position : BeginPass(u, ps)
  BY <1>1, <1>2, BeginCollects DEF CollectInv
<1>3. CASE AskLevel
  BY <1>1, <1>3, LevelCollects DEF CollectInv
<1>4. CASE EndPage
  BY <1>1, <1>4, PageCollects DEF CollectInv
<1>5. CASE AskHeld
  BY <1>1, <1>5, HeldCollects DEF CollectInv
<1>6. CASE \E c \in Codes : FetchOptionQuote(c)
  BY <1>1, <1>6, FetchCollects DEF CollectInv
<1>7. CASE EndPass
  <2>1. /\ lpPc' = "idle" /\ level' = 0 /\ selected' = {} /\ answered' = {}
        /\ UNCHANGED <<lpSym, held, toFetch, greeks, lpNow, lpBegan, passes>>
    BY <1>7 DEF EndPass
  <2>2. 0 \in 0 .. 2 * Radius + 1
    BY LivePassAssumption
  <2>3. LpTypeOK'
    BY <2>1, <2>2 DEF CollectInv, LpTypeOK
  <2>4. Asked' /\ Complete'
    BY <2>1 DEF Asked, Complete, Collected
  <2> QED
    BY <1>1, <2>3, <2>4 DEF CollectInv
<1>8. CASE LpTick
  <2>1. /\ lpPc = "idle" /\ lpNow < MaxTime /\ lpNow' = lpNow + 1
        /\ UNCHANGED <<lpPc, lpSym, held, level, selected, toFetch, answered, optQuotes, greeks,
                       lpBegan, passes>>
    BY <1>8 DEF LpTick
  <2>2. lpNow' \in 0 .. MaxTime
    BY <2>1, LivePassAssumption DEF CollectInv, LpTypeOK
  <2>3. LpTypeOK'
    BY <2>1, <2>2 DEF CollectInv, LpTypeOK
  <2>4. Asked' /\ Complete'
    BY <2>1 DEF Asked, Complete, Collected
  <2> QED
    BY <1>1, <2>3, <2>4 DEF CollectInv
<1>9. CASE UNCHANGED lpVars
  <2>1. UNCHANGED <<lpPc, lpSym, held, level, selected, toFetch, answered, optQuotes, greeks,
                    lpNow, lpBegan, passes>>
    BY <1>9 DEF lpVars
  <2>2. LpTypeOK'
    BY <2>1 DEF CollectInv, LpTypeOK
  <2>3. Asked'
    BY <2>1, AskedKept
  <2>4. Complete'
    <3>1. DesiredOptionType' = DesiredOptionType
      BY <2>1, DirectionKept
    <3>2. Enough' = Enough
      BY <2>1 DEF Enough, QualityCandidates, ValidQuote
    <3>3. GoodKept' = GoodKept
      BY <2>1 DEF GoodKept
    <3>4. AllNear => AllNear'
      BY <2>1, AllNearKept
    <3> QED
      BY <2>1, <3>1, <3>2, <3>3, <3>4 DEF CollectInv, Complete, Collected
  <2> QED
    BY <1>1, <2>2, <2>3, <2>4 DEF CollectInv
<1> QED
  BY <1>2, <1>3, <1>4, <1>5, <1>6, <1>7, <1>8, <1>9 DEF LpNext

\* A pass ends its expansion with enough candidates or with every contract of its
\* direction within the radius, however short one side of the chain is and whatever the
\* gateway leaves out, and on greeks of the allowed age (collectOptionQuotes,
\* atmExpansionLevels, fetchOptionQuote): for any chain, price, radius and limits.
THEOREM QuotesSound == LpSpec => []QuotesAreSound
<1>1. LpInit => CollectInv
  <2> SUFFICES ASSUME LpInit PROVE CollectInv
    OBVIOUS
  <2>1. GreeksInv
    BY DEF LpInit, GreeksInv, NoQuote
  <2>2. LpTypeOK
    <3>1. /\ 0 \in 0 .. 2 * Radius + 1 /\ 0 \in 0 .. MaxTime /\ 0 \in 0 .. MaxPasses
          /\ -1 \in -1 .. MaxTime
      BY LivePassAssumption
    <3> QED
      BY <3>1 DEF LpInit, LpTypeOK
  <2>3. Asked /\ Complete
    BY DEF LpInit, Asked, Complete, Collected
  <2> QED
    BY <2>1, <2>2, <2>3 DEF CollectInv
<1>2. CollectInv => QuotesAreSound
  <2>1. GreeksInv => GreeksAgeBounded
    BY DEF GreeksInv, GreeksAgeBounded
  <2> QED
    BY <2>1, CompleteIs DEF CollectInv, QuotesAreSound
<1> QED
  BY <1>1, <1>2, CollectStep, PTL DEF LpSpec
=============================================================================
