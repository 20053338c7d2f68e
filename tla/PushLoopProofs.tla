--------------------------- MODULE PushLoopProofs ---------------------------
(***************************************************************************)
(* What the push loop may send and pass over, for any number of signals    *)
(* and chats, any size of the batch and any faults.                        *)
(*                                                                         *)
(* The argument.  The cursor is a waterline: a row that was committed      *)
(* before the loop came past it is either ahead of the cursor, still to be *)
(* looked at, or was put behind for a reason that lasts.  What makes the   *)
(* reasons last is that a review ends once: after the approval or the      *)
(* rejection of a signal, or the close of its retry window, nothing more   *)
(* is recorded of it.  And a chat that has the card of a signal is either  *)
(* remembered in sentChats or the signal is behind the cursor for good, so *)
(* that no chat gets the card again, unless a reply was lost.              *)
(***************************************************************************)
EXTENDS PushLoop, FiniteSetTheorems, WellFoundedInduction, TLAPS

Judging  == {"rejected", "failed", "fresh"}
Deciding == Reading \cup {"send"}
Seen     == visible \ unseen

\* The rows of a batch are ahead of the cursor, and until a row must be retried no
\* other row is between them.
Waterline ==
    /\ \A b \in batch : cursor < b
    /\ pc \in Deciding => cur \notin handled
    /\ pc = "seed" => batch = {} /\ handled = {} /\ seed = cursor
    /\ ~pending => \A b \in batch, s \in Seen : cursor < s /\ s < b => s \in batch

\* A review ends with its verdict, or with the close of the window for its retry.
ReviewsEnd ==
    /\ \A s \in Signal : "REJECTED" \in acts[s] => ~Approved(s)
    /\ \A s \in Signal : "REJECTED" \in acts[s] \/ Approved(s) => auditor[s] = "done"
    /\ \A s \in cold : auditor[s] = "done"
    /\ \A s \in Signal \ visible : auditor[s] = "none"
    /\ pc \in Judging /\ cur \in cold => ~Approved(cur)

\* A chat that answered has the card; pushSignal succeeds when every chat has it.
Delivered ==
    /\ \A s \in Signal : \A c \in sentChats[s] : cards[s][c] > 0
    /\ pc = "send" => Approved(cur) /\ \A c \in Chats \ todo : retry \/ cards[cur][c] > 0

\* Why a row may be put behind the loop, for good.
Settled(s) ==
    \/ s \in old \cup Unrenderable
    \/ dismissed # "no"
    \/ \A c \in Chats : cards[s][c] > 0
    \/ auditor[s] = "done" /\ ~Approved(s)

BehindIsSettled ==
    \A s \in Seen : s > seed /\ (s <= cursor \/ s \in handled) => Settled(s)

IndInv ==
    /\ TypeOK
    /\ Waterline
    /\ ReviewsEnd
    /\ Delivered
    /\ OnlyApprovedIsCarded
    /\ BehindIsSettled

\* A chat with the card of a row the loop may still come to is remembered.
Remembered ==
    /\ \A s \in Signal, c \in Chats : cards[s][c] > 0 =>
           /\ s \in visible
           /\ pc = "seed" \/ s <= cursor \/ s \in handled \/ c \in sentChats[s]
    /\ pc = "send" => todo \cap sentChats[cur] = {}

OnceInv == HealthyChatOneCard /\ Remembered
-----------------------------------------------------------------------------

\* A nonempty set of natural numbers has a least element, and Min is it.
LEMMA MinIsLeast ==
    ASSUME NEW S \in SUBSET Nat, S # {}
    PROVE  Min(S) \in S /\ \A x \in S : Min(S) <= x
<1> DEFINE less == {ss \in Nat \X Nat : ss[1] < ss[2]}
<1>1. IsWellFoundedOn(less, Nat)
  BY NatLessThanWellFounded, Zenon DEF OpToRel
<1> HIDE DEF less
<1>2. \E x \in S : \A y \in S : <<y, x>> \notin less
  <2>1. S \subseteq Nat
    OBVIOUS
  <2> QED
    BY <1>1, <2>1, WFMin, Zenon
<1>3. \A x, y \in Nat : <<y, x>> \notin less => x <= y
  BY DEF less
<1>4. \E x \in S : \A y \in S : x <= y
  BY <1>2, <1>3
<1> QED
  BY <1>4 DEF Min

\* A nonempty bounded set of natural numbers has a greatest element, and Max is it.
LEMMA MaxIsGreatest ==
    ASSUME NEW S \in SUBSET Nat, S # {}, NEW b \in Nat, \A x \in S : x <= b
    PROVE  Max(S) \in S /\ \A x \in S : x <= Max(S)
<1> DEFINE below == {b - x : x \in S}
<1>1. below \in SUBSET Nat /\ below # {}
  <2>1. \A x \in S : x \in Nat /\ b - x \in Nat
    OBVIOUS
  <2> QED
    BY <2>1
<1>2. PICK m \in below : \A y \in below : m <= y
  BY <1>1, MinIsLeast
<1>3. PICK x \in S : m = b - x
  BY <1>2
<1>4. \A y \in S : y <= x
  <2> SUFFICES ASSUME NEW y \in S PROVE y <= x
    OBVIOUS
  <2>1. m <= b - y
    BY <1>2
  <2> QED
    BY <1>3, <2>1
<1> QED
  BY <1>4 DEF Max

\* Signals are numbered from 1, and a row the loop is at is the first of its batch.
LEMMA CurFacts ==
    ASSUME TypeOK
    PROVE  /\ MaxSignals \in Nat /\ Signal \subseteq Nat \ {0}
           /\ \A s \in Signal : s <= MaxSignals
           /\ cursor \in Nat /\ seed \in Nat
           /\ visible \subseteq Signal /\ batch \subseteq visible
           /\ batch # {} => cur \in batch /\ \A b \in batch : cur <= b
           /\ pc \in Deciding => batch # {} /\ cur \in Signal /\ cur \in visible
<1>1. MaxSignals \in Nat /\ Signal \subseteq Nat \ {0} /\ \A s \in Signal : s <= MaxSignals
  BY ConstantsAssumption DEF Signal
<1>2. cursor \in Nat /\ seed \in Nat /\ visible \subseteq Signal /\ batch \subseteq visible
  BY <1>1 DEF TypeOK
<1>3. batch \in SUBSET Nat
  BY <1>1, <1>2
<1>4. batch # {} => cur \in batch /\ \A b \in batch : cur <= b
  BY <1>3, MinIsLeast DEF cur
<1>5. pc \in Deciding => batch # {}
  BY DEF TypeOK, Deciding
<1> QED
  BY <1>1, <1>2, <1>4, <1>5

\* MaxSignalID returns the largest committed id, or zero.
LEMMA MaxFacts ==
    ASSUME TypeOK
    PROVE  /\ Max({0} \cup visible) \in 0 .. MaxSignals
           /\ \A s \in visible : s <= Max({0} \cup visible)
<1>1. {0} \cup visible \in SUBSET Nat /\ \A s \in {0} \cup visible : s <= MaxSignals
  BY CurFacts
<1>2. Max({0} \cup visible) \in {0} \cup visible
      /\ \A s \in {0} \cup visible : s <= Max({0} \cup visible)
  BY <1>1, CurFacts, MaxIsGreatest
<1> QED
  BY <1>1, <1>2, CurFacts

\* What a retried and what a settled row do to the loop's own state keeps its type.
LEMMA EndOfRowType ==
    ASSUME TypeOK, Waterline, pc \in Deciding, Retry \/ Settle,
           UNCHANGED <<visible, seed>>
    PROVE  /\ cursor' \in seed' .. MaxSignals /\ handled' \subseteq visible'
           /\ sentChats' \in [Signal -> SUBSET Chats]
           /\ batch' \subseteq visible' /\ pending' \in BOOLEAN /\ pc' = "next"
<1> USE CurFacts DEF TypeOK
<1>1. CASE Retry
  BY <1>1 DEF Retry
<1>2. CASE Settle
  <2>1. cursor' \in {cursor, cur} /\ batch' = batch \ {cur} /\ pending' = pending
    BY <1>2 DEF Settle, Advance
  <2>2. cur \in visible /\ cursor < cur
    BY DEF Waterline
  <2>3. cursor' \in seed .. MaxSignals
    BY <2>1, <2>2
  <2> QED
    BY <1>2, <2>1, <2>2, <2>3 DEF Settle
<1> QED
  BY <1>1, <1>2

\* TypeOK is preserved by the loop.
LEMMA TypeLoop == IndInv /\ Loop => TypeOK'
<1> SUFFICES ASSUME IndInv, Loop PROVE TypeOK'
  OBVIOUS
<1>0. TypeOK /\ Waterline
  BY DEF IndInv
<1> USE <1>0, CurFacts DEF TypeOK, Reading, Deciding, storeVars, worldVars, passVars, alertVars
<1>1. CASE MaxSignalID
  BY <1>1, MaxFacts DEF MaxSignalID
<1>2. CASE Tick
  BY <1>2 DEF Tick, QuerySignalsSince
<1>3. CASE NextRow
  <2>1. CASE batch # {} /\ cur \in handled /\ Advance
    <3>1. cursor' \in {cursor, cur} /\ cursor < cur
      BY <2>1 DEF Advance, Waterline
    <3>2. cursor' \in seed .. MaxSignals
      BY <2>1, <3>1
    <3>3. pc = "next" /\ UNCHANGED <<pc, handled, sentChats>>
      BY <1>3, <2>1 DEF NextRow
    <3>4. batch' = batch \ {cur} /\ pending' = pending
      BY <2>1 DEF Advance
    <3>5. UNCHANGED <<storeVars, worldVars, cards, seed, todo, retry, alertVars>>
      BY <1>3 DEF NextRow
    <3> QED
      BY <3>2, <3>3, <3>4, <3>5
  <2>2. CASE batch # {} /\ cur \notin handled
    BY <1>3, <2>2 DEF NextRow
  <2>3. CASE batch = {}
    BY <1>3, <2>3 DEF NextRow
  <2> QED
    BY <1>3, <2>1, <2>2, <2>3 DEF NextRow
<1>4. CASE IsDismissed
  BY <1>4, EndOfRowType DEF IsDismissed, Read, Proceed
<1>5. CASE LatestLLMReview
  BY <1>5, EndOfRowType DEF LatestLLMReview, Proceed
<1>6. CASE IsRejected
  BY <1>6, EndOfRowType DEF IsRejected, Read, Proceed
<1>7. CASE IsFailed
  <2>1. pc = "failed" /\ UNCHANGED <<storeVars, worldVars, cards, seed, todo, retry>>
    BY <1>7 DEF IsFailed
  <2>2. cooling' \in BOOLEAN /\ alerted' \subseteq visible
    BY <1>7 DEF IsFailed, AlertLLMGate
  <2>3. CASE Proceed("fresh")
    BY <2>1, <2>2, <2>3 DEF Proceed
  <2>4. CASE Retry \/ Settle
    BY <2>1, <2>2, <2>4, EndOfRowType
  <2> QED
    BY <1>7, <2>3, <2>4 DEF IsFailed
<1>8. CASE IsFresh
  BY <1>8, EndOfRowType DEF IsFresh
<1>9. CASE SendEnds
  BY <1>9, EndOfRowType DEF SendEnds
<1>10. ASSUME NEW c \in Chats, SendMessage(c) PROVE TypeOK'
  BY <1>10 DEF SendMessage, Received
<1>11. ASSUME NEW c \in Chats, SendFails(c) PROVE TypeOK'
  BY <1>11 DEF SendFails, Received
<1> QED
  BY <1>1, <1>2, <1>3, <1>4, <1>5, <1>6, <1>7, <1>8, <1>9, <1>10, <1>11 DEF Loop

\* TypeOK is preserved.
LEMMA TypeStep == IndInv /\ [Next]_vars => TypeOK'
<1> SUFFICES ASSUME IndInv, [Next]_vars PROVE TypeOK'
  OBVIOUS
<1>0. TypeOK
  BY DEF IndInv
<1> USE <1>0, CurFacts DEF TypeOK, Reading, storeVars, worldVars, passVars, alertVars, ReviewKind
<1>1. ASSUME NEW s \in Signal, AppendSignal(s) PROVE TypeOK'
  BY <1>1 DEF AppendSignal
<1>2. ASSUME NEW s \in Signal, Age(s) \/ RetryWindowCloses(s) PROVE TypeOK'
  <2>1. s \in visible
    BY <1>2 DEF Age, RetryWindowCloses, IndInv, ReviewsEnd
  <2> QED
    BY <1>2, <2>1 DEF Age, RetryWindowCloses
<1>3. ASSUME NEW s \in Signal, NEW kind \in ReviewKind, RecordLLMGate(s, kind) PROVE TypeOK'
  BY <1>3 DEF RecordLLMGate
<1>4. CASE Dismiss \/ NextDay \/ AlertCooldownEnds \/ UNCHANGED vars
  <2>1. CASE Dismiss
    BY <2>1 DEF Dismiss
  <2>2. CASE NextDay
    BY <2>2 DEF NextDay
  <2>3. CASE AlertCooldownEnds
    BY <2>3 DEF AlertCooldownEnds
  <2>4. CASE UNCHANGED vars
    BY <2>4 DEF vars
  <2> QED
    BY <1>4, <2>1, <2>2, <2>3, <2>4
<1>5. CASE Restart
  <2>1. auditor' \in [Signal -> {"none", "first", "again", "done"}]
    BY <1>5 DEF Restart
  <2>2. sentChats' \in [Signal -> SUBSET Chats]
    BY <1>5 DEF Restart
  <2>3. pc' = "seed" /\ seed' = 0 /\ cursor' \in 0 .. MaxSignals
    BY <1>5 DEF Restart
  <2>4. handled' = {} /\ batch' = {} /\ todo' = {} /\ {pending', retry', cooling'} \subseteq BOOLEAN
    BY <1>5 DEF Restart
  <2> QED
    BY <1>5, <2>1, <2>2, <2>3, <2>4 DEF Restart
<1> QED
  BY <1>1, <1>2, <1>3, <1>4, <1>5, TypeLoop DEF Next, World

-----------------------------------------------------------------------------

\* What every step leaves true: rows, ages, dismissals, records and cards are never
\* taken back, and nothing more is recorded once a review has ended.
HistoryKept ==
    /\ visible \subseteq visible' /\ unseen \subseteq unseen' /\ old \subseteq old'
    /\ dismissed # "no" => dismissed' # "no"
    /\ \A s \in Signal : acts[s] \subseteq acts'[s]
    /\ \A s \in Signal, c \in Chats : cards[s][c] > 0 => cards'[s][c] > 0
    /\ \A s \in Signal : auditor[s] = "done" => auditor'[s] = "done" /\ acts'[s] = acts[s]

LEMMA HistoryStep == IndInv /\ [Next]_vars => HistoryKept
<1> SUFFICES ASSUME IndInv, [Next]_vars PROVE HistoryKept
  OBVIOUS
<1>0. TypeOK /\ ReviewsEnd
  BY DEF IndInv
<1> USE <1>0, CurFacts DEF HistoryKept, storeVars, worldVars, passVars, alertVars
<1>1. ASSUME UNCHANGED <<storeVars, worldVars, cards>> PROVE HistoryKept
  BY <1>1
<1>2. CASE MaxSignalID \/ Tick \/ NextRow \/ IsDismissed \/ LatestLLMReview \/ IsRejected
           \/ IsFailed \/ IsFresh \/ SendEnds
  BY <1>1, <1>2 DEF MaxSignalID, Tick, NextRow, IsDismissed, LatestLLMReview, IsRejected, IsFailed,
     IsFresh, SendEnds, Read
<1>3. ASSUME NEW c \in Chats, SendMessage(c) \/ SendFails(c) PROVE HistoryKept
  <2>1. \A s \in Signal, d \in Chats : cards[s][d] > 0 => cards'[s][d] > 0
    BY <1>3 DEF SendMessage, SendFails, Received, TypeOK
  <2> QED
    BY <1>3, <2>1 DEF SendMessage, SendFails
<1>4. ASSUME NEW s \in Signal, AppendSignal(s) PROVE HistoryKept
  BY <1>4 DEF AppendSignal, TypeOK, ReviewsEnd
<1>5. ASSUME NEW s \in Signal, Age(s) \/ RetryWindowCloses(s) PROVE HistoryKept
  BY <1>5 DEF Age, RetryWindowCloses
<1>6. ASSUME NEW s \in Signal, NEW kind \in ReviewKind, RecordLLMGate(s, kind) PROVE HistoryKept
  BY <1>6 DEF RecordLLMGate, TypeOK
<1>7. CASE Dismiss \/ NextDay \/ AlertCooldownEnds \/ UNCHANGED vars
  BY <1>7 DEF Dismiss, NextDay, AlertCooldownEnds, vars
<1>8. CASE Restart
  BY <1>8 DEF Restart, TypeOK
<1> QED
  BY <1>2, <1>3, <1>4, <1>5, <1>6, <1>7, <1>8 DEF Next, Loop, World

\* A reason for passing over a row lasts.
LEMMA SettledKept ==
    ASSUME HistoryKept, NEW s \in Signal, Settled(s)
    PROVE  Settled(s)'
BY DEF Settled, HistoryKept, Approved

-----------------------------------------------------------------------------
(* The reviews *)

\* The writers and the loop's reads keep a review's end what it is.
LEMMA ReviewsStep == IndInv /\ [Next]_vars => ReviewsEnd'
<1> SUFFICES ASSUME IndInv, [Next]_vars PROVE ReviewsEnd'
  OBVIOUS
<1>0. TypeOK /\ ReviewsEnd
  BY DEF IndInv
<1> USE <1>0, CurFacts DEF storeVars, worldVars, passVars, alertVars
<1>1. ASSUME UNCHANGED <<storeVars, worldVars>>, pc' \notin Judging PROVE ReviewsEnd'
  BY <1>1 DEF ReviewsEnd, Approved
<1>2. ASSUME UNCHANGED <<storeVars, worldVars, batch>>, pc' \in Judging => pc \in Judging \/ ~Approved(cur)
      PROVE  ReviewsEnd'
  BY <1>2 DEF ReviewsEnd, Approved, cur
<1>3. CASE MaxSignalID \/ Tick \/ NextRow \/ SendEnds
  BY <1>1, <1>3 DEF MaxSignalID, Tick, NextRow, SendEnds, Retry, Settle, Judging
<1>4. CASE IsDismissed \/ LatestLLMReview \/ IsRejected
  BY <1>1, <1>2, <1>4 DEF IsDismissed, LatestLLMReview, IsRejected, Read, Retry, Settle, Proceed, Judging,
     Approved
<1>5. CASE IsFailed \/ IsFresh
  BY <1>1, <1>2, <1>5 DEF IsFailed, IsFresh, Retry, Settle, Proceed, Judging
<1>6. ASSUME NEW c \in Chats, SendMessage(c) \/ SendFails(c) PROVE ReviewsEnd'
  BY <1>1, <1>6 DEF SendMessage, SendFails, Judging
<1>7. ASSUME NEW s \in Signal, AppendSignal(s) PROVE ReviewsEnd'
  <2>1. cur' = cur /\ pc' = pc /\ acts' = acts /\ cold' = cold
    BY <1>7 DEF AppendSignal, cur
  <2>2. \A q \in Signal \ {s} : auditor'[q] = auditor[q]
    BY <1>7 DEF AppendSignal, TypeOK
  <2>3. auditor[s] = "none" /\ visible' = visible \cup {s} /\ s \notin cold
    BY <1>7 DEF AppendSignal, ReviewsEnd, TypeOK
  <2>4. "REJECTED" \notin acts[s] /\ "LLM_REVIEW" \notin acts[s]
    BY <2>3 DEF ReviewsEnd, Approved
  <2>5. \A q \in Signal : "REJECTED" \in acts'[q] => "LLM_REVIEW" \notin acts'[q]
    BY <2>1 DEF ReviewsEnd, Approved
  <2>6. \A q \in Signal : "REJECTED" \in acts'[q] \/ "LLM_REVIEW" \in acts'[q] => auditor'[q] = "done"
    BY <2>1, <2>2, <2>4 DEF ReviewsEnd, Approved
  <2>7. \A q \in cold' : auditor'[q] = "done"
    BY <2>1, <2>2, <2>3 DEF ReviewsEnd, TypeOK
  <2>8. \A q \in Signal \ visible' : auditor'[q] = "none"
    BY <2>2, <2>3 DEF ReviewsEnd
  <2>9. pc' \in Judging /\ cur' \in cold' => "LLM_REVIEW" \notin acts'[cur']
    BY <2>1 DEF ReviewsEnd, Approved
  <2> QED
    BY <2>5, <2>6, <2>7, <2>8, <2>9 DEF ReviewsEnd, Approved
<1>8. ASSUME NEW s \in Signal, RetryWindowCloses(s) PROVE ReviewsEnd'
  <2>1. cur' = cur /\ UNCHANGED <<acts, auditor, visible, pc>> /\ cold' = cold \cup {s}
    BY <1>8 DEF RetryWindowCloses, cur
  <2>2. auditor[s] = "done" /\ (pc \in Judging => cur # s)
    BY <1>8 DEF RetryWindowCloses, Judging, Reading
  <2> QED
    BY <2>1, <2>2 DEF ReviewsEnd, Approved
<1>9. ASSUME NEW s \in Signal, NEW kind \in ReviewKind, RecordLLMGate(s, kind) PROVE ReviewsEnd'
  <2>1. /\ cur' = cur /\ UNCHANGED <<visible, pc>> /\ cold' = cold \ {s}
        /\ acts'[s] = acts[s] \cup {kind}
        /\ \A q \in Signal \ {s} : acts'[q] = acts[q] /\ auditor'[q] = auditor[q]
    BY <1>9 DEF RecordLLMGate, TypeOK, cur
  <2>2. auditor[s] \notin {"none", "done"} /\ "REJECTED" \notin acts[s] /\ "LLM_REVIEW" \notin acts[s]
    BY <1>9 DEF RecordLLMGate, ReviewsEnd, Approved
  <2>3. kind # "LLM_REVIEW_FAILED" => auditor'[s] = "done"
    BY <1>9 DEF RecordLLMGate, TypeOK
  <2>4. \A q \in Signal : "REJECTED" \in acts'[q] => "LLM_REVIEW" \notin acts'[q]
    BY <2>1, <2>2 DEF ReviewsEnd, Approved
  <2>5. \A q \in Signal : "REJECTED" \in acts'[q] \/ "LLM_REVIEW" \in acts'[q] => auditor'[q] = "done"
    BY <2>1, <2>2, <2>3 DEF ReviewsEnd, Approved
  <2>6. \A q \in cold' : auditor'[q] = "done"
    BY <2>1 DEF ReviewsEnd, TypeOK
  <2>7. \A q \in Signal \ visible' : auditor'[q] = "none"
    BY <2>1, <2>2 DEF ReviewsEnd
  <2>8. pc' \in Judging /\ cur' \in cold' => "LLM_REVIEW" \notin acts'[cur']
    BY <2>1 DEF ReviewsEnd, Approved, TypeOK
  <2> QED
    BY <2>4, <2>5, <2>6, <2>7, <2>8 DEF ReviewsEnd, Approved
<1>10. CASE (\E s \in Signal : Age(s)) \/ Dismiss \/ NextDay \/ AlertCooldownEnds \/ UNCHANGED vars
  <2>1. UNCHANGED <<visible, acts, cold, auditor, pc, batch>>
    BY <1>10 DEF Age, Dismiss, NextDay, AlertCooldownEnds, vars
  <2> QED
    BY <2>1 DEF ReviewsEnd, Approved, cur
<1>11. CASE Restart
  <2>1. UNCHANGED <<visible, acts, cold>> /\ pc' \notin Judging
    BY <1>11 DEF Restart, Judging
  <2>2. \A s \in Signal : auditor'[s] = IF auditor[s] = "none" THEN "none" ELSE "done"
    BY <1>11 DEF Restart
  <2> QED
    BY <2>1, <2>2 DEF ReviewsEnd, Approved, TypeOK
<1> QED
  BY <1>3, <1>4, <1>5, <1>6, <1>7, <1>8, <1>9, <1>10, <1>11 DEF Next, Loop, World

-----------------------------------------------------------------------------
(* The loop *)

Books == Waterline /\ Delivered /\ OnlyApprovedIsCarded /\ BehindIsSettled

\* The cursor follows a row that is settled: nothing unsettled comes behind it.
LEMMA AdvanceKeeps ==
    ASSUME IndInv, batch # {}, Advance, cur \in Seen => Settled(cur),
           handled' \subseteq handled \cup {cur}, pc' = "next",
           UNCHANGED <<storeVars, worldVars, cards, seed>>
    PROVE  Waterline' /\ BehindIsSettled'
<1>0. TypeOK /\ Waterline /\ BehindIsSettled
  BY DEF IndInv
<1> USE <1>0, CurFacts DEF storeVars, worldVars
<1>1. /\ cur \in batch /\ cursor < cur /\ batch' = batch \ {cur} /\ pending' = pending
      /\ cursor' \in {cursor, cur} /\ (~pending => cursor' = cur) /\ Seen' = Seen
      /\ Seen \subseteq Nat
      /\ (pending => cursor' = cursor)
  BY DEF Advance, Waterline, Seen
<1>2. Waterline'
  <2>1. \A b \in batch' : cursor' < b
    BY <1>1 DEF Waterline
  <2>2. ~pending' => \A b \in batch', s \in Seen' : cursor' < s /\ s < b => s \in batch'
    BY <1>1 DEF Waterline
  <2> QED
    BY <2>1, <2>2 DEF Waterline, Deciding, Reading
<1>3. BehindIsSettled'
  <2> SUFFICES ASSUME NEW s \in Seen, s > seed, s <= cursor' \/ s \in handled'
               PROVE  Settled(s)'
    BY <1>1 DEF BehindIsSettled
  <2>1. s <= cursor \/ s \in handled \/ s = cur
    BY <1>1 DEF Waterline
  <2>2. Settled(s)
    BY <2>1 DEF BehindIsSettled
  <2> QED
    BY <2>2 DEF Settled, Approved
<1> QED
  BY <1>2, <1>3

\* The end of a row: it is retried, or it was settled for a reason that lasts.
LEMMA EndOfRow ==
    ASSUME IndInv, pc \in Deciding, Retry \/ (Settle /\ Settled(cur)),
           UNCHANGED <<storeVars, worldVars, cards, seed>>
    PROVE  Books'
<1>0. TypeOK /\ Waterline /\ BehindIsSettled /\ Delivered /\ OnlyApprovedIsCarded
  BY DEF IndInv
<1> USE <1>0, CurFacts DEF storeVars, worldVars
<1>1. OnlyApprovedIsCarded'
  BY DEF OnlyApprovedIsCarded, Approved
<1>2. Delivered'
  <2>1. pc' = "next" /\ \A s \in Signal : sentChats'[s] \subseteq sentChats[s]
    BY DEF Retry, Settle, TypeOK
  <2> QED
    BY <2>1 DEF Delivered
<1>3. CASE Retry
  <2>1. /\ pending' /\ batch' \subseteq batch /\ pc' = "next"
        /\ UNCHANGED <<cursor, handled, Seen>>
    BY <1>3 DEF Retry, Seen
  <2>2. Waterline'
    BY <2>1 DEF Waterline, Deciding, Reading
  <2>3. BehindIsSettled'
    BY <2>1 DEF BehindIsSettled, Settled, Approved, Seen
  <2> QED
    BY <1>1, <1>2, <2>2, <2>3 DEF Books
<1>4. CASE Settle /\ Settled(cur)
  <2>1. Advance /\ pc' = "next" /\ handled' = handled \cup {cur}
    BY <1>4 DEF Settle
  <2> QED
    BY <1>1, <1>2, <1>4, <2>1, AdvanceKeeps DEF Books
<1> QED
  BY <1>3, <1>4

\* From one gate to the next nothing moves but the loop's own place.
LEMMA NextGate ==
    ASSUME IndInv, pc \in Deciding, Proceed(pc'), pc' \in Reading,
           UNCHANGED <<storeVars, worldVars, cards, seed>>
    PROVE  Books'
<1>1. UNCHANGED <<cur, Seen, cursor, handled, sentChats, batch, pending>> /\ pc' \in Deciding
  BY DEF Proceed, cur, Deciding, Seen, storeVars, worldVars
<1>2. Waterline'
  BY <1>1 DEF IndInv, Waterline, Reading
<1>3. Delivered'
  BY <1>1 DEF IndInv, Delivered, Reading
<1>4. OnlyApprovedIsCarded' /\ BehindIsSettled'
  BY <1>1 DEF IndInv, OnlyApprovedIsCarded, BehindIsSettled, Settled, Approved, storeVars, worldVars
<1> QED
  BY <1>2, <1>3, <1>4 DEF Books

\* A query returns a prefix of the rows after the cursor.
LEMMA QueryIsPrefix ==
    ASSUME TypeOK, NEW b \in QuerySignalsSince, NEW s \in visible, cursor < s, s < b
    PROVE  s \in QuerySignalsSince
<1> USE CurFacts
<1> DEFINE after == {r \in visible : r > cursor}
           below(x) == {r \in after : r < x}
<1>1. b \in after /\ s \in after /\ Cardinality(below(b)) < Batch
  BY DEF QuerySignalsSince
<1>2. \A x \in after : x \in Nat
  OBVIOUS
<1>3. below(s) \subseteq below(b)
  BY <1>1, <1>2
<1>4. IsFiniteSet(below(b))
  <2>1. below(b) \in SUBSET Nat /\ \A x \in below(b) : x <= MaxSignals
    BY <1>2
  <2> QED
    BY <2>1, FS_BoundedSetOfNaturals
<1>5. Cardinality(below(s)) <= Cardinality(below(b)) /\ Cardinality(below(s)) \in Nat
      /\ Cardinality(below(b)) \in Nat
  BY <1>3, <1>4, FS_Subset, FS_CardinalityType
<1>6. Cardinality(below(s)) < Batch
  BY <1>1, <1>5, ConstantsAssumption
<1> QED
  BY <1>1, <1>6 DEF QuerySignalsSince

\* The loop's own steps.
LEMMA LoopStep == IndInv /\ Loop => Books'
<1> SUFFICES ASSUME IndInv, Loop PROVE Books'
  OBVIOUS
<1>0. TypeOK /\ Waterline /\ BehindIsSettled /\ Delivered /\ OnlyApprovedIsCarded /\ ReviewsEnd
  BY DEF IndInv
<1> USE <1>0, CurFacts DEF storeVars, worldVars
<1>1. CASE MaxSignalID
  <2>1. /\ cursor' = seed' /\ batch' = {} /\ handled' = {} /\ pc' = "tick" /\ sentChats' = sentChats
        /\ UNCHANGED <<storeVars, worldVars, cards>>
    BY <1>1 DEF MaxSignalID, Waterline
  <2>2. cursor' \in Nat /\ Seen' = Seen /\ Seen \subseteq Nat
    BY <1>1, <2>1, MaxFacts DEF MaxSignalID, Seen
  <2>3. Waterline'
    BY <2>1 DEF Waterline, Deciding, Reading
  <2>4. BehindIsSettled'
    BY <2>1, <2>2 DEF BehindIsSettled
  <2>5. Delivered' /\ OnlyApprovedIsCarded'
    BY <2>1 DEF Delivered, OnlyApprovedIsCarded, Approved
  <2> QED
    BY <2>3, <2>4, <2>5 DEF Books
<1>2. CASE Tick
  <2>1. /\ batch' = QuerySignalsSince /\ pc' = "next"
        /\ UNCHANGED <<storeVars, worldVars, cards, seed, cursor, handled, sentChats>>
    BY <1>2 DEF Tick
  <2>2. \A b \in batch' : cursor < b
    BY <2>1 DEF QuerySignalsSince
  <2>3. \A b \in batch', s \in Seen : cursor < s /\ s < b => s \in batch'
    BY <2>1, QueryIsPrefix DEF Seen
  <2>4. Waterline'
    BY <2>1, <2>2, <2>3 DEF Waterline, Deciding, Reading, Seen
  <2>5. BehindIsSettled' /\ Delivered' /\ OnlyApprovedIsCarded'
    BY <2>1 DEF BehindIsSettled, Settled, Delivered, OnlyApprovedIsCarded, Approved, Seen
  <2> QED
    BY <2>4, <2>5 DEF Books
<1>3. CASE NextRow
  <2>0. UNCHANGED <<storeVars, worldVars, cards, seed>> /\ pc = "next"
    BY <1>3 DEF NextRow
  <2>1. CASE batch # {} /\ cur \in handled
    <3>1. Advance /\ UNCHANGED <<pc, handled, sentChats>>
      BY <1>3, <2>1 DEF NextRow
    <3>2. cur \in Seen => Settled(cur)
      BY <2>1 DEF BehindIsSettled, Waterline, TypeOK
    <3>3. Waterline' /\ BehindIsSettled'
      BY <2>0, <2>1, <3>1, <3>2, AdvanceKeeps
    <3>4. Delivered' /\ OnlyApprovedIsCarded'
      BY <2>0, <3>1 DEF Delivered, OnlyApprovedIsCarded, Approved
    <3> QED
      BY <3>3, <3>4 DEF Books
  <2>2. CASE batch # {} /\ cur \notin handled
    <3>1. pc' = "dismissed" /\ UNCHANGED <<cursor, batch, pending, handled, sentChats, cur, Seen>>
      BY <1>3, <2>0, <2>2 DEF NextRow, cur, Seen
    <3>2. Waterline'
      BY <2>2, <3>1 DEF Waterline
    <3>3. BehindIsSettled' /\ Delivered' /\ OnlyApprovedIsCarded'
      BY <2>0, <3>1 DEF BehindIsSettled, Settled, Delivered, OnlyApprovedIsCarded, Approved
    <3> QED
      BY <3>2, <3>3 DEF Books
  <2>3. CASE batch = {}
    <3>1. /\ pc' = "tick" /\ handled' \subseteq handled
          /\ \A s \in Signal : sentChats'[s] \subseteq sentChats[s]
          /\ UNCHANGED <<cursor, batch, pending, Seen>>
      BY <1>3, <2>0, <2>3 DEF NextRow, Seen
    <3>2. Waterline'
      BY <2>3, <3>1 DEF Waterline, Deciding, Reading
    <3>3. BehindIsSettled' /\ Delivered' /\ OnlyApprovedIsCarded'
      BY <2>0, <3>1 DEF BehindIsSettled, Settled, Delivered, OnlyApprovedIsCarded, Approved
    <3> QED
      BY <3>2, <3>3 DEF Books
  <2> QED
    BY <2>1, <2>2, <2>3
<1>4. CASE IsDismissed
  <2>1. CASE Proceed("review")
    BY <1>4, <2>1, NextGate DEF IsDismissed, Read, Proceed, Deciding, Reading
  <2>2. CASE Settle /\ dismissed = "today"
    BY <1>4, <2>2, EndOfRow DEF IsDismissed, Read, Deciding, Reading, Settled
  <2>3. CASE Retry
    BY <1>4, <2>3, EndOfRow DEF IsDismissed, Read, Deciding, Reading
  <2> QED
    BY <1>4, <2>1, <2>2, <2>3 DEF IsDismissed, Read
<1>5. CASE LatestLLMReview
  <2>0. pc = "review" /\ pc \in Deciding /\ UNCHANGED <<storeVars, worldVars, cards, seed>>
    BY <1>5 DEF LatestLLMReview, Deciding, Reading
  <2>1. CASE Approved(cur) /\ todo' = Chats \ sentChats[cur] /\ Proceed("send")
    <3>1. pc' = "send" /\ UNCHANGED <<cursor, batch, pending, handled, sentChats, cur, Seen>>
      BY <2>0, <2>1 DEF Proceed, cur, Seen
    <3>2. Waterline'
      BY <2>0, <3>1 DEF Waterline
    <3>3. Delivered'
      <4>1. Chats \ todo' \subseteq sentChats[cur] /\ acts' = acts /\ cards' = cards
        BY <2>0, <2>1
      <4> QED
        BY <2>0, <2>1, <3>1, <4>1 DEF Delivered, Approved
    <3>4. BehindIsSettled' /\ OnlyApprovedIsCarded'
      BY <2>0, <3>1 DEF BehindIsSettled, Settled, OnlyApprovedIsCarded, Approved
    <3> QED
      BY <3>2, <3>3, <3>4 DEF Books
  <2>2. CASE cur \in Unrenderable /\ Settle
    BY <2>0, <2>2, EndOfRow DEF Settled
  <2>3. CASE Proceed("rejected")
    BY <2>0, <2>3, NextGate DEF Proceed, Reading
  <2>4. CASE Retry
    BY <2>0, <2>4, EndOfRow
  <2> QED
    BY <1>5, <2>1, <2>2, <2>3, <2>4 DEF LatestLLMReview, Approved
<1>6. CASE IsRejected
  <2>0. pc = "rejected" /\ pc \in Deciding /\ UNCHANGED <<storeVars, worldVars, cards, seed>>
    BY <1>6 DEF IsRejected, Read, Deciding, Reading
  <2>1. CASE Proceed("failed")
    BY <2>0, <2>1, NextGate DEF Proceed, Reading
  <2>2. CASE Settle /\ "REJECTED" \in acts[cur]
    BY <2>0, <2>2, EndOfRow DEF Settled, ReviewsEnd
  <2>3. CASE Retry
    BY <2>0, <2>3, EndOfRow
  <2> QED
    BY <1>6, <2>1, <2>2, <2>3 DEF IsRejected, Read
<1>7. CASE IsFailed
  <2>0. pc = "failed" /\ pc \in Deciding /\ UNCHANGED <<storeVars, worldVars, cards, seed>>
    BY <1>7 DEF IsFailed, Deciding, Reading
  <2>1. CASE Proceed("fresh")
    BY <2>0, <2>1, NextGate DEF Proceed, Reading
  <2>2. CASE Settle /\ cur \in cold
    BY <2>0, <2>2, EndOfRow DEF Settled, ReviewsEnd, Judging
  <2>3. CASE Retry
    BY <2>0, <2>3, EndOfRow
  <2> QED
    BY <1>7, <2>1, <2>2, <2>3 DEF IsFailed
<1>8. CASE IsFresh
  <2>0. pc = "fresh" /\ pc \in Deciding /\ UNCHANGED <<storeVars, worldVars, cards, seed>>
    BY <1>8 DEF IsFresh, Deciding, Reading
  <2> QED
    BY <1>8, <2>0, EndOfRow DEF IsFresh, Settled
<1>9. CASE SendEnds
  <2>0. pc = "send" /\ pc \in Deciding /\ todo = {} /\ UNCHANGED <<storeVars, worldVars, cards, seed>>
    BY <1>9 DEF SendEnds, Deciding
  <2>1. CASE retry /\ Retry
    BY <2>0, <2>1, EndOfRow
  <2>2. CASE ~retry /\ Settle
    <3>1. Settled(cur)
      BY <2>0, <2>2 DEF Delivered, Settled
    <3> QED
      BY <2>0, <2>2, <3>1, EndOfRow
  <2> QED
    BY <1>9, <2>1, <2>2 DEF SendEnds
<1>10. ASSUME NEW c \in Chats, SendMessage(c) \/ SendFails(c) PROVE Books'
  <2>1. /\ pc = "send" /\ c \in todo /\ todo' = todo \ {c} /\ cur \in Signal
        /\ UNCHANGED <<storeVars, worldVars, pc, seed, cursor, handled, batch, pending, cur, Seen>>
    BY <1>10 DEF SendMessage, SendFails, passVars, cur, Seen, Deciding
  <2>2. cards' = cards \/ cards' = Received(cur, c)
    BY <1>10 DEF SendMessage, SendFails
  <2>3. /\ \A s \in Signal, d \in Chats : cards[s][d] > 0 => cards'[s][d] > 0
        /\ \A s \in Signal, d \in Chats : cards'[s][d] > 0 => cards[s][d] > 0 \/ s = cur
    <3>1. \A s \in Signal, d \in Chats : cards'[s][d] = cards[s][d]
             \/ (s = cur /\ d = c /\ cards'[s][d] = IF cards[s][d] = 2 THEN 2 ELSE cards[s][d] + 1)
      BY <2>1, <2>2 DEF Received, TypeOK
    <3>2. \A s \in Signal, d \in Chats : cards[s][d] \in 0 .. 2
      BY DEF TypeOK
    <3> QED
      BY <3>1, <3>2
  <2>4. Waterline'
    BY <2>1 DEF Waterline
  <2>5. Delivered'
    <3>1. CASE SendMessage(c)
      <4>1. cards'[cur][c] > 0
        BY <2>1, <3>1 DEF SendMessage, Received, TypeOK
      <4>2. \A s \in Signal : \A d \in sentChats'[s] : d \in sentChats[s] \/ (s = cur /\ d = c)
        BY <3>1 DEF SendMessage, TypeOK
      <4>3. retry' = retry
        BY <3>1 DEF SendMessage
      <4> QED
        BY <2>1, <2>3, <4>1, <4>2, <4>3 DEF Delivered, Approved, TypeOK
    <3>2. CASE SendFails(c)
      <4>1. sentChats' = sentChats /\ retry'
        BY <3>2 DEF SendFails, passVars
      <4> QED
        BY <2>1, <2>3, <4>1 DEF Delivered, Approved, TypeOK
    <3> QED
      BY <1>10, <3>1, <3>2
  <2>6. OnlyApprovedIsCarded'
    BY <2>1, <2>3 DEF OnlyApprovedIsCarded, Delivered, Approved
  <2>7. BehindIsSettled'
    BY <2>1, <2>3 DEF BehindIsSettled, Settled, Approved, Seen
  <2> QED
    BY <2>4, <2>5, <2>6, <2>7 DEF Books
<1> QED
  BY <1>1, <1>2, <1>3, <1>4, <1>5, <1>6, <1>7, <1>8, <1>9, <1>10 DEF Loop

\* The last row the loop has read, or the one after the cursor.
LEMMA LastRead ==
    ASSUME TypeOK
    PROVE  LET read == {cursor + 1} \cup batch \cup handled
           IN  Max(read) \in Int /\ \A r \in read : r <= Max(read)
<1> DEFINE read == {cursor + 1} \cup batch \cup handled
<1>1. cursor + 1 \in Nat /\ cursor + 1 <= MaxSignals + 1 /\ MaxSignals + 1 \in Nat
  BY CurFacts DEF TypeOK
<1>2. \A r \in batch \cup handled : r \in Nat /\ r <= MaxSignals + 1
  BY CurFacts DEF TypeOK
<1>3. PICK b \in Nat : read \in SUBSET Nat /\ read # {} /\ \A r \in read : r <= b
  BY <1>1, <1>2
<1> HIDE DEF read
<1>4. Max(read) \in read /\ \A r \in read : r <= Max(read)
  BY <1>3, MaxIsGreatest
<1>5. \A x \in read : x \in Int
  BY <1>3
<1>6. Max(read) \in Int
  BY <1>4, <1>5, Zenon
<1> QED
  BY <1>4, <1>6 DEF read

\* The writers, the clock and a restart: a row committed behind the loop is in unseen.
LEMMA WorldStep == IndInv /\ (World \/ Restart \/ UNCHANGED vars) => Books'
<1> SUFFICES ASSUME IndInv, World \/ Restart \/ UNCHANGED vars PROVE Books'
  OBVIOUS
<1>0. TypeOK /\ Waterline /\ BehindIsSettled /\ Delivered /\ OnlyApprovedIsCarded /\ ReviewsEnd
  BY DEF IndInv
<1>h. HistoryKept
  BY HistoryStep DEF Next
<1> USE <1>0, CurFacts DEF storeVars, worldVars, passVars
<1>1. ASSUME UNCHANGED <<visible, unseen, pc, passVars, cards, todo, retry>> PROVE Books'
  <2>1. UNCHANGED <<Seen, cur, seed, cursor, handled, sentChats, batch, pending, pc>>
    BY <1>1 DEF Seen, cur
  <2>2. Waterline'
    BY <2>1 DEF Waterline
  <2>3. Delivered'
    BY <1>1, <1>h, <2>1 DEF Delivered, Approved, HistoryKept, Deciding
  <2>4. OnlyApprovedIsCarded'
    BY <1>1, <1>h DEF OnlyApprovedIsCarded, Approved, HistoryKept
  <2>5. BehindIsSettled'
    <3> SUFFICES ASSUME NEW s \in Seen, s > seed, s <= cursor \/ s \in handled PROVE Settled(s)'
      BY <2>1 DEF BehindIsSettled
    <3>1. s \in Signal /\ Settled(s)
      BY DEF BehindIsSettled, Seen
    <3> QED
      BY <1>h, <3>1, SettledKept
  <2> QED
    BY <2>2, <2>3, <2>4, <2>5 DEF Books
<1>2. ASSUME NEW s \in Signal, Age(s) \/ RetryWindowCloses(s) PROVE Books'
  BY <1>1, <1>2 DEF Age, RetryWindowCloses
<1>3. ASSUME NEW s \in Signal, NEW kind \in ReviewKind, RecordLLMGate(s, kind) PROVE Books'
  BY <1>1, <1>3 DEF RecordLLMGate
<1>4. CASE Dismiss \/ NextDay \/ AlertCooldownEnds \/ UNCHANGED vars
  BY <1>1, <1>4 DEF Dismiss, NextDay, AlertCooldownEnds, vars
<1>5. ASSUME NEW s \in Signal, AppendSignal(s) PROVE Books'
  <2> DEFINE read == {cursor + 1} \cup batch \cup handled
  <2>1. /\ s \notin visible /\ visible' = visible \cup {s}
        /\ unseen' = IF s < Max(read) THEN unseen \cup {s} ELSE unseen
        /\ UNCHANGED <<acts, dismissed, old, cold, cards, pc, passVars, todo, retry, cur>>
    BY <1>5 DEF AppendSignal, cur
  <2>3. Max(read) \in Int /\ \A r \in read : r <= Max(read)
    BY LastRead
  <2> HIDE DEF read
  <2>4. s \in Seen' => s >= Max(read)
    BY <2>1, <2>3 DEF Seen
  <2>5. Seen' \subseteq Seen \cup {s}
    BY <2>1 DEF Seen
  <2>6. cursor + 1 \in read /\ batch \subseteq read /\ handled \subseteq read
    BY DEF read
  <2>7. s \in Seen' => s > cursor /\ (\A b \in batch : b <= s) /\ s \notin handled
    <3> SUFFICES ASSUME s \in Seen' PROVE s > cursor /\ (\A b \in batch : b <= s) /\ s \notin handled
      OBVIOUS
    <3>1. \A r \in read : r <= Max(read)
      BY <2>3
    <3>2. cursor + 1 <= Max(read) /\ \A b \in batch : b <= Max(read)
      BY <3>1, <2>6
    <3>3. s >= Max(read) /\ Max(read) \in Int
      BY <2>3, <2>4
    <3> QED
      BY <2>1, <3>2, <3>3 DEF TypeOK
  <2>8. Waterline'
    <3>1. ~pending' => \A b \in batch', r \in Seen' : cursor' < r /\ r < b => r \in batch'
      BY <2>1, <2>5, <2>7 DEF Waterline
    <3> QED
      BY <2>1, <3>1 DEF Waterline
  <2>9. Delivered' /\ OnlyApprovedIsCarded'
    BY <2>1 DEF Delivered, OnlyApprovedIsCarded, Approved
  <2>10. BehindIsSettled'
    <3> SUFFICES ASSUME NEW r \in Seen', r > seed, r <= cursor \/ r \in handled
                 PROVE  Settled(r)'
      BY <2>1 DEF BehindIsSettled
    <3>1. r \in Seen
      BY <2>5, <2>7 DEF TypeOK
    <3>2. r \in Signal /\ Settled(r)
      BY <3>1 DEF BehindIsSettled, Seen
    <3> QED
      BY <1>h, <3>2, SettledKept
  <2> QED
    BY <2>8, <2>9, <2>10 DEF Books
<1>6. CASE Restart
  <2>1. /\ pc' = "seed" /\ seed' = 0 /\ cursor' = 0 /\ handled' = {} /\ batch' = {}
        /\ \A s \in Signal : sentChats'[s] = {}
        /\ UNCHANGED <<visible, acts, unseen, cards>>
    BY <1>6 DEF Restart
  <2>2. Waterline' /\ Delivered' /\ OnlyApprovedIsCarded'
    BY <2>1 DEF Waterline, Delivered, OnlyApprovedIsCarded, Approved, Deciding, Reading
  <2>3. BehindIsSettled'
    BY <2>1 DEF BehindIsSettled, Seen
  <2> QED
    BY <2>2, <2>3 DEF Books
<1> QED
  BY <1>2, <1>3, <1>4, <1>5, <1>6 DEF World

-----------------------------------------------------------------------------
(* The theorems *)

\* The whole invariant of the push loop holds in every run, whatever the number of
\* signals and chats, the size of the batch and the faults.
THEOREM Inductive == Spec => []IndInv
<1>1. Init => IndInv
  <2> SUFFICES ASSUME Init PROVE IndInv
    OBVIOUS
  <2>0. MaxSignals \in Nat
    BY ConstantsAssumption
  <2>1. TypeOK
    <3>1. seed \in 0 .. MaxSignals /\ cursor \in seed .. MaxSignals
      BY <2>0 DEF Init
    <3>2. /\ acts \in [Signal -> SUBSET ReviewKind]
          /\ auditor \in [Signal -> {"none", "first", "again", "done"}]
          /\ sentChats \in [Signal -> SUBSET Chats]
      BY DEF Init
    <3>3. cards \in [Signal -> [Chats -> 0 .. 2]]
      BY DEF Init
    <3> QED
      BY <3>1, <3>2, <3>3 DEF Init, TypeOK, Reading
  <2>2. Waterline /\ Delivered /\ OnlyApprovedIsCarded /\ BehindIsSettled
    BY DEF Init, Waterline, Delivered, OnlyApprovedIsCarded, BehindIsSettled, Deciding, Reading, Seen
  <2>3. ReviewsEnd
    BY DEF Init, ReviewsEnd, Approved, Judging
  <2> QED
    BY <2>1, <2>2, <2>3 DEF IndInv
<1>2. IndInv /\ [Next]_vars => IndInv'
  <2> SUFFICES ASSUME IndInv, [Next]_vars PROVE IndInv'
    OBVIOUS
  <2>1. TypeOK' /\ ReviewsEnd'
    BY TypeStep, ReviewsStep
  <2>2. Books'
    BY LoopStep, WorldStep DEF Next
  <2> QED
    BY <2>1, <2>2 DEF IndInv, Books
<1> QED
  BY <1>1, <1>2, PTL DEF Spec

\* runPush and runDiscordPush: the cursor and the handled set never pass over a card
\* that is due.
THEOREM NonePassedOver == Spec => []NothingPassedOver
<1>1. IndInv => NothingPassedOver
  <2> SUFFICES ASSUME IndInv,
                      NEW s \in visible \ (unseen \cup old \cup Unrenderable),
                      Approved(s), dismissed = "no", s > seed, s <= cursor \/ s \in handled
               PROVE  \A c \in Chats : cards[s][c] > 0
    BY DEF NothingPassedOver
  <2>1. Settled(s)
    BY DEF IndInv, BehindIsSettled, Seen
  <2> QED
    BY <2>1 DEF Settled
<1> QED
  BY <1>1, Inductive, PTL

\* alertLLMGate: the cooldown of the gate alerts starts with an alert that arrived.
THEOREM CooldownStarts == Spec => []CooldownFollowsAlert
<1>1. Init => CooldownFollowsAlert
  BY DEF Init, CooldownFollowsAlert
<1>2. CooldownFollowsAlert /\ [Next]_vars => CooldownFollowsAlert'
  <2> SUFFICES ASSUME CooldownFollowsAlert, [Next]_vars PROVE CooldownFollowsAlert'
    OBVIOUS
  <2>1. CASE UNCHANGED alertVars
    BY <2>1 DEF CooldownFollowsAlert, alertVars
  <2>2. CASE IsFailed
    BY <2>2 DEF IsFailed, AlertLLMGate, alertVars, CooldownFollowsAlert
  <2>3. CASE Restart \/ AlertCooldownEnds
    BY <2>3 DEF Restart, AlertCooldownEnds, CooldownFollowsAlert
  <2>4. [Next]_vars => UNCHANGED alertVars \/ IsFailed \/ Restart \/ AlertCooldownEnds
    <3>1. Loop => UNCHANGED alertVars \/ IsFailed
      BY DEF Loop, MaxSignalID, Tick, NextRow, IsDismissed, LatestLLMReview, IsRejected,
         IsFresh, SendEnds, SendMessage, SendFails, Read
    <3>2. World => UNCHANGED alertVars \/ AlertCooldownEnds
      BY DEF World, AppendSignal, Age, RetryWindowCloses, RecordLLMGate, Dismiss, NextDay
    <3> QED
      BY <3>1, <3>2 DEF Next, vars
  <2> QED
    BY <2>1, <2>2, <2>3, <2>4
<1> QED
  BY <1>1, <1>2, PTL DEF Spec

-----------------------------------------------------------------------------
(* One card for each chat *)

\* The store, the clock and a restart send nothing, and a restart asks for MaxSignalID.
LEMMA OnceWorld ==
    IndInv /\ OnceInv /\ (World \/ Restart \/ UNCHANGED vars) => OnceInv'
<1> SUFFICES ASSUME IndInv, OnceInv, World \/ Restart \/ UNCHANGED vars PROVE OnceInv'
  OBVIOUS
<1>1. CASE World \/ UNCHANGED vars
  <2>1. UNCHANGED <<cards, pc, todo, cursor, handled, sentChats, batch>> /\ visible \subseteq visible'
    BY <1>1 DEF World, AppendSignal, Age, RetryWindowCloses, RecordLLMGate, Dismiss, NextDay,
       AlertCooldownEnds, storeVars, passVars, vars
  <2>2. cur' = cur
    BY <2>1 DEF cur
  <2> QED
    BY <2>1, <2>2 DEF OnceInv, HealthyChatOneCard, Remembered
<1>2. CASE Restart
  <2>1. UNCHANGED <<cards, visible>> /\ pc' = "seed"
    BY <1>2 DEF Restart, storeVars
  <2> QED
    BY <2>1 DEF OnceInv, HealthyChatOneCard, Remembered
<1> QED
  BY <1>1, <1>2

\* A step that sends nothing and puts a forgotten row behind the loop.
LEMMA OnceQuiet ==
    ASSUME OnceInv, UNCHANGED <<visible, cards>>, pc # "seed", pc' # "send",
           \A s \in visible : s <= cursor => s <= cursor',
           \A s \in visible : s \in handled => s \in handled' \/ s <= cursor',
           \A s \in visible : sentChats'[s] = sentChats[s] \/ s \in handled' \/ s <= cursor'
    PROVE  OnceInv'
BY DEF OnceInv, HealthyChatOneCard, Remembered

\* The end of a row: it stays remembered, or the loop has put it behind itself.
LEMMA OnceEnd ==
    ASSUME IndInv, OnceInv, pc \in Deciding, Retry \/ Settle, UNCHANGED <<visible, cards>>
    PROVE  OnceInv'
<1>0. TypeOK /\ Waterline
  BY DEF IndInv
<1> USE <1>0, CurFacts
<1>1. pc # "seed" /\ pc' = "next"
  BY DEF Deciding, Reading, Retry, Settle
<1>2. CASE Retry
  BY <1>1, <1>2, OnceQuiet DEF Retry
<1>3. CASE Settle
  <2>1. cursor' \in {cursor, cur} /\ cursor < cur /\ handled' = handled \cup {cur}
    BY <1>3 DEF Settle, Advance, Waterline
  <2>2. \A s \in visible : s <= cursor => s <= cursor'
    BY <2>1
  <2>3. \A s \in visible : sentChats'[s] = sentChats[s] \/ s = cur
    BY <1>3 DEF Settle, TypeOK
  <2> QED
    BY <1>1, <2>1, <2>2, <2>3, OnceQuiet
<1> QED
  BY <1>2, <1>3

\* Between two gates only the place of the loop changes.
LEMMA OnceGate ==
    ASSUME OnceInv, pc # "seed", pc' # "send", UNCHANGED <<visible, cards, cursor, handled, sentChats>>
    PROVE  OnceInv'
BY OnceQuiet

\* A row is remembered until the loop is done with it, and what is sent is remembered.
LEMMA OnceLoop ==
    ASSUME "reply" \notin Faults, IndInv, OnceInv, Loop
    PROVE  OnceInv'
<1>0. TypeOK /\ Waterline
  BY DEF IndInv
<1> USE <1>0, CurFacts DEF storeVars, worldVars
<1>1. CASE MaxSignalID
  <2>1. UNCHANGED <<cards, visible>> /\ pc' = "tick" /\ \A s \in visible : s <= cursor'
    BY <1>1, MaxFacts DEF MaxSignalID
  <2> QED
    BY <2>1 DEF OnceInv, HealthyChatOneCard, Remembered
<1>2. CASE Tick
  BY <1>2, OnceGate DEF Tick
<1>3. CASE NextRow
  <2>0. UNCHANGED <<visible, cards>> /\ pc = "next" /\ pc' # "send"
    BY <1>3 DEF NextRow
  <2>1. CASE batch # {} /\ Advance /\ UNCHANGED <<handled, sentChats>>
    <3>1. cursor' \in {cursor, cur} /\ cursor < cur
      BY <2>1 DEF Advance, Waterline
    <3>2. cursor \in Nat /\ cur \in Nat /\ visible \subseteq Nat
      BY <2>1
    <3>3. \A s \in visible : s <= cursor => s <= cursor'
      BY <3>1, <3>2
    <3> QED
      BY <2>0, <2>1, <3>3, OnceQuiet
  <2>2. CASE UNCHANGED <<cursor, handled, sentChats>>
    BY <2>0, <2>2, OnceGate
  <2>3. CASE batch = {}
    <3>1. /\ cursor' = cursor /\ handled' = {s \in handled : s > cursor}
          /\ sentChats' = [s \in Signal |-> IF s > cursor THEN sentChats[s] ELSE {}]
      BY <1>3, <2>3 DEF NextRow
    <3>2. \A s \in visible : s \in handled => s \in handled' \/ s <= cursor'
      BY <3>1
    <3>3. \A s \in visible : sentChats'[s] = sentChats[s] \/ s <= cursor'
      BY <3>1
    <3> QED
      BY <2>0, <3>1, <3>2, <3>3, OnceQuiet
  <2> QED
    BY <1>3, <2>1, <2>2, <2>3 DEF NextRow
<1>4. CASE IsDismissed
  <2>0. pc \in Deciding /\ pc # "seed" /\ UNCHANGED <<visible, cards>>
    BY <1>4 DEF IsDismissed, Read, Deciding, Reading
  <2>1. Retry \/ Settle \/ Proceed("review")
    BY <1>4 DEF IsDismissed, Read
  <2> QED
    BY <2>0, <2>1, OnceEnd, OnceGate DEF Proceed
<1>5. CASE LatestLLMReview
  <2>0. pc \in Deciding /\ pc # "seed" /\ UNCHANGED <<visible, cards>>
    BY <1>5 DEF LatestLLMReview, Deciding, Reading
  <2>1. CASE todo' = Chats \ sentChats[cur] /\ Proceed("send")
    <3>1. UNCHANGED <<visible, cards, cursor, handled, sentChats, cur>> /\ pc' # "seed"
      BY <2>0, <2>1 DEF Proceed, cur
    <3> QED
      BY <2>0, <2>1, <3>1 DEF OnceInv, HealthyChatOneCard, Remembered
  <2>2. CASE Retry \/ Settle
    BY <2>0, <2>2, OnceEnd
  <2>3. CASE Proceed("rejected")
    BY <2>0, <2>3, OnceGate DEF Proceed
  <2> QED
    BY <1>5, <2>1, <2>2, <2>3 DEF LatestLLMReview
<1>6. CASE IsRejected
  <2>0. pc \in Deciding /\ pc # "seed" /\ UNCHANGED <<visible, cards>>
    BY <1>6 DEF IsRejected, Read, Deciding, Reading
  <2>1. Retry \/ Settle \/ Proceed("failed")
    BY <1>6 DEF IsRejected, Read
  <2> QED
    BY <2>0, <2>1, OnceEnd, OnceGate DEF Proceed
<1>7. CASE IsFailed
  <2>0. pc \in Deciding /\ pc # "seed" /\ UNCHANGED <<visible, cards>>
    BY <1>7 DEF IsFailed, Deciding, Reading
  <2>1. Retry \/ Settle \/ Proceed("fresh")
    BY <1>7 DEF IsFailed
  <2> QED
    BY <2>0, <2>1, OnceEnd, OnceGate DEF Proceed
<1>8. CASE IsFresh \/ SendEnds
  <2>0. pc \in Deciding /\ UNCHANGED <<visible, cards>>
    BY <1>8 DEF IsFresh, SendEnds, Deciding, Reading
  <2>1. Retry \/ Settle
    BY <1>8 DEF IsFresh, SendEnds
  <2> QED
    BY <2>0, <2>1, OnceEnd
<1>9. ASSUME NEW c \in Chats, SendMessage(c) PROVE OnceInv'
  <2>1. /\ pc = "send" /\ pc' = "send" /\ c \in todo /\ todo' = todo \ {c}
        /\ UNCHANGED <<visible, cursor, handled, cur>> /\ cur \in visible /\ cur \in Signal
    BY <1>9 DEF SendMessage, cur, Deciding
  <2>2. cursor < cur /\ cur \notin handled /\ c \notin sentChats[cur]
    BY <2>1 DEF OnceInv, Remembered, Waterline, Deciding
  <2>3. cards[cur][c] = 0
    <3>1. cards[cur][c] \in 0 .. 2 /\ ~(cur <= cursor)
      BY <2>1, <2>2 DEF TypeOK
    <3>2. ~(cards[cur][c] > 0)
      BY <2>1, <2>2, <3>1 DEF OnceInv, Remembered
    <3> QED
      BY <3>1, <3>2
  <2>4. \A s \in Signal, d \in Chats : cards'[s][d] = IF s = cur /\ d = c THEN 1 ELSE cards[s][d]
    BY <1>9, <2>1, <2>3 DEF SendMessage, Received, TypeOK
  <2>5. \A s \in Signal : sentChats'[s] = IF s = cur THEN sentChats[s] \cup {c} ELSE sentChats[s]
    BY <1>9, <2>1 DEF SendMessage, TypeOK
  <2>6. HealthyChatOneCard'
    BY <2>4 DEF OnceInv, HealthyChatOneCard
  <2>7. Remembered'
    <3>1. todo' \cap sentChats'[cur'] = {}
      BY <2>1, <2>5 DEF OnceInv, Remembered
    <3>2. ASSUME NEW s \in Signal, NEW d \in Chats, cards'[s][d] > 0
          PROVE  s \in visible /\ (s <= cursor \/ s \in handled \/ d \in sentChats'[s])
      <4>1. CASE s = cur /\ d = c
        BY <2>1, <2>5, <4>1
      <4>2. CASE ~(s = cur /\ d = c)
        <5>1. cards[s][d] > 0
          BY <2>4, <3>2, <4>2
        <5>2. s \in visible /\ (s <= cursor \/ s \in handled \/ d \in sentChats[s])
          BY <2>1, <5>1 DEF OnceInv, Remembered
        <5> QED
          BY <2>5, <5>2
      <4> QED
        BY <4>1, <4>2
    <3> QED
      BY <2>1, <3>1, <3>2 DEF Remembered
  <2> QED
    BY <2>6, <2>7 DEF OnceInv
<1>10. ASSUME NEW c \in Chats, SendFails(c) PROVE OnceInv'
  <2>1. UNCHANGED <<visible, cards, pc, cursor, handled, sentChats, cur>> /\ todo' \subseteq todo
    BY <1>10 DEF SendFails, passVars, cur
  <2> QED
    BY <2>1 DEF OnceInv, HealthyChatOneCard, Remembered
<1> QED
  BY <1>1, <1>2, <1>3, <1>4, <1>5, <1>6, <1>7, <1>8, <1>9, <1>10 DEF Loop

\* pushSignal: "a healthy chat never receives a duplicate actionable card".  While no
\* reply is lost each chat gets the cards of approved signals only, each once, though
\* sends fail, rows are committed late and the process restarts.
THEOREM OneCardEach == "reply" \notin Faults => (Spec => []CardsAreDue)
<1> SUFFICES ASSUME "reply" \notin Faults PROVE Spec => []CardsAreDue
  OBVIOUS
<1>1. Init => OnceInv
  BY DEF Init, OnceInv, HealthyChatOneCard, Remembered
<1>2. IndInv /\ OnceInv /\ [Next]_vars => OnceInv'
  BY OnceLoop, OnceWorld DEF Next
<1>3. IndInv /\ OnceInv => CardsAreDue
  BY DEF IndInv, OnceInv, CardsAreDue
<1> QED
  BY <1>1, <1>2, <1>3, Inductive, PTL DEF Spec
=============================================================================
