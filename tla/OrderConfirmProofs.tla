------------------------- MODULE OrderConfirmProofs -------------------------
(***************************************************************************)
(* The safety properties of OrderConfirm, for any number of signals and    *)
(* presses, any faults and any threshold.                                  *)
(*                                                                         *)
(* The argument.  A press "owns" its signal from the moment ClaimOrder     *)
(* gave it the row; the only way to become an owner is to find the signal  *)
(* unclaimed, and owners hold claimed signals, so a signal has one owner.  *)
(* Orders are opened by owners only, under an identity that was never used *)
(* before, so what is recorded about an order (its signal, its execution,  *)
(* its being cancelled) stays true.                                        *)
(***************************************************************************)
EXTENDS OrderConfirm, TLAPS

Owning   == {"cancelOld", "place1", "place2", "complete", "confirm"}
Unplaced == {"idle", "lock", "fresh", "review", "market", "claim", "cancelOld", "place1"}
            \cup Declining

Owner(p) == pc[p] \in Owning \/ \E o \in OrderId : o[1] = p /\ Placed(o)

\* Owners hold claimed signals, and no two of them the same.
Ownership ==
    /\ \A p \in Press : Owner(p) => sig[p] \in claims
    /\ \A p, q \in Press : Owner(p) /\ Owner(q) /\ sig[p] = sig[q] => p = q

\* The identities a press has yet to use are free.
FreshIds ==
    \A o \in OrderId :
        Placed(o) => /\ pc[o[1]] \notin Unplaced
                     /\ pc[o[1]] = "place2" => o[2] # 2

\* What a goroutine knows of the order it works on.
HeldIds ==
    \A p \in Press :
        /\ pc[p] \in {"complete", "confirm", "declCancel"} \cup Watching =>
               oid[p] \in OrderId /\ Placed(oid[p]) /\ SigOf(oid[p]) = sig[p]
        /\ pc[p] = "fill" => broker[oid[p]] \in Executed

\* A Replace names a real order, being cancelled or ended before its successor is sent.
Replacement ==
    /\ \A s \in Signal : replaces[s] # None => Placed(replaces[s])
    /\ \A p \in Press : pc[p] \in {"place1", "place2"} /\ replaces[sig[p]] # None =>
           broker[replaces[sig[p]]] \notin Open

IndInv ==
    /\ TypeOK
    /\ Ownership
    /\ FreshIds
    /\ HeldIds
    /\ Replacement
    /\ RecordedIdIsReal
    /\ FillIsExecuted
    /\ ReplacedIsCancelled

\* What every step leaves true of the past: an order once opened keeps its signal,
\* its execution and its being cancelled or ended; new orders come from presses that are
\* placing; the Replace of a persisted signal is fixed.
HistoryKept ==
    /\ \A o \in OrderId : Placed(o) =>
           /\ Placed(o)'
           /\ SigOf(o)' = SigOf(o)
           /\ broker[o] \in Executed => broker'[o] \in Executed
           /\ broker[o] \notin Open => broker'[o] \notin Open
    /\ \A o \in OrderId : Placed(o)' /\ ~Placed(o) =>
           pc[o[1]] \in {"place1", "place2"} /\ SigOf(o)' = SigOf(o)
    /\ \A s \in signals : replaces'[s] = replaces[s]

-----------------------------------------------------------------------------

\* Every order id is the pair of its press and an attempt, and None is no id.
LEMMA OrderIds ==
    /\ \A p \in Press : /\ <<p, 1>> \in OrderId /\ <<p, 1>>[1] = p /\ <<p, 1>>[2] = 1
                        /\ <<p, 2>> \in OrderId /\ <<p, 2>>[1] = p /\ <<p, 2>>[2] = 2
    /\ \A o \in OrderId : o[1] \in Press
    /\ None \notin OrderId /\ None \notin Signal /\ None \notin Press
<1>1. \A p \in Press : /\ <<p, 1>> \in OrderId /\ <<p, 1>>[1] = p /\ <<p, 1>>[2] = 1
                       /\ <<p, 2>> \in OrderId /\ <<p, 2>>[1] = p /\ <<p, 2>>[2] = 2
  BY DEF OrderId
<1>2. \A o \in OrderId : o[1] \in Press
  BY DEF OrderId
<1>3. None \notin OrderId /\ None \notin Signal /\ None \notin Press
  BY ConstantsAssumption
<1> QED
  BY <1>1, <1>2, <1>3

\* A cancel, accepted or not, keeps the book a table of statuses.
LEMMA CancelType ==
    ASSUME NEW o, broker \in [OrderId -> Status], CancelAccepted(o) \/ CancelFailed(o)
    PROVE  broker' \in [OrderId -> Status]
BY DEF CancelAccepted, CancelFailed, Cancelled, Cancelling, Status, OnBook, Open, Withdrawing

\* TypeOK is preserved: every step keeps the tables functions over their keys,
\* and a press that has begun names a persisted signal.
LEMMA TypeStep == TypeOK /\ [Next]_vars => TypeOK'
<1> SUFFICES ASSUME TypeOK, [Next]_vars PROVE TypeOK'
  OBVIOUS
<1> USE ConstantsAssumption, OrderIds DEF TypeOK, PC, Confirming, Watching, Declining, ActionKind,
        Status, Open, Withdrawing, OnBook, Executed, dbVars, envVars, procVars
<1>1. ASSUME NEW p \in Press, LockConfirm(p) PROVE TypeOK'
  BY <1>1 DEF LockConfirm, Goto
<1>2. ASSUME NEW p \in Press, CheckFresh(p) PROVE TypeOK'
  BY <1>2 DEF CheckFresh, Gate, Goto
<1>3. ASSUME NEW p \in Press, CheckReview(p) PROVE TypeOK'
  BY <1>3 DEF CheckReview, Gate, Goto
<1>4. ASSUME NEW p \in Press, CheckMarket(p) PROVE TypeOK'
  BY <1>4 DEF CheckMarket, Gate, Goto
<1>5. ASSUME NEW p \in Press, ClaimOrder(p) PROVE TypeOK'
  BY <1>5 DEF ClaimOrder, Goto
<1>6. ASSUME NEW p \in Press, CancelReplaced(p) PROVE TypeOK'
  BY <1>6, CancelType DEF CancelReplaced, Goto
<1>7. ASSUME NEW p \in Press, PlaceOrder(p, 1) PROVE TypeOK'
  <2>1. pc' \in [Press -> PC] /\ \A q \in Press : pc'[q] # "lock" \/ pc'[q] = pc[q]
    BY <1>7 DEF PlaceOrder, Goto
  <2>2. \A q \in Press : pc[q] = "idle" => pc'[q] = "idle"
    BY <1>7 DEF PlaceOrder, Goto
  <2>3. PICK o \in OrderId : /\ broker' \in {broker, [broker EXCEPT ![o] = "resting"]}
                           /\ oid' \in {oid, [oid EXCEPT ![p] = o]}
    BY <1>7, Zenon DEF PlaceOrder
  <2>4. broker' \in [OrderId -> Status] /\ oid' \in [Press -> OrderId \cup {None}]
    BY <2>3
  <2> QED
    BY <1>7, <2>1, <2>2, <2>4 DEF PlaceOrder
<1>8. ASSUME NEW p \in Press, PlaceOrder(p, 2) PROVE TypeOK'
  <2>1. pc' \in [Press -> PC] /\ \A q \in Press : pc'[q] # "lock" \/ pc'[q] = pc[q]
    BY <1>8 DEF PlaceOrder, Goto
  <2>2. \A q \in Press : pc[q] = "idle" => pc'[q] = "idle"
    BY <1>8 DEF PlaceOrder, Goto
  <2>3. PICK o \in OrderId : /\ broker' \in {broker, [broker EXCEPT ![o] = "resting"]}
                           /\ oid' \in {oid, [oid EXCEPT ![p] = o]}
    BY <1>8, Zenon DEF PlaceOrder
  <2>4. broker' \in [OrderId -> Status] /\ oid' \in [Press -> OrderId \cup {None}]
    BY <2>3
  <2> QED
    BY <1>8, <2>1, <2>2, <2>4 DEF PlaceOrder
<1>9. ASSUME NEW p \in Press, CompleteOrderClaim(p) PROVE TypeOK'
  BY <1>9 DEF CompleteOrderClaim, Goto
<1>10. ASSUME NEW p \in Press, RecordConfirm(p) PROVE TypeOK'
  BY <1>10 DEF RecordConfirm, Goto, Unlock
<1>11. ASSUME NEW p \in Press, Reject(p) PROVE TypeOK'
  BY <1>11 DEF Reject, AppendAction, Goto, Unlock
<1>12. ASSUME NEW p \in Press, WatchGivesUp(p) PROVE TypeOK'
  BY <1>12 DEF WatchGivesUp, Goto
<1>13. ASSUME NEW p \in Press, WatchFinds(p) PROVE TypeOK'
  BY <1>13 DEF WatchFinds, Goto
<1>14. ASSUME NEW p \in Press, WatchMisses(p) PROVE TypeOK'
  BY <1>14 DEF WatchMisses, Goto
<1>15. ASSUME NEW p \in Press, CancelMissing(p) PROVE TypeOK'
  BY <1>15, CancelType DEF CancelMissing, Goto
<1>16. ASSUME NEW p \in Press, CancelResting(p) PROVE TypeOK'
  BY <1>16, CancelType DEF CancelResting, Goto
<1>17. ASSUME NEW p \in Press, RecordCancel(p) PROVE TypeOK'
  BY <1>17 DEF RecordCancel, RecordAndReturn, AppendAction, Goto
<1>18. ASSUME NEW p \in Press, RecordFill(p) PROVE TypeOK'
  BY <1>18 DEF RecordFill, RecordAndReturn, AppendAction, Goto
<1>19. ASSUME NEW p \in Press, DeclineReads(p) PROVE TypeOK'
  BY <1>19 DEF DeclineReads, Goto
<1>20. ASSUME NEW p \in Press, DeclineCancels(p) PROVE TypeOK'
  BY <1>20, CancelType DEF DeclineCancels, Goto
<1>21. ASSUME NEW p \in Press, RecordDecline(p) PROVE TypeOK'
  BY <1>21 DEF RecordDecline, RecordAndReturn, AppendAction, Goto
<1>22. ASSUME NEW p \in Press, NEW s \in Signal, PressYes(p, s) PROVE TypeOK'
  BY <1>22 DEF PressYes, HasCard, Goto
<1>23. ASSUME NEW p \in Press, NEW s \in Signal, PressNo(p, s) PROVE TypeOK'
  BY <1>23 DEF PressNo, HasCard, Goto
<1>24. ASSUME NEW s \in Signal, AppendSignal(s) PROVE TypeOK'
  BY <1>24 DEF AppendSignal, ListPendingOrders
<1>25. ASSUME NEW s \in Signal, RecordLLMGate(s) PROVE TypeOK'
  BY <1>25 DEF RecordLLMGate, AppendAction
<1>26. ASSUME NEW s \in Signal, Expire(s) PROVE TypeOK'
  BY <1>26 DEF Expire
<1>27. ASSUME NEW o \in OrderId, BrokerMoves(o) PROVE TypeOK'
  BY <1>27 DEF BrokerMoves, Cancelled, Partly
<1>28. ASSUME MarketTurns PROVE TypeOK'
  BY <1>28 DEF MarketTurns
<1>29. ASSUME Restart PROVE TypeOK'
  BY <1>29 DEF Restart
<1>30. CASE UNCHANGED vars
  BY <1>30 DEF vars
<1> QED
  BY <1>1, <1>2, <1>3, <1>4, <1>5, <1>6, <1>7, <1>8, <1>9, <1>10, <1>11, <1>12, <1>13, <1>14, <1>15,
     <1>16, <1>17, <1>18, <1>19, <1>20, <1>21, <1>22, <1>23, <1>24, <1>25,
     <1>26, <1>27, <1>28, <1>29, <1>30
     DEF Next, Step, ConfirmStep, WatchStep, DeclineStep, World

\* No step forgets an order, gives it to another signal, undoes its execution or
\* makes it open again.
LEMMA HistoryStep == IndInv /\ [Next]_vars => HistoryKept
<1> SUFFICES ASSUME IndInv, [Next]_vars PROVE HistoryKept
  OBVIOUS
<1> USE OrderIds DEF IndInv, TypeOK, FreshIds, HistoryKept, Unplaced, Declining,
        Placed, SigOf, Open, Withdrawing, OnBook, Executed, Status, dbVars, envVars, procVars
<1>1. ASSUME NEW p \in Press, LockConfirm(p) PROVE HistoryKept
  BY <1>1 DEF LockConfirm, Goto
<1>2. ASSUME NEW p \in Press, CheckFresh(p) PROVE HistoryKept
  BY <1>2 DEF CheckFresh, Gate, Goto
<1>3. ASSUME NEW p \in Press, CheckReview(p) PROVE HistoryKept
  BY <1>3 DEF CheckReview, Gate, Goto
<1>4. ASSUME NEW p \in Press, CheckMarket(p) PROVE HistoryKept
  BY <1>4 DEF CheckMarket, Gate, Goto
<1>5. ASSUME NEW p \in Press, ClaimOrder(p) PROVE HistoryKept
  BY <1>5 DEF ClaimOrder, Goto
<1>6. ASSUME NEW p \in Press, CancelReplaced(p) PROVE HistoryKept
  BY <1>6 DEF CancelReplaced, CancelAccepted, CancelFailed, Cancelled, Cancelling, Goto
<1>7. ASSUME NEW p \in Press, PlaceOrder(p, 1) PROVE HistoryKept
  BY <1>7 DEF PlaceOrder, Goto
<1>8. ASSUME NEW p \in Press, PlaceOrder(p, 2) PROVE HistoryKept
  BY <1>8 DEF PlaceOrder, Goto
<1>9. ASSUME NEW p \in Press, CompleteOrderClaim(p) PROVE HistoryKept
  BY <1>9 DEF CompleteOrderClaim, Goto
<1>10. ASSUME NEW p \in Press, RecordConfirm(p) PROVE HistoryKept
  BY <1>10 DEF RecordConfirm, Goto, Unlock
<1>11. ASSUME NEW p \in Press, Reject(p) PROVE HistoryKept
  BY <1>11 DEF Reject, AppendAction, Goto, Unlock
<1>12. ASSUME NEW p \in Press, WatchGivesUp(p) PROVE HistoryKept
  BY <1>12 DEF WatchGivesUp, Goto
<1>13. ASSUME NEW p \in Press, WatchFinds(p) PROVE HistoryKept
  BY <1>13 DEF WatchFinds, Goto
<1>14. ASSUME NEW p \in Press, WatchMisses(p) PROVE HistoryKept
  BY <1>14 DEF WatchMisses, Goto
<1>15. ASSUME NEW p \in Press, CancelMissing(p) PROVE HistoryKept
  BY <1>15 DEF CancelMissing, CancelAccepted, CancelFailed, Cancelled, Cancelling, Goto
<1>16. ASSUME NEW p \in Press, CancelResting(p) PROVE HistoryKept
  BY <1>16 DEF CancelResting, CancelAccepted, CancelFailed, Cancelled, Cancelling, Goto
<1>17. ASSUME NEW p \in Press, RecordCancel(p) PROVE HistoryKept
  BY <1>17 DEF RecordCancel, RecordAndReturn, AppendAction, Goto
<1>18. ASSUME NEW p \in Press, RecordFill(p) PROVE HistoryKept
  BY <1>18 DEF RecordFill, RecordAndReturn, AppendAction, Goto
<1>19. ASSUME NEW p \in Press, DeclineReads(p) PROVE HistoryKept
  BY <1>19 DEF DeclineReads, Goto
<1>20. ASSUME NEW p \in Press, DeclineCancels(p) PROVE HistoryKept
  BY <1>20 DEF DeclineCancels, RereadIds, CancelAccepted, CancelFailed, Cancelled, Cancelling, Goto
<1>21. ASSUME NEW p \in Press, RecordDecline(p) PROVE HistoryKept
  BY <1>21 DEF RecordDecline, RecordAndReturn, AppendAction, Goto
<1>22. ASSUME NEW p \in Press, NEW s \in Signal, PressYes(p, s) PROVE HistoryKept
  BY <1>22 DEF PressYes, HasCard, Goto
<1>23. ASSUME NEW p \in Press, NEW s \in Signal, PressNo(p, s) PROVE HistoryKept
  BY <1>23 DEF PressNo, HasCard, Goto
<1>24. ASSUME NEW s \in Signal, AppendSignal(s) PROVE HistoryKept
  BY <1>24 DEF AppendSignal, ListPendingOrders
<1>25. ASSUME NEW s \in Signal, RecordLLMGate(s) PROVE HistoryKept
  BY <1>25 DEF RecordLLMGate, AppendAction
<1>26. ASSUME NEW s \in Signal, Expire(s) PROVE HistoryKept
  BY <1>26 DEF Expire
<1>27. ASSUME NEW o \in OrderId, BrokerMoves(o) PROVE HistoryKept
  BY <1>27 DEF BrokerMoves, Cancelled, Partly
<1>28. ASSUME MarketTurns PROVE HistoryKept
  BY <1>28 DEF MarketTurns
<1>29. ASSUME Restart PROVE HistoryKept
  BY <1>29 DEF Restart
<1>30. CASE UNCHANGED vars
  BY <1>30 DEF vars
<1> QED
  BY <1>1, <1>2, <1>3, <1>4, <1>5, <1>6, <1>7, <1>8, <1>9, <1>10, <1>11, <1>12, <1>13, <1>14, <1>15,
     <1>16, <1>17, <1>18, <1>19, <1>20, <1>21, <1>22, <1>23, <1>24, <1>25,
     <1>26, <1>27, <1>28, <1>29, <1>30
     DEF Next, Step, ConfirmStep, WatchStep, DeclineStep, World

\* An order that was replaced is not open when its successor is sent, and never
\* comes back: what the history keeps is enough, whatever the step.
LEMMA ReplacedStep == IndInv /\ TypeOK' /\ HistoryKept => ReplacedIsCancelled'
<1> SUFFICES ASSUME IndInv, TypeOK', HistoryKept,
                    NEW o \in OrderId, Placed(o)', (replaces[SigOf(o)])' # None
             PROVE  (broker[replaces[SigOf(o)]])' \notin Open
  BY DEF ReplacedIsCancelled
<1> DEFINE old == replaces[SigOf(o)]
<1>1. SigOf(o)' = SigOf(o)
  BY DEF HistoryKept
<1>2. SigOf(o) \in signals
  BY OrderIds DEF HistoryKept, IndInv, TypeOK, FreshIds, Unplaced, SigOf
<1>3. (replaces[SigOf(o)])' = old
  BY <1>1, <1>2 DEF HistoryKept
<1>4. old \in OrderId /\ Placed(old)
  BY <1>2, <1>3, OrderIds DEF IndInv, TypeOK, Replacement
<1>5. broker[old] \notin Open
  BY <1>3, OrderIds DEF HistoryKept, IndInv, ReplacedIsCancelled, Replacement, SigOf
<1>6. broker'[old] \notin Open
  BY <1>4, <1>5 DEF HistoryKept
<1> QED
  BY <1>3, <1>6

\* The inductive step.  The actions that disturb what is known of an order come
\* first, one part of the invariant at a time; the others follow at once.
LEMMA IndStep == IndInv /\ TypeOK' /\ HistoryKept /\ [Next]_vars => IndInv'
<1> SUFFICES ASSUME IndInv, TypeOK', HistoryKept, [Next]_vars PROVE IndInv'
  OBVIOUS
<1>0. ReplacedIsCancelled'
  BY ReplacedStep
<1> USE OrderIds DEF IndInv, TypeOK, HistoryKept, Placed, SigOf, Executed, Open, Withdrawing, OnBook, Confirming,
        Watching, Declining, dbVars, envVars, procVars
<1>1. ASSUME NEW p \in Press, CancelReplaced(p) PROVE IndInv'
  <2> USE <1>1 DEF CancelReplaced, CancelAccepted, CancelFailed, Cancelled, Cancelling, Goto
  <2>1. Ownership'
    BY DEF Ownership, Owner, Owning
  <2>2. FreshIds'
    BY DEF FreshIds, Unplaced
  <2>3. HeldIds'
    BY DEF HeldIds
  <2>4. Replacement'
    BY DEF Replacement
  <2>5. RecordedIdIsReal'
    BY DEF RecordedIdIsReal
  <2>6. FillIsExecuted'
    BY DEF FillIsExecuted
  <2> QED
    BY <1>0, <2>1, <2>2, <2>3, <2>4, <2>5, <2>6
<1>2. ASSUME NEW p \in Press, PlaceOrder(p, 1) PROVE IndInv'
  <2>1. Ownership'
    BY <1>2 DEF PlaceOrder, Goto, Ownership, Owner, Owning
  <2>2. FreshIds'
    BY <1>2 DEF PlaceOrder, Goto, FreshIds, Unplaced
  <2>3. HeldIds'
    <3>1. PICK o \in OrderId :
            /\ o[1] = p
            /\ \/ pc' = [pc EXCEPT ![p] = "complete"] 
                  /\ oid' = [oid EXCEPT ![p] = o] /\ broker'[o] = "resting"
               \/ pc' \in {[pc EXCEPT ![p] = "reject"], [pc EXCEPT ![p] = "place2"]} /\ oid' = oid
      BY <1>2, ZenonT(40) DEF PlaceOrder, Goto
    <3>2. sig' = sig
      BY <1>2 DEF PlaceOrder
    <3> QED
      BY <3>1, <3>2 DEF HeldIds
  <2>4. Replacement'
    BY <1>2 DEF PlaceOrder, Goto, Replacement
  <2>5. RecordedIdIsReal'
    BY <1>2 DEF PlaceOrder, Goto, RecordedIdIsReal
  <2>6. FillIsExecuted'
    BY <1>2 DEF PlaceOrder, Goto, FillIsExecuted
  <2> QED
    BY <1>0, <2>1, <2>2, <2>3, <2>4, <2>5, <2>6
<1>3. ASSUME NEW p \in Press, PlaceOrder(p, 2) PROVE IndInv'
  <2>1. Ownership'
    BY <1>3 DEF PlaceOrder, Goto, Ownership, Owner, Owning
  <2>2. FreshIds'
    BY <1>3 DEF PlaceOrder, Goto, FreshIds, Unplaced
  <2>3. HeldIds'
    <3>1. PICK o \in OrderId :
            /\ o[1] = p
            /\ \/ pc' = [pc EXCEPT ![p] = "complete"] 
                  /\ oid' = [oid EXCEPT ![p] = o] /\ broker'[o] = "resting"
               \/ pc' \in {[pc EXCEPT ![p] = "reject"], [pc EXCEPT ![p] = "place2"]} /\ oid' = oid
      BY <1>3, ZenonT(40) DEF PlaceOrder, Goto
    <3>2. sig' = sig
      BY <1>3 DEF PlaceOrder
    <3> QED
      BY <3>1, <3>2 DEF HeldIds
  <2>4. Replacement'
    BY <1>3 DEF PlaceOrder, Goto, Replacement
  <2>5. RecordedIdIsReal'
    BY <1>3 DEF PlaceOrder, Goto, RecordedIdIsReal
  <2>6. FillIsExecuted'
    BY <1>3 DEF PlaceOrder, Goto, FillIsExecuted
  <2> QED
    BY <1>0, <2>1, <2>2, <2>3, <2>4, <2>5, <2>6
<1>4. ASSUME NEW p \in Press, CompleteOrderClaim(p) PROVE IndInv'
  <2> USE <1>4 DEF CompleteOrderClaim, Goto
  <2>1. Ownership'
    BY DEF Ownership, Owner, Owning
  <2>2. FreshIds'
    BY DEF FreshIds, Unplaced
  <2>3. HeldIds'
    BY DEF HeldIds
  <2>4. Replacement'
    BY DEF Replacement
  <2>5. RecordedIdIsReal'
    <3>1. oid[p] \in OrderId /\ Placed(oid[p]) /\ SigOf(oid[p]) = sig[p]
      BY DEF HeldIds
    <3>2. \A s \in Signal : claimId'[s] = claimId[s] \/ (s = sig[p] /\ claimId'[s] = oid[p])
      OBVIOUS
    <3> QED
      BY <3>1, <3>2 DEF RecordedIdIsReal
  <2>6. FillIsExecuted'
    BY DEF FillIsExecuted
  <2> QED
    BY <1>0, <2>1, <2>2, <2>3, <2>4, <2>5, <2>6
<1>5. ASSUME NEW p \in Press, RecordConfirm(p) PROVE IndInv'
  <2> USE <1>5 DEF RecordConfirm, Goto, Unlock
  <2>1. Ownership'
    BY DEF Ownership, Owner, Owning
  <2>2. FreshIds'
    BY DEF FreshIds, Unplaced
  <2>3. HeldIds'
    BY DEF HeldIds
  <2>4. Replacement'
    BY DEF Replacement
  <2>5. RecordedIdIsReal'
    <3>1. oid[p] \in OrderId /\ Placed(oid[p]) /\ SigOf(oid[p]) = sig[p]
      BY DEF HeldIds
    <3>2. \A s \in Signal : confirmed'[s] = confirmed[s] \/ (s = sig[p] /\ confirmed'[s] = oid[p])
      OBVIOUS
    <3> QED
      BY <3>1, <3>2 DEF RecordedIdIsReal
  <2>6. FillIsExecuted'
    BY DEF FillIsExecuted
  <2> QED
    BY <1>0, <2>1, <2>2, <2>3, <2>4, <2>5, <2>6
<1>6. ASSUME NEW p \in Press, CancelMissing(p) PROVE IndInv'
  <2> USE <1>6 DEF CancelMissing, CancelAccepted, CancelFailed, Cancelled, Cancelling, Goto
  <2>1. Ownership'
    BY DEF Ownership, Owner, Owning
  <2>2. FreshIds'
    BY DEF FreshIds, Unplaced
  <2>3. HeldIds'
    BY DEF HeldIds
  <2>4. Replacement'
    BY DEF Replacement
  <2>5. RecordedIdIsReal'
    BY DEF RecordedIdIsReal
  <2>6. FillIsExecuted'
    BY DEF FillIsExecuted
  <2> QED
    BY <1>0, <2>1, <2>2, <2>3, <2>4, <2>5, <2>6
<1>7. ASSUME NEW p \in Press, CancelResting(p) PROVE IndInv'
  <2> USE <1>7 DEF CancelResting, CancelAccepted, CancelFailed, Cancelled, Cancelling, Goto
  <2>1. Ownership'
    BY DEF Ownership, Owner, Owning
  <2>2. FreshIds'
    BY DEF FreshIds, Unplaced
  <2>3. HeldIds'
    BY DEF HeldIds
  <2>4. Replacement'
    BY DEF Replacement
  <2>5. RecordedIdIsReal'
    BY DEF RecordedIdIsReal
  <2>6. FillIsExecuted'
    BY DEF FillIsExecuted
  <2> QED
    BY <1>0, <2>1, <2>2, <2>3, <2>4, <2>5, <2>6
<1>8. ASSUME NEW p \in Press, RecordFill(p) PROVE IndInv'
  <2> USE <1>8 DEF RecordFill, RecordAndReturn, AppendAction, Goto
  <2>1. Ownership'
    BY DEF Ownership, Owner, Owning
  <2>2. FreshIds'
    BY DEF FreshIds, Unplaced
  <2>3. HeldIds'
    BY DEF HeldIds
  <2>4. Replacement'
    BY DEF Replacement
  <2>5. RecordedIdIsReal'
    BY DEF RecordedIdIsReal
  <2>6. FillIsExecuted'
    <3>1. oid[p] \in OrderId /\ SigOf(oid[p]) = sig[p] /\ broker[oid[p]] \in Executed
      BY DEF HeldIds
    <3>2. \A s \in Signal : "FILL" \in acts'[s] => "FILL" \in acts[s] \/ s = sig[p]
      OBVIOUS
    <3> QED
      BY <3>1, <3>2 DEF FillIsExecuted
  <2> QED
    BY <1>0, <2>1, <2>2, <2>3, <2>4, <2>5, <2>6
<1>9. ASSUME NEW p \in Press, DeclineReads(p) PROVE IndInv'
  <2> USE <1>9 DEF DeclineReads, Goto
  <2>1. Ownership'
    BY DEF Ownership, Owner, Owning
  <2>2. FreshIds'
    BY DEF FreshIds, Unplaced
  <2>3. HeldIds'
    <3>1. confirmed[sig[p]] # None =>
            /\ confirmed[sig[p]] \in OrderId
            /\ Placed(confirmed[sig[p]]) /\ SigOf(confirmed[sig[p]]) = sig[p]
      BY DEF RecordedIdIsReal
    <3>2. \A q \in Press \ {p} : pc'[q] = pc[q] /\ oid'[q] = oid[q]
      OBVIOUS
    <3>3. \/ pc'[p] = "declRecord"
          \/ pc'[p] = "declCancel" /\ confirmed[sig[p]] # None /\ oid'[p] = confirmed[sig[p]]
      OBVIOUS
    <3> QED
      BY <3>1, <3>2, <3>3 DEF HeldIds
  <2>4. Replacement'
    BY DEF Replacement
  <2>5. RecordedIdIsReal'
    BY DEF RecordedIdIsReal
  <2>6. FillIsExecuted'
    BY DEF FillIsExecuted
  <2> QED
    BY <1>0, <2>1, <2>2, <2>3, <2>4, <2>5, <2>6
<1>10. ASSUME NEW s \in Signal, AppendSignal(s) PROVE IndInv'
  <2> USE <1>10 DEF AppendSignal, ListPendingOrders
  <2>1. Ownership'
    BY DEF Ownership, Owner, Owning
  <2>2. FreshIds'
    BY DEF FreshIds, Unplaced
  <2>3. HeldIds'
    BY DEF HeldIds
  <2>4. Replacement'
    <3>1. PICK old \in {None} \cup {confirmed[q] : q \in ListPendingOrders} :
            replaces' = [replaces EXCEPT ![s] = old]
      OBVIOUS
    <3>2. old # None => old \in OrderId /\ Placed(old)
      BY <3>1 DEF RecordedIdIsReal
    <3>3. replaces'[s] = old /\ \A q \in Signal \ {s} : replaces'[q] = replaces[q]
      BY <3>1
    <3> QED
      BY <3>2, <3>3 DEF Replacement
  <2>5. RecordedIdIsReal'
    BY DEF RecordedIdIsReal
  <2>6. FillIsExecuted'
    BY DEF FillIsExecuted
  <2> QED
    BY <1>0, <2>1, <2>2, <2>3, <2>4, <2>5, <2>6
<1> USE <1>0 DEF Owning, Unplaced, Owner, Ownership, FreshIds, HeldIds, Replacement,
        RecordedIdIsReal, FillIsExecuted
<1>11. ASSUME NEW p \in Press, LockConfirm(p) PROVE IndInv'
  BY <1>11 DEF LockConfirm, Goto
<1>12. ASSUME NEW p \in Press, CheckFresh(p) PROVE IndInv'
  BY <1>12 DEF CheckFresh, Gate, Goto
<1>13. ASSUME NEW p \in Press, CheckReview(p) PROVE IndInv'
  BY <1>13 DEF CheckReview, Gate, Goto
<1>14. ASSUME NEW p \in Press, CheckMarket(p) PROVE IndInv'
  BY <1>14 DEF CheckMarket, Gate, Goto
<1>15. ASSUME NEW p \in Press, ClaimOrder(p) PROVE IndInv'
  BY <1>15 DEF ClaimOrder, Goto
<1>16. ASSUME NEW p \in Press, Reject(p) PROVE IndInv'
  BY <1>16 DEF Reject, AppendAction, Goto, Unlock
<1>17. ASSUME NEW p \in Press, WatchGivesUp(p) PROVE IndInv'
  BY <1>17 DEF WatchGivesUp, Goto
<1>18. ASSUME NEW p \in Press, WatchFinds(p) PROVE IndInv'
  BY <1>18 DEF WatchFinds, Goto
<1>19. ASSUME NEW p \in Press, WatchMisses(p) PROVE IndInv'
  BY <1>19 DEF WatchMisses, Goto
<1>20. ASSUME NEW p \in Press, RecordCancel(p) PROVE IndInv'
  BY <1>20 DEF RecordCancel, RecordAndReturn, AppendAction, Goto
<1>21. ASSUME NEW p \in Press, DeclineCancels(p) PROVE IndInv'
  BY <1>21 DEF DeclineCancels, RereadIds, CancelAccepted, CancelFailed, Cancelled, Cancelling, Goto
<1>22. ASSUME NEW p \in Press, RecordDecline(p) PROVE IndInv'
  BY <1>22, SMTT(30) DEF RecordDecline, RecordAndReturn, AppendAction, Goto
<1>23. ASSUME NEW p \in Press, NEW s \in Signal, PressYes(p, s) PROVE IndInv'
  BY <1>23 DEF PressYes, HasCard, Goto
<1>24. ASSUME NEW p \in Press, NEW s \in Signal, PressNo(p, s) PROVE IndInv'
  BY <1>24 DEF PressNo, HasCard, Goto
<1>25. ASSUME NEW s \in Signal, RecordLLMGate(s) PROVE IndInv'
  BY <1>25 DEF RecordLLMGate, AppendAction
<1>26. ASSUME NEW s \in Signal, Expire(s) PROVE IndInv'
  BY <1>26 DEF Expire
<1>27. ASSUME NEW o \in OrderId, BrokerMoves(o) PROVE IndInv'
  BY <1>27 DEF BrokerMoves, Cancelled, Partly
<1>28. ASSUME MarketTurns PROVE IndInv'
  BY <1>28 DEF MarketTurns
<1>29. ASSUME Restart PROVE IndInv'
  BY <1>29 DEF Restart
<1>30. CASE UNCHANGED vars
  BY <1>30 DEF vars
<1> QED
  BY <1>1, <1>2, <1>3, <1>4, <1>5, <1>6, <1>7, <1>8, <1>9, <1>10, <1>11, <1>12, <1>13, <1>14,
     <1>15, <1>16, <1>17, <1>18, <1>19, <1>20, <1>21, <1>22, <1>23, <1>24, <1>25,
     <1>26, <1>27, <1>28, <1>29, <1>30
     DEF Next, Step, ConfirmStep, WatchStep, DeclineStep, World

-----------------------------------------------------------------------------
(* The theorems *)

\* Nothing is persisted, placed or pressed at the start.
LEMMA InitHolds == Init => IndInv
<1> SUFFICES ASSUME Init PROVE IndInv
  OBVIOUS
<1> USE OrderIds DEF Init
<1>1. TypeOK
  BY ConstantsAssumption DEF TypeOK, PC, Status
<1>2. Ownership /\ FreshIds
  BY DEF Ownership, Owner, Owning, FreshIds, Placed
<1>3. HeldIds /\ Replacement
  BY DEF HeldIds, Replacement, Watching
<1>4. RecordedIdIsReal /\ FillIsExecuted /\ ReplacedIsCancelled
  BY DEF RecordedIdIsReal, FillIsExecuted, ReplacedIsCancelled, Placed
<1> QED
  BY <1>1, <1>2, <1>3, <1>4 DEF IndInv

\* TypeOK holds in every reachable state: the log, the claims, the order book and
\* the goroutines of confirmOrder, watchFill and declineOrder keep their types, and
\* a goroutine always works for a persisted signal.
THEOREM TypeCorrect == Spec => []TypeOK
<1>1. Init => TypeOK
  BY InitHolds DEF IndInv
<1> QED
  BY <1>1, TypeStep, PTL DEF Spec

\* The inductive invariant of confirmOrder, watchFill and declineOrder holds in
\* every reachable state.
THEOREM Inductive == Spec => []IndInv
<1>1. IndInv /\ [Next]_vars => IndInv'
  BY TypeStep, HistoryStep, IndStep DEF IndInv
<1> QED
  BY <1>1, InitHolds, PTL DEF Spec

\* Two orders of one signal stem from the same press: their presses own the signal
\* that ClaimOrder gave to one of them.
THEOREM OneOwner == Spec => []OnePressOrders
<1>1. IndInv => OnePressOrders
  BY OrderIds DEF IndInv, Ownership, Owner, OnePressOrders, SigOf
<1> QED
  BY <1>1, Inductive, PTL

\* The claim row is there before the broker hears of an order, whatever fails and
\* whenever the process restarts.
THEOREM ClaimFirst == Spec => []OrderIsClaimed
<1>1. IndInv => OrderIsClaimed
  BY OrderIds DEF IndInv, Ownership, Owner, OrderIsClaimed, SigOf
<1> QED
  BY <1>1, Inductive, PTL

\* CONFIRM and the claim row name a real order of their signal.
THEOREM RecordsAreReal == Spec => []RecordedIdIsReal
<1>1. IndInv => RecordedIdIsReal
  BY DEF IndInv
<1> QED
  BY <1>1, Inductive, PTL

\* FILL is appended for executed orders only, in any race of watchFill with a
\* cancel, a decline or the close.
THEOREM FillsAreReal == Spec => []FillIsExecuted
<1>1. IndInv => FillIsExecuted
  BY DEF IndInv
<1> QED
  BY <1>1, Inductive, PTL

\* The claims, the records and the fills together, as the model checker checks them:
\* whatever races and fails, what the tables say of the broker's orders is true.
THEOREM OrdersSound == Spec => []OrdersAreSound
<1>1. TypeOK /\ OnePressOrders /\ OrderIsClaimed /\ RecordedIdIsReal /\ FillIsExecuted
        => OrdersAreSound
  BY DEF OrdersAreSound
<1> QED
  BY <1>1, TypeCorrect, OneOwner, ClaimFirst, RecordsAreReal, FillsAreReal, PTL

\* An order for a Replace signal is only sent once the cancel of the order it replaces
\* has been accepted, whatever cancels fail, replies are lost and presses race; the
\* replaced order is never open again.
THEOREM CancelBeforeOrder == Spec => []ReplacedIsCancelled
<1>1. IndInv => ReplacedIsCancelled
  BY DEF IndInv
<1> QED
  BY <1>1, Inductive, PTL

\* A step changes a placed order for its own signal, or for the signal that replaces
\* it, unless it is the broker's or a decline with a rounded id.
OwnCancel ==
    \A o \in OrderId : Placed(o) /\ broker'[o] # broker[o] =>
        \A p \in Press : pc'[p] # pc[p] =>
            \/ sig[p] = SigOf(o)
            \/ replaces[sig[p]] = o
            \/ pc[p] = "declCancel" /\ oid[p][1] \in WidePress

\* Only cancels, placements and the broker change the book; each is examined.
LEMMA CancelStep == IndInv /\ [Next]_vars => [OwnCancel]_broker
<1> SUFFICES ASSUME IndInv, [Next]_vars, broker' # broker PROVE OwnCancel
  OBVIOUS
<1> USE OrderIds DEF OwnCancel, IndInv, TypeOK, HeldIds, Placed, SigOf, Watching, OnBook, Open,
        Withdrawing, dbVars, envVars, procVars
<1>1. ASSUME NEW p \in Press, CancelReplaced(p) PROVE OwnCancel
  BY <1>1 DEF CancelReplaced, CancelAccepted, CancelFailed, Cancelled, Cancelling, Goto
<1>2. ASSUME NEW p \in Press, PlaceOrder(p, 1) PROVE OwnCancel
  BY <1>2 DEF PlaceOrder, Goto, FreshIds, Unplaced
<1>3. ASSUME NEW p \in Press, PlaceOrder(p, 2) PROVE OwnCancel
  BY <1>3 DEF PlaceOrder, Goto, FreshIds, Unplaced
<1>4. ASSUME NEW p \in Press, CancelMissing(p) PROVE OwnCancel
  BY <1>4 DEF CancelMissing, CancelAccepted, CancelFailed, Cancelled, Cancelling, Goto
<1>5. ASSUME NEW p \in Press, CancelResting(p) PROVE OwnCancel
  BY <1>5 DEF CancelResting, CancelAccepted, CancelFailed, Cancelled, Cancelling, Goto
<1>6. ASSUME NEW p \in Press, DeclineCancels(p) PROVE OwnCancel
  BY <1>6 DEF DeclineCancels, RereadIds, CancelAccepted, CancelFailed, Cancelled, Cancelling, Goto
<1>7. ASSUME NEW o \in OrderId, BrokerMoves(o) PROVE OwnCancel
  BY <1>7 DEF BrokerMoves, Cancelled
<1>8. CASE \E p \in Press : LockConfirm(p) \/ CheckFresh(p) \/ CheckReview(p) \/ CheckMarket(p)
                   \/ ClaimOrder(p) \/ CompleteOrderClaim(p) \/ RecordConfirm(p) \/ Reject(p)
  BY <1>8 DEF LockConfirm, CheckFresh, CheckReview, CheckMarket, Gate, ClaimOrder,
     CompleteOrderClaim, RecordConfirm, Reject
<1>9. CASE \E p \in Press : WatchGivesUp(p) \/ WatchFinds(p) \/ WatchMisses(p) \/ RecordCancel(p)
                   \/ RecordFill(p) \/ DeclineReads(p) \/ RecordDecline(p)
  BY <1>9 DEF WatchGivesUp, WatchFinds, WatchMisses, RecordCancel, RecordFill,
     DeclineReads, RecordDecline, RecordAndReturn
<1>10. CASE \E p \in Press, s \in Signal : PressYes(p, s) \/ PressNo(p, s)
  BY <1>10 DEF PressYes, PressNo
<1>11. CASE \E s \in Signal : AppendSignal(s) \/ RecordLLMGate(s) \/ Expire(s)
  BY <1>11 DEF AppendSignal, RecordLLMGate, Expire
<1>12. CASE MarketTurns \/ Restart \/ UNCHANGED vars
  BY <1>12 DEF MarketTurns, Restart, vars
<1> QED
  BY <1>1, <1>2, <1>3, <1>4, <1>5, <1>6, <1>7, <1>8, <1>9, <1>10, <1>11, <1>12
     DEF Next, Step, ConfirmStep, WatchStep, DeclineStep, World

\* The goroutines of a card cancel only an order of its signal or the one the signal
\* replaces: a press, a watcher or a decline never ends an unrelated order.  Only the
\* decline of an order with an id that a float64 cannot hold may, as it sends another id.
THEOREM NoForeignCancel == Spec => CancelsOnlyItsOwn
<1>1. IndInv /\ [Next]_vars => [OwnCancel]_broker
  BY CancelStep
<1> QED
  BY <1>1, Inductive, PTL DEF Spec, CancelsOnlyItsOwn, OwnCancel

-----------------------------------------------------------------------------
(* The refinement of SignalLife *)

\* Both specifications speak of the same order ids and the same statuses.
LEMMA LifeTerms == Life!OrderId = OrderId /\ Life!Open = Open /\ Life!Executed = Executed
BY DEF Life!OrderId, OrderId, Life!Open, Open, Life!Executed, Executed

\* A step that opens no order and reassigns no press that has one leaves every
\* signal its orders.
LEMMA OrdersKept ==
    ASSUME IndInv, HistoryKept, \A o \in OrderId : Placed(o)' => Placed(o)
    PROVE  OrdersOf' = OrdersOf
BY DEF OrdersOf, HistoryKept

\* A step that appends no FILL leaves the filled signals as they are.
LEMMA FillsKept ==
    ASSUME IndInv, \A s \in Signal : "FILL" \in acts'[s] <=> "FILL" \in acts[s]
    PROVE  FilledSignals' = FilledSignals
BY DEF FilledSignals

\* What the broker may do to an order on the book is a move of its life or nothing.
LEMMA BookStep ==
    ASSUME IndInv, HistoryKept, NEW o \in OrderId, broker[o] \in OnBook,
           NEW st \in {Partly(broker[o]), "filled", Cancelling(broker[o]), Cancelled(broker[o])},
           broker' = [broker EXCEPT ![o] = st],
           UNCHANGED <<signals, replaces, claims, confirmed, acts>>
    PROVE  [Life!Next]_(Life!lifeVars)
<1>1. \A q \in OrderId : Placed(q)' => Placed(q)
  BY DEF Placed, OnBook, Open, Withdrawing, IndInv, TypeOK
<1>2. OrdersOf' = OrdersOf /\ FilledSignals' = FilledSignals
  BY <1>1, OrdersKept, FillsKept
<1>3. CASE st = broker[o]
  <2>1. broker' = broker
    BY <1>3 DEF IndInv, TypeOK
  <2> QED
    BY <1>2, <2>1 DEF Life!lifeVars
<1>4. CASE st # broker[o]
  <2>1. st \in Life!MovesTo(broker[o])
    BY <1>4 DEF Life!MovesTo, Partly, Cancelling, Cancelled, OnBook, Open, Withdrawing, Executed
  <2>2. Life!Move(o)
    BY <1>2, <2>1 DEF Life!Move
  <2> QED
    BY <2>2, LifeTerms DEF Life!Next
<1> QED
  BY <1>3, <1>4

\* A cancel, whether or not its reply arrives, is a move of that order or nothing.
LEMMA CancelIsMove ==
    ASSUME IndInv, HistoryKept, NEW o \in OrderId, CancelAccepted(o) \/ CancelFailed(o),
           UNCHANGED <<signals, replaces, claims, confirmed, acts>>
    PROVE  [Life!Next]_(Life!lifeVars)
<1>1. CASE UNCHANGED broker
  <2>1. OrdersOf' = OrdersOf /\ FilledSignals' = FilledSignals
    BY <1>1, OrdersKept, FillsKept DEF Placed
  <2> QED
    BY <1>1, <2>1 DEF Life!lifeVars
<1>2. CASE CancelAccepted(o)
  BY <1>2, BookStep DEF CancelAccepted
<1> QED
  BY <1>1, <1>2 DEF CancelFailed

\* A submission that reached the broker opens the order in the signal's life: the
\* press owns the claimed signal, its identity is unused, and the replaced order is
\* not open.
LEMMA PlaceIsPlace ==
    ASSUME IndInv, HistoryKept, NEW p \in Press, NEW a \in {1, 2}, PlaceOrder(p, a)
    PROVE  [Life!Next]_(Life!lifeVars)
<1> DEFINE o == <<p, a>>
           s == sig[p]
<1>1. o \in OrderId /\ o[1] = p /\ SigOf(o) = s
  BY OrderIds DEF SigOf
<1>2. pc[p] \in {"place1", "place2"} /\ (pc[p] = "place2" => a = 2) /\ (pc[p] = "place1" => a = 1)
  BY DEF PlaceOrder
<1>3. UNCHANGED <<signals, replaces, claims, confirmed, acts, sig>>
  BY DEF PlaceOrder, dbVars
<1>4. s \in signals /\ s \in Signal /\ s \in claims
  BY <1>2 DEF IndInv, TypeOK, Ownership, Owner, Owning
<1>5. ~Placed(o)
  BY <1>1, <1>2, OrderIds DEF IndInv, FreshIds, Unplaced
<1>6. FilledSignals' = FilledSignals
  BY <1>3, FillsKept
<1>7. CASE UNCHANGED broker
  <2>1. OrdersOf' = OrdersOf
    BY <1>7, OrdersKept DEF Placed
  <2> QED
    BY <1>3, <1>6, <1>7, <2>1 DEF Life!lifeVars
<1>8. CASE broker' = [broker EXCEPT ![o] = "resting"]
  <2>1. \A q \in OrdersOf[s] : q[1] = o[1]
    BY <1>1, <1>2, <1>4, OrderIds DEF OrdersOf, IndInv, Ownership, Owner, Owning, SigOf
  <2>2. replaces[s] # None => broker[replaces[s]] \notin Open
    BY <1>2 DEF IndInv, Replacement
  <2>3. OrdersOf' = [OrdersOf EXCEPT ![s] = @ \cup {o}]
    <3>1. \A q \in OrderId : Placed(q)' <=> Placed(q) \/ q = o
      BY <1>1, <1>8 DEF Placed, IndInv, TypeOK
    <3>2. \A q \in OrderId : SigOf(q)' = SigOf(q)
      BY <1>3 DEF SigOf
    <3> QED
      BY <1>1, <1>4, <3>1, <3>2 DEF OrdersOf
  <2>4. Life!Place(s, o)
    BY <1>1, <1>3, <1>4, <1>5, <1>6, <1>8, <2>1, <2>2, <2>3, LifeTerms DEF Life!Place, Placed
  <2> QED
    BY <1>1, <1>4, <2>4, LifeTerms DEF Life!Next
<1> QED
  BY <1>7, <1>8 DEF PlaceOrder

\* What a step leaves alone when it concerns the process or the clock only.
Aside == UNCHANGED <<signals, replaces, claims, confirmed, broker>>

\* Every step is a step of some signal's life, or leaves it alone.
LEMMA LifeStep == IndInv /\ HistoryKept /\ [Next]_vars => [Life!Next]_(Life!lifeVars)
<1> SUFFICES ASSUME IndInv, HistoryKept, [Next]_vars PROVE [Life!Next]_(Life!lifeVars)
  OBVIOUS
<1> USE OrderIds DEF dbVars, envVars, procVars
<1>1. ASSUME Aside, \A s \in Signal : "FILL" \in acts'[s] <=> "FILL" \in acts[s]
      PROVE  [Life!Next]_(Life!lifeVars)
  <2>1. OrdersOf' = OrdersOf
    BY <1>1, OrdersKept DEF Aside, Placed
  <2> QED
    BY <1>1, <2>1, FillsKept DEF Aside, Life!lifeVars
<1>2. ASSUME NEW p \in Press, ClaimOrder(p) PROVE [Life!Next]_(Life!lifeVars)
  <2>1. UNCHANGED <<signals, replaces, confirmed, broker, acts>>
    BY <1>2 DEF ClaimOrder
  <2>2. OrdersOf' = OrdersOf /\ FilledSignals' = FilledSignals
    BY <2>1, OrdersKept, FillsKept DEF Placed
  <2>3. CASE claims' = claims
    BY <1>1, <2>1, <2>3 DEF Aside
  <2>4. CASE sig[p] \notin claims /\ claims' = claims \cup {sig[p]}
    <3>1. sig[p] \in Signal /\ sig[p] \in signals
      BY <1>2 DEF ClaimOrder, IndInv, TypeOK
    <3>2. Life!Claim(sig[p])
      BY <2>1, <2>2, <2>4, <3>1 DEF Life!Claim
    <3> QED
      BY <3>1, <3>2 DEF Life!Next
  <2> QED
    BY <1>2, <2>3, <2>4 DEF ClaimOrder
<1>3. ASSUME NEW p \in Press, CancelReplaced(p) PROVE [Life!Next]_(Life!lifeVars)
  <2>1. CASE UNCHANGED broker
    BY <1>1, <1>3, <2>1 DEF CancelReplaced, Aside
  <2>2. CASE broker' # broker
    <3>1. replaces[sig[p]] \in OrderId
      BY <1>3, <2>2 DEF CancelReplaced, IndInv, TypeOK
    <3>2. CancelAccepted(replaces[sig[p]]) \/ CancelFailed(replaces[sig[p]])
      BY <1>3, <2>2 DEF CancelReplaced
    <3> QED
      BY <1>3, <3>1, <3>2, CancelIsMove DEF CancelReplaced
  <2> QED
    BY <2>1, <2>2
<1>4. ASSUME NEW p \in Press, PlaceOrder(p, 1) \/ PlaceOrder(p, 2) PROVE [Life!Next]_(Life!lifeVars)
  BY <1>4, PlaceIsPlace
<1>5. ASSUME NEW p \in Press, RecordConfirm(p) PROVE [Life!Next]_(Life!lifeVars)
  <2>1. UNCHANGED <<signals, replaces, claims, broker>>
    BY <1>5 DEF RecordConfirm
  <2>2. \A s \in Signal : "FILL" \in acts'[s] <=> "FILL" \in acts[s]
    BY <1>5 DEF RecordConfirm, IndInv, TypeOK
  <2>3. OrdersOf' = OrdersOf /\ FilledSignals' = FilledSignals
    BY <2>1, <2>2, OrdersKept, FillsKept DEF Placed
  <2>4. CASE confirmed' = confirmed
    BY <1>1, <2>1, <2>2, <2>4 DEF Aside
  <2>5. CASE confirmed' = [confirmed EXCEPT ![sig[p]] = oid[p]]
    <3>1. /\ sig[p] \in Signal
          /\ oid[p] \in OrderId /\ Placed(oid[p]) /\ SigOf(oid[p]) = sig[p]
      BY <1>5 DEF RecordConfirm, IndInv, TypeOK, HeldIds
    <3>2. oid[p] \in OrdersOf[sig[p]]
      BY <3>1 DEF OrdersOf
    <3>3. Life!Name(sig[p], oid[p])
      BY <2>1, <2>3, <2>5, <3>2 DEF Life!Name
    <3> QED
      BY <3>1, <3>3, LifeTerms DEF Life!Next
  <2> QED
    BY <1>5, <2>4, <2>5 DEF RecordConfirm
<1>6. ASSUME NEW p \in Press, CancelMissing(p) \/ CancelResting(p) PROVE [Life!Next]_(Life!lifeVars)
  <2>1. oid[p] \in OrderId
    BY <1>6 DEF CancelMissing, CancelResting, IndInv, HeldIds, Watching
  <2> QED
    BY <1>6, <2>1, CancelIsMove DEF CancelMissing, CancelResting
<1>7. ASSUME NEW p \in Press, DeclineCancels(p) PROVE [Life!Next]_(Life!lifeVars)
  <2>1. RereadIds(oid[p]) \subseteq OrderId
    BY <1>7 DEF DeclineCancels, RereadIds, IndInv, HeldIds
  <2>2. CASE UNCHANGED broker
    BY <1>1, <1>7, <2>2 DEF DeclineCancels, Aside
  <2>3. ASSUME NEW o \in RereadIds(oid[p]), CancelAccepted(o) \/ CancelFailed(o)
        PROVE  [Life!Next]_(Life!lifeVars)
    BY <1>7, <2>1, <2>3, CancelIsMove DEF DeclineCancels
  <2> QED
    BY <1>7, <2>2, <2>3 DEF DeclineCancels
<1>8. ASSUME NEW p \in Press, RecordFill(p) PROVE [Life!Next]_(Life!lifeVars)
  <2>1. UNCHANGED <<signals, replaces, claims, confirmed, broker>>
    BY <1>8 DEF RecordFill, RecordAndReturn
  <2>2. OrdersOf' = OrdersOf
    BY <2>1, OrdersKept DEF Placed
  <2>3. CASE acts' = acts
    BY <1>1, <2>1, <2>3 DEF Aside
  <2>4. CASE acts' = [acts EXCEPT ![sig[p]] = @ \cup {"FILL"}]
    <3>1. /\ sig[p] \in Signal
          /\ oid[p] \in OrderId /\ Placed(oid[p]) /\ SigOf(oid[p]) = sig[p]
          /\ broker[oid[p]] \in Executed
      BY <1>8 DEF RecordFill, RecordAndReturn, IndInv, TypeOK, HeldIds, Watching
    <3>2. oid[p] \in OrdersOf[sig[p]]
      BY <3>1 DEF OrdersOf
    <3>3. FilledSignals' = FilledSignals \cup {sig[p]}
      BY <2>4, <3>1 DEF FilledSignals, IndInv, TypeOK
    <3>4. Life!Fill(sig[p])
      BY <2>1, <2>2, <3>1, <3>2, <3>3, LifeTerms DEF Life!Fill
    <3> QED
      BY <3>1, <3>4 DEF Life!Next
  <2> QED
    BY <1>8, <2>3, <2>4 DEF RecordFill, RecordAndReturn, AppendAction
<1>9. ASSUME NEW s \in Signal, AppendSignal(s) PROVE [Life!Next]_(Life!lifeVars)
  <2>1. UNCHANGED <<claims, confirmed, broker, acts>>
    BY <1>9 DEF AppendSignal
  <2>2. OrdersOf' = OrdersOf /\ FilledSignals' = FilledSignals
    BY <2>1, OrdersKept, FillsKept DEF Placed
  <2>3. PICK old \in {None} \cup {confirmed[q] : q \in ListPendingOrders} :
          replaces' = [replaces EXCEPT ![s] = old]
    BY <1>9 DEF AppendSignal
  <2>4. old \in {None} \cup {confirmed[q] : q \in signals}
    BY <2>3 DEF ListPendingOrders
  <2>5. Life!Post(s)
    BY <1>9, <2>1, <2>2, <2>3, <2>4 DEF AppendSignal, Life!Post
  <2> QED
    BY <2>5 DEF Life!Next
<1>10. ASSUME NEW o \in OrderId, BrokerMoves(o) PROVE [Life!Next]_(Life!lifeVars)
  <2>1. UNCHANGED <<signals, replaces, claims, confirmed, acts>>
    BY <1>10 DEF BrokerMoves
  <2>2. PICK st \in {Partly(broker[o]), "filled", Cancelled(broker[o])} :
          broker' = [broker EXCEPT ![o] = st]
    BY <1>10 DEF BrokerMoves
  <2>3. broker[o] \in OnBook
    BY <1>10 DEF BrokerMoves
  <2> QED
    BY <2>1, <2>2, <2>3, BookStep
<1>11. ASSUME NEW p \in Press, Reject(p) \/ RecordCancel(p) \/ RecordDecline(p)
       PROVE  [Life!Next]_(Life!lifeVars)
  BY <1>1, <1>11 DEF Reject, RecordCancel, RecordDecline, RecordAndReturn, AppendAction, Aside,
     IndInv, TypeOK
<1>12. ASSUME NEW s \in Signal, RecordLLMGate(s) PROVE [Life!Next]_(Life!lifeVars)
  BY <1>1, <1>12 DEF RecordLLMGate, AppendAction, Aside, IndInv, TypeOK
<1>13. CASE \E p \in Press : LockConfirm(p) \/ CheckFresh(p) \/ CheckReview(p) \/ CheckMarket(p)
                   \/ CompleteOrderClaim(p)
  BY <1>1, <1>13 DEF LockConfirm, CheckFresh, CheckReview, CheckMarket, Gate, CompleteOrderClaim, Aside
<1>14. CASE \E p \in Press : WatchGivesUp(p) \/ WatchFinds(p) \/ WatchMisses(p) \/ DeclineReads(p)
  BY <1>1, <1>14 DEF WatchGivesUp, WatchFinds, WatchMisses, DeclineReads, Aside
<1>15. CASE \E p \in Press, s \in Signal : PressYes(p, s) \/ PressNo(p, s)
  BY <1>1, <1>15 DEF PressYes, PressNo, Aside
<1>16. CASE (\E s \in Signal : Expire(s)) \/ MarketTurns \/ Restart \/ UNCHANGED vars
  BY <1>1, <1>16 DEF Expire, MarketTurns, Restart, vars, Aside
<1> QED
  BY <1>2, <1>3, <1>4, <1>5, <1>6, <1>7, <1>8, <1>9, <1>10, <1>11, <1>12, <1>13, <1>14, <1>15, <1>16
     DEF Next, Step, ConfirmStep, WatchStep, DeclineStep, World

\* OrderConfirm implements SignalLife for any number of signals and presses: what two
\* channels, retried submissions, racing cancels, lost replies and restarts do to a
\* signal is a behaviour of the abstract life of a signal.
THEOREM Refinement == Spec => RefinesSignalLife
<1>1. Init => Life!Init
  <2>1. Init => OrdersOf = [s \in Signal |-> {}] /\ FilledSignals = {}
    BY DEF Init, OrdersOf, FilledSignals, Placed
  <2> QED
    BY <2>1, LifeTerms DEF Init, Life!Init
<1>2. IndInv /\ [Next]_vars => [Life!Next]_(Life!lifeVars)
  BY HistoryStep, LifeStep
<1> QED
  BY <1>1, <1>2, Inductive, PTL DEF Spec, RefinesSignalLife, Life!Spec
=============================================================================
