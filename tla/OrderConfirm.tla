---------------------------- MODULE OrderConfirm ----------------------------
(***************************************************************************)
(* From the press of a card's button to the end of the broker order.       *)
(*                                                                         *)
(* Every press of "yes" or "no" on a signal card runs in a goroutine of    *)
(* its own (telegram) or behind one mutex (discord): cmd/wbot/             *)
(* telegram_scheduler.go and discord_scheduler.go.  They share three       *)
(* durable things: the action log wheel_signal_actions, the claim table    *)
(* wheel_order_claims (internal/wheelstore/store.go) and the order book    *)
(* of the broker, reached through internal/futu.  The process may stop at  *)
(* any point; the goroutines and the mutex are lost, the rest stays.       *)
(*                                                                         *)
(* All signals are of one symbol.  The age of a signal is kept as whether  *)
(* it is inside signalFreshWindow.                                         *)
(***************************************************************************)
EXTENDS Integers, FiniteSets

CONSTANTS
    Signal,           \* ids of the ALERT signals that may be persisted
    TgPress,          \* presses of a Telegram button, one goroutine each
    DcPress,          \* presses of a Discord button
    WidePress,        \* presses whose orders get an id that a float64 cannot hold
    Faults,           \* what may go wrong: "store" writes, "reply"s of the broker, "restart"s
    MissingWarnAfter, \* polls without the order before watchFill warns and cancels
    None              \* no signal, no order, no holder of the mutex

Press == TgPress \cup DcPress

\* A press calls TradeClient.PlaceOrder at most once, and withClient sends that
\* call at most twice: <<p, a>> names the order that attempt a of press p opens.
OrderId == Press \X {1, 2}

ASSUME ConstantsAssumption ==
    /\ TgPress \cap DcPress = {}
    /\ WidePress \subseteq Press
    /\ Faults \subseteq {"store", "reply", "restart"}
    /\ MissingWarnAfter \in Nat \ {0}
    /\ None \notin Signal \cup Press \cup OrderId

VARIABLES
    (* durable: PostgreSQL *)
    signals,    \* persisted ALERT signals
    replaces,   \* the order id in the signal's Replace, or None
    acts,       \* kinds of action appended for a signal, of those read here
    confirmed,  \* order_id in the details of the signal's latest CONFIRM
    claims,     \* signals with a row in wheel_order_claims
    claimId,    \* order_id written on the row by CompleteOrderClaim
    (* the broker and the outside world *)
    broker,     \* status of every order
    fresh,      \* signals younger than signalFreshWindow
    audited,    \* signals whose LLM review has ended
    marketOpen, \* wheelrun.MarketIsOpen
    (* the process *)
    pc,         \* where the goroutine of a press is
    sig,        \* the signal of the press
    oid,        \* the order id the goroutine works on
    missing,    \* watchFill's count of polls without the order
    confirmMu   \* holder of discordScheduler.confirmMu

dbVars   == <<signals, replaces, acts, confirmed, claims, claimId>>
envVars  == <<fresh, audited, marketOpen>>
procVars == <<pc, sig, oid, missing, confirmMu>>
vars     == <<dbVars, broker, envVars, procVars>>

ActionKind  == {"LLM_REVIEW", "CONFIRM", "REJECTED", "NO", "FILL"}
Open        == {"resting", "part"}
Withdrawing == {"cancelling", "partCancelling"}
OnBook      == Open \cup Withdrawing
Executed    == {"part", "partCancelling", "filled", "partCancelled"}
Status      == {"none", "filled", "cancelled", "partCancelled"} \cup OnBook

Confirming == {"fresh", "review", "market", "claim", "cancelOld", "place1", "place2",
               "complete", "confirm", "reject"}
Watching   == {"watch", "missing", "restCancel", "restRecord", "fill"}
Declining  == {"decline", "declCancel", "declRecord"}
PC         == {"idle", "lock", "done"} \cup Confirming \cup Watching \cup Declining

TypeOK ==
    /\ signals \subseteq Signal
    /\ replaces \in [Signal -> OrderId \cup {None}]
    /\ acts \in [Signal -> SUBSET ActionKind]
    /\ confirmed \in [Signal -> OrderId \cup {None}]
    /\ claims \subseteq Signal
    /\ claimId \in [Signal -> OrderId \cup {None}]
    /\ broker \in [OrderId -> Status]
    /\ fresh \subseteq signals
    /\ audited \subseteq signals
    /\ marketOpen \in BOOLEAN
    /\ pc \in [Press -> PC]
    /\ sig \in [Press -> Signal \cup {None}]
    /\ \A p \in Press : pc[p] # "idle" => sig[p] \in signals
    /\ \A p \in Press : pc[p] = "lock" => p \in DcPress
    /\ oid \in [Press -> OrderId \cup {None}]
    /\ missing \in [Press -> 0 .. MissingWarnAfter]
    /\ confirmMu \in DcPress \cup {None}

Init ==
    /\ signals = {}
    /\ replaces = [s \in Signal |-> None]
    /\ acts = [s \in Signal |-> {}]
    /\ confirmed = [s \in Signal |-> None]
    /\ claims = {}
    /\ claimId = [s \in Signal |-> None]
    /\ broker = [o \in OrderId |-> "none"]
    /\ fresh = {}
    /\ audited = {}
    /\ marketOpen = TRUE
    /\ pc = [p \in Press |-> "idle"]
    /\ sig = [p \in Press |-> None]
    /\ oid = [p \in Press |-> None]
    /\ missing = [p \in Press |-> 0]
    /\ confirmMu = None

-----------------------------------------------------------------------------
(* The store *)

\* AppendAction adds one row; a failure is logged by the caller, who goes on.
AppendAction(s, kind) ==
    \/ acts' = [acts EXCEPT ![s] = @ \cup {kind}]
    \/ "store" \in Faults /\ UNCHANGED acts

\* Signals with a confirmed order that the store counts as still open.
ListPendingOrders ==
    {s \in signals : "CONFIRM" \in acts[s] /\ acts[s] \cap {"FILL", "NO", "REJECTED"} = {}}

(* The broker *)

Partly(st)     == IF st \in Open THEN "part" ELSE "partCancelling"
Cancelling(st) == IF st \in Executed THEN "partCancelling" ELSE "cancelling"
Cancelled(st)  == IF st \in Executed THEN "partCancelled" ELSE "cancelled"

\* ModifyOrder succeeds when the cancel is accepted: the order is then being
\* cancelled (Cancelling_All, Cancelling_Part), or has been.
CancelAccepted(o) ==
    /\ broker[o] \in OnBook
    /\ \E st \in {Cancelling(broker[o]), Cancelled(broker[o])} :
           broker' = [broker EXCEPT ![o] = st]

\* A cancel that reports an error left the order alone, or lost only the reply.
CancelFailed(o) == UNCHANGED broker \/ ("reply" \in Faults /\ CancelAccepted(o))

(* The goroutines *)

Goto(p, label) == pc' = [pc EXCEPT ![p] = label]

\* Mutant: confirmOrderDiscord returns without the deferred unlock.
UnlockForgotten(p) == UNCHANGED confirmMu

Unlock(p) == confirmMu' = IF confirmMu = p THEN None ELSE confirmMu

\* reject: every refusal of a confirm appends REJECTED; the function returns.
Reject(p) ==
    /\ pc[p] = "reject"
    /\ AppendAction(sig[p], "REJECTED")
    /\ Goto(p, "done")
    /\ Unlock(p)
    /\ UNCHANGED <<signals, replaces, confirmed, claims, claimId, broker, envVars, sig, oid, missing>>

-----------------------------------------------------------------------------
(* confirmOrder, confirmOrderDiscord *)

\* Mutant: the card is sent before its signal is persisted.
CardBeforeSignal(s) == s \in Signal

\* The buttons are on cards, and a card is only sent for an approved signal.
HasCard(s) == s \in signals /\ "LLM_REVIEW" \in acts[s]

PressYes(p, s) ==
    /\ pc[p] = "idle"
    /\ HasCard(s)
    /\ sig' = [sig EXCEPT ![p] = s]
    /\ Goto(p, IF p \in DcPress THEN "lock" ELSE "fresh")
    /\ UNCHANGED <<dbVars, broker, envVars, oid, missing, confirmMu>>

LockConfirm(p) ==
    /\ pc[p] = "lock"
    /\ confirmMu = None
    /\ confirmMu' = p
    /\ Goto(p, "fresh")
    /\ UNCHANGED <<dbVars, broker, envVars, sig, oid, missing>>

\* A check of confirmOrder: it passes when cond holds and the read succeeds.
Gate(p, from, cond, to) ==
    /\ pc[p] = from
    /\ \/ cond /\ Goto(p, to)
       \/ (~cond \/ "store" \in Faults) /\ Goto(p, "reject")
    /\ UNCHANGED <<dbVars, broker, envVars, sig, oid, missing, confirmMu>>

CheckFresh(p) == Gate(p, "fresh", sig[p] \in fresh, "review")

CheckReview(p) == Gate(p, "review", "LLM_REVIEW" \in acts[sig[p]], "market")

\* MarketIsOpen.  Next come an order placer, usable order facts and a positive
\* limit price: here every signal has them (one without is refused by any press).
CheckMarket(p) == Gate(p, "market", marketOpen, "claim")

\* Mutant: RowsAffected is not looked at.
ClaimOrderUnchecked(p) ==
    /\ pc[p] = "claim"
    /\ claims' = claims \cup {sig[p]}
    /\ Goto(p, "cancelOld")
    /\ UNCHANGED <<signals, replaces, acts, confirmed, claimId, broker, envVars,
                   sig, oid, missing, confirmMu>>

\* Mutant: an error of the claim is logged and the order placed.
ClaimOrderFailsOpen(p) ==
    /\ pc[p] = "claim"
    /\ sig[p] \notin claims \/ "store" \in Faults
    /\ claims' \in {claims \cup {sig[p]}} \cup (IF "store" \in Faults THEN {claims} ELSE {})
    /\ Goto(p, "cancelOld")
    /\ UNCHANGED <<signals, replaces, acts, confirmed, claimId, broker, envVars,
                   sig, oid, missing, confirmMu>>

\* INSERT ... ON CONFLICT DO NOTHING: the first press of a signal gets the row.
\* An error refuses, but the insert may have been committed.
ClaimOrder(p) ==
    /\ pc[p] = "claim"
    /\ \/ /\ sig[p] \notin claims
          /\ claims' = claims \cup {sig[p]}
          /\ Goto(p, "cancelOld")
       \/ /\ sig[p] \in claims
          /\ UNCHANGED claims
          /\ Goto(p, "reject")
       \/ /\ "store" \in Faults
          /\ claims' \in {claims, claims \cup {sig[p]}}
          /\ Goto(p, "reject")
    /\ UNCHANGED <<signals, replaces, acts, confirmed, claimId, broker, envVars,
                   sig, oid, missing, confirmMu>>

\* Mutant: a failed cancel of the old order does not stop the new one.
CancelReplacedAnyway(p) ==
    LET old == replaces[sig[p]]
    IN  /\ pc[p] = "cancelOld"
        /\ \/ old = None /\ UNCHANGED broker
           \/ old # None /\ (CancelAccepted(old) \/ CancelFailed(old))
        /\ Goto(p, "place1")
        /\ UNCHANGED <<dbVars, envVars, sig, oid, missing, confirmMu>>

\* A Replace signal cancels the old order first; when that fails nothing is placed.
\* An accepted cancel is enough: its completion is not waited for.
CancelReplaced(p) ==
    LET old == replaces[sig[p]]
    IN  /\ pc[p] = "cancelOld"
        /\ \/ old = None /\ UNCHANGED broker /\ Goto(p, "place1")
           \/ old # None /\ CancelAccepted(old) /\ Goto(p, "place1")
           \/ old # None /\ CancelFailed(old) /\ Goto(p, "reject")
        /\ UNCHANGED <<dbVars, envVars, sig, oid, missing, confirmMu>>

\* Mutant: a stub id, returned without an error, is taken for an order.
PlaceOrderTakesStub(p, attempt) ==
    LET o == <<p, attempt>>
    IN  /\ pc[p] = IF attempt = 1 THEN "place1" ELSE "place2"
        /\ broker' \in {broker, [broker EXCEPT ![o] = "resting"]}
        /\ oid' = [oid EXCEPT ![p] = o]
        /\ Goto(p, "complete")
        /\ UNCHANGED <<dbVars, envVars, sig, missing, confirmMu>>

\* One submission of the order.  It is accepted and its id returned; or there is
\* an error or a stub id, and the broker may have opened the order all the same.
\* withClient sends the request once more after a transport error.
PlaceOrder(p, attempt) ==
    LET o      == <<p, attempt>>
        opened == [broker EXCEPT ![o] = "resting"]
    IN  /\ pc[p] = IF attempt = 1 THEN "place1" ELSE "place2"
        /\ \/ /\ broker' = opened
              /\ oid' = [oid EXCEPT ![p] = o]
              /\ Goto(p, "complete")
           \/ /\ UNCHANGED broker \/ ("reply" \in Faults /\ broker' = opened)
              /\ UNCHANGED oid
              /\ \/ Goto(p, "reject")
                 \/ attempt = 1 /\ Goto(p, "place2")
        /\ UNCHANGED <<dbVars, envVars, sig, missing, confirmMu>>

CompleteOrderClaim(p) ==
    /\ pc[p] = "complete"
    /\ \/ claimId' = [claimId EXCEPT ![sig[p]] = oid[p]]
       \/ "store" \in Faults /\ UNCHANGED claimId
    /\ Goto(p, "confirm")
    /\ UNCHANGED <<signals, replaces, acts, confirmed, claims, broker, envVars,
                   sig, oid, missing, confirmMu>>

\* CONFIRM is appended with the order id; its failure is only logged.  Then the
\* fill watcher starts and the function returns.
RecordConfirm(p) ==
    /\ pc[p] = "confirm"
    /\ \/ /\ acts' = [acts EXCEPT ![sig[p]] = @ \cup {"CONFIRM"}]
          /\ confirmed' = [confirmed EXCEPT ![sig[p]] = oid[p]]
       \/ "store" \in Faults /\ UNCHANGED <<acts, confirmed>>
    /\ Goto(p, "watch")
    /\ Unlock(p)
    /\ UNCHANGED <<signals, replaces, claims, claimId, broker, envVars, sig, oid, missing>>

-----------------------------------------------------------------------------
(* watchFill, watchFillDiscord *)

\* Mutant: the closed market is waited out.
WatchWaitsOutClose(p) ==
    /\ pc[p] = "watch"
    /\ marketOpen
    /\ Goto(p, "restCancel")
    /\ missing' = [missing EXCEPT ![p] = 0]
    /\ UNCHANGED <<dbVars, broker, envVars, sig, oid, confirmMu>>

\* The market has closed, or the status cannot be read: cancelResting.
WatchGivesUp(p) ==
    /\ pc[p] = "watch"
    /\ Goto(p, "restCancel")
    /\ missing' = [missing EXCEPT ![p] = 0]
    /\ UNCHANGED <<dbVars, broker, envVars, sig, oid, confirmMu>>

\* Mutant: an order that no longer rests counts as filled.
WatchFindsGone(p) ==
    /\ pc[p] = "watch"
    /\ marketOpen
    /\ missing' = [missing EXCEPT ![p] = 0]
    /\ Goto(p, IF broker[oid[p]] = "resting" THEN "watch" ELSE "fill")
    /\ UNCHANGED <<dbVars, broker, envVars, sig, oid, confirmMu>>

WatchFinds(p) ==
    LET st == broker[oid[p]]
    IN  /\ pc[p] = "watch"
        /\ marketOpen
        /\ missing' = [missing EXCEPT ![p] = 0]
        /\ \/ st \in {"part", "filled"} /\ Goto(p, "fill")
           \/ st \in Withdrawing \cup {"cancelled", "partCancelled"} /\ Goto(p, "done")
           \/ st = "resting" /\ UNCHANGED pc
        /\ UNCHANGED <<dbVars, broker, envVars, sig, oid, confirmMu>>

\* The count saturates at the threshold, beyond which it is never compared.
WatchMisses(p) ==
    LET n == missing[p] + 1
    IN  /\ pc[p] = "watch"
        /\ marketOpen
        /\ missing' = [missing EXCEPT ![p] = IF n >= MissingWarnAfter THEN MissingWarnAfter ELSE n]
        /\ Goto(p, IF n >= MissingWarnAfter THEN "missing" ELSE "watch")
        /\ UNCHANGED <<dbVars, broker, envVars, sig, oid, confirmMu>>

\* A NOTE (no query reads it), then a cancel: success ends the watch and records
\* nothing more, failure goes on watching.
CancelMissing(p) ==
    /\ pc[p] = "missing"
    /\ \/ /\ CancelAccepted(oid[p])
          /\ Goto(p, "done")
          /\ missing' = [missing EXCEPT ![p] = 0]
       \/ /\ CancelFailed(oid[p])
          /\ Goto(p, "watch")
          /\ UNCHANGED missing
    /\ UNCHANGED <<dbVars, envVars, sig, oid, confirmMu>>

\* Mutant: the order to cancel is looked up by symbol.
CancelRestingOfSymbol(p) ==
    /\ pc[p] = "restCancel"
    /\ \/ \E o \in OrderId : CancelAccepted(o) /\ Goto(p, "restRecord")
       \/ UNCHANGED broker /\ Goto(p, "done")
    /\ UNCHANGED <<dbVars, envVars, sig, oid, missing, confirmMu>>

\* cancelResting: only a successful cancel is recorded.
CancelResting(p) ==
    /\ pc[p] = "restCancel"
    /\ \/ CancelAccepted(oid[p]) /\ Goto(p, "restRecord")
       \/ CancelFailed(oid[p]) /\ Goto(p, "done")
    /\ UNCHANGED <<dbVars, envVars, sig, oid, missing, confirmMu>>

\* The last write of a goroutine: the action it ends with.
RecordAndReturn(p, from, kind) ==
    /\ pc[p] = from
    /\ AppendAction(sig[p], kind)
    /\ Goto(p, "done")
    /\ UNCHANGED <<signals, replaces, confirmed, claims, claimId, broker, envVars,
                   sig, oid, missing, confirmMu>>

RecordCancel(p) == RecordAndReturn(p, "restRecord", "NO")
RecordFill(p)   == RecordAndReturn(p, "fill", "FILL")

-----------------------------------------------------------------------------
(* declineOrder and the "no" branch of handleInteraction *)

PressNo(p, s) ==
    /\ pc[p] = "idle"
    /\ HasCard(s)
    /\ sig' = [sig EXCEPT ![p] = s]
    /\ Goto(p, "decline")
    /\ UNCHANGED <<dbVars, broker, envVars, oid, missing, confirmMu>>

\* LatestAction CONFIRM: an order id to cancel, or none (or the read failed).
DeclineReads(p) ==
    /\ pc[p] = "decline"
    /\ \/ /\ confirmed[sig[p]] # None
          /\ oid' = [oid EXCEPT ![p] = confirmed[sig[p]]]
          /\ Goto(p, "declCancel")
       \/ /\ UNCHANGED oid
          /\ Goto(p, "declRecord")
    /\ UNCHANGED <<dbVars, broker, envVars, sig, missing, confirmMu>>

\* The id comes back from JSONB as a float64.  A wide id has been rounded to one
\* that a float64 holds: it names no order, or another one.
RereadIds(o) == IF o[1] \in WidePress THEN {q \in OrderId : q[1] \notin WidePress} ELSE {o}

\* The result of the cancel only changes the note.
DeclineCancels(p) ==
    /\ pc[p] = "declCancel"
    /\ \/ UNCHANGED broker
       \/ \E o \in RereadIds(oid[p]) : CancelAccepted(o) \/ CancelFailed(o)
    /\ Goto(p, "declRecord")
    /\ UNCHANGED <<dbVars, envVars, sig, oid, missing, confirmMu>>

RecordDecline(p) == RecordAndReturn(p, "declRecord", "NO")

-----------------------------------------------------------------------------
(* The strategy runner, the LLM review, the broker and the clock *)

\* The runner persists an ALERT.  Its Replace names an order that was pending
\* when the pass read the store, or is absent.
AppendSignal(s) ==
    /\ s \notin signals
    /\ signals' = signals \cup {s}
    /\ fresh' = fresh \cup {s}
    /\ \E old \in {None} \cup {confirmed[q] : q \in ListPendingOrders} :
           replaces' = [replaces EXCEPT ![s] = old]
    /\ UNCHANGED <<acts, confirmed, claims, claimId, broker, audited, marketOpen, procVars>>

\* RecordLLMGate, with the runner's one retry: APPROVE appends LLM_REVIEW, a
\* rejection REJECTED.  LLM_REVIEW_FAILED, which nothing here reads, is left out.
RecordLLMGate(s) ==
    /\ s \in signals \ audited
    /\ audited' = audited \cup {s}
    /\ AppendAction(s, "LLM_REVIEW") \/ AppendAction(s, "REJECTED")
    /\ UNCHANGED <<signals, replaces, confirmed, claims, claimId, broker, fresh, marketOpen, procVars>>

\* The broker executes an order, wholly or in part, or ends it.  An order that is
\* being cancelled may still be executed; the cancel is not taken back.
BrokerMoves(o) ==
    /\ broker[o] \in OnBook
    /\ \E st \in {Partly(broker[o]), "filled", Cancelled(broker[o])} :
           broker' = [broker EXCEPT ![o] = st]
    /\ UNCHANGED <<dbVars, envVars, procVars>>

Expire(s) ==
    /\ s \in fresh
    /\ fresh' = fresh \ {s}
    /\ UNCHANGED <<dbVars, broker, audited, marketOpen, procVars>>

\* A closure lasts longer than signalFreshWindow, so no signal is fresh across it
\* (one posted in the last minutes before the opening counts as posted at it).
MarketTurns ==
    /\ marketOpen \/ fresh = {}
    /\ marketOpen' = ~marketOpen
    /\ UNCHANGED <<dbVars, broker, fresh, audited, procVars>>

\* The process stops: goroutines, the mutex and queued reviews are gone, and no
\* goroutine is resumed by the next start.
Restart ==
    /\ "restart" \in Faults
    /\ pc' = [p \in Press |-> IF pc[p] = "idle" THEN "idle" ELSE "done"]
    /\ confirmMu' = None
    /\ missing' = [p \in Press |-> 0]
    /\ audited' = signals
    /\ UNCHANGED <<dbVars, broker, fresh, marketOpen, sig, oid>>

-----------------------------------------------------------------------------

ConfirmStep(p) ==
    \/ LockConfirm(p) \/ CheckFresh(p) \/ CheckReview(p) \/ CheckMarket(p)
    \/ ClaimOrder(p) \/ CancelReplaced(p) \/ PlaceOrder(p, 1) \/ PlaceOrder(p, 2)
    \/ CompleteOrderClaim(p) \/ RecordConfirm(p) \/ Reject(p)

WatchStep(p) ==
    \/ WatchGivesUp(p) \/ WatchFinds(p) \/ WatchMisses(p) \/ CancelMissing(p)
    \/ CancelResting(p) \/ RecordCancel(p) \/ RecordFill(p)

DeclineStep(p) == DeclineReads(p) \/ DeclineCancels(p) \/ RecordDecline(p)

Step(p) == ConfirmStep(p) \/ WatchStep(p) \/ DeclineStep(p)

World ==
    \/ \E s \in Signal : AppendSignal(s) \/ RecordLLMGate(s) \/ Expire(s)
    \/ \E o \in OrderId : BrokerMoves(o)
    \/ MarketTurns

Next ==
    \/ \E p \in Press : Step(p)
    \/ \E p \in Press, s \in Signal : PressYes(p, s) \/ PressNo(p, s)
    \/ World
    \/ Restart

Spec == Init /\ [][Next]_vars

\* Goroutines and HTTP handlers are scheduled; buttons, broker and clock are not.
FairSpec == Spec /\ \A p \in Press : WF_vars(Step(p))

-----------------------------------------------------------------------------
(* Properties *)

Placed(o) == broker[o] # "none"
SigOf(o)  == sig[o[1]]

\* However many times, through whichever channel and across whatever restarts a
\* card is confirmed, all broker orders of a signal stem from one press: the one
\* that won ClaimOrder.
OnePressOrders ==
    \A o1, o2 \in OrderId :
        Placed(o1) /\ Placed(o2) /\ SigOf(o1) = SigOf(o2) => o1[1] = o2[1]

\* The claim row is durable before the broker hears of the order (migration 011:
\* "A claim is inserted before the broker call"), so that a restart between the
\* two can never lead to a second order.
OrderIsClaimed == \A o \in OrderId : Placed(o) => SigOf(o) \in claims

\* CONFIRM, and the id on the claim row, name an order that the broker really
\* opened for this signal; never a stub and never another signal's order.
RecordedIdIsReal ==
    \A s \in Signal : \A o \in {confirmed[s], claimId[s]} \ {None} :
        Placed(o) /\ SigOf(o) = s

\* FILL is only appended for an order that was executed at least in part, even
\* when the fill races a cancel, a decline or the closing of the market.
FillIsExecuted ==
    \A s \in Signal : "FILL" \in acts[s] =>
        \E o \in OrderId : SigOf(o) = s /\ broker[o] \in Executed

\* What the tables say of the broker's orders is true, whatever presses race and
\* whatever fails: one press per signal orders, behind a durable claim, and the
\* recorded ids and fills are the broker's.
OrdersAreSound ==
    /\ TypeOK
    /\ OnePressOrders
    /\ OrderIsClaimed
    /\ RecordedIdIsReal
    /\ FillIsExecuted

\* An order for a Replace signal is sent only once the broker has accepted the
\* cancel of the order it replaces ("先撤销旧挂单再下新单", confirmOrder), and the
\* old one is from then on being cancelled or at its end: neither a cancel whose
\* reply was lost nor a second press leaves it resting uncancelled beside the new
\* one.  It may still be executed while its cancel is under way.
ReplacedIsCancelled ==
    \A o \in OrderId : Placed(o) /\ replaces[SigOf(o)] # None =>
        broker[replaces[SigOf(o)]] \notin Open

\* A goroutine of a card only ever cancels an order of its own signal or the one
\* its signal replaces; every other order only the broker moves.  The exception is
\* the decline of an order with a wide id, which sends the rounded id.
CancelsOnlyItsOwn ==
    [][\A o \in OrderId : Placed(o) /\ broker'[o] # broker[o] =>
           \A p \in Press : pc'[p] # pc[p] =>
               \/ sig[p] = SigOf(o)
               \/ replaces[sig[p]] = o
               \/ pc[p] = "declCancel" /\ oid[p][1] \in WidePress]_broker

\* Every accepted press comes to an end, behind confirmMu as well: it ends with an
\* order under watch, a refusal or a recorded decline.
PressIsAnswered ==
    \A p \in Press : (pc[p] \in {"lock"} \cup Confirming \cup Declining) ~> (pc[p] \in Watching \cup {"done"})

\* Once the market stays closed, no order is watched for ever: watchFill ends with
\* its cancel.
WatchEndsAfterClose ==
    \A p \in Press : (pc[p] \in Watching /\ []~marketOpen) ~> (pc[p] = "done")

\* The broker's orders of a signal are those of the presses on its card.
OrdersOf      == [s \in Signal |-> {o \in OrderId : Placed(o) /\ SigOf(o) = s}]
FilledSignals == {s \in Signal : "FILL" \in acts[s]}

\* OrderConfirm implements SignalLife.
Life == INSTANCE SignalLife WITH
    posted   <- signals,
    replaced <- replaces,
    claimed  <- claims,
    placed   <- OrdersOf,
    status   <- broker,
    named    <- confirmed,
    filled   <- FilledSignals

\* Every step of the goroutines, the broker and the restarts is a step of a
\* signal's life or leaves it alone: the presses of two channels, the retried
\* submission, the cancels that race a fill and the lost replies never open an
\* order for an unclaimed signal, by a second press, or while the replaced order
\* rests uncancelled.
RefinesSignalLife == Life!Spec

(* What comments of the code say, and the code does not do *)

\* confirmOrder: a new order beside the old one is a double exposure ("旧单仍在,再
\* 下单即重复敞口").  The replaced order is off the book when the new one is sent.
ReplacedIsOffBook ==
    \A o \in OrderId : Placed(o) /\ replaces[SigOf(o)] # None =>
        broker[replaces[SigOf(o)]] \notin OnBook

\* wheelstore/store.go: "ClaimOrder atomically reserves the one broker order
\* allowed for a signal".
OneOrderPerSignal ==
    \A o1, o2 \in OrderId :
        Placed(o1) /\ Placed(o2) /\ SigOf(o1) = SigOf(o2) => o1 = o2

\* declineOrder: a failed cancel is reported, "保证挂单被取消而不是静默遗留" (the
\* order is cancelled, not silently left behind).  A decline that found nothing to
\* cancel and says so leaves no order of the signal on the book.
DeclineLeavesNoOrder ==
    [][\A p \in Press : pc[p] = "declRecord" /\ pc'[p] = "done" /\ oid[p] = None
           => \A o \in OrderId : SigOf(o) = sig[p] => broker[o] \notin OnBook]_pc
=============================================================================
