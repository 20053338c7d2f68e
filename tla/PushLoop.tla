------------------------------ MODULE PushLoop ------------------------------
(***************************************************************************)
(* The loop that turns persisted ALERT signals into cards with buttons:    *)
(* runPush and pushSignal of cmd/wbot/telegram_scheduler.go, and their     *)
(* copies runDiscordPush and pushSignalDiscord of discord_scheduler.go.    *)
(*                                                                         *)
(* The Discord loop is the instance with one chat and GateAlerts.  The     *)
(* loop reads the store query by query while signals are inserted and      *)
(* their LLM reviews land, so every query is a step of its own.            *)
(*                                                                         *)
(* All signals are of one symbol.  Ages are kept as the two facts the loop *)
(* asks for: older than signalFreshWindow, and latest failure older than   *)
(* llmReviewRetryWindow.                                                   *)
(***************************************************************************)
EXTENDS Integers, FiniteSets, FiniteSetsExt

CONSTANTS
    MaxSignals,   \* bound on the ids of wheel_signals
    Chats,        \* the whitelisted chats, or the one Discord channel
    Batch,        \* the LIMIT of QuerySignalsSince
    Unrenderable, \* signals for which no card can be rendered
    GateAlerts,   \* whether the loop calls alertLLMGate (Discord)
    Faults        \* what may go wrong: "store" reads, "send"s, lost "reply"s,
                  \* inserts that "commit" out of id order, "restart"s

ASSUME ConstantsAssumption ==
    /\ MaxSignals \in Nat
    /\ Batch \in Nat \ {0}
    /\ Unrenderable \subseteq 1 .. MaxSignals
    /\ GateAlerts \in BOOLEAN
    /\ Faults \subseteq {"store", "send", "reply", "commit", "restart"}

Signal == 1 .. MaxSignals

VARIABLES
    (* durable: PostgreSQL *)
    visible,    \* ids of the committed ALERT rows
    acts,       \* kinds of review action appended for a signal
    dismissed,  \* the symbol's dismissal: "no", for "today", or on a "past" day
    (* the outside world *)
    old,        \* signals older than signalFreshWindow
    cold,       \* signals whose latest LLM_REVIEW_FAILED is older than the window
    auditor,    \* how far the review of a signal is
    cards,      \* cards of a signal a chat has received, counted up to 2
    unseen,     \* signals committed after the loop had read a row with a larger id
    (* the loop *)
    pc,
    seed,       \* MaxSignalID at the start of this process
    cursor,
    handled,
    sentChats,  \* chats that have answered for the card of a signal
    batch,      \* rows of the last query yet to be looked at
    pending,    \* some row of this pass must be retried
    todo,       \* chats this pushSignal has yet to try
    retry,      \* pushSignal's result
    cooling,    \* lastAlert of alertLLMGate is inside llmAlertCooldown
    alerted     \* signals for which a gate alert was delivered

storeVars == <<visible, acts, dismissed>>
worldVars == <<old, cold, auditor, unseen>>
passVars  == <<seed, cursor, handled, sentChats, batch, pending>>
alertVars == <<cooling, alerted>>
vars      == <<storeVars, worldVars, cards, pc, passVars, todo, retry, alertVars>>

ReviewKind == {"LLM_REVIEW", "REJECTED", "LLM_REVIEW_FAILED"}

Reading == {"dismissed", "review", "rejected", "failed", "fresh"}

TypeOK ==
    /\ visible \subseteq Signal
    /\ acts \in [Signal -> SUBSET ReviewKind]
    /\ dismissed \in {"no", "today", "past"}
    /\ old \subseteq visible /\ cold \subseteq visible /\ unseen \subseteq visible
    /\ auditor \in [Signal -> {"none", "first", "again", "done"}]
    /\ cards \in [Signal -> [Chats -> 0 .. 2]]
    /\ pc \in {"seed", "tick", "next", "send"} \cup Reading
    /\ seed \in 0 .. MaxSignals /\ cursor \in seed .. MaxSignals
    /\ handled \subseteq visible
    /\ sentChats \in [Signal -> SUBSET Chats]
    /\ batch \subseteq visible
    /\ pc \in Reading \cup {"send"} => batch # {}
    /\ pending \in BOOLEAN /\ retry \in BOOLEAN /\ cooling \in BOOLEAN
    /\ todo \subseteq Chats
    /\ alerted \subseteq visible

Init ==
    /\ visible = {} /\ acts = [s \in Signal |-> {}] /\ dismissed = "no"
    /\ old = {} /\ cold = {} /\ unseen = {}
    /\ auditor = [s \in Signal |-> "none"]
    /\ cards = [s \in Signal |-> [c \in Chats |-> 0]]
    /\ pc = "seed" /\ seed = 0 /\ cursor = 0
    /\ handled = {} /\ sentChats = [s \in Signal |-> {}]
    /\ batch = {} /\ pending = FALSE /\ todo = {} /\ retry = FALSE
    /\ cooling = FALSE /\ alerted = {}

-----------------------------------------------------------------------------
(* runPush, runDiscordPush *)

\* Mutant: the loop starts at zero when MaxSignalID fails.
MaxSignalIDOrZero ==
    /\ pc = "seed"
    /\ seed' = 0 /\ cursor' = 0
    /\ pc' = "tick"
    /\ UNCHANGED <<storeVars, worldVars, cards, handled, sentChats, batch, pending, todo, retry,
                   alertVars>>

\* A failed MaxSignalID is asked again before the first tick: no step.
MaxSignalID ==
    /\ pc = "seed"
    /\ seed' = Max({0} \cup visible)
    /\ cursor' = Max({0} \cup visible)
    /\ pc' = "tick"
    /\ UNCHANGED <<storeVars, worldVars, cards, handled, sentChats, batch, pending, todo, retry,
                   alertVars>>

\* Mutant: the condition on the id is missing.
QuerySignals == {s \in visible : Cardinality({r \in visible : r < s}) < Batch}

\* The first Batch rows after the cursor, in id order.  A failed query is the next
\* tick's business: no step.
QuerySignalsSince ==
    LET after == {s \in visible : s > cursor}
    IN  {s \in after : Cardinality({r \in after : r < s}) < Batch}

Tick ==
    /\ pc = "tick"
    /\ batch' = QuerySignalsSince
    /\ pending' = FALSE
    /\ pc' = "next"
    /\ UNCHANGED <<storeVars, worldVars, cards, seed, cursor, handled, sentChats, todo, retry,
                   alertVars>>

cur == Min(batch)

\* Mutant: the cursor follows every row that is done with.
AdvancePastPending ==
    /\ cursor' = cur
    /\ batch' = batch \ {cur}
    /\ UNCHANGED pending

\* The cursor is a waterline: it follows while nothing before cur is pending.
Advance ==
    /\ cursor' = IF pending THEN cursor ELSE cur
    /\ batch' = batch \ {cur}
    /\ UNCHANGED pending

\* pushSignal returned true: the row is looked at again in the next pass.
Retry ==
    /\ pending' = TRUE
    /\ batch' = batch \ {cur}
    /\ pc' = "next"
    /\ UNCHANGED <<cursor, handled, sentChats>>

\* pushSignal returned false: the row is done with, pushed or not.
Settle ==
    /\ handled' = handled \cup {cur}
    /\ sentChats' = [sentChats EXCEPT ![cur] = {}]
    /\ Advance
    /\ pc' = "next"

\* The next row, or the end of the pass with its clean-up of both maps.
NextRow ==
    /\ pc = "next"
    /\ \/ /\ batch # {} /\ cur \in handled
          /\ Advance
          /\ UNCHANGED <<pc, handled, sentChats>>
       \/ /\ batch # {} /\ cur \notin handled
          /\ pc' = "dismissed"
          /\ UNCHANGED <<cursor, batch, pending, handled, sentChats>>
       \/ /\ batch = {}
          /\ handled' = {s \in handled : s > cursor}
          /\ sentChats' = [s \in Signal |-> IF s > cursor THEN sentChats[s] ELSE {}]
          /\ pc' = "tick"
          /\ UNCHANGED <<cursor, batch, pending>>
    /\ UNCHANGED <<storeVars, worldVars, cards, seed, todo, retry, alertVars>>

-----------------------------------------------------------------------------
(* pushSignal, pushSignalDiscord: the gates *)

\* One read of the store: an error means retry, otherwise the answer decides.
Read(from, answer) ==
    /\ pc = from
    /\ answer \/ ("store" \in Faults /\ Retry)
    /\ UNCHANGED <<storeVars, worldVars, cards, seed, todo, retry, alertVars>>

Proceed(to) == pc' = to /\ UNCHANGED <<cursor, handled, sentChats, batch, pending>>

IsDismissed ==
    Read("dismissed", IF dismissed = "today" THEN Settle ELSE Proceed("review"))

\* Mutant: any recorded review, a refusal too, gets a card.
CardForAnyReview ==
    /\ pc = "review"
    /\ IF acts[cur] # {}
       THEN todo' = Chats \ sentChats[cur] /\ retry' = FALSE /\ Proceed("send")
       ELSE Proceed("rejected") /\ UNCHANGED <<todo, retry>>
    /\ UNCHANGED <<storeVars, worldVars, cards, seed, alertVars>>

\* An approved signal is rendered and its card sent to the chats still without it.
LatestLLMReview ==
    /\ pc = "review"
    /\ \/ /\ "LLM_REVIEW" \in acts[cur] /\ cur \notin Unrenderable
          /\ todo' = Chats \ sentChats[cur]
          /\ retry' = FALSE
          /\ Proceed("send")
       \/ /\ "LLM_REVIEW" \in acts[cur] /\ cur \in Unrenderable
          /\ Settle
          /\ UNCHANGED <<todo, retry>>
       \/ /\ "LLM_REVIEW" \notin acts[cur]
          /\ Proceed("rejected")
          /\ UNCHANGED <<todo, retry>>
       \/ /\ "store" \in Faults
          /\ Retry
          /\ UNCHANGED <<todo, retry>>
    /\ UNCHANGED <<storeVars, worldVars, cards, seed, alertVars>>

IsRejected ==
    Read("rejected", IF "REJECTED" \in acts[cur] THEN Settle ELSE Proceed("failed"))

\* Mutant: the cooldown is recorded before the alert is sent.
CooldownFirst ==
    \/ (~GateAlerts \/ cooling) /\ UNCHANGED alertVars
    \/ /\ GateAlerts /\ ~cooling /\ cooling' = TRUE
       /\ alerted' \in {alerted \cup {cur}} \cup (IF "send" \in Faults THEN {alerted} ELSE {})

\* alertLLMGate: at most one alert per cooldown, which starts when one is delivered.
AlertLLMGate ==
    \/ (~GateAlerts \/ cooling \/ "send" \in Faults) /\ UNCHANGED alertVars
    \/ GateAlerts /\ ~cooling /\ cooling' = TRUE /\ alerted' = alerted \cup {cur}

\* A failed review is waited for until its retry must have ended.
IsFailed ==
    /\ pc = "failed"
    /\ \/ /\ "LLM_REVIEW_FAILED" \notin acts[cur]
          /\ Proceed("fresh") /\ UNCHANGED alertVars
       \/ /\ "LLM_REVIEW_FAILED" \in acts[cur] /\ cur \notin cold
          /\ Retry /\ UNCHANGED alertVars
       \/ /\ "LLM_REVIEW_FAILED" \in acts[cur] /\ cur \in cold
          /\ Settle /\ AlertLLMGate
       \/ /\ "store" \in Faults
          /\ Retry /\ UNCHANGED alertVars
    /\ UNCHANGED <<storeVars, worldVars, cards, seed, todo, retry>>

\* No review of any kind: a race with the writer of the signal, or none will come.
IsFresh ==
    /\ pc = "fresh"
    /\ IF cur \in old THEN Settle ELSE Retry
    /\ UNCHANGED <<storeVars, worldVars, cards, seed, todo, retry, alertVars>>

-----------------------------------------------------------------------------
(* pushSignal, pushSignalDiscord: sending the card *)

Received(s, c) == [cards EXCEPT ![s][c] = IF @ = 2 THEN 2 ELSE @ + 1]

SendMessage(c) ==
    /\ pc = "send" /\ c \in todo
    /\ cards' = Received(cur, c)
    /\ sentChats' = [sentChats EXCEPT ![cur] = @ \cup {c}]
    /\ todo' = todo \ {c}
    /\ UNCHANGED <<storeVars, worldVars, pc, seed, cursor, handled, batch, pending, retry, alertVars>>

\* An error, with which the card may have arrived when only the reply was lost.
SendFails(c) ==
    /\ pc = "send" /\ c \in todo
    /\ \/ "send" \in Faults /\ UNCHANGED cards
       \/ "reply" \in Faults /\ cards' = Received(cur, c)
    /\ retry' = TRUE
    /\ todo' = todo \ {c}
    /\ UNCHANGED <<storeVars, worldVars, pc, passVars, alertVars>>

\* Mutant: a failed send is logged and the row done with.
SendGivesUp ==
    /\ pc = "send" /\ todo = {}
    /\ Settle
    /\ UNCHANGED <<storeVars, worldVars, cards, seed, todo, retry, alertVars>>

SendEnds ==
    /\ pc = "send" /\ todo = {}
    /\ IF retry THEN Retry ELSE Settle
    /\ UNCHANGED <<storeVars, worldVars, cards, seed, todo, retry, alertVars>>

-----------------------------------------------------------------------------
(* The writers of the store, the clock and the process *)

\* AppendSignal of an ALERT.  Ids are drawn from a sequence before the row is
\* committed, so rows of concurrent writers may appear out of id order.
AppendSignal(s) ==
    /\ s \notin visible
    /\ "commit" \in Faults \/ \A r \in Signal : r < s => r \in visible
    /\ visible' = visible \cup {s}
    /\ unseen' = IF s < Max({cursor + 1} \cup batch \cup handled) THEN unseen \cup {s} ELSE unseen
    /\ auditor' = [auditor EXCEPT ![s] = "first"]
    /\ UNCHANGED <<acts, dismissed, old, cold, cards, pc, passVars, todo, retry, alertVars>>

\* RecordLLMGate appends one disposition.  The wheel runner repeats a failed
\* review once; a review asked for by an HTTP request is not repeated.
RecordLLMGate(s, kind) ==
    /\ auditor[s] \in {"first", "again"}
    /\ acts' = [acts EXCEPT ![s] = @ \cup {kind}]
    /\ cold' = cold \ {s}
    /\ \/ auditor' = [auditor EXCEPT ![s] = "done"]
       \/ /\ kind = "LLM_REVIEW_FAILED" /\ auditor[s] = "first"
          /\ auditor' = [auditor EXCEPT ![s] = "again"]
    /\ UNCHANGED <<visible, dismissed, old, unseen, cards, pc, passVars, todo, retry, alertVars>>

\* The button Dismiss silences the symbol until the end of the UTC day.
Dismiss ==
    /\ dismissed = "no" /\ \E s \in Signal, c \in Chats : cards[s][c] > 0
    /\ dismissed' = "today"
    /\ UNCHANGED <<visible, acts, worldVars, cards, pc, passVars, todo, retry, alertVars>>

NextDay ==
    /\ dismissed = "today"
    /\ dismissed' = "past"
    /\ UNCHANGED <<visible, acts, worldVars, cards, pc, passVars, todo, retry, alertVars>>

Age(s) ==
    /\ s \in visible \ old
    /\ old' = old \cup {s}
    /\ UNCHANGED <<storeVars, cold, auditor, unseen, cards, pc, passVars, todo, retry, alertVars>>

\* The window outlasts the one retry of a review (303 s < 360 s), and it does not
\* close between two reads of one pushSignal.
RetryWindowCloses(s) ==
    /\ "LLM_REVIEW_FAILED" \in acts[s] /\ auditor[s] = "done" /\ s \notin cold
    /\ pc \in Reading => cur # s
    /\ cold' = cold \cup {s}
    /\ UNCHANGED <<storeVars, old, auditor, unseen, cards, pc, passVars, todo, retry, alertVars>>

AlertCooldownEnds ==
    /\ cooling
    /\ cooling' = FALSE
    /\ UNCHANGED <<storeVars, worldVars, cards, pc, passVars, todo, retry, alerted>>

\* Cursor, maps and queued reviews are lost.
Restart ==
    /\ "restart" \in Faults
    /\ pc' = "seed"
    /\ seed' = 0 /\ cursor' = 0
    /\ handled' = {} /\ sentChats' = [s \in Signal |-> {}]
    /\ batch' = {} /\ pending' = FALSE /\ todo' = {} /\ retry' = FALSE
    /\ cooling' = FALSE
    /\ auditor' = [s \in Signal |-> IF auditor[s] = "none" THEN "none" ELSE "done"]
    /\ UNCHANGED <<storeVars, old, cold, unseen, cards, alerted>>

-----------------------------------------------------------------------------

Loop ==
    \/ MaxSignalID \/ Tick \/ NextRow \/ IsDismissed \/ LatestLLMReview \/ IsRejected
    \/ IsFailed \/ IsFresh \/ SendEnds
    \/ \E c \in Chats : SendMessage(c) \/ SendFails(c)

World ==
    \/ \E s \in Signal : AppendSignal(s) \/ Age(s) \/ RetryWindowCloses(s)
    \/ \E s \in Signal, kind \in ReviewKind : RecordLLMGate(s, kind)
    \/ Dismiss \/ NextDay \/ AlertCooldownEnds

Next == Loop \/ World \/ Restart

Spec == Init /\ [][Next]_vars

\* The goroutine of the loop is scheduled, time passes, a review ends (its HTTP
\* client has a timeout) and a chat that is tried for ever answers.
FairSpec ==
    /\ Spec
    /\ WF_vars(Loop)
    /\ \A s \in Signal : WF_vars(Age(s)) /\ SF_vars(RetryWindowCloses(s))
    /\ \A s \in Signal : WF_vars(\E kind \in ReviewKind : RecordLLMGate(s, kind))
    /\ \A c \in Chats : SF_vars(SendMessage(c))

-----------------------------------------------------------------------------
(* Properties *)

Approved(s) == "LLM_REVIEW" \in acts[s]

\* A chat gets the card of a signal once ("a healthy chat never receives a duplicate
\* actionable card", pushSignal): neither the retry for another chat, nor a held
\* cursor, nor a restart sends it again.
HealthyChatOneCard == \A s \in Signal, c \in Chats : cards[s][c] <= 1

\* No signal without an approving review reaches a chat, however the reads of the
\* gates interleave with the review and its retry.
OnlyApprovedIsCarded == \A s \in Signal, c \in Chats : cards[s][c] > 0 => Approved(s)

\* What a chat receives it may receive: cards of approved signals, each once.
CardsAreDue ==
    /\ TypeOK
    /\ HealthyChatOneCard
    /\ OnlyApprovedIsCarded

\* The cursor and the handled set never pass over a card that is due: an approved,
\* renderable signal inside its freshness window, of a symbol nobody dismissed, that
\* the loop has put behind itself is in every chat.
NothingPassedOver ==
    \A s \in visible \ (unseen \cup old \cup Unrenderable) :
        Approved(s) /\ dismissed = "no" /\ s > seed /\ (s <= cursor \/ s \in handled)
            => \A c \in Chats : cards[s][c] > 0

\* alertLLMGate: an alert that was not delivered does not silence the next one.
CooldownFollowsAlert == cooling => alerted # {}

\* An approved signal still ahead of the loop, which is not just being judged without
\* its review, reaches every chat however old it gets, though a chat may fail now and
\* then and other signals keep the cursor back.
DueCardArrives ==
    \A s \in Signal \ Unrenderable :
        (/\ s \in visible /\ Approved(s)
         /\ s > cursor /\ s \notin handled /\ pc # "seed"
         /\ pc \in {"rejected", "failed", "fresh"} => cur # s)
            ~> (dismissed # "no" \/ \A c \in Chats : cards[s][c] > 0)
=============================================================================
