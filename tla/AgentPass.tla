------------------------------ MODULE AgentPass ------------------------------
(***************************************************************************)
(* One pass of the llm strategy over its bindings and the conversation in  *)
(* which the language model reaches a decision                             *)
(* (internal/llmstrategy/runner.go): rounds of tool calls within a round   *)
(* and a total time limit, then the model's choice is priced from the      *)
(* snapshot and submitted.  What Submit and the store do is in LLMSignal.  *)
(*                                                                         *)
(* Time passes while the model is asked and is counted from the snapshot;  *)
(* the tools answer from the snapshot in memory and take none.             *)
(***************************************************************************)
EXTENDS Integers, Sequences

CONSTANTS
    Bindings,     \* number of llm bindings, in the order of the watchlist
    Offered,      \* contracts of the exchange
    Shares,       \* a decision about the stock itself
    MaxRounds,    \* rounds of the agent
    TotalBudget,  \* time limit of Generate
    RoundBudget,  \* time limit of one request
    Nothing       \* no decision, no submission

ASSUME AgentAssumption ==
    /\ Bindings \in Nat /\ MaxRounds \in Nat \ {0}
    /\ TotalBudget \in Nat \ {0} /\ RoundBudget \in Nat \ {0}
    /\ Shares \notin Offered /\ Nothing \notin Offered \cup {Shares}

VARIABLES
    apPc,       \* control point
    agAt,       \* the binding in hand
    agOpen,     \* bindings whose market was open when the pass began
    agTried,    \* bindings that were looked at, in order
    agSnap,     \* contracts of the snapshot
    agAge,      \* time since the snapshot
    agRoundAge, \* time since the request was sent
    agConv,     \* number of tool calls of each round and of the answers to them
    agShown,    \* contracts the model has seen
    agChoice,   \* the model's decision
    agSent      \* the submission of the binding in hand

agVars == <<apPc, agAt, agOpen, agTried, agSnap, agAge, agRoundAge, agConv, agShown, agChoice, agSent>>

\* What a tool is asked for: the chain, cut to a range of days or a number of
\* strikes, a contract, or something it refuses (another symbol, an unknown
\* tool, arguments that are no JSON).
Call == [tool : {"chain"}, options : SUBSET Offered] \cup [tool : {"quote"}, options : {{c} : c \in Offered}]
          \cup [tool : {"other"}, options : {{}}]

AgTypeOK ==
    /\ apPc \in {"idle", "binding", "model", "inject", "submit"}
    /\ agAt \in 1 .. Bindings + 1
    /\ agOpen \subseteq 1 .. Bindings
    /\ agSnap \subseteq Offered /\ agShown \subseteq Offered
    /\ agAge \in Nat /\ agRoundAge \in 0 .. RoundBudget
    /\ agChoice \in Offered \cup {Shares, Nothing}
    /\ Len(agConv) < MaxRounds

AgInit ==
    /\ apPc = "idle" /\ agAt = 1 /\ agOpen = {} /\ agTried = <<>>
    /\ agSnap = {} /\ agAge = 0 /\ agRoundAge = 0 /\ agConv = <<>> /\ agShown = {}
    /\ agChoice = Nothing /\ agSent = Nothing

conversation == <<agSnap, agAge, agRoundAge, agConv, agShown, agChoice>>

-----------------------------------------------------------------------------
(* The pass *)

\* RunOnce lists the bindings and reads the clock, once for all of them.
StartPass ==
    /\ apPc = "idle"
    /\ agOpen' \in SUBSET (1 .. Bindings)
    /\ apPc' = "binding" /\ agAt' = 1 /\ agTried' = <<>>
    /\ UNCHANGED <<agSnap, agAge, agRoundAge, agConv, agShown, agChoice, agSent>>

\* continue: the conversation is over, the next binding is looked at.
NextBinding ==
    /\ apPc' = "binding" /\ agAt' = agAt + 1
    /\ agSnap' = {} /\ agAge' = 0 /\ agRoundAge' = 0 /\ agConv' = <<>> /\ agShown' = {}
    /\ agChoice' = Nothing

\* Mutant: a failure ends the pass.
ReturnError ==
    /\ apPc' = "binding" /\ agAt' = Bindings + 1
    /\ agSnap' = {} /\ agAge' = 0 /\ agRoundAge' = 0 /\ agConv' = <<>> /\ agShown' = {}
    /\ agChoice' = Nothing

\* failed++, a rejection is recorded, continue.
BindingFails == NextBinding

\* The market was closed, or a recent signal of the symbol is not disposed of.
SkipBinding ==
    /\ apPc = "binding" /\ agAt <= Bindings
    /\ agTried' = Append(agTried, agAt)
    /\ NextBinding
    /\ UNCHANGED <<agOpen, agSent>>

\* A query of the store or the snapshot fails.
ReadFails ==
    /\ apPc = "binding" /\ agAt \in agOpen
    /\ agTried' = Append(agTried, agAt)
    /\ BindingFails
    /\ UNCHANGED <<agOpen, agSent>>

\* The snapshot is taken and the model asked for the first time.
TakeSnapshot ==
    /\ apPc = "binding" /\ agAt \in agOpen
    /\ agSnap' \in SUBSET Offered
    /\ agShown' = agSnap'
    /\ agAge' = 0 /\ agRoundAge' = 0 /\ agConv' = <<>>
    /\ agChoice' = Nothing /\ agSent' = Nothing
    /\ agTried' = Append(agTried, agAt)
    /\ apPc' = "model"
    /\ UNCHANGED <<agAt, agOpen>>

PassEnd ==
    /\ apPc = "binding" /\ agAt > Bindings
    /\ apPc' = "idle" /\ agAt' = 1 /\ agOpen' = {} /\ agTried' = <<>> /\ agSent' = Nothing
    /\ UNCHANGED conversation

-----------------------------------------------------------------------------
(* The conversation *)

\* Mutant: each request has the whole time of a round.
ExpiredRound == agRoundAge >= RoundBudget

\* The context of the request is done: its own limit or that of Generate.
Expired == agRoundAge >= RoundBudget \/ agAge >= TotalBudget

AgTick ==
    /\ apPc = "model" /\ ~Expired
    /\ agAge' = agAge + 1 /\ agRoundAge' = agRoundAge + 1
    /\ UNCHANGED <<apPc, agAt, agOpen, agTried, agSnap, agConv, agShown, agChoice, agSent>>

\* Mutant: the request is sent again.
AsksAgain ==
    /\ apPc = "model" /\ Expired
    /\ agRoundAge' = 0
    /\ UNCHANGED <<apPc, agAt, agOpen, agTried, agSnap, agAge, agConv, agShown, agChoice, agSent>>

\* The request times out; Generate returns the error.
TimesOut ==
    /\ apPc = "model" /\ Expired
    /\ BindingFails
    /\ UNCHANGED <<agOpen, agTried, agSent>>

\* A transport error, a status that is no success, a reply without choices or
\* one that is no decision.
ModelFails ==
    /\ apPc = "model"
    /\ BindingFails
    /\ UNCHANGED <<agOpen, agTried, agSent>>

\* A reply without tool calls is the decision.
ModelDecides(c) ==
    /\ apPc = "model"
    /\ agChoice' = c
    /\ apPc' = "inject"
    /\ UNCHANGED <<agAt, agOpen, agTried, agSnap, agAge, agRoundAge, agConv, agShown, agSent>>

\* Mutant: the tools ask the exchange.
ExecuteLive(call) ==
    IF call.tool = "other" THEN [ok |-> FALSE, options |-> {}] ELSE [ok |-> TRUE, options |-> call.options]

\* executeTool: answers come from the snapshot, whatever is asked.
ExecuteTool(call) ==
    CASE call.tool = "chain" -> [ok |-> TRUE, options |-> call.options \cap agSnap]
      [] call.tool = "quote" /\ call.options \subseteq agSnap -> [ok |-> TRUE, options |-> call.options]
      [] OTHER -> [ok |-> FALSE, options |-> {}]

\* Mutant: a tool that fails is passed over.
AnswersOfSuccesses(calls) ==
    SelectSeq([i \in 1 .. Len(calls) |-> ExecuteTool(calls[i])], LAMBDA a : a.ok)

\* One answer to every call, an error too.
Answers(calls) == [i \in 1 .. Len(calls) |-> ExecuteTool(calls[i])]

\* The reply calls tools.  They are answered and the model is asked again, or
\* the rounds are used up.
ModelCalls(calls) ==
    /\ apPc = "model"
    /\ \/ /\ Len(agConv) + 1 < MaxRounds
          /\ agConv' = Append(agConv, [calls |-> Len(calls), answers |-> Len(Answers(calls))])
          /\ agShown' = agShown \cup UNION {ExecuteTool(calls[i]).options : i \in 1 .. Len(calls)}
          /\ agRoundAge' = 0
          /\ UNCHANGED <<apPc, agAt, agSnap, agAge, agChoice>>
       \/ /\ Len(agConv) + 1 >= MaxRounds
          /\ BindingFails
    /\ UNCHANGED <<agOpen, agTried, agSent>>

-----------------------------------------------------------------------------
(* The decision *)

\* The prices of the choice are taken from the snapshot; a contract that is not
\* in it is refused.
InjectPrices ==
    /\ apPc = "inject"
    /\ \/ /\ agChoice \in agSnap \cup {Shares}
          /\ agSent' = [contract |-> agChoice, age |-> agAge]
          /\ apPc' = "submit"
          /\ UNCHANGED <<agAt, agOpen, agTried>> /\ UNCHANGED conversation
       \/ /\ agChoice \notin agSnap \cup {Shares}
          /\ BindingFails
          /\ UNCHANGED <<agOpen, agTried, agSent>>

\* Submit returns, with an error or without.
SubmitReturns ==
    /\ apPc = "submit"
    /\ (NextBinding \/ BindingFails)
    /\ agSent' = Nothing
    /\ UNCHANGED <<agOpen, agTried>>

\* Steps of the program and of its timers; the model need not answer.
AgProgram ==
    \/ SkipBinding \/ ReadFails \/ TakeSnapshot \/ PassEnd
    \/ InjectPrices \/ SubmitReturns
AgModel ==
    \/ ModelFails
    \/ \E c \in Offered \cup {Shares} : ModelDecides(c)
    \/ \E a \in Call : ModelCalls(<<a>>) \/ \E b \in Call : ModelCalls(<<a, b>>)

AgNext == StartPass \/ AgProgram \/ AgModel \/ AgTick \/ TimesOut

AgSpec ==
    /\ AgInit /\ [][AgNext]_agVars
    /\ WF_agVars(AgProgram) /\ WF_agVars(AgTick) /\ WF_agVars(TimesOut)

-----------------------------------------------------------------------------
(* Properties *)

\* Whatever the model does, a decision is submitted with prices no older than
\* the total limit, however many rounds it took ("roundCtx derives from totalCtx
\* so the 180s generation budget still binds").
SentIsRecent == agSent # Nothing => agSent.age <= TotalBudget

\* Before the model is asked again every tool call it has made has an answer: the
\* chat protocol refuses a conversation in which a call, also one that failed,
\* has none.
CallsAnswered ==
    \A i \in 1 .. Len(agConv) : agConv[i].answers = agConv[i].calls

\* A contract the model was shown, in the snapshot or by a tool, can be priced:
\* a decision for it reaches Submit and is not refused as unknown.
ShownIsPriced ==
    [][(apPc = "inject" /\ agChoice \in agShown) => apPc' = "submit"]_agVars

\* A pass looks at every binding once, in order, whatever became of the ones
\* before it.
PassTriesAll == (apPc = "binding" /\ agAt > Bindings) => agTried = [i \in 1 .. Bindings |-> i]

\* Every pass ends, also with a model that never answers or calls tools for
\* ever, so that the next tick finds the runner free.
PassReturns == apPc # "idle" ~> apPc = "idle"

\* A pass serves every binding, submits nothing outdated or unpriced, and returns.
AgentPassSound ==
    /\ [](AgTypeOK /\ SentIsRecent /\ CallsAnswered /\ PassTriesAll)
    /\ ShownIsPriced
    /\ PassReturns
=============================================================================
