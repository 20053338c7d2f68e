------------------------------ MODULE Registry -------------------------------
(***************************************************************************)
(* Agents registering with the master over HTTP: internal/httpregister,    *)
(* internal/poll, internal/master, and their commands in cmd/wbot/main.go. *)
(*                                                                         *)
(* A request and its reply may each be lost, the master may be restarted   *)
(* (its registry is in memory), and a request the client has given up may  *)
(* have been served.  Agents run without -duration.                        *)
(***************************************************************************)
EXTENDS Integers

CONSTANTS
    Agent,         \* agents, each with its own id
    RetryMax,      \* extra attempts of one Register call (2)
    MaxRestarts    \* bound on the restarts of the master

ASSUME RegistryAssumption == RetryMax \in Nat /\ MaxRestarts \in Nat

VARIABLES
    registered,  \* Memory.agents
    up,          \* whether the master listens
    restarts,
    agPc,        \* agent -> control point of its heartbeat
    attempt,     \* agent -> attempt of the running Register call
    wire,        \* agent -> the request or the reply under way
    claimedNew,  \* agents told "new" in this life of the master
    faults       \* whether the network and the master still fail

regVars == <<registered, up, restarts, agPc, attempt, wire, claimedNew, faults>>

RegTypeOK ==
    /\ registered \subseteq Agent
    /\ up \in BOOLEAN /\ faults \in BOOLEAN
    /\ restarts \in 0 .. MaxRestarts
    /\ agPc \in [Agent -> {"tick", "call", "wait"}]
    /\ attempt \in [Agent -> 0 .. RetryMax]
    /\ wire \in [Agent -> {"none", "request", "new", "old", "refused"}]
    /\ claimedNew \subseteq Agent

RegInit ==
    /\ registered = {} /\ up = TRUE /\ restarts = 0
    /\ agPc = [a \in Agent |-> "tick"]
    /\ attempt = [a \in Agent |-> 0]
    /\ wire = [a \in Agent |-> "none"]
    /\ claimedNew = {} /\ faults = TRUE

-----------------------------------------------------------------------------
(* The agent: poll.Run *)

\* A tick of the interval: Heartbeat calls Register.
Heartbeat(a) ==
    /\ agPc[a] = "tick"
    /\ agPc' = [agPc EXCEPT ![a] = "call"]
    /\ attempt' = [attempt EXCEPT ![a] = 0]
    /\ UNCHANGED <<registered, up, restarts, wire, claimedNew, faults>>

\* registerOnce sends its request.
SendRegister(a) ==
    /\ agPc[a] = "call"
    /\ agPc' = [agPc EXCEPT ![a] = "wait"]
    /\ wire' = [wire EXCEPT ![a] = IF up THEN "request" ELSE "none"]
    /\ UNCHANGED <<registered, up, restarts, attempt, claimedNew, faults>>

\* Mutant: a call that failed is left waiting.
AfterErrorGivesUp(a) == UNCHANGED <<agPc, attempt>>

\* The loop of Register: a transient error is tried again RetryMax times; then,
\* and after a permanent one, the error is dropped (RemoteFacade) until the
\* next tick.
AfterError(a) ==
    \/ /\ attempt[a] < RetryMax
       /\ attempt' = [attempt EXCEPT ![a] = @ + 1]
       /\ agPc' = [agPc EXCEPT ![a] = "call"]
    \/ /\ attempt[a] = RetryMax \/ wire[a] = "refused"
       /\ agPc' = [agPc EXCEPT ![a] = "tick"]
       /\ UNCHANGED attempt

\* The reply is read.  A request the master refused was counted as an error.
ReadReply(a) ==
    /\ agPc[a] = "wait" /\ wire[a] \in {"new", "old", "refused"}
    /\ IF wire[a] = "refused" THEN AfterError(a) /\ UNCHANGED claimedNew
       ELSE /\ agPc' = [agPc EXCEPT ![a] = "tick"]
            /\ claimedNew' = IF wire[a] = "new" THEN claimedNew \cup {a} ELSE claimedNew
            /\ UNCHANGED attempt
    /\ wire' = [wire EXCEPT ![a] = "none"]
    /\ UNCHANGED <<registered, up, restarts, faults>>

\* The connection fails: with the request (which may still be under way and be
\* served, its reply unread) or with the reply.
ConnectionFails(a) ==
    /\ agPc[a] = "wait"
    /\ faults \/ wire[a] = "none"
    /\ AfterError(a)
    /\ wire' = [wire EXCEPT ![a] = "none"]
    /\ registered' \in {registered} \cup
          (IF wire[a] = "request" /\ up THEN {registered \cup {a}} ELSE {})
    /\ UNCHANGED <<up, restarts, claimedNew, faults>>

-----------------------------------------------------------------------------
(* The master *)

\* Mutant: an id that is in the registry already counts as added.
IsNewAlways(a) == a \in Agent

\* Memory.Register under its lock.
IsNew(a) == a \notin registered

\* The handler serves a request, or refuses it (429 or 5xx).
ServeRegister(a) ==
    /\ up /\ wire[a] = "request"
    /\ \/ /\ wire' = [wire EXCEPT ![a] = IF IsNew(a) THEN "new" ELSE "old"]
          /\ registered' = registered \cup {a}
       \/ faults /\ wire' = [wire EXCEPT ![a] = "refused"] /\ UNCHANGED registered
    /\ UNCHANGED <<up, restarts, agPc, attempt, claimedNew, faults>>

\* The master ends: the registry is gone, what was under way is lost.
StopMaster ==
    /\ up /\ faults /\ restarts < MaxRestarts
    /\ up' = FALSE /\ registered' = {} /\ claimedNew' = {}
    /\ wire' = [a \in Agent |-> "none"]
    /\ restarts' = restarts + 1
    /\ UNCHANGED <<agPc, attempt, faults>>

StartMaster ==
    /\ ~up
    /\ up' = TRUE
    /\ UNCHANGED <<registered, restarts, agPc, attempt, wire, claimedNew, faults>>

\* From here on nothing fails.
FaultsEnd ==
    /\ up /\ faults
    /\ faults' = FALSE
    /\ UNCHANGED <<registered, up, restarts, agPc, attempt, wire, claimedNew>>

RegStep(a) ==
    Heartbeat(a) \/ SendRegister(a) \/ ReadReply(a) \/ ConnectionFails(a) \/ ServeRegister(a)

RegNext ==
    \/ \E a \in Agent : RegStep(a)
    \/ StopMaster \/ StartMaster \/ FaultsEnd

\* The ticker of poll.Run never stops, and an HTTP call always returns.
RegFairness ==
    /\ \A a \in Agent : WF_regVars(RegStep(a))
    /\ WF_regVars(StartMaster)

RegSpec == RegInit /\ [][RegNext]_regVars /\ RegFairness

-----------------------------------------------------------------------------
(* Properties *)

\* In one life of the master an agent is told that it is new at most once,
\* however often its requests and replies are lost and tried again.
NewAtMostOnce ==
    [][\A a \in Agent :
          (wire[a] # "new" /\ wire'[a] = "new") => a \notin claimedNew]_regVars

\* Heartbeats heal: once the network and the master have stopped failing, every
\* agent is in the registry, also when the master lost it in a restart or the
\* agent's retries had run out.
EventuallyRegistered == <>[]~faults => <>[](registered = Agent)

\* The registry counts an agent once and finds it again.
RegistryHeals == []RegTypeOK /\ NewAtMostOnce /\ EventuallyRegistered
=============================================================================
