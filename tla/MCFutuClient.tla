---------------------------- MODULE MCFutuClient ----------------------------
(***************************************************************************)
(* The futu client, for TLC: the rate limiter of its requests and the      *)
(* connection its trade operations share.  An operation passes the limiter *)
(* before it takes the connection and holds nothing while it waits there,  *)
(* so each is checked by itself: a behaviour runs one of them.             *)
(*                                                                         *)
(* The limiter: two processes that share the timestamp file, one of them   *)
(* with two callers.                                                       *)
(***************************************************************************)
EXTENDS RateLimit, TradeConn, TLC

CONSTANTS p, q, g1, g2, g3

VARIABLE part   \* what runs

MCProcessOf == g1 :> p @@ g2 :> p @@ g3 :> q

MCAccounts ==
    << [id |-> 7, env |-> "real", type |-> "all", markets |-> {1, 2}],
       [id |-> 8, env |-> "sim", type |-> "stock", markets |-> {1}],
       [id |-> 9, env |-> "sim", type |-> "option", markets |-> {1}],
       [id |-> 10, env |-> "sim", type |-> "all", markets |-> {2}] >>

MCAsked ==
    {[env |-> "sim", sec |-> 11, option |-> TRUE, accID |-> 0],
     [env |-> "sim", sec |-> 1, option |-> FALSE, accID |-> 0],
     [env |-> "sim", sec |-> 1, option |-> TRUE, accID |-> 0],
     [env |-> "sim", sec |-> 21, option |-> FALSE, accID |-> 0],
     [env |-> "real", sec |-> 1, option |-> TRUE, accID |-> 7]}

\* While the limiter is looked at, the trade operations have ended.
TradeRests ==
    /\ tcPc = [o \in Op |-> "end"]
    /\ tcAsk = [o \in Op |-> CHOOSE a \in Asked : TRUE]
    /\ refs = 0 /\ conn = "nil" /\ sockets = 0 /\ connMu = Nobody
    /\ tries = [o \in Op |-> 0] /\ dials = [o \in Op |-> 0]
    /\ tcAcc = [o \in Op |-> Nobody]

ClientInit == Init /\ ((part = "limiter" /\ TradeRests) \/ (part = "trade" /\ TcInit))

\* The operations have ended and nobody calls again.
TradeEnded ==
    /\ part = "trade" /\ \A o \in Op : tcPc[o] = "end"
    /\ UNCHANGED <<part, vars, tcVars>>

ClientNext ==
    \/ part = "limiter" /\ Next /\ UNCHANGED <<part, tcVars>>
    \/ part = "trade" /\ TcNext /\ UNCHANGED <<part, vars>>
    \/ TradeEnded

\* The fairness of RateLimit and of TradeConn, each for the part that runs.
ClientSpec ==
    /\ ClientInit /\ [][ClientNext]_<<part, vars, tcVars>>
    /\ WF_vars(part = "limiter" /\ Tick)
    /\ \A g \in Goroutine : WF_vars(part = "limiter" /\ Run(g))
    /\ \A o \in Op : WF_tcVars(part = "trade" /\ TcStep(o))
=============================================================================
