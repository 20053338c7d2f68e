----------------------------- MODULE SignalLife -----------------------------
(***************************************************************************)
(* What confirming a signal's card promises, whatever goroutines, channels *)
(* and restarts are behind it: a posted signal is claimed at most once;    *)
(* orders are opened for claimed signals only, all orders of one signal by *)
(* one press, and none while the order it replaces is open with no cancel  *)
(* accepted; an order only moves on; CONFIRM names an order that was       *)
(* opened for the signal, and FILL follows an execution.                   *)
(*                                                                         *)
(* Nothing is said of how the store, the broker's replies and the process  *)
(* fail.  OrderConfirm implements this specification.                      *)
(***************************************************************************)
CONSTANTS
    Signal,  \* ids of the signals
    Press,   \* presses of a card's button
    None     \* no order

OrderId == Press \X {1, 2}

VARIABLES
    posted,   \* persisted signals
    replaced, \* the order a signal replaces, or None
    claimed,  \* signals whose one order has been reserved
    placed,   \* the orders opened for a signal
    status,   \* status of every order at the broker
    named,    \* the order that the signal's CONFIRM names
    filled    \* signals with a FILL

lifeVars == <<posted, replaced, claimed, placed, status, named, filled>>

Open     == {"resting", "part"}
Executed == {"part", "partCancelling", "filled", "partCancelled"}

\* Where an order may go from each status that is not its end.
MovesTo(st) ==
    CASE st = "resting"        -> {"part", "cancelling", "filled", "cancelled"}
      [] st = "part"           -> {"partCancelling", "filled", "partCancelled"}
      [] st = "cancelling"     -> {"partCancelling", "filled", "cancelled"}
      [] st = "partCancelling" -> {"filled", "partCancelled"}
      [] OTHER                 -> {}

Init ==
    /\ posted = {}
    /\ replaced = [s \in Signal |-> None]
    /\ claimed = {}
    /\ placed = [s \in Signal |-> {}]
    /\ status = [o \in OrderId |-> "none"]
    /\ named = [s \in Signal |-> None]
    /\ filled = {}

\* A signal is posted; it may replace an order that some CONFIRM names.
Post(s) ==
    /\ s \in Signal \ posted
    /\ posted' = posted \cup {s}
    /\ \E old \in {None} \cup {named[q] : q \in posted} :
           replaced' = [replaced EXCEPT ![s] = old]
    /\ UNCHANGED <<claimed, placed, status, named, filled>>

Claim(s) ==
    /\ s \in posted \ claimed
    /\ claimed' = claimed \cup {s}
    /\ UNCHANGED <<posted, replaced, placed, status, named, filled>>

\* An order is opened for a claimed signal, by the press that opened all others.
Place(s, o) ==
    /\ s \in claimed
    /\ status[o] = "none"
    /\ \A q \in placed[s] : q[1] = o[1]
    /\ replaced[s] # None => status[replaced[s]] \notin Open
    /\ placed' = [placed EXCEPT ![s] = @ \cup {o}]
    /\ status' = [status EXCEPT ![o] = "resting"]
    /\ UNCHANGED <<posted, replaced, claimed, named, filled>>

\* The order is executed, wholly or in part, or its cancel is accepted or done.
Move(o) ==
    /\ \E st \in MovesTo(status[o]) : status' = [status EXCEPT ![o] = st]
    /\ UNCHANGED <<posted, replaced, claimed, placed, named, filled>>

Name(s, o) ==
    /\ o \in placed[s]
    /\ named' = [named EXCEPT ![s] = o]
    /\ UNCHANGED <<posted, replaced, claimed, placed, status, filled>>

Fill(s) ==
    /\ \E o \in placed[s] : status[o] \in Executed
    /\ filled' = filled \cup {s}
    /\ UNCHANGED <<posted, replaced, claimed, placed, status, named>>

Next ==
    \/ \E s \in Signal : Post(s) \/ Claim(s) \/ Fill(s)
    \/ \E s \in Signal, o \in OrderId : Place(s, o) \/ Name(s, o)
    \/ \E o \in OrderId : Move(o)

Spec == Init /\ [][Next]_lifeVars
=============================================================================
