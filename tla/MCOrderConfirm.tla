--------------------------- MODULE MCOrderConfirm ---------------------------
(* Instances of OrderConfirm for TLC. *)
EXTENDS OrderConfirm, TLC

Symmetry == Permutations(TgPress) \cup Permutations(DcPress) \cup Permutations(Signal)

\* Bound of the replace run: a second signal is one that replaces an order, at most
\* one submission is sent twice, no signal expires and the market stays open (a
\* read that fails refuses a press and a status that fails ends a watch just as
\* they do).
ReplaceBound ==
    /\ Cardinality(signals) > 1 => \E s \in signals : replaces[s] # None
    /\ Cardinality({o \in OrderId : Placed(o)}) <= 3
    /\ fresh = signals
    /\ marketOpen
=============================================================================
