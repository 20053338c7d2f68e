---------------------------- MODULE MCLLMSignal ----------------------------
\* Instances of LLMSignal for TLC.
EXTENDS LLMSignal

\* Two rows are enough for one to stack on the other; a third one is there for
\* the quota, which the buttons do not touch.
QuotaOrButtons ==
  last <= 2 \/ \A r \in 1..last : claims[r] = "none" /\ acts[r] \subseteq {"LLM_REVIEW"}

\* One submission that a failed read has misled is enough to see what follows.
OneMisled ==
  Cardinality(blind) + Cardinality({r \in 1..last : signals[r].by = "misled"}) <= 1

==============================================================================
