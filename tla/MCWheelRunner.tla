--------------------------- MODULE MCWheelRunner ---------------------------
(***************************************************************************)
(* The wheel runner, for TLC: the collection of a pass, the audit queue    *)
(* behind it and the recorder of its snapshots.  A pass hands its outcome  *)
(* to the queue and to the recorder and never waits for them, so each is   *)
(* checked by itself: a behaviour runs one of them, picked at the start.   *)
(***************************************************************************)
EXTENDS ReviewQueue, LivePass, SnapshotRecorder

VARIABLE part   \* what runs

MCContractOf ==
    [c \in {"p7", "p8", "c9", "c11", "q5"} |->
        CASE c = "p7"  -> [letters |-> "A", kind |-> "put", strike |-> 7, delta |-> -2]
          [] c = "p8"  -> [letters |-> "A", kind |-> "put", strike |-> 8, delta |-> -4]
          [] c = "c9"  -> [letters |-> "A", kind |-> "call", strike |-> 9, delta |-> 9]
          [] c = "c11" -> [letters |-> "A", kind |-> "call", strike |-> 11, delta |-> 8]
          [] c = "q5"  -> [letters |-> "B", kind |-> "put", strike |-> 5, delta |-> -5]]

\* The call c9 is held and no longer in the chain.
MCChain == [u \in Underlying |-> IF u = "A" THEN {"p7", "p8", "c11"} ELSE {"q5"}]

MCPosition ==
    {[form |-> "stock", code |-> "A", side |-> "long", qty |-> 15, cost |-> 9]}
    \cup {[form |-> "option", code |-> c, side |-> "short", qty |-> 1, cost |-> 1] :
              c \in {"c9", "c11", "q5"}}

MCCodeOrder ==
    [c \in DOMAIN ContractOf |->
        CASE c = "p7" -> 1 [] c = "p8" -> 2 [] c = "c9" -> 3 [] c = "c11" -> 5 [] c = "q5" -> 6]

MCLetters   == [u \in Underlying |-> u]
MCSpotPrice == [u \in Underlying |-> IF u = "A" THEN 10 ELSE 6]
MCTarget    == [u \in Underlying |-> IF u = "A" THEN 10 ELSE 0]

RunnerInit ==
    /\ part \in {"queue", "pass", "recorder"}
    /\ Init /\ SrInit
    /\ LpInit /\ (part # "pass" => lpSym = CHOOSE u \in Underlying : TRUE)

RunnerNext ==
    \/ part = "queue" /\ Next /\ UNCHANGED <<part, lpVars, srVars>>
    \/ part = "pass" /\ LpNext /\ UNCHANGED <<part, vars, srVars>>
    \/ part = "recorder" /\ SrNext /\ UNCHANGED <<part, vars, lpVars>>

\* ReviewQueue's fairness: the other two promise no progress.
RunnerSpec ==
    /\ RunnerInit /\ [][RunnerNext]_<<part, vars, lpVars, srVars>>
    /\ WF_vars(part = "queue" /\ PassStep)
    /\ \A w \in Worker : WF_vars(part = "queue" /\ WorkerStep(w))
=============================================================================
