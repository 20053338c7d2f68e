------------------------------ MODULE TradeConn -------------------------------
(***************************************************************************)
(* internal/futu/trade.go: the process-wide connection to the gateway that *)
(* every trade client leases, the one retry after a transport failure, and *)
(* the choice of the account an order goes to.                             *)
(*                                                                         *)
(* The gateway may drop the connection at any time, and a reply may be     *)
(* lost; the SDK's own goroutines are left out.                            *)
(***************************************************************************)
EXTENDS Integers, Sequences, FiniteSets

CONSTANTS
    Op,          \* concurrent logical operations, each with a lease of its own
    Accounts,    \* the gateway's account list: records [id, env, type, markets]
    Asked,       \* what operations ask for: records [env, sec, option, accID]
    Nobody,      \* no holder, no answer yet
    NoAccount    \* the error that no account matches

\* Markets as quotes number them: HK 1, US 11, SH 21, SZ 22.
SecMarket == {1, 11, 21, 22}

ASSUME TradeConnAssumption ==
    /\ IsFiniteSet(Op) /\ Nobody \notin Op /\ Nobody # NoAccount
    /\ Len(Accounts) \in Nat /\ DOMAIN Accounts = 1 .. Len(Accounts)
    /\ \A i \in DOMAIN Accounts : /\ Accounts[i] \notin {Nobody, NoAccount}
                                   /\ Accounts[i].markets \subseteq {1, 2, 3}
    /\ \A q \in Asked : q.sec \in SecMarket /\ q.option \in BOOLEAN

VARIABLES
    tcPc,      \* operation -> control point
    tcAsk,     \* operation -> what it asks for
    refs,      \* sharedTradeConn.refs
    conn,      \* sharedTradeConn.api: "nil", "up", or "stale" after the gateway dropped it
    sockets,   \* connections of this process that are open
    connMu,    \* sharedTradeConn.mu: its holder or Nobody
    tries,     \* operation -> attempts of withClient
    dials,     \* operation -> connections it has opened in withClient
    tcAcc      \* operation -> the account it was given, or Nobody

tcVars == <<tcPc, tcAsk, refs, conn, sockets, connMu, tries, dials, tcAcc>>

TcTypeOK ==
    /\ tcPc \in [Op -> {"start", "acquire", "leased", "lock", "try", "call", "retry",
                        "unlock", "close", "end"}]
    /\ conn \in {"nil", "up", "stale"}
    /\ refs \in Int /\ sockets \in Nat
    /\ connMu \in Op \cup {Nobody}
    /\ tries \in [Op -> 0 .. 2] /\ dials \in [Op -> Nat]

TcInit ==
    /\ tcPc = [o \in Op |-> "start"]
    /\ tcAsk \in [Op -> Asked]
    /\ refs = 0 /\ conn = "nil" /\ sockets = 0 /\ connMu = Nobody
    /\ tries = [o \in Op |-> 0] /\ dials = [o \in Op |-> 0]
    /\ tcAcc = [o \in Op |-> Nobody]

TcGoto(o, label) == tcPc' = [tcPc EXCEPT ![o] = label]

-----------------------------------------------------------------------------
(* The account of an order *)

\* Mutant: the number of the quote market is compared as it is.
SecMarketAsIs(sec) == sec

\* secMarketToTrdMarket: markets as accounts number them, CN for SH and SZ.
SecMarketToTrdMarket(sec) == CASE sec = 1 -> 1 [] sec = 11 -> 2 [] sec \in {21, 22} -> 3

First(S) == CHOOSE i \in S : \A j \in S : i <= j

\* Account: the account with the id, or the first of the environment.
Account(q) ==
    LET matched == {i \in DOMAIN Accounts : Accounts[i].env = q.env
                                             /\ (q.accID # 0 => Accounts[i].id = q.accID)}
    IN  IF matched = {} THEN NoAccount ELSE Accounts[First(matched)]

\* AccountForSymbol: without an id, the first account of the environment that is
\* not dedicated to the other kind of security and is authorised for the market.
AccountForSymbol(q) ==
    LET fits(a) == /\ a.env = q.env
                   /\ a.type = "option" => q.option
                   /\ a.type = "stock" => ~q.option
                   /\ SecMarketToTrdMarket(q.sec) \in a.markets
        matched == {i \in DOMAIN Accounts : fits(Accounts[i])}
    IN  IF q.accID # 0 THEN Account(q)
        ELSE IF matched = {} THEN NoAccount ELSE Accounts[First(matched)]

-----------------------------------------------------------------------------
(* The connection *)

\* AcquireTrade, first half: the lease is counted.
AcquireTrade(o) ==
    /\ tcPc[o] = "start"
    /\ refs' = refs + 1
    /\ TcGoto(o, "acquire")
    /\ UNCHANGED <<tcAsk, conn, sockets, connMu, tries, dials, tcAcc>>

\* connect: keeps a connection that is there, stale or not; dials otherwise.
Connected == conn' = "up" /\ sockets' = sockets + 1

\* Second half, under the mutex: an error gives the lease back.
ConnectLease(o) ==
    /\ tcPc[o] = "acquire" /\ connMu = Nobody
    /\ \/ /\ IF conn = "nil" THEN Connected ELSE UNCHANGED <<conn, sockets>>
          /\ TcGoto(o, "leased") /\ UNCHANGED refs
       \/ /\ conn = "nil"
          /\ refs' = refs - 1
          /\ TcGoto(o, "end") /\ UNCHANGED <<conn, sockets>>
    /\ UNCHANGED <<tcAsk, connMu, tries, dials, tcAcc>>

\* An operation takes the mutex of withClient (or the wait of its limiter is cut off).
LockConn(o) ==
    /\ tcPc[o] = "leased"
    /\ \/ connMu = Nobody /\ connMu' = o /\ TcGoto(o, "try")
       \/ TcGoto(o, "close") /\ UNCHANGED connMu
    /\ UNCHANGED <<tcAsk, refs, conn, sockets, tries, dials, tcAcc>>

\* Mutant: a failed dial returns with the mutex held.
TryConnectKeepsLock(o) ==
    /\ tcPc[o] = "try"
    /\ \/ /\ tries[o] < 2
          /\ tries' = [tries EXCEPT ![o] = @ + 1]
          /\ IF conn = "nil"
             THEN Connected /\ dials' = [dials EXCEPT ![o] = @ + 1]
             ELSE UNCHANGED <<conn, sockets, dials>>
          /\ TcGoto(o, "call")
       \/ TcGoto(o, "close") /\ UNCHANGED <<conn, sockets, tries, dials>>
    /\ UNCHANGED <<tcAsk, refs, connMu, tcAcc>>

\* Mutant: the call is retried twice.
TryConnectThrice(o) ==
    /\ tcPc[o] = "try"
    /\ \/ /\ tries[o] < 3
          /\ tries' = [tries EXCEPT ![o] = @ + 1]
          /\ IF conn = "nil"
             THEN Connected /\ dials' = [dials EXCEPT ![o] = @ + 1]
             ELSE UNCHANGED <<conn, sockets, dials>>
          /\ TcGoto(o, "call")
       \/ TcGoto(o, "unlock") /\ UNCHANGED <<conn, sockets, tries, dials>>
    /\ UNCHANGED <<tcAsk, refs, connMu, tcAcc>>

\* One turn of the loop up to the SDK call: at most two, and a failed dial ends it.
TryConnect(o) ==
    /\ tcPc[o] = "try"
    /\ \/ /\ tries[o] < 2
          /\ tries' = [tries EXCEPT ![o] = @ + 1]
          /\ IF conn = "nil"
             THEN Connected /\ dials' = [dials EXCEPT ![o] = @ + 1]
             ELSE UNCHANGED <<conn, sockets, dials>>
          /\ TcGoto(o, "call")
       \/ TcGoto(o, "unlock") /\ UNCHANGED <<conn, sockets, tries, dials>>
    /\ UNCHANGED <<tcAsk, refs, connMu, tcAcc>>

\* The gateway answers, with the account list in the model; or with an error
\* that is not of the transport.
CallAnswers(o) ==
    /\ tcPc[o] = "call" /\ conn = "up"
    /\ \/ tcAcc' = [tcAcc EXCEPT ![o] = AccountForSymbol(tcAsk[o])]
       \/ UNCHANGED tcAcc
    /\ TcGoto(o, "unlock")
    /\ UNCHANGED <<tcAsk, refs, conn, sockets, connMu, tries, dials>>

\* isTradeConnError: the connection is dead or no reply came in time.
CallFails(o) ==
    /\ tcPc[o] = "call"
    /\ TcGoto(o, "retry")
    /\ UNCHANGED <<tcAsk, refs, conn, sockets, connMu, tries, dials, tcAcc>>

\* Mutant: the connection is forgotten without being closed.
InvalidateForgets(o) ==
    /\ tcPc[o] = "retry"
    /\ conn' = "nil"
    /\ TcGoto(o, "try")
    /\ UNCHANGED <<tcAsk, refs, sockets, connMu, tries, dials, tcAcc>>

\* invalidate: the connection is closed before it is replaced.
Invalidate(o) ==
    /\ tcPc[o] = "retry"
    /\ sockets' = IF conn = "nil" THEN sockets ELSE sockets - 1
    /\ conn' = "nil"
    /\ TcGoto(o, "try")
    /\ UNCHANGED <<tcAsk, refs, connMu, tries, dials, tcAcc>>

UnlockConn(o) ==
    /\ tcPc[o] = "unlock"
    /\ connMu' = Nobody
    /\ TcGoto(o, "close")
    /\ UNCHANGED <<tcAsk, refs, conn, sockets, tries, dials, tcAcc>>

\* Close: the lease ends, the connection stays.
CloseLease(o) ==
    /\ tcPc[o] = "close"
    /\ refs' = refs - 1
    /\ TcGoto(o, "end")
    /\ UNCHANGED <<tcAsk, conn, sockets, connMu, tries, dials, tcAcc>>

\* The gateway ends the connection; the process notices when it uses it.
GatewayDrops ==
    /\ conn = "up"
    /\ conn' = "stale"
    /\ UNCHANGED <<tcPc, tcAsk, refs, sockets, connMu, tries, dials, tcAcc>>

TcStep(o) ==
    AcquireTrade(o) \/ ConnectLease(o) \/ LockConn(o) \/ TryConnect(o) \/ CallAnswers(o)
      \/ CallFails(o) \/ Invalidate(o) \/ UnlockConn(o) \/ CloseLease(o)

TcNext == GatewayDrops \/ \E o \in Op : TcStep(o)

\* Calls, dials and waits for a mutex all end (the SDK times out), and Go's
\* mutex hands over to a goroutine that waits.
TcFairness == \A o \in Op : WF_tcVars(TcStep(o))

TcSpec == TcInit /\ [][TcNext]_tcVars /\ TcFairness

-----------------------------------------------------------------------------
(* Properties *)

\* withClient's "the stale connection is always closed before the replacement is
\* dialed", "a logical operation creates at most two connections", and every
\* lease is counted once, failed ones included: however operations and drops
\* interleave, the process holds one connection at most.
OneConnection ==
    /\ sockets = IF conn = "nil" THEN 0 ELSE 1
    /\ \A o \in Op : dials[o] <= 2
    /\ (\A o \in Op : tcPc[o] = "end") => refs = 0

\* The account an operation is given is of its environment, trades its market
\* and is not dedicated to the other kind of security; and if there is such an
\* account, one is found.  An account named by its id is that account.
TrdName == [m \in 1 .. 3 |-> <<"HK", "US", "CN">>[m]]
SecName == [m \in SecMarket |-> IF m = 1 THEN "HK" ELSE IF m = 11 THEN "US" ELSE "CN"]
Suits(a, q) ==
    /\ a.env = q.env
    /\ IF q.accID # 0 THEN a.id = q.accID
       ELSE /\ \E m \in a.markets : TrdName[m] = SecName[q.sec]
            /\ a.type \notin (IF q.option THEN {"stock"} ELSE {"option"})
RightAccount ==
    \A o \in Op :
        CASE tcAcc[o] = Nobody    -> TRUE
          [] tcAcc[o] = NoAccount -> \A i \in DOMAIN Accounts : ~Suits(Accounts[i], tcAsk[o])
          [] OTHER                -> Suits(tcAcc[o], tcAsk[o])

\* The connection is one and is counted, and what is sent over it goes to an
\* account that suits it.
TradeConnSound ==
    /\ TcTypeOK
    /\ OneConnection
    /\ RightAccount

\* No operation waits for ever: the mutex is given back on every path, also when
\* the dial fails or the retry is used up.
OperationsEnd == \A o \in Op : <>(tcPc[o] = "end")
=============================================================================
