---------------------------- MODULE MCBlockScanner ----------------------------
(* Instances of BlockScanner for TLC: what arrives on the chain in each of    *)
(* the flows.                                                                *)
EXTENDS BlockScanner, TLC

CONSTANTS a1, token, guarded, twin, trx, funding, topUp

TrxAndUsdt == {"TRX", "USDT"}
TokenAndUsdt == {"USDT", "TOKEN"}

\* Deposits of each kind to one account, and the operator's own transfers.
OneAccount == {a1}

KindOf == (token :> "TOKEN") @@ (guarded :> "USDT") @@ (twin :> "USDT") @@ (trx :> "TRX")
            @@ (funding :> "TRX") @@ (topUp :> "TRX")
SourceOf == (token :> Foreign) @@ (guarded :> Foreign) @@ (twin :> Foreign) @@ (trx :> Foreign)
            @@ (funding :> Main) @@ (topUp :> Foreign)
TargetOf == (token :> a1) @@ (guarded :> a1) @@ (twin :> a1) @@ (trx :> a1)
            @@ (funding :> a1) @@ (topUp :> Main)

Restricted(f) == [t \in Transfers |-> f[t]]

Kinds == Restricted(KindOf)
Sources == Restricted(SourceOf)
Targets == Restricted(TargetOf)

\* Two logs of one transaction; every other transfer is a transaction of its own.
Transactions == [t \in Transfers |-> IF t = twin THEN guarded ELSE t]

GuardedAndTrx == {guarded, trx}
AmlMix == {guarded, twin, trx, token, funding, topUp}
FundedDeposits == {guarded, token, trx, funding}
==============================================================================
