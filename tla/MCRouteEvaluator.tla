--------------------------- MODULE MCRouteEvaluator ---------------------------
(***************************************************************************)
(* An instance of RouteEvaluator for TLC: one owner, a route of low risk,  *)
(* another one through a second adapter; a policy that forbids the latter  *)
(* by its adapter, one that forbids it by its risk; requests with the      *)
(* policy of the intent and with the other.                                *)
(***************************************************************************)
EXTENDS RouteEvaluator, TLC

CONSTANTS alice, usd, flr, pangolin, rogue

AllowedOnly == [allowedAdapters |-> {pangolin}, maximumRisk |-> 2, minimumOutput |-> 1]
LowRisk == [allowedAdapters |-> {pangolin, rogue}, maximumRisk |-> 1, minimumOutput |-> 1]

(* The policy of a deposit may name another nonce or expiry than its own. *)
Deposit(constraints, nonce, expiry) ==
    [tokenIn |-> usd, amount |-> 1, expiry |-> 1,
     ciphertextHash |-> [chainId |-> LiveChainId, owner |-> alice, tokenIn |-> usd,
                         amount |-> 1, nonce |-> nonce, expiry |-> expiry,
                         constraints |-> constraints]]

MCTerms == {Deposit(AllowedOnly, 0, 1), Deposit(LowRisk, 1, 1), Deposit(LowRisk, 0, 2)}
MCConstraints == {AllowedOnly, LowRisk}
MCV2Routes == <<[adapter |-> pangolin, tokenIn |-> usd, tokenOut |-> flr, risk |-> 1],
                [adapter |-> rogue, tokenIn |-> usd, tokenOut |-> flr, risk |-> 2]>>
MCRouteTerms ==
    {[adapter |-> V2Routes[k].adapter, tokenOut |-> V2Routes[k].tokenOut,
      actionHash |-> ActionHash(k, 1, d), minimumOutput |-> 1, deadline |-> d] :
        k \in RouteIndexes, d \in Deadlines}
MCAdapterCalls == {r.actionHash : r \in RouteTerms}

NoFee == [t \in Tokens |-> 0]
(* alice has her deposit, each adapter the output of one swap. *)
OneSwapEach == [t \in Tokens |-> [a \in Accounts |->
    IF (a = alice /\ t = usd) \/ (a \in Adapters /\ t = flr) THEN 1 ELSE 0]]

EvaluatorSymmetry == Permutations(Evaluations) \cup Permutations(Signers)
=============================================================================
