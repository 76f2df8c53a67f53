--------------------------- MODULE MCShadowRouter ---------------------------
(***************************************************************************)
(* Instances of ShadowRouter for TLC.                                      *)
(***************************************************************************)
EXTENDS ShadowRouter

CONSTANTS alice, usd, flr, taxed, pangolin, secret, swap

IntentTerms(t, n, e) ==
    [tokenIn |-> t, amount |-> n, ciphertextHash |-> secret, expiry |-> e]
Route(a, t, m, d) ==
    [adapter |-> a, tokenOut |-> t, actionHash |-> swap, minimumOutput |-> m, deadline |-> d]

(* Deposits of two sizes, one of which expires before the other; routes into *)
(* another token and into the input token itself.                            *)
TwoTerms == {IntentTerms(usd, 1, 1), IntentTerms(flr, 2, 2)}
TwoRoutes == {Route(pangolin, flr, 1, 1), Route(pangolin, usd, 1, 0)}

(* Terms createIntent refuses, a route executeIntent refuses. *)
RefusedTerms ==
    {IntentTerms(ZeroAddress, 1, 2), IntentTerms(usd, 0, 2),
     [IntentTerms(usd, 1, 2) EXCEPT !.ciphertextHash = ZeroHash]}
RefusedRoute == {Route(pangolin, ZeroAddress, 0, 1)}

(* A token that takes a fee of one unit on every transfer, bought and sold. *)
TaxedTerms == {IntentTerms(usd, 1, 1), IntentTerms(taxed, 2, 1)}
TaxedRoutes == {Route(pangolin, taxed, 1, 0), Route(pangolin, usd, 1, 0)}
TaxedOrRefused == TaxedTerms \cup RefusedTerms
TaxedRoutesOrRefused == TaxedRoutes \cup RefusedRoute

NoFee == [t \in Tokens |-> 0]
TaxedFee == [t \in Tokens |-> IF t = taxed THEN 1 ELSE 0]

(* The deposits the owners start with: everyone has one unit of each token,  *)
(* alice has a second one, and the adapter holds liquidity.                  *)
Funding(liquidity) == [t \in Tokens |-> [a \in Accounts |->
    IF a = Router THEN 0
    ELSE IF a \in Users THEN (IF a = alice THEN 2 ELSE 1)
    ELSE liquidity]]
ShallowPool == Funding(1)
DeepPool == Funding(2)
=============================================================================
