--------------------------- MODULE MCKeeperExecution ---------------------------
(***************************************************************************)
(* An instance of KeeperExecution for TLC: a V2 adapter that somebody sent *)
(* a unit of each token to, its exchange, and one owner who can also spend *)
(* what an execution pays.                                                 *)
(***************************************************************************)
EXTENDS KeeperExecution, TLC

CONSTANTS alice, usd, flr, secret

MCTerms == {[tokenIn |-> usd, amount |-> 1, ciphertextHash |-> secret, expiry |-> 1],
            [tokenIn |-> flr, amount |-> 1, ciphertextHash |-> secret, expiry |-> 1]}

Path(tokens, min, deadline) == [path |-> tokens, amountOutMin |-> min, deadline |-> deadline]

(* A swap; one that goes round by its first two tokens again, and wants more *)
(* than the router is told of; one that starts from another token than the   *)
(* deposited one.                                                            *)
MCAdapterCalls == {Path(<<usd, flr>>, 1, 0), Path(<<usd, flr, usd, flr>>, 2, 1),
                   Path(<<flr, usd, flr>>, 1, 1)}

RouteOf(a, d) == [adapter |-> a, tokenOut |-> flr, actionHash |-> d,
               minimumOutput |-> 1, deadline |-> 1]
MCRouteTerms == {RouteOf(V2Adapter, d) : d \in AdapterCalls}

NoFee == [t \in Tokens |-> 0]
Funding == [t \in Tokens |-> [a \in Accounts |->
    CASE a = alice -> (IF t = usd THEN 1 ELSE 0)
      [] a = V2Adapter -> 1
      [] a = ExchangeRouter -> (IF t = flr THEN 2 ELSE 0)
      [] OTHER -> 0]]

KeeperSymmetry == Permutations(Keepers)
=============================================================================
