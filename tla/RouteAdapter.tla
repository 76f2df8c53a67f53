----------------------------- MODULE RouteAdapter -----------------------------
(***************************************************************************)
(* contracts/UniswapV2RouteAdapter.sol between the router and an exchange. *)
(*                                                                         *)
(* The module extends ShadowRouter and fills in the window of executeIntent *)
(* for one adapter: execute approves the input, calls the exchange, clears *)
(* the approval and forwards what the exchange delivered.  Only the call of *)
(* the exchange lets foreign code run.  The exchange is any contract that  *)
(* keeps to its allowance: it may pull less than it was approved for, pay  *)
(* nothing or late, and call the router back.  execute refuses every       *)
(* caller but the router, so it runs inside a window only.                 *)
(*                                                                         *)
(* An actionHash is the adapterData it hashes: the path, amountOutMin and  *)
(* deadline execute decodes.                                               *)
(***************************************************************************)
EXTENDS ShadowRouter, SequencesExt

CONSTANTS
    V2Adapter,       \* the adapter, and
    ExchangeRouter,  \* the exchange behind it, two of the Adapters
    NoSwap

(* A call of execute: its locals, and the allowance a revert restores. *)
Swaps == [tokenIn : Tokens, tokenOut : Tokens, amountOutMin : Nat, beforeBalance : Nat,
          allowanceBefore : [Tokens -> Nat], returned : BOOLEAN]

(* The adapter has no code that creates an intent. *)
ASSUME RouteAdapterAssumption ==
    /\ {V2Adapter, ExchangeRouter} \subseteq Adapters
    /\ V2Adapter # ExchangeRouter
    /\ V2Adapter \notin Users
    /\ NoSwap \notin Swaps
    /\ \A d \in AdapterCalls : /\ d.path \in Seq(Tokens \cup {ZeroAddress})
                               /\ d.amountOutMin \in Nat /\ d.deadline \in Nat

VARIABLES
    allowance,  \* what the exchange may pull from the adapter, by token
    swap        \* the call of execute in progress, or NoSwap

adapterVars == <<allowance, swap>>
routeVars == <<vars, adapterVars>>

RouteInit ==
    /\ Init
    /\ allowance = [t \in Tokens |-> 0]
    /\ swap = NoSwap

InV2Window == ~NotEntered /\ call.auth.adapter = V2Adapter
Swapping == swap # NoSwap /\ ~swap.returned

-----------------------------------------------------------------------------
(* What execute requires of the decoded data.  A token may be on the path    *)
(* twice, though README.md:224 speaks of two to four unique tokens.          *)
ValidSwap(d, tokenIn) ==
    /\ d.deadline >= now
    /\ Len(d.path) \in 2..4 /\ Head(d.path) = tokenIn
    /\ Last(d.path) \notin {ZeroAddress, tokenIn}
    /\ d.amountOutMin # 0

(* execute up to and including the call of the exchange. *)
AdapterExecute ==
    LET id == call.auth.intentId
        d == call.auth.actionHash
    IN
    /\ InV2Window /\ swap = NoSwap
    /\ ValidSwap(d, id.tokenIn)
    /\ allowance' = [allowance EXCEPT ![id.tokenIn] = id.amount]
    /\ swap' = [tokenIn |-> id.tokenIn, tokenOut |-> Last(d.path),
                amountOutMin |-> d.amountOutMin,
                beforeBalance |-> balance[Last(d.path)][V2Adapter],
                allowanceBefore |-> allowance, returned |-> FALSE]
    /\ UNCHANGED vars

(* The allowance after the swap. *)
LeftOver(t) == allowance[t]
Cleared(t) == 0

(* What execute counts as the output of the swap. *)
WholeBalance == balance[swap.tokenOut][V2Adapter]
Proceeds == balance[swap.tokenOut][V2Adapter] - swap.beforeBalance

AnyOutput == Proceeds > 0
EnoughOutput == Proceeds >= swap.amountOutMin

(* execute from the return of the exchange to its own. *)
AdapterReturn ==
    /\ Swapping
    /\ EnoughOutput
    /\ allowance' = [allowance EXCEPT ![swap.tokenIn] = Cleared(swap.tokenIn)]
    /\ balance' = Transfer(swap.tokenOut, V2Adapter, Router, Proceeds)
    /\ swap' = [swap EXCEPT !.returned = TRUE]
    /\ UNCHANGED <<status, nextIntentNonce, adminVars, log, call, now>>

-----------------------------------------------------------------------------
(* The exchange.  An allowance left standing could be used at any time. *)

ExchangePulls(t, n) ==
    /\ Swapping \/ NotEntered
    /\ n <= allowance[t]
    /\ CanPay(t, V2Adapter, n)
    /\ allowance' = [allowance EXCEPT ![t] = @ - n]
    /\ balance' = Transfer(t, V2Adapter, ExchangeRouter, n)
    /\ UNCHANGED <<status, nextIntentNonce, adminVars, log, call, now, swap>>

ExchangePays(t, n) ==
    /\ Swapping \/ NotEntered
    /\ CanPay(t, ExchangeRouter, n)
    /\ balance' = Transfer(t, ExchangeRouter, V2Adapter, n)
    /\ UNCHANGED <<status, nextIntentNonce, adminVars, log, call, now, adapterVars>>

-----------------------------------------------------------------------------
(* The router's steps around the adapter's. *)

Leave(t) ==
    /\ LeaveExecute(t)
    /\ InV2Window => swap # NoSwap /\ swap.returned /\ swap.tokenOut = t
    /\ swap' = NoSwap
    /\ UNCHANGED allowance

Revert ==
    /\ RevertExecute
    /\ allowance' = IF swap = NoSwap THEN allowance ELSE swap.allowanceBefore
    /\ swap' = NoSwap

(* In the window of this adapter nobody acts but through the exchange.  *)
Others ==
    /\ InV2Window => Swapping
    /\ \/ UserStep
       \/ AdminStep
       \/ \E a \in Adapters \ {V2Adapter}, t \in Tokens :
            \E n \in 1..balance[t][a] : AdapterPays(a, t, n)
       \/ Tick
    /\ UNCHANGED adapterVars

AdapterStep ==
    \/ AdapterExecute
    \/ AdapterReturn
    \/ \E t \in Tokens : \/ \E n \in 1..allowance[t] : ExchangePulls(t, n)
                         \/ \E n \in 1..balance[t][ExchangeRouter] : ExchangePays(t, n)

-----------------------------------------------------------------------------
(* The adapter is a stage, not an account: between transactions the exchange *)
(* can pull nothing from it, whatever it pulled, or left, during a swap, and *)
(* a standard token that was sent to the adapter by mistake is not paid out  *)
(* as the proceeds of anybody's swap.                                        *)
AdapterKeepsNothing == NotEntered =>
    /\ swap = NoSwap
    /\ \A t \in Tokens : allowance[t] = 0
    /\ \A t \in StandardTokens : balance[t][V2Adapter] >= InitialBalance[t][V2Adapter]

(* An execution through the adapter that commits is the swap whose data was  *)
(* signed: before its own deadline, along a path from the deposited token to *)
(* the token the authorization names, tokens repeated or not, and the owner  *)
(* gets no less than the amountOutMin of the data, which the router itself   *)
(* knows nothing of.                                                         *)
SwapAsSigned == [][ \A id \in IntentIds :
    status[id] # "Executed" /\ status'[id] = "Executed" /\ call.auth.adapter = V2Adapter =>
        LET d == call.auth.actionHash
            t == Last(d.path)
        IN  /\ now <= d.deadline
            /\ Head(d.path) = id.tokenIn /\ t = call.auth.tokenOut
            /\ t \in StandardTokens =>
                 balance'[t][id.owner] >= balance[t][id.owner] + d.amountOutMin ]_routeVars
=============================================================================
