---------------------------- MODULE IntentEscrow ----------------------------
(***************************************************************************)
(* What the escrow promises the owners of intents, with nothing said of    *)
(* adapters, signatures, pauses or reentrancy: an intent is opened, funded *)
(* from its owner's wallet, and then either refunded in full or exchanged  *)
(* for at least the minimum output of a route, once, before it expires.    *)
(* Every transaction is one step.                                          *)
(*                                                                         *)
(* A transaction that executes an intent may open others: createIntent can *)
(* be called while the adapter runs.                                       *)
(***************************************************************************)
EXTENDS Integers

CONSTANTS
    Users, StandardTokens, IntentIds, RouteTerms, InitialBalance, MaxTime

VARIABLES
    phase,   \* phase[id]: how far the intent has come
    wallet,  \* wallet[t][u]: what owner u holds of standard token t
    now

escrowVars == <<phase, wallet, now>>

(* The wallets after owner u receives n units of t; tokens that take a fee   *)
(* on transfer are left out of the account.                                  *)
Credit(w, t, u, n) ==
    [s \in StandardTokens |->
        IF s = t THEN [w[s] EXCEPT ![u] = @ + n] ELSE w[s]]

(* The phases after the intents in S have been opened. *)
Opened(S) == [id \in IntentIds |-> IF id \in S THEN "Created" ELSE phase[id]]

Fresh == {id \in IntentIds : phase[id] = "None" /\ id.expiry > now}

EscrowInit ==
    /\ phase = [id \in IntentIds |-> "None"]
    /\ wallet = [t \in StandardTokens |-> [u \in Users |-> InitialBalance[t][u]]]
    /\ now = 0

Open(S) ==
    /\ phase' = Opened(S)
    /\ UNCHANGED <<wallet, now>>

Fund(id) ==
    /\ phase[id] \in {"None", "Created"}
    /\ id.expiry > now
    /\ phase' = [phase EXCEPT ![id] = "Funded"]
    /\ wallet' = Credit(wallet, id.tokenIn, id.owner, -id.amount)
    /\ UNCHANGED now

(* Route r sells the deposit: the owner receives at least the route's minimum *)
(* of its output token, and no other wallet changes.                          *)
Exchange(id, S, r) ==
    /\ phase[id] = "Funded"
    /\ id.expiry > now
    /\ phase' = [Opened(S) EXCEPT ![id] = "Executed"]
    /\ wallet' \in [StandardTokens -> [Users -> Nat]]
    /\ \A t \in StandardTokens, u \in Users :
         IF t = r.tokenOut /\ u = id.owner
         THEN wallet'[t][u] >= wallet[t][u] + r.minimumOutput
         ELSE wallet'[t][u] = wallet[t][u]
    /\ UNCHANGED now

Refund(id) ==
    /\ phase[id] \in {"Created", "Funded"}
    /\ phase' = [phase EXCEPT ![id] = "Cancelled"]
    /\ wallet' = IF phase[id] = "Funded"
                 THEN Credit(wallet, id.tokenIn, id.owner, id.amount)
                 ELSE wallet
    /\ UNCHANGED now

Pass ==
    /\ now' \in now..MaxTime
    /\ UNCHANGED <<phase, wallet>>

EscrowNext ==
    \/ \E S \in SUBSET Fresh : Open(S)
    \/ \E id \in IntentIds : Fund(id) \/ Refund(id)
    \/ \E id \in IntentIds, S \in SUBSET Fresh, r \in RouteTerms : Exchange(id, S, r)
    \/ Pass

Spec == EscrowInit /\ [][EscrowNext]_escrowVars
=============================================================================
