--------------------------- MODULE DepositPromise ---------------------------
(***************************************************************************)
(* What a deposit promises the XRP holder, with nothing said of scripts,   *)
(* nonces read too early, attestation rounds or receipts: a payment offers *)
(* an operation, which is then fixed; the operation is executed at most    *)
(* once, before it expires, instead of any other that carries the same     *)
(* account nonce; and the intent it funds is the one its commitment names. *)
(***************************************************************************)
EXTENDS Integers

CONSTANTS Payments, Operations, MaxTime, None

VARIABLES
    offer,    \* offer[p]: the operation payment p was made for, or None
    funded,   \* the payments whose operation was executed
    intents,  \* the intents of the personal account
    next,     \* the nonce of the next one
    now

depositVars == <<offer, funded, intents, next, now>>

(* Payments may have been made before. *)
DepositInit ==
    /\ offer \in [Payments -> Operations \cup {None}]
    /\ funded = {}
    /\ intents = {}
    /\ next = 0
    /\ now = 0

Offer(p) ==
    /\ offer[p] = None
    /\ offer'[p] \in Operations
    /\ offer' = [offer EXCEPT ![p] = offer'[p]]
    /\ UNCHANGED <<funded, intents, next, now>>

Names(commitment, n) == commitment.policy = "private" => commitment.intentNonce = n

Fund(p) ==
    LET op == offer[p] IN
    /\ op # None /\ p \notin funded
    /\ op.expiry > now
    /\ \A q \in funded : offer[q].nonce # op.nonce
    /\ Names(op.commitment, next)
    /\ funded' = funded \cup {p}
    /\ intents' = intents \cup
         {[nonce |-> next, commitment |-> op.commitment, expiry |-> op.expiry]}
    /\ next' = next + 1
    /\ UNCHANGED <<offer, now>>

Pass ==
    /\ now' \in now..MaxTime
    /\ UNCHANGED <<offer, funded, intents, next>>

DepositNext ==
    \/ Pass
    \/ \E p \in Payments : Offer(p) \/ Fund(p)

Spec == DepositInit /\ [][DepositNext]_depositVars
=============================================================================
