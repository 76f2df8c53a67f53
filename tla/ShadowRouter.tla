---------------------------- MODULE ShadowRouter ----------------------------
(***************************************************************************)
(* The escrow contract contracts/ShadowRouter.sol.                         *)
(*                                                                         *)
(* A transaction of the EVM is atomic, with one exception that matters:    *)
(* executeIntent hands control to an adapter and measures its own balance  *)
(* when the adapter returns.  The model therefore splits executeIntent in  *)
(* EnterExecute, a window in which the adapter (and every contract the     *)
(* adapter calls) may act, and LeaveExecute or RevertExecute.  While the   *)
(* window is open, call holds the authorization under execution and a      *)
(* checkpoint of the storage, which a revert restores.  The reentrancy     *)
(* guard is the conjunct NotEntered of the functions that carry the        *)
(* nonReentrant modifier; the others stay callable inside the window.      *)
(*                                                                         *)
(* An intent identifier is keccak256 of the immutable fields of the        *)
(* intent.  Hashing is taken to be injective, so the identifier is the     *)
(* record of those fields and the mapping intents reduces to status.       *)
(* A signature that recovers to s is the pair (authorization, s): the keys *)
(* in Signers may have signed anything.                                    *)
(*                                                                         *)
(* The tokens are environment: a transfer moves n units and burns Fee[t]   *)
(* of them on the way; a standard token has no fee.                        *)
(***************************************************************************)
EXTENDS Integers, FiniteSets

CONSTANTS
    Users,          \* accounts that own intents
    Admins,         \* accounts that may own the contract
    Adapters,       \* adapter contracts, allowlisted or not
    Router,         \* the contract's own account
    Tokens,
    Signers,        \* keys a signature can recover to
    Terms,          \* arguments of createIntent users choose from
    RouteTerms,     \* the part of an authorization a signer chooses
    AdapterCalls,   \* the adapterData a caller can present
    MaxNonce,       \* type(uint64).max of nextIntentNonce
    MaxTime,        \* bound on the clock
    Fee,            \* units a transfer of the token burns
    InitialBalance, \* token balances before the first call
    ZeroAddress, ZeroHash, NoCall

Accounts == Users \cup Adapters \cup {Router}
StandardTokens == {t \in Tokens : Fee[t] = 0}
Statuses == {"None", "Created", "Funded", "Executed", "Cancelled"}

(* keccak256(abi.encode(owner, tokenIn, amount, ciphertextHash, expiry, nonce)) *)
IntentId(u, w, n) ==
    [owner |-> u, tokenIn |-> w.tokenIn, amount |-> w.amount,
     ciphertextHash |-> w.ciphertextHash, expiry |-> w.expiry, nonce |-> n]

IntentIds == {IntentId(u, w, n) : u \in Users, w \in Terms, n \in 0..(MaxNonce - 1)}

(* A RouteAuthorization names an intent and repeats the fields of a subject, *)
(* which need not be that intent: the contract has to compare them.          *)
Authorization(id, subject, r) ==
    [intentId |-> id, owner |-> subject.owner, tokenIn |-> subject.tokenIn,
     maximumAmount |-> subject.amount, intentCommitment |-> subject.ciphertextHash,
     intentNonce |-> subject.nonce, adapter |-> r.adapter, tokenOut |-> r.tokenOut,
     actionHash |-> r.actionHash, minimumOutput |-> r.minimumOutput,
     deadline |-> r.deadline]

Authorizations ==
    {Authorization(id, s, r) : id \in IntentIds, s \in IntentIds, r \in RouteTerms}

(* The events of the contract that move funds out of it. *)
ExecutedEvent(id, a, t, n) ==
    [event |-> "IntentExecuted", intentId |-> id, adapter |-> a, token |-> t, amount |-> n]
CancelledEvent(id, n) ==
    [event |-> "IntentCancelled", intentId |-> id, amount |-> n]

ExecutedEvents == [event : {"IntentExecuted"}, intentId : IntentIds, adapter : Adapters,
                   token : Tokens, amount : Nat]
CancelledEvents == [event : {"IntentCancelled"}, intentId : IntentIds, amount : Nat]

Storages ==
    [status : [IntentIds -> Statuses], nextIntentNonce : [Users -> 0..MaxNonce],
     owner : Admins, teeSigner : Signers, paused : BOOLEAN,
     allowedAdapters : SUBSET Adapters, balance : [Tokens -> [Accounts -> Nat]],
     log : SUBSET (ExecutedEvents \cup CancelledEvents)]

(* An executeIntent in progress: its arguments and the storage it started     *)
(* from, in which inputBalanceBefore and outputBalanceBefore are read.        *)
Frames == [auth : Authorizations, signer : Signers, before : Storages]

ASSUME ConstantsAssumption ==
    /\ Router \notin Users \cup Adapters
    /\ MaxNonce \in Nat
    /\ MaxTime \in Nat
    /\ Fee \in [Tokens -> Nat]
    /\ InitialBalance \in [Tokens -> [Accounts -> Nat]]
    /\ ZeroAddress \notin Adapters \cup Admins \cup Signers
    /\ NoCall \notin Frames
    /\ \A w \in Terms : /\ w.tokenIn \in Tokens \cup {ZeroAddress}
                        /\ w.amount \in Nat
                        /\ w.expiry \in Nat
    /\ \A r \in RouteTerms : /\ r.adapter \in Adapters
                             /\ r.tokenOut \in Tokens \cup {ZeroAddress}
                             /\ r.minimumOutput \in Nat
                             /\ r.deadline \in Nat

VARIABLES
    status,          \* intents[id].status
    nextIntentNonce,
    owner, teeSigner, paused, allowedAdapters,
    balance,         \* balance[t][a]: ERC-20 balances
    log,             \* the IntentExecuted and IntentCancelled events emitted
    call,            \* the executeIntent in progress, or NoCall
    now              \* block.timestamp

adminVars == <<owner, teeSigner, paused, allowedAdapters>>
vars == <<status, nextIntentNonce, owner, teeSigner, paused, allowedAdapters,
          balance, log, call, now>>

(* What a revert of the transaction restores. *)
Storage == [status |-> status, nextIntentNonce |-> nextIntentNonce, owner |-> owner,
            teeSigner |-> teeSigner, paused |-> paused,
            allowedAdapters |-> allowedAdapters, balance |-> balance, log |-> log]

Frame(auth, signer) == [auth |-> auth, signer |-> signer, before |-> Storage]

-----------------------------------------------------------------------------
(* ERC-20 transfers. *)

Received(t, n) == IF n > Fee[t] THEN n - Fee[t] ELSE 0
CanPayIfNotEmpty(t, a, n) == balance[t][a] > 0
CanPay(t, a, n) == balance[t][a] >= n
Transfer(t, from, to, n) ==
    LET paid == [balance EXCEPT ![t][from] = @ - n]
    IN  [paid EXCEPT ![t][to] = @ + Received(t, n)]

-----------------------------------------------------------------------------
NotEntered == call = NoCall

Init ==
    /\ status = [id \in IntentIds |-> "None"]
    /\ nextIntentNonce = [u \in Users |-> 0]
    /\ owner \in Admins
    /\ teeSigner \in Signers
    /\ paused = FALSE
    /\ allowedAdapters = {}
    /\ balance = InitialBalance
    /\ log = {}
    /\ call = NoCall
    /\ now = 0

(* nextIntentNonce[intentOwner]++ *)
NonceNotAdvanced(u) == nextIntentNonce
NonceAdvanced(u) == [nextIntentNonce EXCEPT ![u] = @ + 1]

(* _createIntent, leaving the new intent in status s. *)
NewIntent(u, w, s) ==
    LET id == IntentId(u, w, nextIntentNonce[u]) IN
    /\ w.tokenIn # ZeroAddress /\ w.amount # 0 /\ w.ciphertextHash # ZeroHash
    /\ w.expiry > now
    /\ nextIntentNonce[u] < MaxNonce       \* checked arithmetic
    /\ status[id] = "None"
    /\ nextIntentNonce' = NonceAdvanced(u)
    /\ status' = [status EXCEPT ![id] = s]

(* createIntent carries no nonReentrant: an adapter may call it. *)
CreateIntent(u, w) ==
    /\ ~paused
    /\ NewIntent(u, w, "Created")
    /\ UNCHANGED <<adminVars, balance, log, call, now>>

CreateAndFundIntent(u, w) ==
    /\ NotEntered
    /\ ~paused
    /\ NewIntent(u, w, "Funded")
    /\ CanPay(w.tokenIn, u, w.amount)
    /\ balance' = Transfer(w.tokenIn, u, Router, w.amount)
    /\ UNCHANGED <<adminVars, log, call, now>>

MayFundInsideWindow(u, id) ==
    ~paused /\ id.owner = u /\ status[id] = "Created" /\ id.expiry > now
MayFundExpired(u, id) ==
    NotEntered /\ ~paused /\ id.owner = u /\ status[id] = "Created"
MayFund(u, id) == NotEntered /\ MayFundInsideWindow(u, id)

FundIntent(u, id) ==
    /\ MayFund(u, id)
    /\ CanPay(id.tokenIn, u, id.amount)
    /\ status' = [status EXCEPT ![id] = "Funded"]
    /\ balance' = Transfer(id.tokenIn, u, Router, id.amount)
    /\ UNCHANGED <<nextIntentNonce, adminVars, log, call, now>>

(* The fields of the authorization repeat those of the stored intent. *)
MatchesIntent(auth, adapterData) ==
    LET id == auth.intentId IN
    /\ auth.owner = id.owner
    /\ auth.tokenIn = id.tokenIn
    /\ auth.maximumAmount = id.amount
    /\ auth.intentCommitment = id.ciphertextHash
    /\ auth.intentNonce = id.nonce
    /\ auth.actionHash = adapterData

(* The signature recovers to the key the contract trusts now. *)
SignedByAnyKey(signer) == TRUE
SignedByTee(signer) == signer = teeSigner

(* executeIntent up to and including the call of the adapter. *)
EnterExecute(auth, signer, adapterData) ==
    LET id == auth.intentId IN
    /\ NotEntered
    /\ ~paused
    /\ status[id] = "Funded"
    /\ id.expiry > now
    /\ auth.deadline >= now
    /\ auth.adapter \in allowedAdapters
    /\ MatchesIntent(auth, adapterData)
    /\ SignedByTee(signer)
    /\ auth.tokenOut # ZeroAddress
    /\ CanPay(id.tokenIn, Router, id.amount)
    /\ balance' = Transfer(id.tokenIn, Router, auth.adapter, id.amount)
    /\ call' = Frame(auth, signer)
    /\ UNCHANGED <<status, nextIntentNonce, adminVars, log, now>>

(* The balance of the output token that the adapter did not produce. *)
BaselineAlwaysNet(c) ==
    c.before.balance[c.auth.tokenOut][Router] - c.auth.intentId.amount
Baseline(c) ==
    LET id == c.auth.intentId
        outputBalanceBefore == c.before.balance[c.auth.tokenOut][Router]
    IN  IF c.auth.tokenOut = id.tokenIn THEN outputBalanceBefore - id.amount
                                        ELSE outputBalanceBefore

(* executeIntent after the adapter returned tokenOut, to its end. *)
LeaveExecute(tokenOut) ==
    LET id == call.auth.intentId
        amountOut == balance[tokenOut][Router] - Baseline(call)
    IN
    /\ ~NotEntered
    /\ tokenOut = call.auth.tokenOut
    /\ amountOut >= 0                      \* checked arithmetic
    /\ amountOut >= call.auth.minimumOutput
    /\ status' = [status EXCEPT ![id] = "Executed"]
    /\ balance' = Transfer(tokenOut, Router, id.owner, amountOut)
    /\ log' = log \cup {ExecutedEvent(id, call.auth.adapter, tokenOut, amountOut)}
    /\ call' = NoCall
    /\ UNCHANGED <<nextIntentNonce, adminVars, now>>

(* The adapter reverts, or a check after it fails: nothing has happened. *)
RevertExecute ==
    /\ ~NotEntered
    /\ status' = call.before.status
    /\ nextIntentNonce' = call.before.nextIntentNonce
    /\ owner' = call.before.owner
    /\ teeSigner' = call.before.teeSigner
    /\ paused' = call.before.paused
    /\ allowedAdapters' = call.before.allowedAdapters
    /\ balance' = call.before.balance
    /\ log' = call.before.log
    /\ call' = NoCall
    /\ UNCHANGED now

(* Neither the pause nor the expiry stands between the owner and a refund. *)
MayCancelInsideWindow(u, id) == id.owner = u /\ status[id] \in {"Created", "Funded"}
MayCancelUnlessPaused(u, id) == NotEntered /\ ~paused /\ MayCancelInsideWindow(u, id)
MayCancel(u, id) == NotEntered /\ MayCancelInsideWindow(u, id)

RefundWithoutDeposit(id) == id.amount
Refund(id) == IF status[id] = "Funded" THEN id.amount ELSE 0

CancelIntent(u, id) ==
    /\ MayCancel(u, id)
    /\ Refund(id) # 0 => CanPay(id.tokenIn, Router, Refund(id))
    /\ status' = [status EXCEPT ![id] = "Cancelled"]
    /\ balance' = IF Refund(id) # 0 THEN Transfer(id.tokenIn, Router, id.owner, Refund(id))
                                    ELSE balance
    /\ log' = log \cup {CancelledEvent(id, Refund(id))}
    /\ UNCHANGED <<nextIntentNonce, adminVars, call, now>>

SetAdapter(sender, adapter, allowed) ==
    /\ sender = owner
    /\ adapter # ZeroAddress
    /\ allowedAdapters' = IF allowed THEN allowedAdapters \cup {adapter}
                                     ELSE allowedAdapters \ {adapter}
    /\ UNCHANGED <<status, nextIntentNonce, owner, teeSigner, paused, balance, log, call, now>>

SetTeeSigner(sender, newSigner) ==
    /\ sender = owner
    /\ newSigner # ZeroAddress
    /\ teeSigner' = newSigner
    /\ UNCHANGED <<status, nextIntentNonce, owner, paused, allowedAdapters, balance, log,
                   call, now>>

SetPaused(sender, newPaused) ==
    /\ sender = owner
    /\ paused' = newPaused
    /\ UNCHANGED <<status, nextIntentNonce, owner, teeSigner, allowedAdapters, balance, log,
                   call, now>>

TransferOwnership(sender, newOwner) ==
    /\ sender = owner
    /\ newOwner # ZeroAddress
    /\ owner' = newOwner
    /\ UNCHANGED <<status, nextIntentNonce, teeSigner, paused, allowedAdapters, balance, log,
                   call, now>>

-----------------------------------------------------------------------------
(* Environment. *)

(* An adapter pays the router: the proceeds of a swap inside the window, a *)
(* donation outside it.                                                    *)
AdapterPays(a, t, n) ==
    /\ CanPay(t, a, n)
    /\ balance' = Transfer(t, a, Router, n)
    /\ UNCHANGED <<status, nextIntentNonce, adminVars, log, call, now>>

(* A block is mined: time passes between transactions only. *)
Tick ==
    /\ NotEntered
    /\ now < MaxTime
    /\ now' = now + 1
    /\ UNCHANGED <<status, nextIntentNonce, adminVars, balance, log, call>>

UserStep == \E u \in Users :
    \/ \E w \in Terms : CreateIntent(u, w) \/ CreateAndFundIntent(u, w)
    \/ \E id \in IntentIds : FundIntent(u, id) \/ CancelIntent(u, id)

ExecuteStep ==
    \/ \E id \in IntentIds, subject \in IntentIds, r \in RouteTerms,
          signer \in Signers, data \in AdapterCalls :
            EnterExecute(Authorization(id, subject, r), signer, data)
    \/ \E t \in Tokens : LeaveExecute(t)
    \/ RevertExecute

AdminStep == \E sender \in Admins :
    \/ \E a \in Adapters, allowed \in BOOLEAN : SetAdapter(sender, a, allowed)
    \/ \E s \in Signers : SetTeeSigner(sender, s)
    \/ \E p \in BOOLEAN : SetPaused(sender, p)
    \/ \E o \in Admins : TransferOwnership(sender, o)

EnvironmentStep ==
    \/ \E a \in Adapters, t \in Tokens :
         \E n \in 1..balance[t][a] : AdapterPays(a, t, n)
    \/ Tick

Next == UserStep \/ ExecuteStep \/ AdminStep \/ EnvironmentStep

Spec == Init /\ [][Next]_vars

-----------------------------------------------------------------------------
(* Value(S) is the sum of the amounts of the records in S, counted as the  *)
(* number of token units: a form of the sum that proofs can use.           *)

Units(S) == UNION {{x} \X (1..x.amount) : x \in S}
Value(S) == Cardinality(Units(S))

InFlight == IF NotEntered THEN {} ELSE {call.auth.intentId}

FundedIntents(st, t) == {id \in IntentIds : st[id] = "Funded" /\ id.tokenIn = t}

(* What the router owes in token t while it is not itself swapping it. *)
Escrowed(t) == Value(FundedIntents(status, t) \ InFlight)

-----------------------------------------------------------------------------
(* The storage variables of contracts/ShadowRouter.sol:50-56 hold values of  *)
(* their declared types, token balances never go negative, and a frame holds *)
(* an authorization and a well-typed checkpoint.                             *)
TypeOK ==
    /\ Storage \in Storages
    /\ now \in 0..MaxTime
    /\ call \in Frames \cup {NoCall}

(* At every moment, the adapter's window included, the router holds enough  *)
(* of a standard token to refund every funded intent but the one whose      *)
(* input it has just handed to the adapter: an execution pays its owner out *)
(* of what the adapter delivered and never out of another owner's deposit.  *)
Solvency == \A t \in StandardTokens : balance[t][Router] >= Escrowed(t)

(* No intent is settled twice: of the refund of cancelIntent and the output *)
(* of executeIntent its owner gets at most one, once.                       *)
SettledOnce(lg) == \A e, f \in lg : e.intentId = f.intentId => e = f
SingleSettlement == SettledOnce(log)

(* An account that is itself an adapter is paid, and pays, as one besides.   *)
Owners == Users \ Adapters

DepositsOf(u, t, st) == {id \in IntentIds : /\ id.owner = u
                                           /\ id.tokenIn = t
                                           /\ st[id] \in {"Funded", "Executed"}}
OutputsTo(u, t, lg) == {e \in lg : /\ e.event = "IntentExecuted"
                                   /\ e.intentId.owner = u
                                   /\ e.token = t}

(* The accounts balance for every owner and every standard token: what has  *)
(* left the wallet is exactly what funded or executed intents took, what    *)
(* has come in is exactly what executions reported in IntentExecuted; a     *)
(* cancelled intent, and a reverted execution, cost nothing.                *)
Accounted(st, bal, lg) == \A u \in Owners, t \in StandardTokens :
    bal[t][u] + Value(DepositsOf(u, t, st)) = InitialBalance[t][u] + Value(OutputsTo(u, t, lg))
OwnerAccounting == Accounted(status, balance, log)

(* An owner can always leave: between transactions, whatever the admin, the *)
(* clock and the other owners have done, cancelIntent of a funded intent in *)
(* a standard token succeeds.                                               *)
FundsNeverTrapped == \A id \in IntentIds :
    /\ NotEntered
    /\ status[id] = "Funded"
    /\ id.tokenIn \in StandardTokens
    => ENABLED CancelIntent(id.owner, id)

(* The nonce is the handle by which an authorization names an intent: no two *)
(* intents of an owner share one, though a reverted execution may undo the   *)
(* creation of an intent in the window and hand its nonce out again.         *)
NoncesDistinct(st) == \A i, j \in IntentIds :
    /\ st[i] # "None" /\ st[j] # "None"
    /\ i.owner = j.owner /\ i.nonce = j.nonce
    => i = j
NonceIdentifiesIntent == NoncesDistinct(status)

(* An execution that commits was authorized by the storage its transaction  *)
(* started from, whatever was called in the window, and pays the owner at   *)
(* least the signed minimum of the signed token before both deadlines.      *)
ExecutionsAuthorized == [][ \A id \in IntentIds :
    status[id] # "Executed" /\ status'[id] = "Executed" =>
        LET auth == call.auth IN
        /\ auth.intentId = id
        /\ now <= auth.deadline /\ now < id.expiry
        /\ auth = Authorization(id, id, auth)
        /\ call.before.status[id] = "Funded"
        /\ ~call.before.paused
        /\ call.before.teeSigner = call.signer
        /\ auth.adapter \in call.before.allowedAdapters
        /\ auth.tokenOut \in StandardTokens =>
             balance'[auth.tokenOut][id.owner]
               >= balance[auth.tokenOut][id.owner] + auth.minimumOutput ]_vars

(* A settled intent stays settled: "Intent status remains the single-use    *)
(* boundary", through reentrant calls and reverts alike.                    *)
SettledIsFinal == [][ \A id \in IntentIds :
    status[id] \in {"Executed", "Cancelled"} => status'[id] = status[id] ]_vars

-----------------------------------------------------------------------------
(* What the proof of Solvency needs besides: the window changes no deposit, *)
(* its intent stays funded, and the checkpoint is itself solvent.           *)

FrameInv == call # NoCall =>
    LET id == call.auth.intentId IN
    /\ status[id] = "Funded"
    /\ \A i \in IntentIds :
         /\ status[i] = "Funded" <=> call.before.status[i] = "Funded"
         /\ call.before.status[i] # "None" => status[i] # "None"
    /\ call.before.balance[id.tokenIn][Router] >= id.amount
    /\ \A t \in StandardTokens :
         call.before.balance[t][Router] >= Value(FundedIntents(call.before.status, t))

CreatedInv ==
    /\ IsFiniteSet({id \in IntentIds : status[id] # "None"})
    /\ \A id \in IntentIds : status[id] # "None" => id.tokenIn \in Tokens

IInv == TypeOK /\ CreatedInv /\ FrameInv /\ Solvency

(* What the proofs about the history of the intents need besides: every      *)
(* event settled its intent, and nonces already handed out lie below the     *)
(* counter, in the storage and in the checkpoint a revert restores.          *)
EventsInv(st, lg) ==
    /\ IsFiniteSet(lg)
    /\ \A e \in lg :
         st[e.intentId] = IF e.event = "IntentExecuted" THEN "Executed" ELSE "Cancelled"
    /\ SettledOnce(lg)
NoncesInv(st, nonces) ==
    /\ \A id \in IntentIds : st[id] # "None" => id.nonce < nonces[id.owner]
    /\ NoncesDistinct(st)
StorageInv(st, nonces, bal, lg) ==
    EventsInv(st, lg) /\ NoncesInv(st, nonces) /\ Accounted(st, bal, lg)

(* The window opens new intents and does nothing else to intents, wallets of *)
(* owners and events; and the frame passed every check of executeIntent.     *)
WindowInv == call # NoCall =>
    LET auth == call.auth
        id == auth.intentId
        before == call.before
    IN
    /\ StorageInv(before.status, before.nextIntentNonce, before.balance, before.log)
    /\ log = before.log
    /\ \A i \in IntentIds : status[i] # before.status[i] =>
         before.status[i] = "None" /\ status[i] = "Created" /\ i.expiry > now
    /\ \A t \in Tokens, u \in Owners : balance[t][u] = before.balance[t][u]
    /\ now <= auth.deadline /\ now < id.expiry
    /\ auth = Authorization(id, id, auth)
    /\ before.status[id] = "Funded"
    /\ ~before.paused
    /\ before.teeSigner = call.signer
    /\ auth.adapter \in before.allowedAdapters

HistoryInv == StorageInv(status, nextIntentNonce, balance, log) /\ WindowInv

-----------------------------------------------------------------------------
(* The promise to the owners, of which this contract is an implementation:  *)
(* an execution is one atomic step, the one in which it commits.            *)

Committed == IF NotEntered THEN Storage ELSE call.before

Escrow == INSTANCE IntentEscrow WITH
    Users <- Owners,
    phase <- Committed.status,
    wallet <- [t \in StandardTokens |-> [u \in Owners |-> Committed.balance[t][u]]]

(* Every behaviour of the router, seen at transaction boundaries, is one of *)
(* the abstract escrow.                                                     *)
ImplementsEscrow == Escrow!Spec
=============================================================================
