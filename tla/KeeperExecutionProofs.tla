------------------------ MODULE KeeperExecutionProofs ------------------------
(***************************************************************************)
(* Proofs about RouteAdapter and KeeperExecution for every exchange behind *)
(* the adapter, every swap data a key signs and any number of keepers.     *)
(*                                                                         *)
(* KeeperSpec is no refinement of the router's Spec: the exchange moves    *)
(* tokens of the adapter and owners spend what they were paid.  What the   *)
(* proofs need of the router is its invariant IInv, which these payments   *)
(* leave alone, and WindowKept, the part of WindowInv that they leave.     *)
(* What the router promises of its intents is proved of the composition at *)
(* the end.                                                                *)
(***************************************************************************)
EXTENDS KeeperExecution, ShadowRouterHistoryProofs

(* Inside the window no event is emitted, no intent changes its status but  *)
(* those newly created, and no token but the input leaves the router.       *)
WindowKept == call # NoCall =>
    /\ log = call.before.log
    /\ \A i \in IntentIds : status[i] # call.before.status[i] =>
         call.before.status[i] = "None" /\ status[i] = "Created"
    /\ \A t \in Tokens : t # call.auth.intentId.tokenIn =>
         balance[t][Router] >= call.before.balance[t][Router]

-----------------------------------------------------------------------------
(* The adapter.                                                            *)

NoAllowance == [t \in Tokens |-> 0]

(* The adapter has what it started with besides n units of token tokenIn. *)
Keeps(bal, tokenIn, n) == \A t \in StandardTokens :
    bal[t][V2Adapter] >= InitialBalance[t][V2Adapter] + (IF t = tokenIn THEN n ELSE 0)

AdapterShapes ==
    /\ allowance \in [Tokens -> Nat]
    /\ swap \in Swaps \cup {NoSwap}
    /\ swap # NoSwap => InV2Window
    /\ ~Swapping => allowance = NoAllowance

(* Before the adapter has called the exchange, it holds the input. *)
BeforeSwap == swap = NoSwap =>
    IF InV2Window THEN Keeps(balance, call.auth.intentId.tokenIn, call.auth.intentId.amount)
                  ELSE Keeps(balance, ZeroAddress, 0)

(* The call of execute runs the signed data, of which what it has checked   *)
(* still holds; the exchange has pulled no more than it was allowed to.     *)
SwapInv == swap # NoSwap =>
    LET d == call.auth.actionHash
        id == call.auth.intentId
    IN
    /\ ValidSwap(d, id.tokenIn)
    /\ swap.tokenIn = id.tokenIn /\ swap.tokenOut = Last(d.path)
    /\ swap.amountOutMin = d.amountOutMin
    /\ swap.allowanceBefore = NoAllowance
    /\ swap.tokenOut \in StandardTokens =>
         swap.beforeBalance >= InitialBalance[swap.tokenOut][V2Adapter]
    /\ \A t \in Tokens : t # swap.tokenIn => allowance[t] = 0
    /\ Keeps(balance, swap.tokenIn, allowance[swap.tokenIn])
    /\ swap.returned /\ swap.tokenOut \in StandardTokens =>
         balance[swap.tokenOut][Router]
           >= call.before.balance[swap.tokenOut][Router] + swap.amountOutMin

CheckpointKeeps == call # NoCall => Keeps(call.before.balance, ZeroAddress, 0)

AdapterInv == AdapterShapes /\ BeforeSwap /\ SwapInv /\ CheckpointKeeps

-----------------------------------------------------------------------------
(* The keepers.                                                            *)

BeforeSend == {"idle", "readIntent", "readBlock", "checkAdapter", "checkSigner",
               "readBalance", "send"}
Steps == BeforeSend \cup {"wait", "readBack", "executed", "stopped"}
Receipts == {"none", "pending", "success", "reverted"}
Decisions == [script : Scripts, signer : Signers, auth : Authorizations]

KeeperShapes ==
    /\ step \in [Keepers -> Steps]
    /\ decision \in [Keepers -> Decisions \cup {NoRecord}]
    /\ receipt \in [Keepers -> Receipts]
    /\ executor \in Keepers \cup {NoRecord}
    /\ record = [k \in Keepers |-> record[k]]

(* A keeper that has started has a decision and keeps it; it has a record   *)
(* of it only after its transaction has succeeded.                          *)
KeeperInv(k) ==
    /\ step[k] \in BeforeSend => receipt[k] = "none"
    /\ step[k] # "idle" => decision[k] \in Decisions
    /\ step[k] \in {"send", "wait", "readBack", "executed"} =>
         decision[k].auth.tokenOut \in Tokens
    /\ step[k] \in {"readBack", "executed"} => receipt[k] = "success"
    /\ record[k] # NoRecord => receipt[k] = "success" /\ record[k].auth = decision[k].auth

(* The keeper whose transaction has the window open awaits its receipt. *)
ExecutorInv == executor # NoRecord =>
    /\ call # NoCall /\ call.auth = decision[executor].auth
    /\ receipt[executor] = "pending"

ExecutedAs(auth) ==
    \E e \in log : /\ e.event = "IntentExecuted" /\ e.intentId = auth.intentId
                   /\ e.adapter = auth.adapter /\ e.token = auth.tokenOut
                   /\ e.amount >= auth.minimumOutput

(* A transaction that has succeeded has executed its intent, as no other. *)
ReceiptsInv ==
    /\ \A k \in Keepers : receipt[k] = "success" =>
         /\ ExecutedAs(decision[k].auth)
         /\ status[decision[k].auth.intentId] = "Executed"
    /\ \A j, k \in Keepers : receipt[j] = "success" /\ receipt[k] = "success" /\ j # k =>
         decision[j].auth.intentId # decision[k].auth.intentId

KeepersInv ==
    /\ KeeperShapes
    /\ \A k \in Keepers : KeeperInv(k)
    /\ ExecutorInv
    /\ ReceiptsInv

-----------------------------------------------------------------------------
(* Steps of the router.                                                    *)

(* What a step of the users, the admin, another adapter or time leaves. *)
Kept ==
    /\ \A t \in Tokens : balance'[t][V2Adapter] >= balance[t][V2Adapter]
    /\ log \subseteq log'
    /\ \A i \in IntentIds : status[i] = "Executed" => status'[i] = "Executed"
    /\ call # NoCall =>
         /\ UNCHANGED <<log, now>>
         /\ \A i \in IntentIds : status'[i] # status[i] =>
              status[i] = "None" /\ status'[i] = "Created"
         /\ \A t \in Tokens : balance'[t][Router] >= balance[t][Router]

LEMMA AdapterAccounts ==
    /\ V2Adapter \in Accounts /\ V2Adapter # Router /\ V2Adapter \notin Users
    /\ ExchangeRouter \in Accounts /\ ExchangeRouter # Router
    /\ V2Adapter # ExchangeRouter
    /\ Router \in Accounts
BY RouteAdapterAssumption, AccountsDistinct

(* A payment of others leaves the adapter's balance or raises it. *)
LEMMA TransferKeepsAdapter ==
    ASSUME balance \in [Tokens -> [Accounts -> Nat]],
           NEW t \in Tokens, NEW from \in Accounts, NEW to \in Accounts, NEW n \in Nat,
           balance[t][from] >= n, from # to, from # V2Adapter
    PROVE  \A s \in Tokens : Transfer(t, from, to, n)[s][V2Adapter] >= balance[s][V2Adapter]
<1> SUFFICES ASSUME NEW s \in Tokens
             PROVE  Transfer(t, from, to, n)[s][V2Adapter] >= balance[s][V2Adapter]
    OBVIOUS
<1>1. balance[s][V2Adapter] \in Nat
    BY AdapterAccounts
<1>2. CASE s # t \/ to # V2Adapter
    BY <1>1, <1>2, AdapterAccounts, TransferElsewhere
<1>3. CASE s = t /\ to = V2Adapter
    BY <1>3, TransferMoves
<1>4. QED  BY <1>2, <1>3

LEMMA UserStepKeeps ==
    ASSUME IInv, NEW u \in Users,
           \/ \E w \in Terms : CreateIntent(u, w) \/ CreateAndFundIntent(u, w)
           \/ \E id \in IntentIds : FundIntent(u, id) \/ CancelIntent(u, id)
    PROVE  Kept
<1>1. /\ status \in [IntentIds -> Statuses]
      /\ balance \in [Tokens -> [Accounts -> Nat]]
      /\ u \in Accounts /\ u # Router /\ u # V2Adapter /\ Router # V2Adapter
      /\ \A t \in Tokens : balance[t][V2Adapter] \in Nat /\ balance[t][Router] \in Nat
    BY TypeOKFields, AccountsDistinct, AdapterAccounts DEF IInv
<1>2. ASSUME NEW w \in Terms, CreateIntent(u, w) PROVE Kept
  <2>1. PICK i \in IntentIds : status[i] = "None" /\ status' = [status EXCEPT ![i] = "Created"]
      BY <1>2, NewIntentEffect DEF CreateIntent, Statuses
  <2>2. UNCHANGED <<balance, log, now>>
      BY <1>2 DEF CreateIntent
  <2>3. QED  BY <1>1, <2>1, <2>2 DEF Kept
<1>3. ASSUME NEW w \in Terms, CreateAndFundIntent(u, w) PROVE Kept
  <2>1. PICK i \in IntentIds : /\ status[i] = "None"
                               /\ status' = [status EXCEPT ![i] = "Funded"]
                               /\ i.tokenIn = w.tokenIn /\ i.amount = w.amount
                               /\ i.tokenIn \in Tokens
      BY <1>3, NewIntentEffect DEF CreateAndFundIntent, Statuses
  <2>2. /\ call = NoCall /\ UNCHANGED log /\ w.amount \in Nat
        /\ balance' = Transfer(w.tokenIn, u, Router, w.amount)
        /\ balance[w.tokenIn][u] >= w.amount
      BY <1>3, ConstantsAssumption DEF CreateAndFundIntent, NotEntered, CanPay
  <2>3. \A t \in Tokens : balance'[t][V2Adapter] >= balance[t][V2Adapter]
      BY <1>1, <2>1, <2>2, AccountsDistinct, TransferKeepsAdapter
  <2>4. QED  BY <1>1, <2>1, <2>2, <2>3 DEF Kept
<1>4. ASSUME NEW id \in IntentIds, FundIntent(u, id) PROVE Kept
  <2>1. /\ call = NoCall /\ UNCHANGED log /\ id.amount \in Nat
        /\ status[id] = "Created" /\ status' = [status EXCEPT ![id] = "Funded"]
        /\ balance' = Transfer(id.tokenIn, u, Router, id.amount)
        /\ balance[id.tokenIn][u] >= id.amount
      BY <1>4, IntentFields DEF FundIntent, MayFund, MayFundInsideWindow, NotEntered, CanPay
  <2>2. id.tokenIn \in Tokens
      BY <2>1 DEF IInv, CreatedInv
  <2>3. \A t \in Tokens : balance'[t][V2Adapter] >= balance[t][V2Adapter]
      BY <1>1, <2>1, <2>2, AccountsDistinct, TransferKeepsAdapter
  <2>4. QED  BY <1>1, <2>1, <2>3 DEF Kept
<1>5. ASSUME NEW id \in IntentIds, CancelIntent(u, id) PROVE Kept
  <2>1. /\ call = NoCall /\ log \subseteq log' /\ id.amount \in Nat /\ id.owner = u
        /\ status[id] \in {"Created", "Funded"}
        /\ status' = [status EXCEPT ![id] = "Cancelled"]
        /\ Refund(id) # 0 => balance[id.tokenIn][Router] >= Refund(id)
        /\ balance' = IF Refund(id) # 0 THEN Transfer(id.tokenIn, Router, u, Refund(id))
                                        ELSE balance
      BY <1>5, IntentFields
         DEF CancelIntent, MayCancel, MayCancelInsideWindow, NotEntered, CanPay
  <2>2. id.tokenIn \in Tokens /\ Refund(id) \in Nat
      BY <2>1 DEF IInv, CreatedInv, Refund
  <2>3. \A t \in Tokens : balance'[t][V2Adapter] >= balance[t][V2Adapter]
    <3>1. CASE Refund(id) = 0
        BY <1>1, <2>1, <3>1
    <3>2. CASE Refund(id) # 0
        BY <1>1, <2>1, <2>2, <3>2, AccountsDistinct, TransferKeepsAdapter
    <3>3. QED  BY <3>1, <3>2
  <2>4. QED  BY <1>1, <2>1, <2>3 DEF Kept
<1>6. QED  BY <1>2, <1>3, <1>4, <1>5

LEMMA OthersKeep ==
    ASSUME IInv, Others
    PROVE  /\ IInv' /\ Kept
           /\ UNCHANGED <<call, adapterVars>>
           /\ InV2Window => Swapping
<1>1. /\ balance \in [Tokens -> [Accounts -> Nat]]
      /\ \A t \in Tokens : balance[t][V2Adapter] \in Nat /\ balance[t][Router] \in Nat
    BY TypeOKFields, AdapterAccounts DEF IInv
<1>2. UNCHANGED adapterVars /\ (InV2Window => Swapping)
    BY DEF Others
<1>3. CASE UserStep
  <2>1. UNCHANGED call
      BY <1>3 DEF UserStep, CreateIntent, CreateAndFundIntent, FundIntent, CancelIntent
  <2>2. Kept
      BY <1>3, UserStepKeeps DEF UserStep
  <2>3. IInv'
      BY <1>3, StepIInv DEF Next
  <2>4. QED  BY <1>2, <2>1, <2>2, <2>3
<1>4. CASE AdminStep \/ Tick
  <2>1. /\ UNCHANGED <<status, balance, log, call>>
        /\ call # NoCall => UNCHANGED now
      BY <1>4 DEF AdminStep, SetAdapter, SetTeeSigner, SetPaused, TransferOwnership, Tick,
                  NotEntered
  <2>2. Kept
      BY <1>1, <2>1 DEF Kept
  <2>3. IInv'
      BY <1>4, StepIInv DEF Next, EnvironmentStep
  <2>4. QED  BY <1>2, <2>1, <2>2, <2>3
<1>5. ASSUME NEW a \in Adapters \ {V2Adapter}, NEW t \in Tokens, NEW n \in 1..balance[t][a],
             AdapterPays(a, t, n)
      PROVE  IInv' /\ Kept /\ UNCHANGED call
  <2>1. a \in Accounts /\ a # Router /\ Router \in Accounts
      BY AccountsDistinct
  <2>2. balance[t][a] \in Nat /\ n \in Nat
      BY <1>1, <2>1
  <2>3. /\ balance' = Transfer(t, a, Router, n) /\ balance[t][a] >= n
        /\ UNCHANGED <<status, log, call, now>>
      BY <1>5 DEF AdapterPays, CanPay
  <2>4. /\ \A s \in Tokens : s # t => balance'[s] = balance[s]
        /\ balance'[t][Router] >= balance[t][Router]
      BY <1>1, <2>1, <2>2, <2>3, TransferMoves
  <2>5. \A s \in Tokens : balance'[s][V2Adapter] >= balance[s][V2Adapter]
      BY <1>1, <2>1, <2>2, <2>3, TransferKeepsAdapter
  <2>6. Kept
      BY <1>1, <2>3, <2>4, <2>5 DEF Kept
  <2>7. QED  BY <1>5, <2>2, <2>3, <2>6, AdapterPaysIInv
<1>6. QED  BY <1>2, <1>3, <1>4, <1>5 DEF Others

-----------------------------------------------------------------------------
(* Payments of the adapter, its exchange and owners.                       *)

(* They concern no more than balances and take nothing from the router. *)
Payment ==
    /\ UNCHANGED <<status, nextIntentNonce, adminVars, log, call, now>>
    /\ balance' \in [Tokens -> [Accounts -> Nat]]
    /\ \A t \in Tokens : balance'[t][Router] >= balance[t][Router]

LEMMA PaymentKeepsRouter ==
    ASSUME IInv, WindowKept, Payment
    PROVE  IInv' /\ WindowKept'
<1>1. /\ \A t \in Tokens : balance[t][Router] \in Nat /\ balance'[t][Router] \in Nat
    BY TypeOKFields, AdapterAccounts DEF IInv, Payment
<1>2. IInv'
    BY BalancesIInv DEF Payment, StandardTokens
<1>3. call # NoCall => call \in Frames
    BY TypeOKFields DEF IInv
<1>4. call # NoCall => \A t \in Tokens : call.before.balance[t][Router] \in Nat
    BY <1>3, AdapterAccounts DEF Frames, Storages
<1>5. WindowKept'
    BY <1>1, <1>4 DEF WindowKept, Payment
<1>6. QED  BY <1>2, <1>5

LEMMA TransferIsPayment ==
    ASSUME IInv, UNCHANGED <<status, nextIntentNonce, adminVars, log, call, now>>,
           NEW t \in Tokens, NEW from \in Accounts, NEW to \in Accounts, NEW n \in Nat,
           balance[t][from] >= n, from # to, from # Router,
           balance' = Transfer(t, from, to, n)
    PROVE  Payment
<1>1. balance \in [Tokens -> [Accounts -> Nat]]
    BY TypeOKFields DEF IInv
<1>2. /\ balance' \in [Tokens -> [Accounts -> Nat]]
      /\ \A s \in Tokens : s # t => balance'[s] = balance[s]
      /\ balance'[t][to] >= balance[t][to]
    BY <1>1, TransferMoves
<1>3. \A s \in Tokens : balance[s][Router] \in Nat
    BY <1>1, AdapterAccounts
<1>4. to # Router => balance'[t][Router] = balance[t][Router]
    BY <1>1, AdapterAccounts, TransferElsewhere
<1>5. \A s \in Tokens : balance'[s][Router] >= balance[s][Router]
    BY <1>2, <1>3, <1>4
<1>6. QED  BY <1>2, <1>5 DEF Payment

-----------------------------------------------------------------------------
(* The adapter and its exchange.                                           *)

LEMMA WindowFields ==
    ASSUME IInv, call # NoCall
    PROVE  /\ call \in Frames /\ call.auth \in Authorizations
           /\ call.auth.intentId \in IntentIds /\ status[call.auth.intentId] = "Funded"
           /\ call.auth.intentId.tokenIn \in Tokens /\ call.auth.intentId.amount \in Nat
           /\ call.auth.adapter \in Adapters
           /\ call.before.balance \in [Tokens -> [Accounts -> Nat]]
           /\ call.before.status \in [IntentIds -> Statuses]
<1>1. call \in Frames
    BY TypeOKFields DEF IInv
<1>2. call.auth \in Authorizations /\ call.before \in Storages
    BY <1>1 DEF Frames
<1>3. call.auth.intentId \in IntentIds /\ call.auth.adapter \in Adapters
    BY <1>2, AuthorizationFields
<1>4. status[call.auth.intentId] = "Funded"
    BY DEF IInv, FrameInv
<1>5. call.auth.intentId.tokenIn \in Tokens /\ call.auth.intentId.amount \in Nat
    BY <1>3, <1>4, IntentFields DEF IInv, CreatedInv
<1>6. /\ call.before.balance \in [Tokens -> [Accounts -> Nat]]
      /\ call.before.status \in [IntentIds -> Statuses]
    BY <1>2 DEF Storages
<1>7. QED  BY <1>1, <1>2, <1>3, <1>4, <1>5, <1>6

LEMMA SignedData ==
    ASSUME NEW auth \in Authorizations
    PROVE  auth.actionHash \in AdapterCalls
BY KeeperAssumption DEF Authorizations, Authorization

(* A valid path ends in another token than the deposited one. *)
LEMMA PathEnd ==
    ASSUME NEW d \in AdapterCalls, NEW tokenIn, ValidSwap(d, tokenIn)
    PROVE  /\ Last(d.path) \in Tokens /\ Last(d.path) # tokenIn
           /\ d.amountOutMin \in Nat /\ d.amountOutMin # 0
<1>1. /\ d.path \in Seq(Tokens \cup {ZeroAddress})
      /\ d.amountOutMin \in Nat
    BY RouteAdapterAssumption
<1>2. /\ Len(d.path) \in 2..4 /\ Last(d.path) \notin {ZeroAddress, tokenIn}
      /\ d.amountOutMin # 0
    BY DEF ValidSwap
<1>3. ASSUME NEW S, NEW path \in Seq(S), Len(path) \in 2..4
      PROVE  Last(path) \in S
    BY <1>3 DEF Last
<1>4. Last(d.path) \in Tokens \cup {ZeroAddress}
    BY <1>1, <1>2, <1>3
<1>5. QED  BY <1>1, <1>2, <1>4

LEMMA KeepsAtLeast ==
    ASSUME NEW bal \in [Tokens -> [Accounts -> Nat]], NEW x, NEW n \in Nat, Keeps(bal, x, n)
    PROVE  Keeps(bal, ZeroAddress, 0)
<1>1. \A t \in StandardTokens : /\ bal[t][V2Adapter] \in Nat
                                /\ InitialBalance[t][V2Adapter] \in Nat
    BY AdapterAccounts, ConstantsAssumption DEF StandardTokens
<1>2. QED  BY <1>1 DEF Keeps

(* What raises the adapter's balances keeps what it keeps. *)
LEMMA KeepsMore ==
    ASSUME balance \in [Tokens -> [Accounts -> Nat]],
           balance' \in [Tokens -> [Accounts -> Nat]],
           \A t \in Tokens : balance'[t][V2Adapter] >= balance[t][V2Adapter],
           NEW x, NEW n \in Nat, Keeps(balance, x, n)
    PROVE  Keeps(balance', x, n)
<1>1. \A t \in StandardTokens : /\ t \in Tokens
                                /\ balance[t][V2Adapter] \in Nat
                                /\ balance'[t][V2Adapter] \in Nat
                                /\ InitialBalance[t][V2Adapter] \in Nat
    BY AdapterAccounts, ConstantsAssumption DEF StandardTokens
<1>2. QED  BY <1>1 DEF Keeps

LEMMA AdapterExecuteInv ==
    ASSUME IInv, AdapterInv, AdapterExecute
    PROVE  AdapterInv'
<1> DEFINE id == call.auth.intentId
           d == call.auth.actionHash
<1>1. /\ InV2Window /\ swap = NoSwap /\ ValidSwap(d, id.tokenIn)
      /\ allowance' = [allowance EXCEPT ![id.tokenIn] = id.amount]
      /\ swap' = [tokenIn |-> id.tokenIn, tokenOut |-> Last(d.path),
                  amountOutMin |-> d.amountOutMin,
                  beforeBalance |-> balance[Last(d.path)][V2Adapter],
                  allowanceBefore |-> allowance, returned |-> FALSE]
      /\ UNCHANGED vars
    BY DEF AdapterExecute
<1>2. /\ id \in IntentIds /\ id.tokenIn \in Tokens /\ id.amount \in Nat /\ call # NoCall
      /\ d \in AdapterCalls
    BY <1>1, WindowFields, SignedData DEF InV2Window, NotEntered
<1> HIDE DEF id, d
<1>3. Last(d.path) \in Tokens /\ Last(d.path) # id.tokenIn /\ d.amountOutMin \in Nat
    BY <1>1, <1>2, PathEnd
<1>4. balance \in [Tokens -> [Accounts -> Nat]] /\ balance[Last(d.path)][V2Adapter] \in Nat
    BY <1>3, TypeOKFields, AdapterAccounts DEF IInv
<1>5. allowance = NoAllowance /\ allowance \in [Tokens -> Nat]
    BY <1>1 DEF AdapterInv, AdapterShapes, Swapping
<1>6. swap' \in Swaps
    BY <1>1, <1>2, <1>3, <1>4, <1>5 DEF Swaps
<1>7. swap' # NoSwap
    BY <1>6, RouteAdapterAssumption
<1>8. UNCHANGED <<balance, call, now>> /\ InV2Window'
    BY <1>1 DEF vars, InV2Window, NotEntered
<1>9. AdapterShapes'
  <2>1. allowance' \in [Tokens -> Nat]
      BY <1>1, <1>2, <1>5
  <2>2. Swapping'
      BY <1>1, <1>7 DEF Swapping
  <2>3. QED  BY <1>6, <1>8, <2>1, <2>2 DEF AdapterShapes
<1>10. Keeps(balance, id.tokenIn, id.amount)
    BY <1>1 DEF AdapterInv, BeforeSwap, id
<1>11. SwapInv'
  <2>1. ValidSwap(call.auth.actionHash, call.auth.intentId.tokenIn)'
      BY <1>1, <1>8 DEF ValidSwap, d, id
  <2>2. /\ swap'.tokenIn = call'.auth.intentId.tokenIn
        /\ swap'.tokenOut = Last(call'.auth.actionHash.path)
        /\ swap'.amountOutMin = call'.auth.actionHash.amountOutMin
        /\ swap'.allowanceBefore = NoAllowance
        /\ swap'.returned = FALSE
      BY <1>1, <1>5, <1>8 DEF d, id
  <2>3. /\ \A t \in Tokens : t # swap'.tokenIn => allowance'[t] = 0
        /\ allowance'[swap'.tokenIn] = id.amount
      BY <1>1, <1>2, <1>5 DEF NoAllowance
  <2>4. Keeps(balance', swap'.tokenIn, allowance'[swap'.tokenIn])
      BY <1>1, <1>8, <1>10, <2>3
  <2>5. swap'.tokenOut \in StandardTokens =>
          swap'.beforeBalance >= InitialBalance[swap'.tokenOut][V2Adapter]
    <3>1. InitialBalance[Last(d.path)][V2Adapter] \in Nat
        BY <1>3, ConstantsAssumption, AdapterAccounts
    <3>2. QED  BY <1>1, <1>3, <1>10, <3>1 DEF Keeps
  <2>6. QED  BY <2>1, <2>2, <2>3, <2>4, <2>5 DEF SwapInv
<1>12. BeforeSwap' /\ CheckpointKeeps'
    BY <1>7, <1>8 DEF AdapterInv, BeforeSwap, CheckpointKeeps
<1>13. QED  BY <1>9, <1>11, <1>12 DEF AdapterInv

(* The fields of a swap, and of the window it runs in. *)
LEMMA SwapFields ==
    ASSUME IInv, AdapterInv, swap # NoSwap
    PROVE  /\ swap \in Swaps /\ InV2Window /\ call # NoCall
           /\ call.auth.actionHash \in AdapterCalls
           /\ swap.tokenIn \in Tokens /\ swap.tokenOut \in Tokens
           /\ swap.tokenOut # swap.tokenIn
           /\ swap.amountOutMin \in Nat /\ swap.amountOutMin # 0
           /\ swap.beforeBalance \in Nat /\ swap.returned \in BOOLEAN
           /\ allowance \in [Tokens -> Nat]
           /\ \A t \in Tokens : t # swap.tokenIn => allowance[t] = 0
           /\ Keeps(balance, swap.tokenIn, allowance[swap.tokenIn])
<1>1. /\ swap \in Swaps /\ InV2Window /\ call # NoCall /\ allowance \in [Tokens -> Nat]
    BY DEF AdapterInv, AdapterShapes, InV2Window, NotEntered
<1>2. call.auth.actionHash \in AdapterCalls
    BY <1>1, WindowFields, SignedData
<1>3. /\ ValidSwap(call.auth.actionHash, call.auth.intentId.tokenIn)
      /\ swap.tokenIn = call.auth.intentId.tokenIn
      /\ swap.tokenOut = Last(call.auth.actionHash.path)
      /\ swap.amountOutMin = call.auth.actionHash.amountOutMin
      /\ \A t \in Tokens : t # swap.tokenIn => allowance[t] = 0
      /\ Keeps(balance, swap.tokenIn, allowance[swap.tokenIn])
    BY DEF AdapterInv, SwapInv
<1>4. /\ swap.tokenIn \in Tokens /\ swap.tokenOut \in Tokens
      /\ swap.beforeBalance \in Nat /\ swap.returned \in BOOLEAN
    BY <1>1 DEF Swaps
<1>5. swap.tokenOut # swap.tokenIn /\ swap.amountOutMin \in Nat /\ swap.amountOutMin # 0
    BY <1>2, <1>3, PathEnd
<1>6. QED  BY <1>1, <1>2, <1>3, <1>4, <1>5

LEMMA AdapterReturnInv ==
    ASSUME IInv, WindowKept, AdapterInv, AdapterReturn
    PROVE  Payment /\ AdapterInv'
<1>1. /\ swap # NoSwap /\ ~swap.returned /\ Proceeds >= swap.amountOutMin
      /\ allowance' = [allowance EXCEPT ![swap.tokenIn] = 0]
      /\ balance' = Transfer(swap.tokenOut, V2Adapter, Router, Proceeds)
      /\ swap' = [swap EXCEPT !.returned = TRUE]
      /\ UNCHANGED <<status, nextIntentNonce, adminVars, log, call, now>>
    BY DEF AdapterReturn, Swapping, EnoughOutput, Cleared
<1>2. /\ balance \in [Tokens -> [Accounts -> Nat]]
      /\ V2Adapter \in Accounts /\ Router \in Accounts /\ V2Adapter # Router
    BY TypeOKFields, AdapterAccounts DEF IInv
<1>3. /\ Proceeds = balance[swap.tokenOut][V2Adapter] - swap.beforeBalance
      /\ balance[swap.tokenOut][V2Adapter] \in Nat
      /\ Proceeds \in Nat /\ balance[swap.tokenOut][V2Adapter] >= Proceeds
    BY <1>1, <1>2, SwapFields DEF Proceeds
<1>4. Payment
    BY <1>1, <1>2, <1>3, SwapFields, TransferIsPayment
<1> DEFINE n == Proceeds
<1> HIDE DEF n
<1>5. /\ balance' \in [Tokens -> [Accounts -> Nat]]
      /\ \A s \in Tokens : s # swap.tokenOut => balance'[s] = balance[s]
      /\ balance'[swap.tokenOut][V2Adapter] = balance[swap.tokenOut][V2Adapter] - n
      /\ swap.tokenOut \in StandardTokens =>
           balance'[swap.tokenOut][Router] = balance[swap.tokenOut][Router] + n
    BY <1>1, <1>2, <1>3, SwapFields, TransferMoves DEF n
<1>6. balance'[swap.tokenOut][V2Adapter] = swap.beforeBalance
    BY <1>1, <1>3, <1>5, SwapFields DEF n
<1>7. swap' \in Swaps /\ swap' # NoSwap /\ swap'.returned = TRUE
  <2>1. swap' \in Swaps /\ swap'.returned = TRUE
      BY <1>1, SwapFields DEF Swaps
  <2>2. QED  BY <2>1, RouteAdapterAssumption
<1>8. /\ swap'.tokenIn = swap.tokenIn /\ swap'.tokenOut = swap.tokenOut
      /\ swap'.amountOutMin = swap.amountOutMin /\ swap'.beforeBalance = swap.beforeBalance
      /\ swap'.allowanceBefore = swap.allowanceBefore
    BY <1>1, SwapFields DEF Swaps
<1>9. allowance' = NoAllowance /\ allowance' \in [Tokens -> Nat]
  <2>1. \A t \in Tokens : allowance'[t] = 0
      BY <1>1, SwapFields
  <2>2. QED  BY <1>1, <2>1, SwapFields DEF NoAllowance
<1>10. AdapterShapes'
    BY <1>1, <1>7, <1>9, SwapFields DEF AdapterShapes, InV2Window, NotEntered
<1>11. Keeps(balance', swap.tokenIn, 0)
  <2> SUFFICES ASSUME NEW t \in StandardTokens
               PROVE  balance'[t][V2Adapter] >= InitialBalance[t][V2Adapter]
    <3>1. \A t \in StandardTokens : InitialBalance[t][V2Adapter] \in Nat
        BY ConstantsAssumption, AdapterAccounts DEF StandardTokens
    <3>2. QED  BY <3>1 DEF Keeps
  <2>1. /\ t \in Tokens /\ InitialBalance[t][V2Adapter] \in Nat
        /\ balance[t][V2Adapter] \in Nat
      BY <1>2, ConstantsAssumption, AdapterAccounts DEF StandardTokens
  <2>2. CASE t = swap.tokenOut
      BY <1>1, <1>6, <2>2 DEF AdapterInv, SwapInv
  <2>3. CASE t # swap.tokenOut
    <3>1. Keeps(balance, ZeroAddress, 0)
        BY <1>1, <1>2, SwapFields, KeepsAtLeast
    <3>2. balance[t][V2Adapter] >= InitialBalance[t][V2Adapter]
        BY <2>1, <3>1 DEF Keeps
    <3>3. QED  BY <1>5, <2>1, <2>3, <3>2
  <2>4. QED  BY <2>2, <2>3
<1>12. swap.tokenOut \in StandardTokens =>
         balance'[swap.tokenOut][Router]
           >= call.before.balance[swap.tokenOut][Router] + swap.amountOutMin
  <2> SUFFICES ASSUME swap.tokenOut \in StandardTokens
               PROVE  balance'[swap.tokenOut][Router]
                        >= call.before.balance[swap.tokenOut][Router] + swap.amountOutMin
      OBVIOUS
  <2>1. /\ balance[swap.tokenOut][Router] \in Nat
        /\ call.before.balance[swap.tokenOut][Router] \in Nat
      BY <1>1, <1>2, SwapFields, WindowFields
  <2>2. call.auth.intentId.tokenIn = swap.tokenIn
      BY <1>1 DEF AdapterInv, SwapInv
  <2>3. balance[swap.tokenOut][Router] >= call.before.balance[swap.tokenOut][Router]
      BY <1>1, <2>2, SwapFields DEF WindowKept
  <2>4. n >= swap.amountOutMin /\ n \in Nat
      BY <1>1, <1>3 DEF n
  <2>5. QED  BY <1>1, <1>5, <2>1, <2>3, <2>4, SwapFields
<1>13. SwapInv'
  <2>1. ValidSwap(call.auth.actionHash, call.auth.intentId.tokenIn)'
      BY <1>1 DEF AdapterInv, SwapInv, ValidSwap
  <2>2. /\ \A t \in Tokens : t # swap'.tokenIn => allowance'[t] = 0
        /\ allowance'[swap'.tokenIn] = 0
      BY <1>8, <1>9, SwapFields, <1>1 DEF NoAllowance
  <2>3. Keeps(balance', swap'.tokenIn, allowance'[swap'.tokenIn])
      BY <1>8, <1>11, <2>2
  <2>4. QED
      BY <1>1, <1>7, <1>8, <1>12, <2>1, <2>2, <2>3 DEF AdapterInv, SwapInv
<1>14. BeforeSwap' /\ CheckpointKeeps'
    BY <1>1, <1>7 DEF AdapterInv, BeforeSwap, CheckpointKeeps
<1>15. QED  BY <1>4, <1>10, <1>13, <1>14 DEF AdapterInv

(* A step of others, which takes nothing from the adapter. *)
LEMMA AdapterUnmoved ==
    ASSUME IInv, AdapterInv, UNCHANGED <<call, adapterVars>>,
           balance' \in [Tokens -> [Accounts -> Nat]],
           \A t \in Tokens : balance'[t][V2Adapter] >= balance[t][V2Adapter],
           swap # NoSwap => /\ UNCHANGED now
                            /\ \A t \in Tokens : balance'[t][Router] >= balance[t][Router]
    PROVE  AdapterInv'
<1>1. balance \in [Tokens -> [Accounts -> Nat]] /\ UNCHANGED <<allowance, swap>>
    BY TypeOKFields DEF IInv, adapterVars
<1>2. AdapterShapes'
    BY <1>1 DEF AdapterInv, AdapterShapes, InV2Window, NotEntered, Swapping
<1>3. BeforeSwap'
  <2>1. CASE swap = NoSwap /\ InV2Window
    <3>1. call.auth.intentId.amount \in Nat
        BY <2>1, WindowFields DEF InV2Window, NotEntered
    <3>2. Keeps(balance', call.auth.intentId.tokenIn, call.auth.intentId.amount)
        BY <1>1, <2>1, <3>1, KeepsMore DEF AdapterInv, BeforeSwap
    <3>3. QED  BY <1>1, <2>1, <3>2 DEF BeforeSwap, InV2Window, NotEntered
  <2>2. CASE swap = NoSwap /\ ~InV2Window
    <3>1. Keeps(balance', ZeroAddress, 0)
        BY <1>1, <2>2, KeepsMore DEF AdapterInv, BeforeSwap
    <3>2. QED  BY <1>1, <2>2, <3>1 DEF BeforeSwap, InV2Window, NotEntered
  <2>3. CASE swap # NoSwap
      BY <1>1, <2>3 DEF BeforeSwap
  <2>4. QED  BY <2>1, <2>2, <2>3
<1>4. SwapInv'
  <2> SUFFICES ASSUME swap # NoSwap PROVE SwapInv'
      BY <1>1 DEF SwapInv
  <2>1. ValidSwap(call.auth.actionHash, call.auth.intentId.tokenIn)'
      BY <1>1 DEF AdapterInv, SwapInv, ValidSwap
  <2>2. Keeps(balance', swap.tokenIn, allowance[swap.tokenIn])
    <3>1. allowance[swap.tokenIn] \in Nat
        BY SwapFields
    <3>2. QED  BY <1>1, <3>1, SwapFields, KeepsMore
  <2>3. swap.returned /\ swap.tokenOut \in StandardTokens =>
          balance'[swap.tokenOut][Router]
            >= call.before.balance[swap.tokenOut][Router] + swap.amountOutMin
    <3>1. /\ balance[swap.tokenOut][Router] \in Nat
          /\ balance'[swap.tokenOut][Router] \in Nat
          /\ call.before.balance[swap.tokenOut][Router] \in Nat
          /\ swap.amountOutMin \in Nat
          /\ balance'[swap.tokenOut][Router] >= balance[swap.tokenOut][Router]
        BY <1>1, SwapFields, WindowFields, AdapterAccounts
    <3>2. QED  BY <3>1 DEF AdapterInv, SwapInv
  <2>4. QED
      BY <1>1, <2>1, <2>2, <2>3 DEF AdapterInv, SwapInv
<1>5. CheckpointKeeps'
    BY DEF AdapterInv, CheckpointKeeps
<1>6. QED  BY <1>2, <1>3, <1>4, <1>5 DEF AdapterInv

LEMMA ExchangePaysInv ==
    ASSUME IInv, AdapterInv, NEW t \in Tokens, NEW n \in 1..balance[t][ExchangeRouter],
           ExchangePays(t, n)
    PROVE  Payment /\ AdapterInv'
<1>1. /\ balance \in [Tokens -> [Accounts -> Nat]]
      /\ balance[t][ExchangeRouter] \in Nat /\ n \in Nat
    BY TypeOKFields, AdapterAccounts DEF IInv
<1>2. /\ balance' = Transfer(t, ExchangeRouter, V2Adapter, n)
      /\ UNCHANGED <<status, nextIntentNonce, adminVars, log, call, now, adapterVars>>
    BY DEF ExchangePays
<1>3. Payment
    BY <1>1, <1>2, AdapterAccounts, TransferIsPayment
<1>4. \A s \in Tokens : balance'[s][V2Adapter] >= balance[s][V2Adapter]
    BY <1>1, <1>2, AdapterAccounts, TransferKeepsAdapter
<1>5. QED  BY <1>2, <1>3, <1>4, AdapterUnmoved DEF Payment

(* What the exchange pulls is covered by its allowance. *)
LEMMA ExchangePullsInv ==
    ASSUME IInv, AdapterInv, NEW t \in Tokens, NEW n \in 1..allowance[t], ExchangePulls(t, n)
    PROVE  Payment /\ AdapterInv'
<1>1. /\ balance \in [Tokens -> [Accounts -> Nat]]
      /\ allowance[t] \in Nat /\ n \in Nat /\ n # 0 /\ n <= allowance[t]
    BY TypeOKFields DEF IInv, AdapterInv, AdapterShapes
<1>2. /\ balance' = Transfer(t, V2Adapter, ExchangeRouter, n) /\ balance[t][V2Adapter] >= n
      /\ allowance' = [allowance EXCEPT ![t] = @ - n]
      /\ UNCHANGED <<status, nextIntentNonce, adminVars, log, call, now, swap>>
    BY DEF ExchangePulls, CanPay
<1>3. Swapping /\ swap # NoSwap /\ t = swap.tokenIn
  <2>1. Swapping
      BY <1>1 DEF AdapterInv, AdapterShapes, NoAllowance
  <2>2. QED  BY <1>1, <2>1, SwapFields DEF Swapping
<1>4. Payment
    BY <1>1, <1>2, AdapterAccounts, TransferIsPayment
<1>5. /\ \A s \in Tokens : s # t => balance'[s] = balance[s]
      /\ balance'[t][V2Adapter] = balance[t][V2Adapter] - n
    BY <1>1, <1>2, AdapterAccounts, TransferMoves
<1>6. /\ allowance' \in [Tokens -> Nat] /\ allowance'[t] = allowance[t] - n
      /\ \A s \in Tokens : s # t => allowance'[s] = allowance[s]
    BY <1>1, <1>2, <1>3, SwapFields
<1>7. AdapterShapes'
    BY <1>2, <1>3, <1>6 DEF AdapterInv, AdapterShapes, InV2Window, NotEntered, Swapping
<1>8. Keeps(balance', t, allowance'[t])
  <2> SUFFICES ASSUME NEW s \in StandardTokens
               PROVE  balance'[s][V2Adapter]
                        >= InitialBalance[s][V2Adapter] + (IF s = t THEN allowance'[t] ELSE 0)
      BY DEF Keeps
  <2>1. /\ s \in Tokens /\ InitialBalance[s][V2Adapter] \in Nat
        /\ balance[s][V2Adapter] \in Nat
      BY <1>1, ConstantsAssumption, AdapterAccounts DEF StandardTokens
  <2>2. balance[s][V2Adapter]
          >= InitialBalance[s][V2Adapter] + (IF s = t THEN allowance[t] ELSE 0)
      BY <1>3, SwapFields DEF Keeps
  <2>3. QED  BY <1>1, <1>5, <1>6, <2>1, <2>2
<1>9. SwapInv'
  <2>1. ValidSwap(call.auth.actionHash, call.auth.intentId.tokenIn)'
      BY <1>2, <1>3 DEF AdapterInv, SwapInv, ValidSwap
  <2>2. \A s \in Tokens : s # t => allowance'[s] = 0
      BY <1>3, <1>6, SwapFields
  <2>3. QED
      BY <1>2, <1>3, <1>8, <2>1, <2>2 DEF AdapterInv, SwapInv, Swapping
<1>10. BeforeSwap' /\ CheckpointKeeps'
    BY <1>2, <1>3 DEF AdapterInv, BeforeSwap, CheckpointKeeps
<1>11. QED  BY <1>4, <1>7, <1>9, <1>10 DEF AdapterInv

-----------------------------------------------------------------------------
(* The window opens and closes.                                            *)

RouteInv == IInv /\ WindowKept /\ AdapterInv

LEMMA OthersRouteInv ==
    ASSUME RouteInv, Others
    PROVE  RouteInv'
<1>1. IInv' /\ Kept /\ UNCHANGED <<call, adapterVars>> /\ (InV2Window => Swapping)
    BY OthersKeep DEF RouteInv
<1>2. balance' \in [Tokens -> [Accounts -> Nat]] /\ balance \in [Tokens -> [Accounts -> Nat]]
  <2>1. TypeOK /\ TypeOK'
      BY <1>1 DEF RouteInv, IInv
  <2>2. QED  BY <2>1 DEF TypeOK, Storage, Storages
<1>3. WindowKept'
  <2> SUFFICES ASSUME call # NoCall PROVE WindowKept'
      BY <1>1 DEF WindowKept
  <2>1. log' = call.before.log
      BY <1>1 DEF RouteInv, WindowKept, Kept
  <2>2. ASSUME NEW i \in IntentIds, status'[i] # call.before.status[i]
        PROVE  call.before.status[i] = "None" /\ status'[i] = "Created"
    <3>1. call.before.status[i] # "None" => status[i] # "None"
        BY DEF RouteInv, IInv, FrameInv
    <3>2. status'[i] # status[i] => status[i] = "None" /\ status'[i] = "Created"
        BY <1>1 DEF Kept
    <3>3. QED  BY <2>2, <3>1, <3>2 DEF RouteInv, WindowKept
  <2>3. ASSUME NEW t \in Tokens, t # call.auth.intentId.tokenIn
        PROVE  balance'[t][Router] >= call.before.balance[t][Router]
    <3>1. /\ balance[t][Router] \in Nat /\ balance'[t][Router] \in Nat
          /\ call.before.balance[t][Router] \in Nat
        BY <1>2, WindowFields, AdapterAccounts DEF RouteInv
    <3>2. balance'[t][Router] >= balance[t][Router]
        BY <1>1 DEF Kept
    <3>3. balance[t][Router] >= call.before.balance[t][Router]
        BY <2>3 DEF RouteInv, WindowKept
    <3>4. QED  BY <3>1, <3>2, <3>3
  <2>4. QED  BY <1>1, <2>1, <2>2, <2>3 DEF WindowKept
<1>4. swap # NoSwap => call # NoCall
    BY DEF RouteInv, AdapterInv, AdapterShapes, InV2Window, NotEntered
<1>5. AdapterInv'
    BY <1>1, <1>2, <1>4, AdapterUnmoved DEF RouteInv, Kept
<1>6. QED  BY <1>1, <1>3, <1>5 DEF RouteInv

LEMMA AdapterStepRouteInv ==
    ASSUME RouteInv, AdapterStep
    PROVE  RouteInv'
<1>1. CASE AdapterExecute
  <2>1. UNCHANGED vars
      BY <1>1 DEF AdapterExecute
  <2>2. IInv' /\ WindowKept'
      BY <2>1, StepIInv DEF RouteInv, WindowKept, vars
  <2>3. QED  BY <1>1, <2>2, AdapterExecuteInv DEF RouteInv
<1>2. ASSUME Payment, AdapterInv'
      PROVE  RouteInv'
    BY <1>2, PaymentKeepsRouter DEF RouteInv
<1>3. CASE AdapterReturn
    BY <1>2, <1>3, AdapterReturnInv DEF RouteInv
<1>4. ASSUME NEW t \in Tokens, NEW n \in 1..allowance[t], ExchangePulls(t, n)
      PROVE  RouteInv'
    BY <1>2, <1>4, ExchangePullsInv DEF RouteInv
<1>5. ASSUME NEW t \in Tokens, NEW n \in 1..balance[t][ExchangeRouter], ExchangePays(t, n)
      PROVE  RouteInv'
    BY <1>2, <1>5, ExchangePaysInv DEF RouteInv
<1>6. QED  BY <1>1, <1>3, <1>4, <1>5 DEF AdapterStep

LEMMA EnterRouteInv ==
    ASSUME RouteInv, NEW auth \in Authorizations, NEW signer \in Signers, NEW data,
           EnterExecute(auth, signer, data), UNCHANGED adapterVars
    PROVE  RouteInv' /\ call' # NoCall /\ call'.auth = auth
<1> DEFINE id == auth.intentId
<1>1. /\ call = NoCall /\ call' = Frame(auth, signer)
      /\ UNCHANGED <<status, log, now, allowance, swap>>
      /\ balance[id.tokenIn][Router] >= id.amount
      /\ balance' = Transfer(id.tokenIn, Router, auth.adapter, id.amount)
      /\ status[id] = "Funded"
    BY DEF EnterExecute, NotEntered, CanPay, adapterVars
<1>2. /\ status \in [IntentIds -> Statuses]
      /\ balance \in [Tokens -> [Accounts -> Nat]]
      /\ id \in IntentIds /\ id.amount \in Nat /\ auth.adapter \in Adapters
      /\ Router \in Accounts /\ auth.adapter \in Accounts /\ auth.adapter # Router
    BY TypeOKFields, AuthorizationFields, IntentFields, AccountsDistinct DEF RouteInv, IInv
<1>3. id.tokenIn \in Tokens
    BY <1>1, <1>2 DEF RouteInv, IInv, CreatedInv
<1> HIDE DEF id
<1>4. call' \in Frames /\ call' # NoCall
    BY <1>1, ConstantsAssumption DEF Frame, Frames, RouteInv, IInv, TypeOK
<1>5. /\ call'.auth = auth /\ call'.before.status = status
      /\ call'.before.log = log /\ call'.before.balance = balance
    BY <1>1 DEF Frame, Storage
<1>6. IInv'
    BY EnterExecuteIInv DEF RouteInv
<1>7. /\ balance' \in [Tokens -> [Accounts -> Nat]]
      /\ \A s \in Tokens : s # id.tokenIn => balance'[s] = balance[s]
      /\ balance'[id.tokenIn][auth.adapter] >= balance[id.tokenIn][auth.adapter]
      /\ id.tokenIn \in StandardTokens =>
           balance'[id.tokenIn][auth.adapter] = balance[id.tokenIn][auth.adapter] + id.amount
    BY <1>1, <1>2, <1>3, TransferMoves
<1>8. WindowKept'
  <2>1. \A s \in Tokens : balance[s][Router] \in Nat
      BY <1>2
  <2>2. QED  BY <1>1, <1>5, <1>7, <2>1 DEF WindowKept, id
<1>9. swap = NoSwap /\ allowance = NoAllowance /\ ~InV2Window
    BY <1>1 DEF RouteInv, AdapterInv, AdapterShapes, InV2Window, NotEntered, Swapping
<1>10. Keeps(balance, ZeroAddress, 0)
    BY <1>9 DEF RouteInv, AdapterInv, BeforeSwap
<1>11. AdapterShapes'
    BY <1>1, <1>9 DEF RouteInv, AdapterInv, AdapterShapes, InV2Window, NotEntered, Swapping
<1>12. BeforeSwap'
  <2>1. CASE auth.adapter = V2Adapter
    <3>1. ASSUME NEW s \in StandardTokens
          PROVE  balance'[s][V2Adapter]
                   >= InitialBalance[s][V2Adapter] + (IF s = id.tokenIn THEN id.amount ELSE 0)
      <4>1. /\ s \in Tokens /\ InitialBalance[s][V2Adapter] \in Nat
            /\ balance[s][V2Adapter] \in Nat
            /\ balance[s][V2Adapter] >= InitialBalance[s][V2Adapter]
          BY <1>2, <1>10, ConstantsAssumption, AdapterAccounts DEF StandardTokens, Keeps
      <4>2. QED  BY <1>2, <1>7, <2>1, <4>1
    <3>2. Keeps(balance', id.tokenIn, id.amount)
        BY <3>1 DEF Keeps
    <3>3. QED  BY <1>1, <1>4, <1>5, <1>9, <2>1, <3>2 DEF BeforeSwap, InV2Window, NotEntered, id
  <2>2. CASE auth.adapter # V2Adapter
    <3>1. \A s \in Tokens : balance'[s][V2Adapter] = balance[s][V2Adapter]
        BY <1>1, <1>2, <1>3, <2>2, AdapterAccounts, TransferElsewhere
    <3>2. \A s \in Tokens : balance'[s][V2Adapter] >= balance[s][V2Adapter]
        BY <1>2, <3>1, AdapterAccounts
    <3>3. Keeps(balance', ZeroAddress, 0)
        BY <1>2, <1>7, <1>10, <3>2, KeepsMore
    <3>4. QED  BY <1>1, <1>4, <1>5, <2>2, <3>3 DEF BeforeSwap, InV2Window, NotEntered
  <2>3. QED  BY <2>1, <2>2
<1>13. SwapInv' /\ CheckpointKeeps'
    BY <1>1, <1>5, <1>9, <1>10 DEF SwapInv, CheckpointKeeps
<1>14. QED  BY <1>4, <1>5, <1>6, <1>8, <1>11, <1>12, <1>13 DEF RouteInv, AdapterInv

LEMMA LeaveRouteInv ==
    ASSUME RouteInv, NEW t \in Tokens, Leave(t)
    PROVE  RouteInv'
<1>1. /\ LeaveExecute(t) /\ swap' = NoSwap /\ UNCHANGED allowance
      /\ InV2Window => swap # NoSwap /\ swap.returned
    BY DEF Leave
<1>2. PICK n \in Nat : /\ call # NoCall /\ call' = NoCall
                       /\ balance[t][Router] >= n
                       /\ balance' = Transfer(t, Router, call.auth.intentId.owner, n)
    BY <1>1, LeaveExecuteEffect DEF RouteInv
<1>3. IInv'
    BY <1>1, LeaveExecuteIInv DEF RouteInv
<1>4. WindowKept' /\ CheckpointKeeps' /\ SwapInv'
    BY <1>1, <1>2 DEF WindowKept, CheckpointKeeps, SwapInv
<1>5. allowance = NoAllowance /\ allowance \in [Tokens -> Nat]
    BY <1>1 DEF RouteInv, AdapterInv, AdapterShapes, Swapping
<1>6. AdapterShapes'
    BY <1>1, <1>5 DEF AdapterShapes, Swapping
<1>7. /\ balance \in [Tokens -> [Accounts -> Nat]]
      /\ balance' \in [Tokens -> [Accounts -> Nat]]
  <2>1. TypeOK /\ TypeOK'
      BY <1>3 DEF RouteInv, IInv
  <2>2. QED  BY <2>1 DEF TypeOK, Storage, Storages
<1>8. Keeps(balance, ZeroAddress, 0)
  <2>1. CASE swap = NoSwap
    <3>1. Keeps(balance, ZeroAddress, 0)
        BY <1>1, <2>1 DEF RouteInv, AdapterInv, BeforeSwap
    <3>2. QED  BY <3>1
  <2>2. CASE swap # NoSwap
    <3>1. /\ Keeps(balance, swap.tokenIn, allowance[swap.tokenIn])
          /\ allowance[swap.tokenIn] \in Nat
        BY <2>2, SwapFields DEF RouteInv
    <3>2. QED  BY <1>7, <3>1, KeepsAtLeast
  <2>3. QED  BY <2>1, <2>2
<1>9. \A s \in Tokens : balance'[s][V2Adapter] >= balance[s][V2Adapter]
  <2>1. /\ call.auth.intentId.owner \in Accounts /\ call.auth.intentId.owner # Router
      BY <1>2, WindowFields, IntentFields, AccountsDistinct DEF RouteInv
  <2>2. QED  BY <1>2, <1>7, <2>1, AdapterAccounts, TransferKeepsAdapter
<1>10. BeforeSwap'
  <2>1. Keeps(balance', ZeroAddress, 0)
      BY <1>7, <1>8, <1>9, KeepsMore
  <2>2. QED  BY <1>2, <2>1 DEF BeforeSwap, InV2Window, NotEntered
<1>11. QED  BY <1>3, <1>4, <1>6, <1>10 DEF RouteInv, AdapterInv

LEMMA RevertRouteInv ==
    ASSUME RouteInv, Revert
    PROVE  RouteInv'
<1>1. /\ RevertExecute /\ swap' = NoSwap /\ call # NoCall /\ call' = NoCall
      /\ balance' = call.before.balance
      /\ allowance' = IF swap = NoSwap THEN allowance ELSE swap.allowanceBefore
    BY DEF Revert, RevertExecute, NotEntered
<1>2. IInv'
    BY <1>1, RevertExecuteIInv DEF RouteInv
<1>3. WindowKept' /\ CheckpointKeeps' /\ SwapInv'
    BY <1>1 DEF WindowKept, CheckpointKeeps, SwapInv
<1>4. allowance' = NoAllowance
    BY <1>1 DEF RouteInv, AdapterInv, AdapterShapes, SwapInv, Swapping
<1>5. AdapterShapes'
    BY <1>1, <1>4 DEF AdapterShapes, NoAllowance
<1>6. BeforeSwap'
    BY <1>1 DEF RouteInv, AdapterInv, CheckpointKeeps, BeforeSwap, InV2Window, NotEntered
<1>7. QED  BY <1>2, <1>3, <1>5, <1>6 DEF RouteInv, AdapterInv

LEMMA SpendRouteInv ==
    ASSUME RouteInv, call = NoCall, NEW t \in Tokens, NEW u \in Users, balance[t][u] >= 1,
           balance' = [balance EXCEPT ![t][u] = @ - 1],
           UNCHANGED <<status, nextIntentNonce, adminVars, log, call, now, adapterVars>>
    PROVE  RouteInv'
<1>1. /\ balance \in [Tokens -> [Accounts -> Nat]]
      /\ u \in Accounts /\ u # Router /\ u # V2Adapter
    BY TypeOKFields, AccountsDistinct, AdapterAccounts DEF RouteInv, IInv
<1>2. balance[t][u] - 1 \in Nat
    BY <1>1
<1>3. /\ balance' \in [Tokens -> [Accounts -> Nat]]
      /\ \A s \in Tokens, a \in Accounts : a # u => balance'[s][a] = balance[s][a]
    BY <1>1, <1>2
<1>4. \A s \in Tokens : /\ balance'[s][Router] >= balance[s][Router]
                        /\ balance'[s][V2Adapter] >= balance[s][V2Adapter]
    BY <1>1, <1>3, AdapterAccounts
<1>5. IInv' /\ WindowKept'
    BY <1>3, <1>4, PaymentKeepsRouter DEF Payment, RouteInv
<1>6. AdapterInv'
    BY <1>3, <1>4, AdapterUnmoved DEF RouteInv
<1>7. QED  BY <1>5, <1>6 DEF RouteInv

-----------------------------------------------------------------------------
(* The keepers.                                                            *)

(* A keeper moves outside the window: of its transaction it learns nothing *)
(* but a failure, of its decision nothing once it has made it.             *)
LEMMA KeeperMoves ==
    ASSUME KeepersInv, call = NoCall, UNCHANGED <<status, log, call, executor>>,
           NEW k \in Keepers,
           NEW s \in Steps \ {"idle"}, step' = [step EXCEPT ![k] = s],
           NEW d \in Decisions, decision' = [decision EXCEPT ![k] = d],
           NEW r \in Receipts, receipt' = [receipt EXCEPT ![k] = r],
           NEW c, record' = [record EXCEPT ![k] = c],
           s \in BeforeSend => r = "none",
           r = "success" => receipt[k] = "success" /\ d = decision[k],
           s \in {"send", "wait", "readBack", "executed"} => d.auth.tokenOut \in Tokens,
           s \in {"readBack", "executed"} => r = "success",
           c # NoRecord => r = "success" /\ c.auth = d.auth
    PROVE  KeepersInv'
<1>1. /\ step \in [Keepers -> Steps] /\ decision \in [Keepers -> Decisions \cup {NoRecord}]
      /\ receipt \in [Keepers -> Receipts] /\ record = [j \in Keepers |-> record[j]]
    BY DEF KeepersInv, KeeperShapes
<1>2. /\ step' \in [Keepers -> Steps]
      /\ decision' \in [Keepers -> Decisions \cup {NoRecord}]
      /\ receipt' \in [Keepers -> Receipts]
      /\ record' = [j \in Keepers |-> record'[j]]
    BY <1>1
<1>3. /\ step'[k] = s /\ decision'[k] = d /\ receipt'[k] = r /\ record'[k] = c
      /\ \A j \in Keepers : j # k => /\ step'[j] = step[j] /\ decision'[j] = decision[j]
                                     /\ receipt'[j] = receipt[j] /\ record'[j] = record[j]
    BY <1>1
<1>4. KeeperShapes'
    BY <1>2 DEF KeepersInv, KeeperShapes
<1>5. ASSUME NEW j \in Keepers PROVE KeeperInv(j)'
  <2>1. CASE j = k
      BY <1>3, <2>1 DEF KeeperInv
  <2>2. CASE j # k
    <3>1. KeeperInv(j)
        BY DEF KeepersInv
    <3>2. QED  BY <1>3, <2>2, <3>1 DEF KeeperInv
  <2>3. QED  BY <2>1, <2>2
<1>6. ExecutorInv'
    BY DEF KeepersInv, ExecutorInv
<1>7. \A j \in Keepers : receipt'[j] = "success" =>
        receipt[j] = "success" /\ decision'[j] = decision[j]
    BY <1>3
<1>8. ReceiptsInv'
    BY <1>7 DEF KeepersInv, ReceiptsInv, ExecutedAs
<1>9. QED  BY <1>4, <1>5, <1>6, <1>8 DEF KeepersInv

LEMMA KeeperStepInv ==
    ASSUME KeepersInv, NEW k \in Keepers, KeeperStep(k), UNCHANGED routeVars
    PROVE  KeepersInv'
<1>1. /\ step \in [Keepers -> Steps] /\ decision \in [Keepers -> Decisions \cup {NoRecord}]
      /\ receipt \in [Keepers -> Receipts] /\ record = [j \in Keepers |-> record[j]]
      /\ KeeperInv(k)
    BY DEF KeepersInv, KeeperShapes
<1>2. UNCHANGED <<status, log, call>>
    BY DEF routeVars, vars
<1>3. /\ step = [step EXCEPT ![k] = step[k]]
      /\ decision = [decision EXCEPT ![k] = decision[k]]
      /\ receipt = [receipt EXCEPT ![k] = receipt[k]] /\ receipt[k] \in Receipts
      /\ record = [record EXCEPT ![k] = record[k]]
    BY <1>1
<1>4. ASSUME NEW script \in Scripts, NEW id \in IntentIds, NEW r \in RouteTerms,
             NEW signer \in Signers, Start(k, script, id, r, signer)
      PROVE  KeepersInv'
  <2> DEFINE d == [script |-> script, signer |-> signer, auth |-> Authorization(id, id, r)]
             s == IF script = "fcc" THEN "readIntent" ELSE "checkSigner"
  <2>1. /\ step[k] = "idle" /\ call = NoCall /\ decision' = [decision EXCEPT ![k] = d]
        /\ step' = [step EXCEPT ![k] = s] /\ UNCHANGED <<before, after, receipt, executor, record>>
      BY <1>4 DEF Start, At, Goto, NotEntered
  <2>2. Authorization(id, id, r) \in Authorizations
      BY DEF Authorizations
  <2>3. d \in Decisions /\ s \in Steps \ {"idle"} /\ s \in {"readIntent", "checkSigner"}
      BY <2>2 DEF Decisions, Steps, BeforeSend
  <2>4. receipt[k] = "none" /\ record[k] = NoRecord
      BY <1>1, <2>1 DEF KeeperInv, BeforeSend
  <2> HIDE DEF d, s
  <2>5. QED  BY <1>2, <1>3, <2>1, <2>3, <2>4, KeeperMoves
<1>5. ASSUME step[k] # "idle", call = NoCall, NEW s \in Steps \ {"idle"},
             step' = [step EXCEPT ![k] = s], UNCHANGED <<decision, receipt, executor, record>>,
             s \in BeforeSend => step[k] \in BeforeSend,
             s \in {"send", "wait", "readBack", "executed"} =>
               decision[k].auth.tokenOut \in Tokens,
             s \in {"readBack", "executed"} => receipt[k] = "success"
      PROVE  KeepersInv'
  <2>1. /\ decision[k] \in Decisions
        /\ record[k] # NoRecord => receipt[k] = "success" /\ record[k].auth = decision[k].auth
        /\ s \in BeforeSend => receipt[k] = "none"
      BY <1>1, <1>5 DEF KeeperInv
  <2>2. QED  BY <1>2, <1>3, <1>5, <2>1, KeeperMoves
<1>6. CASE ReadIntent(k) \/ ReadBlock(k) \/ CheckAdapter(k) \/ CheckSigner(k)
  <2>1. /\ step[k] \in BeforeSend \ {"idle"} /\ call = NoCall
        /\ UNCHANGED <<decision, receipt, executor, record>>
      BY <1>6 DEF ReadIntent, ReadBlock, CheckAdapter, CheckSigner, Passed, At, NotEntered,
                  BeforeSend
  <2>2. PICK s \in {"readIntent", "readBlock", "checkAdapter", "checkSigner", "readBalance"} :
          step' = [step EXCEPT ![k] = s]
      BY <1>6 DEF ReadIntent, ReadBlock, CheckAdapter, CheckSigner, Passed, Goto
  <2>3. /\ s \in BeforeSend \ {"idle"} /\ s \in Steps
        /\ s \notin {"send", "wait", "readBack", "executed"}
      BY <2>2 DEF Steps, BeforeSend
  <2>4. QED  BY <1>5, <2>1, <2>2, <2>3
<1>7. CASE ReadBalanceBefore(k)
    BY <1>1, <1>5, <1>7 DEF ReadBalanceBefore, At, Goto, NotEntered, Steps, BeforeSend
<1>8. CASE Wait(k) \/ ReadStatus(k)
    BY <1>1, <1>5, <1>8 DEF Wait, ReadStatus, Succeeded, At, Goto, NotEntered, Steps,
                            BeforeSend, KeeperInv
<1>9. CASE Stop(k)
    BY <1>1, <1>5, <1>9 DEF Stop, Goto, NotEntered, Steps, BeforeSend
<1>10. CASE ReadBalanceAfter(k)
  <2>1. /\ step[k] \in {"readBack", "executed"} /\ call = NoCall
        /\ UNCHANGED <<step, decision, receipt, executor, record>>
      BY <1>10 DEF ReadBalanceAfter, NotEntered
  <2>2. /\ step[k] \in Steps \ {"idle"} /\ step[k] \notin BeforeSend
      BY <2>1 DEF Steps, BeforeSend
  <2>3. step' = [step EXCEPT ![k] = step[k]]
      BY <1>3, <2>1
  <2>4. /\ decision[k].auth.tokenOut \in Tokens /\ receipt[k] = "success"
      BY <1>1, <2>1 DEF KeeperInv
  <2>5. PICK s \in Steps \ {"idle"} : s = step[k]
      BY <2>2
  <2>6. step' = [step EXCEPT ![k] = s] /\ s \notin BeforeSend
      BY <2>2, <2>3, <2>5
  <2>7. QED  BY <1>5, <2>1, <2>4, <2>5, <2>6
<1>11. CASE Send(k)
  <2>1. /\ step[k] = "send" /\ call = NoCall /\ receipt' = [receipt EXCEPT ![k] = "pending"]
        /\ step' = [step EXCEPT ![k] = "wait"] /\ UNCHANGED <<decision, executor, record>>
      BY <1>11 DEF Send, At, Goto, NotEntered
  <2>2. /\ decision[k] \in Decisions /\ decision[k].auth.tokenOut \in Tokens
        /\ ~(record[k] # NoRecord)
      BY <1>1, <2>1 DEF KeeperInv, BeforeSend
  <2>3. "wait" \in Steps \ {"idle"} /\ "pending" \in Receipts /\ "wait" \notin BeforeSend
      BY DEF Steps, Receipts, BeforeSend
  <2>4. PICK s \in Steps \ {"idle"}, r \in Receipts : s = "wait" /\ r = "pending"
      BY <2>3
  <2>5. PICK d \in Decisions : d = decision[k] /\ decision' = [decision EXCEPT ![k] = d]
      BY <1>3, <2>1, <2>2
  <2>6. PICK c : c = record[k] /\ record' = [record EXCEPT ![k] = c]
      BY <1>3, <2>1
  <2>7. /\ s \notin BeforeSend /\ r # "success" /\ d.auth.tokenOut \in Tokens
        /\ s \notin {"readBack", "executed"} /\ ~(c # NoRecord)
      BY <2>2, <2>3, <2>4, <2>5, <2>6
  <2>8. step' = [step EXCEPT ![k] = s] /\ receipt' = [receipt EXCEPT ![k] = r]
      BY <2>1, <2>4
  <2>9. UNCHANGED executor /\ call = NoCall
      BY <2>1
  <2>10. QED  BY <1>2, <2>5, <2>6, <2>7, <2>8, <2>9, KeeperMoves
<1>12. CASE Refused(k)
  <2>1. /\ receipt[k] = "pending" /\ call = NoCall
        /\ receipt' = [receipt EXCEPT ![k] = "reverted"]
        /\ UNCHANGED <<step, decision, executor, record>>
      BY <1>12 DEF Refused, NotEntered
  <2>2. /\ step[k] \in Steps \ {"idle"} /\ step[k] \notin BeforeSend
        /\ decision[k] \in Decisions /\ ~(record[k] # NoRecord)
        /\ step[k] \in {"send", "wait", "readBack", "executed"} =>
             decision[k].auth.tokenOut \in Tokens
        /\ step[k] \notin {"readBack", "executed"}
      BY <1>1, <2>1 DEF KeeperInv, BeforeSend
  <2>3. PICK r \in Receipts : r = "reverted"
      BY DEF Receipts
  <2>4. PICK s \in Steps \ {"idle"} : s = step[k] /\ step' = [step EXCEPT ![k] = s]
      BY <1>3, <2>1, <2>2
  <2>5. PICK d \in Decisions : d = decision[k] /\ decision' = [decision EXCEPT ![k] = d]
      BY <1>3, <2>1, <2>2
  <2>6. PICK c : c = record[k] /\ record' = [record EXCEPT ![k] = c]
      BY <1>3, <2>1
  <2>7. r # "success" /\ receipt' = [receipt EXCEPT ![k] = r]
      BY <2>1, <2>3
  <2>8. UNCHANGED executor /\ call = NoCall
      BY <2>1
  <2>9. s \notin BeforeSend /\ s \notin {"readBack", "executed"} /\ ~(c # NoRecord)
        /\ (s \in {"send", "wait"} => d.auth.tokenOut \in Tokens)
      BY <2>2, <2>4, <2>5, <2>6
  <2>10. QED  BY <1>2, <2>4, <2>5, <2>6, <2>7, <2>8, <2>9, KeeperMoves
<1>13. CASE WriteRecord(k)
  <2> DEFINE c == [auth |-> decision[k].auth, deliveredOutput |-> Delivered(k)]
  <2>1. /\ step[k] = "executed" /\ call = NoCall /\ record' = [record EXCEPT ![k] = c]
        /\ step' = [step EXCEPT ![k] = "stopped"] /\ UNCHANGED <<decision, receipt, executor>>
      BY <1>13 DEF WriteRecord, At, Goto, NotEntered
  <2>2. receipt[k] = "success" /\ decision[k] \in Decisions
      BY <1>1, <2>1 DEF KeeperInv
  <2>3. "stopped" \in Steps \ {"idle"} /\ "stopped" \notin BeforeSend
      BY DEF Steps, BeforeSend
  <2>4. c.auth = decision[k].auth
      OBVIOUS
  <2> HIDE DEF c
  <2>5. QED  BY <1>2, <1>3, <2>1, <2>2, <2>3, <2>4, KeeperMoves
<1>14. QED  BY <1>4, <1>6, <1>7, <1>8, <1>9, <1>10, <1>11, <1>12, <1>13
         DEF KeeperStep

-----------------------------------------------------------------------------
(* The chain under the keepers.                                            *)

(* What was executed, and that it was, is there to stay. *)
Lasting ==
    /\ log \subseteq log'
    /\ \A i \in IntentIds : status[i] = "Executed" => status'[i] = "Executed"

(* A keeper whose transaction has been mined has a decision for an intent. *)
LEMMA ReceiptHasDecision ==
    ASSUME KeepersInv, NEW k \in Keepers, receipt[k] # "none"
    PROVE  /\ step[k] # "idle" /\ step[k] \notin BeforeSend
           /\ decision[k].auth \in Authorizations /\ decision[k].signer \in Signers
           /\ decision[k].auth.intentId \in IntentIds
<1>1. step[k] # "idle" /\ step[k] \notin BeforeSend /\ decision[k] \in Decisions
    BY DEF KeepersInv, KeeperInv, BeforeSend
<1>2. decision[k].auth \in Authorizations /\ decision[k].signer \in Signers
    BY <1>1 DEF Decisions
<1>3. QED  BY <1>1, <1>2, AuthorizationFields

LEMMA ReceiptsLast ==
    ASSUME KeepersInv, Lasting, UNCHANGED decision, NEW k \in Keepers, receipt[k] = "success"
    PROVE  ExecutedAs(decision[k].auth)' /\ status'[decision[k].auth.intentId] = "Executed"
<1>1. ExecutedAs(decision[k].auth) /\ status[decision[k].auth.intentId] = "Executed"
    BY DEF KeepersInv, ReceiptsInv
<1>2. decision[k].auth.intentId \in IntentIds
    BY ReceiptHasDecision
<1>3. QED  BY <1>1, <1>2 DEF Lasting, ExecutedAs

LEMMA ChainKeepsKeepers ==
    ASSUME KeepersInv, Lasting, UNCHANGED <<step, decision, receipt, record>>,
           executor' # NoRecord => /\ executor' \in Keepers /\ receipt[executor'] = "pending"
                                   /\ call' # NoCall
                                   /\ call'.auth = decision[executor'].auth
    PROVE  KeepersInv'
<1>1. KeeperShapes'
    BY DEF KeepersInv, KeeperShapes
<1>2. \A k \in Keepers : KeeperInv(k)'
    BY DEF KeepersInv, KeeperInv
<1>3. ExecutorInv'
    BY DEF ExecutorInv
<1>4. \A k \in Keepers : receipt[k] = "success" =>
        ExecutedAs(decision[k].auth)' /\ status'[decision[k].auth.intentId] = "Executed"
    BY ReceiptsLast
<1>5. ReceiptsInv'
    BY <1>4 DEF KeepersInv, ReceiptsInv
<1>6. QED  BY <1>1, <1>2, <1>3, <1>5 DEF KeepersInv

(* The window closes: a success is the execution of the intent, then funded. *)
LEMMA MinedKeepers ==
    ASSUME KeepersInv, Lasting, NEW outcome \in {"success", "reverted"}, Mined(outcome),
           NEW auth, auth = call.auth,
           outcome = "success" => /\ status[auth.intentId] = "Funded"
                                  /\ status'[auth.intentId] = "Executed"
                                  /\ ExecutedAs(auth)'
    PROVE  KeepersInv'
<1>1. CASE executor = NoRecord
  <2>1. UNCHANGED <<step, decision, receipt, record>> /\ executor' = NoRecord
      BY <1>1 DEF Mined
  <2>2. QED  BY <2>1, ChainKeepsKeepers
<1>2. CASE executor # NoRecord
  <2>1. PICK x \in Keepers : x = executor
      BY <1>2 DEF KeepersInv, KeeperShapes
  <2>2. /\ receipt[x] = "pending" /\ call.auth = decision[x].auth
        /\ receipt \in [Keepers -> Receipts]
      BY <1>2, <2>1 DEF KeepersInv, ExecutorInv, KeeperShapes
  <2>3. /\ receipt' = [receipt EXCEPT ![x] = outcome]
        /\ executor' = NoRecord /\ UNCHANGED <<step, decision, record>>
      BY <1>2, <2>1 DEF Mined
  <2>4. /\ receipt' \in [Keepers -> Receipts] /\ receipt'[x] = outcome
        /\ \A k \in Keepers : k # x => receipt'[k] = receipt[k]
      BY <2>2, <2>3 DEF Receipts
  <2>5. KeeperShapes'
      BY <2>3, <2>4 DEF KeepersInv, KeeperShapes
  <2>6. ASSUME NEW k \in Keepers PROVE KeeperInv(k)'
    <3>1. KeeperInv(k)
        BY DEF KeepersInv
    <3>2. CASE k # x
        BY <2>3, <2>4, <3>1, <3>2 DEF KeeperInv
    <3>3. CASE k = x
        BY <2>2, <2>3, <2>4, <3>1, <3>3 DEF KeeperInv
    <3>4. QED  BY <3>2, <3>3
  <2>7. ExecutorInv'
      BY <2>3 DEF ExecutorInv
  <2>8. ASSUME NEW k \in Keepers, receipt'[k] = "success"
        PROVE  /\ ExecutedAs(decision[k].auth)'
               /\ status'[decision[k].auth.intentId] = "Executed"
    <3>1. CASE k # x
      <4>1. receipt[k] = "success"
          BY <2>4, <2>8, <3>1
      <4>2. QED  BY <2>3, <4>1, ReceiptsLast
    <3>2. CASE k = x
      <4>1. /\ status'[auth.intentId] = "Executed" /\ ExecutedAs(auth)'
            /\ decision'[k].auth = auth /\ decision[k].auth = auth
          BY <2>2, <2>3, <2>4, <2>8, <3>2
      <4>2. QED  BY <4>1 DEF ExecutedAs
    <3>3. QED  BY <3>1, <3>2
  <2>9. ASSUME NEW j \in Keepers, NEW k \in Keepers, j # k,
               receipt'[j] = "success", receipt'[k] = "success"
        PROVE  decision[j].auth.intentId # decision[k].auth.intentId
    <3>1. \A i \in Keepers : receipt[i] = "success" =>
            status[decision[i].auth.intentId] = "Executed"
        BY DEF KeepersInv, ReceiptsInv
    <3>2. CASE j # x /\ k # x
        BY <2>4, <2>9, <3>2 DEF KeepersInv, ReceiptsInv
    <3>3. CASE j = x \/ k = x
      <4>1. status[decision[x].auth.intentId] = "Funded"
          BY <2>2, <2>4, <2>9, <3>3
      <4>2. QED  BY <2>4, <2>9, <3>1, <3>3, <4>1
    <3>4. QED  BY <3>2, <3>3
  <2>10. ReceiptsInv'
      BY <2>3, <2>8, <2>9 DEF ReceiptsInv
  <2>11. QED  BY <2>5, <2>6, <2>7, <2>10 DEF KeepersInv
<1>3. QED  BY <1>1, <1>2

LEMMA LeaveLasts ==
    ASSUME RouteInv, NEW t \in Tokens, LeaveExecute(t)
    PROVE  /\ Lasting
           /\ \E auth : /\ auth = call.auth
                        /\ status[auth.intentId] = "Funded"
                        /\ status'[auth.intentId] = "Executed"
                        /\ ExecutedAs(auth)'
<1>1. PICK auth : auth = call.auth
    OBVIOUS
<1> DEFINE id == auth.intentId
<1>2. PICK n \in Nat :
        /\ t = auth.tokenOut /\ id \in IntentIds /\ status[id] = "Funded"
        /\ n >= auth.minimumOutput
        /\ status' = [status EXCEPT ![id] = "Executed"]
        /\ log' = log \cup {ExecutedEvent(id, auth.adapter, t, n)}
    BY <1>1, LeaveExecuteEffect DEF RouteInv
<1>3. status \in [IntentIds -> Statuses]
    BY TypeOKFields DEF RouteInv, IInv
<1>4. Lasting /\ status'[id] = "Executed"
    BY <1>2, <1>3 DEF Lasting
<1>5. ExecutedAs(auth)'
  <2> DEFINE e == ExecutedEvent(id, auth.adapter, t, n)
  <2>1. /\ e \in log' /\ e.event = "IntentExecuted" /\ e.intentId = auth.intentId
        /\ e.adapter = auth.adapter /\ e.token = auth.tokenOut
        /\ e.amount >= auth.minimumOutput
      BY <1>2 DEF ExecutedEvent
  <2> HIDE DEF e
  <2>2. QED  BY <2>1 DEF ExecutedAs
<1>6. QED  BY <1>1, <1>2, <1>4, <1>5

LEMMA RevertLasts ==
    ASSUME RouteInv, RevertExecute
    PROVE  Lasting
<1>1. call # NoCall /\ log' = call.before.log /\ status' = call.before.status
    BY DEF RevertExecute, NotEntered
<1>2. QED  BY <1>1 DEF RouteInv, WindowKept, Lasting

LEMMA EnterInv ==
    ASSUME RouteInv, KeepersInv, NEW k \in Keepers, Enter(k), UNCHANGED adapterVars
    PROVE  RouteInv' /\ KeepersInv'
<1>1. PICK auth \in Authorizations, signer \in Signers :
        auth = decision[k].auth /\ signer = decision[k].signer
    BY ReceiptHasDecision DEF Enter
<1>2. EnterExecute(auth, signer, auth.actionHash)
    BY <1>1 DEF Enter, Execute
<1>3. RouteInv' /\ call' # NoCall /\ call'.auth = auth
    BY <1>2, EnterRouteInv
<1>4. UNCHANGED <<status, log>>
    BY <1>2 DEF EnterExecute
<1>5. Lasting
    BY <1>4 DEF Lasting
<1>6. /\ executor' = k /\ receipt[k] = "pending"
      /\ UNCHANGED <<step, decision, receipt, record>>
    BY DEF Enter
<1>7. KeepersInv'
    BY <1>1, <1>3, <1>5, <1>6, ChainKeepsKeepers
<1>8. QED  BY <1>3, <1>7

LEMMA QuietKeepsKeepers ==
    ASSUME KeepersInv, Lasting, UNCHANGED <<call, keeperVars>>
    PROVE  KeepersInv'
<1>1. UNCHANGED <<step, decision, receipt, executor, record>>
    BY DEF keeperVars
<1>2. executor # NoRecord => /\ executor \in Keepers /\ receipt[executor] = "pending"
                             /\ call # NoCall /\ call.auth = decision[executor].auth
    BY DEF KeepersInv, KeeperShapes, ExecutorInv
<1>3. executor' # NoRecord => /\ executor' \in Keepers /\ receipt[executor'] = "pending"
                              /\ call' # NoCall /\ call'.auth = decision[executor'].auth
    BY <1>1, <1>2
<1>4. QED  BY <1>1, <1>3, ChainKeepsKeepers

LEMMA OwnerSpendsInv ==
    ASSUME RouteInv, KeepersInv, NEW k \in Keepers, OwnerSpends(k)
    PROVE  RouteInv' /\ KeepersInv'
<1>1. /\ decision[k].auth \in Authorizations /\ decision[k].auth.tokenOut \in Tokens
    BY DEF OwnerSpends, KeepersInv, KeeperInv, Decisions
<1>2. PICK t \in Tokens, u \in Users : t = decision[k].auth.tokenOut /\ u = decision[k].auth.owner
    BY <1>1, IntentFields DEF Authorizations, Authorization
<1>3. /\ call = NoCall /\ balance[t][u] >= 1
      /\ balance' = [balance EXCEPT ![t][u] = @ - 1]
      /\ UNCHANGED <<status, nextIntentNonce, adminVars, log, call, now, adapterVars>>
      /\ UNCHANGED keeperVars
    BY <1>2 DEF OwnerSpends, CanPay, NotEntered
<1>4. RouteInv'
    BY <1>3, SpendRouteInv
<1>5. Lasting
    BY <1>3 DEF Lasting
<1>6. QED  BY <1>3, <1>4, <1>5, QuietKeepsKeepers

LEMMA AdapterStepIsQuiet ==
    AdapterStep => UNCHANGED <<status, log, call>>
BY DEF AdapterStep, AdapterExecute, AdapterReturn, ExchangePulls, ExchangePays, vars

LEMMA KeeperNextInv ==
    RouteInv /\ KeepersInv /\ [KeeperNext]_keeperFlowVars => RouteInv' /\ KeepersInv'
<1> SUFFICES ASSUME RouteInv, KeepersInv, [KeeperNext]_keeperFlowVars
             PROVE  RouteInv' /\ KeepersInv'
    OBVIOUS
<1>1. ASSUME UNCHANGED routeVars PROVE RouteInv'
  <2>1. UNCHANGED vars /\ UNCHANGED adapterVars
      BY <1>1 DEF routeVars
  <2>2. IInv'
      BY <2>1, StepIInv DEF RouteInv
  <2>3. WindowKept'
      BY <2>1 DEF RouteInv, WindowKept, vars
  <2>4. AdapterInv'
      BY <2>1 DEF RouteInv, AdapterInv, AdapterShapes, BeforeSwap, SwapInv, CheckpointKeeps,
                  Swapping, InV2Window, NotEntered, Keeps, ValidSwap, vars, adapterVars
  <2>5. QED  BY <2>2, <2>3, <2>4 DEF RouteInv
<1>2. CASE UNCHANGED keeperFlowVars
  <2>1. UNCHANGED routeVars /\ UNCHANGED keeperVars
      BY <1>2 DEF keeperFlowVars
  <2>2. UNCHANGED <<status, log, call>>
      BY <2>1 DEF routeVars, vars
  <2>3. Lasting
      BY <2>2 DEF Lasting
  <2>4. QED  BY <1>1, <2>1, <2>2, <2>3, QuietKeepsKeepers
<1>3. ASSUME NEW k \in Keepers, KeeperStep(k), UNCHANGED routeVars
      PROVE  RouteInv' /\ KeepersInv'
    BY <1>1, <1>3, KeeperStepInv
<1>4. ASSUME NEW k \in Keepers, Enter(k), UNCHANGED adapterVars
      PROVE  RouteInv' /\ KeepersInv'
    BY <1>4, EnterInv
<1>5. CASE Others /\ UNCHANGED keeperVars
  <2>1. RouteInv' /\ Kept /\ UNCHANGED call
      BY <1>5, OthersRouteInv, OthersKeep DEF RouteInv
  <2>2. Lasting
      BY <2>1 DEF Kept, Lasting
  <2>3. QED  BY <1>5, <2>1, <2>2, QuietKeepsKeepers
<1>6. CASE AdapterStep /\ UNCHANGED keeperVars
  <2>1. RouteInv' /\ UNCHANGED <<status, log, call>>
      BY <1>6, AdapterStepRouteInv, AdapterStepIsQuiet
  <2>2. Lasting
      BY <2>1 DEF Lasting
  <2>3. QED  BY <1>6, <2>1, <2>2, QuietKeepsKeepers
<1>7. ASSUME NEW k \in Keepers, OwnerSpends(k)
      PROVE  RouteInv' /\ KeepersInv'
    BY <1>7, OwnerSpendsInv
<1>8. ASSUME NEW t \in Tokens, Leave(t), Mined("success")
      PROVE  RouteInv' /\ KeepersInv'
  <2>1. PICK auth : /\ auth = call.auth
                    /\ status[auth.intentId] = "Funded"
                    /\ status'[auth.intentId] = "Executed"
                    /\ ExecutedAs(auth)'
      BY <1>8, LeaveLasts DEF Leave
  <2>2. Lasting
      BY <1>8, LeaveLasts DEF Leave
  <2>3. KeepersInv'
      BY <1>8, <2>1, <2>2, MinedKeepers
  <2>4. QED  BY <1>8, <2>3, LeaveRouteInv
<1>9. CASE Revert /\ Mined("reverted")
  <2>1. Lasting
      BY <1>9, RevertLasts DEF Revert
  <2>2. KeepersInv'
      BY <1>9, <2>1, MinedKeepers
  <2>3. QED  BY <1>9, <2>2, RevertRouteInv
<1>10. QED  BY <1>2, <1>3, <1>4, <1>5, <1>6, <1>7, <1>8, <1>9 DEF KeeperNext

LEMMA KeeperInitInv == KeeperInit => RouteInv /\ KeepersInv
<1> SUFFICES ASSUME KeeperInit PROVE RouteInv /\ KeepersInv
    OBVIOUS
<1>1. Init /\ call = NoCall /\ balance = InitialBalance /\ swap = NoSwap
      /\ allowance = NoAllowance
    BY DEF KeeperInit, RouteInit, Init, NoAllowance
<1>2. IInv
    BY <1>1, InitIInv
<1>3. WindowKept /\ SwapInv /\ CheckpointKeeps
    BY <1>1 DEF WindowKept, SwapInv, CheckpointKeeps
<1>4. AdapterShapes
    BY <1>1 DEF AdapterShapes, NoAllowance
<1>5. BeforeSwap
  <2>1. \A t \in StandardTokens : InitialBalance[t][V2Adapter] \in Nat
      BY ConstantsAssumption, AdapterAccounts DEF StandardTokens
  <2>2. Keeps(InitialBalance, ZeroAddress, 0)
      BY <2>1 DEF Keeps
  <2>3. QED  BY <1>1, <2>2 DEF BeforeSwap, InV2Window, NotEntered
<1>6. /\ step = [k \in Keepers |-> "idle"] /\ decision = [k \in Keepers |-> NoRecord]
      /\ receipt = [k \in Keepers |-> "none"] /\ executor = NoRecord
      /\ record = [k \in Keepers |-> NoRecord]
    BY DEF KeeperInit
<1>7. KeeperShapes
    BY <1>6 DEF KeeperShapes, Steps, BeforeSend, Receipts
<1>8. \A k \in Keepers : KeeperInv(k)
    BY <1>6 DEF KeeperInv
<1>9. ExecutorInv /\ ReceiptsInv
    BY <1>6 DEF ExecutorInv, ReceiptsInv
<1>10. QED  BY <1>2, <1>3, <1>4, <1>5, <1>7, <1>8, <1>9 DEF RouteInv, AdapterInv, KeepersInv

(* The invariant of the router, its adapter and the keepers: solvency holds  *)
(* behind an exchange that pulls and pays as it likes, and a script knows of *)
(* its transaction no more than what has happened to it.                     *)
THEOREM KeeperCorrect == KeeperSpec => [](RouteInv /\ KeepersInv)
<1>1. KeeperInit => RouteInv /\ KeepersInv
    BY KeeperInitInv
<1>2. RouteInv /\ KeepersInv /\ [KeeperNext]_keeperFlowVars => (RouteInv /\ KeepersInv)'
    BY KeeperNextInv
<1>3. QED  BY <1>1, <1>2, PTL DEF KeeperSpec

(* Between transactions the exchange has no allowance on the adapter, which *)
(* holds what it was sent by mistake: UniswapV2RouteAdapter.execute clears  *)
(* the approval and forwards only the difference of its balances.           *)
THEOREM AdapterIsStage == KeeperSpec => []AdapterKeepsNothing
<1>1. RouteInv => AdapterKeepsNothing
  <2> SUFFICES ASSUME RouteInv, NotEntered PROVE AdapterKeepsNothing
      BY DEF AdapterKeepsNothing
  <2>1. swap = NoSwap /\ allowance = NoAllowance /\ ~InV2Window
      BY DEF RouteInv, AdapterInv, AdapterShapes, InV2Window, Swapping
  <2>2. \A t \in Tokens : allowance[t] = 0
      BY <2>1 DEF NoAllowance
  <2>3. Keeps(balance, ZeroAddress, 0)
      BY <2>1 DEF RouteInv, AdapterInv, BeforeSwap
  <2>4. ASSUME NEW t \in StandardTokens
        PROVE  balance[t][V2Adapter] >= InitialBalance[t][V2Adapter]
    <3>1. balance[t][V2Adapter] \in Nat /\ InitialBalance[t][V2Adapter] \in Nat
        BY TypeOKFields, ConstantsAssumption, AdapterAccounts DEF RouteInv, IInv, StandardTokens
    <3>2. QED  BY <2>3, <3>1 DEF Keeps
  <2>5. QED  BY <2>1, <2>2, <2>4 DEF AdapterKeepsNothing
<1>2. QED  BY <1>1, KeeperCorrect, PTL

(* A record that execute-fcc-pangolin-v2.mjs or execute-pangolin-intent.js  *)
(* writes is backed by an execution of the keeper's own.                    *)
THEOREM RecordsBacked == KeeperSpec => []RecordBacked
<1>1. KeepersInv => RecordBacked
  <2> SUFFICES ASSUME KeepersInv PROVE RecordBacked
      OBVIOUS
  <2>1. \A k \in Keepers : record[k] # NoRecord =>
          receipt[k] = "success" /\ record[k].auth = decision[k].auth
      BY DEF KeepersInv, KeeperInv
  <2>2. \A k \in Keepers : record[k] # NoRecord => ExecutedAs(record[k].auth)
      BY <2>1 DEF KeepersInv, ReceiptsInv
  <2>3. \A j, k \in Keepers : record[j] # NoRecord /\ record[k] # NoRecord /\ j # k =>
          record[j].auth.intentId # record[k].auth.intentId
      BY <2>1 DEF KeepersInv, ReceiptsInv
  <2>4. QED  BY <2>1, <2>2, <2>3 DEF RecordBacked, ExecutedAs
<1>2. QED  BY <1>1, KeeperCorrect, PTL

(* Only the end of executeIntent executes an intent. *)
LEMMA OnlyLeaveExecutes ==
    ASSUME RouteInv, KeepersInv, [KeeperNext]_keeperFlowVars,
           NEW id \in IntentIds, status[id] # "Executed", status'[id] = "Executed"
    PROVE  \E t \in Tokens : Leave(t)
<1>1. status \in [IntentIds -> Statuses]
    BY TypeOKFields DEF RouteInv, IInv
<1>2. ~UNCHANGED status
    OBVIOUS
<1>3. ~UNCHANGED keeperFlowVars /\ ~UNCHANGED routeVars
    BY <1>2 DEF keeperFlowVars, routeVars, vars
<1>4. ~\E k \in Keepers : Enter(k)
    BY <1>2 DEF Enter, Execute, EnterExecute
<1>5. ~AdapterStep
    BY <1>2, AdapterStepIsQuiet
<1>6. ~\E k \in Keepers : OwnerSpends(k)
    BY <1>2 DEF OwnerSpends
<1>7. ~Revert
  <2> SUFFICES ASSUME Revert PROVE FALSE
      OBVIOUS
  <2>1. call # NoCall /\ call.before.status[id] = "Executed"
      BY DEF Revert, RevertExecute, NotEntered
  <2>2. QED  BY <2>1 DEF RouteInv, WindowKept
<1>8. ~Others
  <2> SUFFICES ASSUME Others PROVE FALSE
      OBVIOUS
  <2>1. UserStep
      BY <1>2 DEF Others, AdminStep, SetAdapter, SetTeeSigner, SetPaused, TransferOwnership,
                  AdapterPays, Tick
  <2>2. PICK i : \E s \in {"Created", "Funded", "Cancelled"} :
          status' = [status EXCEPT ![i] = s]
    <3>1. PICK u \in Users :
            \/ \E w \in Terms : CreateIntent(u, w) \/ CreateAndFundIntent(u, w)
            \/ \E i \in IntentIds : FundIntent(u, i) \/ CancelIntent(u, i)
        BY <2>1 DEF UserStep
    <3>2. CASE \E w \in Terms : CreateIntent(u, w) \/ CreateAndFundIntent(u, w)
        BY <3>2 DEF CreateIntent, CreateAndFundIntent, NewIntent
    <3>3. CASE \E i \in IntentIds : FundIntent(u, i) \/ CancelIntent(u, i)
        BY <3>3 DEF FundIntent, CancelIntent
    <3>4. QED  BY <3>1, <3>2, <3>3
  <2>3. QED  BY <1>1, <2>2
<1>9. QED  BY <1>3, <1>4, <1>5, <1>6, <1>7, <1>8 DEF KeeperNext

(* The swap an execution through the adapter commits is the signed one: the *)
(* checks of execute on the decoded data bind what the owner is paid.       *)
THEOREM SwapsAreAsSigned == KeeperSpec => SwapAsSigned
<1> DEFINE Signed == \A id \in IntentIds :
        status[id] # "Executed" /\ status'[id] = "Executed" /\ call.auth.adapter = V2Adapter =>
            LET d == call.auth.actionHash
                t == Last(d.path)
            IN  /\ now <= d.deadline
                /\ Head(d.path) = id.tokenIn /\ t = call.auth.tokenOut
                /\ t \in StandardTokens =>
                     balance'[t][id.owner] >= balance[t][id.owner] + d.amountOutMin
<1>1. RouteInv /\ KeepersInv /\ [KeeperNext]_keeperFlowVars => Signed
  <2> SUFFICES ASSUME RouteInv, KeepersInv, [KeeperNext]_keeperFlowVars,
                      NEW id \in IntentIds, status[id] # "Executed", status'[id] = "Executed",
                      call.auth.adapter = V2Adapter,
                      NEW d, d = call.auth.actionHash
               PROVE  /\ now <= d.deadline
                      /\ Head(d.path) = id.tokenIn /\ Last(d.path) = call.auth.tokenOut
                      /\ Last(d.path) \in StandardTokens =>
                           balance'[Last(d.path)][id.owner]
                             >= balance[Last(d.path)][id.owner] + d.amountOutMin
      OBVIOUS
  <2>1. PICK t \in Tokens : Leave(t)
      BY OnlyLeaveExecutes
  <2>2. PICK n \in Nat :
          /\ call # NoCall /\ t = call.auth.tokenOut /\ call.auth.intentId \in IntentIds
          /\ n = balance[t][Router] - Baseline(call) /\ balance[t][Router] >= n
          /\ status' = [status EXCEPT ![call.auth.intentId] = "Executed"]
          /\ balance' = Transfer(t, Router, call.auth.intentId.owner, n)
      BY <2>1, LeaveExecuteEffect DEF Leave, RouteInv
  <2>3. status \in [IntentIds -> Statuses] /\ balance \in [Tokens -> [Accounts -> Nat]]
      BY TypeOKFields DEF RouteInv, IInv
  <2>4. id = call.auth.intentId
      BY <2>2, <2>3
  <2>5. swap # NoSwap /\ swap.returned /\ swap.tokenOut = t
      BY <2>1, <2>2 DEF Leave, InV2Window, NotEntered
  <2>6. /\ ValidSwap(d, id.tokenIn) /\ t = Last(d.path) /\ swap.amountOutMin = d.amountOutMin
        /\ t \in StandardTokens =>
             balance[t][Router] >= call.before.balance[t][Router] + d.amountOutMin
      BY <2>4, <2>5 DEF RouteInv, AdapterInv, SwapInv
  <2>7. t # id.tokenIn /\ d.deadline >= now /\ Head(d.path) = id.tokenIn
      BY <2>6 DEF ValidSwap
  <2>8. /\ now \in Nat /\ d.deadline \in Nat /\ d.amountOutMin \in Nat
        /\ id.owner \in Accounts /\ id.owner # Router
        /\ call.before.balance[t][Router] \in Nat
    <3>1. d \in AdapterCalls
        BY <2>2, WindowFields, SignedData DEF RouteInv
    <3>2. now \in 0..MaxTime /\ MaxTime \in Nat
        BY TypeOKFields, ConstantsAssumption DEF RouteInv, IInv
    <3>3. d.deadline \in Nat /\ d.amountOutMin \in Nat
        BY <3>1, RouteAdapterAssumption
    <3>4. id.owner \in Accounts /\ id.owner # Router
        BY IntentFields, AccountsDistinct
    <3>5. call.before.balance[t][Router] \in Nat
        BY <2>2, WindowFields, AccountsDistinct DEF RouteInv
    <3>6. QED  BY <3>2, <3>3, <3>4, <3>5
  <2>9. ASSUME t \in StandardTokens
        PROVE  balance'[t][id.owner] >= balance[t][id.owner] + d.amountOutMin
    <3>1. Baseline(call) = call.before.balance[t][Router]
        BY <2>2, <2>4, <2>7 DEF Baseline
    <3>2. balance[t][Router] \in Nat /\ balance[t][id.owner] \in Nat
        BY <2>3, <2>8, AccountsDistinct
    <3>3. n >= d.amountOutMin
      <4>1. n = balance[t][Router] - call.before.balance[t][Router]
          BY <2>2, <3>1
      <4>2. balance[t][Router] >= call.before.balance[t][Router] + d.amountOutMin
          BY <2>6, <2>9
      <4>3. QED  BY <2>8, <3>2, <4>1, <4>2
    <3>4. balance'[t][id.owner] = balance[t][id.owner] + n
        BY <2>2, <2>3, <2>4, <2>8, <2>9, AccountsDistinct, TransferMoves
    <3>5. QED  BY <2>8, <3>2, <3>3, <3>4
  <2>10. QED  BY <2>2, <2>6, <2>7, <2>8, <2>9
<1>2. RouteInv /\ KeepersInv /\ [KeeperNext]_keeperFlowVars => [Signed]_routeVars
    BY <1>1
<1> HIDE DEF Signed
<1>3. KeeperSpec => [][Signed]_routeVars
    BY <1>2, KeeperCorrect, PTL DEF KeeperSpec
<1> USE DEF Signed
<1>4. QED  BY <1>3 DEF SwapAsSigned

-----------------------------------------------------------------------------
(* What the router promises holds with the adapter and the keepers around it *)
(* too, though the exchange moves the adapter's tokens and owners spend.     *)

(* The steps that change the status of an intent or emit an event. *)
LEMMA StatusSteps ==
    ASSUME [KeeperNext]_keeperFlowVars
    PROVE  \/ UNCHANGED <<status, log>>
           \/ UserStep \/ Revert
           \/ \E t \in Tokens : Leave(t)
<1>1. CASE UNCHANGED keeperFlowVars \/ UNCHANGED routeVars
    BY <1>1 DEF keeperFlowVars, routeVars, vars
<1>2. ASSUME NEW k \in Keepers, Enter(k)
      PROVE  UNCHANGED <<status, log>>
    BY <1>2 DEF Enter, Execute, EnterExecute
<1>3. CASE AdapterStep
    BY <1>3, AdapterStepIsQuiet
<1>4. ASSUME NEW k \in Keepers, OwnerSpends(k)
      PROVE  UNCHANGED <<status, log>>
    BY <1>4 DEF OwnerSpends
<1>5. CASE Others
    BY <1>5 DEF Others, AdminStep, SetAdapter, SetTeeSigner, SetPaused, TransferOwnership,
                AdapterPays, Tick
<1>6. QED  BY <1>1, <1>2, <1>3, <1>4, <1>5 DEF KeeperNext

LEMMA UserStatusSteps ==
    ASSUME RouteInv, UserStep
    PROVE  \E id \in IntentIds :
             /\ status[id] \notin {"Executed", "Cancelled"}
             /\ \/ /\ UNCHANGED log
                   /\ \E s \in {"Created", "Funded"} : status' = [status EXCEPT ![id] = s]
                \/ /\ status' = [status EXCEPT ![id] = "Cancelled"]
                   /\ \E n : log' = log \cup {CancelledEvent(id, n)}
<1>1. PICK u \in Users :
        \/ \E w \in Terms : CreateIntent(u, w) \/ CreateAndFundIntent(u, w)
        \/ \E id \in IntentIds : FundIntent(u, id) \/ CancelIntent(u, id)
    BY DEF UserStep
<1>2. ASSUME NEW w \in Terms, CreateIntent(u, w) \/ CreateAndFundIntent(u, w)
      PROVE  \E id \in IntentIds :
               /\ status[id] = "None" /\ UNCHANGED log
               /\ \E s \in {"Created", "Funded"} : status' = [status EXCEPT ![id] = s]
  <2>1. PICK s \in {"Created", "Funded"} : NewIntent(u, w, s)
      BY <1>2 DEF CreateIntent, CreateAndFundIntent
  <2>2. UNCHANGED log
      BY <1>2 DEF CreateIntent, CreateAndFundIntent
  <2>3. PICK id \in IntentIds : /\ status[id] = "None"
                                /\ status' = [status EXCEPT ![id] = s]
      BY <2>1, NewIntentEffect DEF Statuses, RouteInv, IInv
  <2>4. QED  BY <2>2, <2>3
<1>3. ASSUME NEW id \in IntentIds, FundIntent(u, id)
      PROVE  /\ status[id] = "Created" /\ UNCHANGED log
             /\ status' = [status EXCEPT ![id] = "Funded"]
    BY <1>3 DEF FundIntent, MayFund, MayFundInsideWindow
<1>4. ASSUME NEW id \in IntentIds, CancelIntent(u, id)
      PROVE  /\ status[id] \in {"Created", "Funded"}
             /\ status' = [status EXCEPT ![id] = "Cancelled"]
             /\ log' = log \cup {CancelledEvent(id, Refund(id))}
    BY <1>4 DEF CancelIntent, MayCancel, MayCancelInsideWindow
<1>5. QED  BY <1>1, <1>2, <1>3, <1>4

(* The events are those of the settled intents, through reverts too. *)
LEMMA EventsStep ==
    ASSUME RouteInv, EventsInv(status, log), [KeeperNext]_keeperFlowVars
    PROVE  EventsInv(status', log')
<1>1. /\ status \in [IntentIds -> Statuses]
      /\ log \in SUBSET (ExecutedEvents \cup CancelledEvents)
    BY TypeOKFields DEF RouteInv, IInv
<1>2. CASE UNCHANGED <<status, log>>
    BY <1>2
<1>3. CASE UserStep
  <2>1. PICK id \in IntentIds :
          /\ status[id] \notin {"Executed", "Cancelled"}
          /\ \/ /\ UNCHANGED log
                /\ \E s \in {"Created", "Funded"} : status' = [status EXCEPT ![id] = s]
             \/ /\ status' = [status EXCEPT ![id] = "Cancelled"]
                /\ \E n : log' = log \cup {CancelledEvent(id, n)}
      BY <1>3, UserStatusSteps
  <2>2. CASE /\ UNCHANGED log
             /\ \E s \in {"Created", "Funded"} : status' = [status EXCEPT ![id] = s]
      BY <1>1, <2>1, <2>2, EventsAfterAssignment
  <2>3. ASSUME NEW n, status' = [status EXCEPT ![id] = "Cancelled"],
               log' = log \cup {CancelledEvent(id, n)}
        PROVE  EventsInv(status', log')
    <3>1. CancelledEvent(id, n).intentId = id /\ CancelledEvent(id, n).event = "IntentCancelled"
        BY DEF CancelledEvent
    <3>2. QED  BY <1>1, <2>1, <2>3, <3>1, EventsAfterSettlement
  <2>4. QED  BY <2>1, <2>2, <2>3
<1>4. ASSUME NEW t \in Tokens, Leave(t)
      PROVE  EventsInv(status', log')
  <2>1. PICK id \in IntentIds, n \in Nat :
          /\ status[id] = "Funded"
          /\ status' = [status EXCEPT ![id] = "Executed"]
          /\ log' = log \cup {ExecutedEvent(id, call.auth.adapter, t, n)}
      BY <1>4, LeaveExecuteEffect DEF Leave, RouteInv
  <2>2. PICK e : e = ExecutedEvent(id, call.auth.adapter, t, n)
      OBVIOUS
  <2>3. e.intentId = id /\ e.event = "IntentExecuted"
      BY <2>2 DEF ExecutedEvent
  <2>4. QED  BY <1>1, <2>1, <2>2, <2>3, EventsAfterSettlement
<1>5. CASE Revert
  <2>1. call # NoCall /\ log' = log /\ status' = call.before.status
      BY <1>5 DEF Revert, RevertExecute, NotEntered, RouteInv, WindowKept
  <2>2. \A e \in log : e.intentId \in IntentIds
      BY <1>1 DEF ExecutedEvents, CancelledEvents
  <2>3. \A e \in log : status'[e.intentId] = status[e.intentId]
      BY <2>1, <2>2 DEF RouteInv, WindowKept, EventsInv
  <2>4. QED  BY <2>1, <2>3 DEF EventsInv
<1>6. QED  BY <1>2, <1>3, <1>4, <1>5, StatusSteps

(* With the adapter and the keepers around it, the router owes nothing it    *)
(* does not hold: what the exchange pulls, and what the keepers have mined,  *)
(* never comes out of another owner's deposit.                               *)
THEOREM KeepersSolvent == KeeperSpec => []Solvency
<1>1. RouteInv => Solvency
    BY DEF RouteInv, IInv
<1>2. QED  BY <1>1, KeeperCorrect, PTL

(* However many keepers present however many authorizations, and whoever     *)
(* cancels in between, an intent is settled once.                            *)
THEOREM KeepersSettleOnce == KeeperSpec => []SingleSettlement
<1> DEFINE Events == EventsInv(status, log)
<1>1. KeeperInit => Events
    BY InitHistoryInv DEF KeeperInit, RouteInit, HistoryInv, StorageInv
<1>2. RouteInv /\ Events /\ [KeeperNext]_keeperFlowVars => Events'
    BY EventsStep
<1>3. Events => SingleSettlement
    BY DEF EventsInv, SingleSettlement
<1> HIDE DEF Events
<1>4. QED  BY <1>1, <1>2, <1>3, KeeperCorrect, PTL DEF KeeperSpec

LEMMA SettledStays ==
    ASSUME RouteInv, [KeeperNext]_keeperFlowVars, NEW id \in IntentIds,
           status[id] \in {"Executed", "Cancelled"}
    PROVE  status'[id] = status[id]
<1>1. status \in [IntentIds -> Statuses]
    BY TypeOKFields DEF RouteInv, IInv
<1>2. CASE UNCHANGED <<status, log>>
    BY <1>2
<1>3. CASE UserStep
    BY <1>1, <1>3, UserStatusSteps
<1>4. ASSUME NEW t \in Tokens, Leave(t)
      PROVE  status'[id] = status[id]
    BY <1>1, <1>4, LeaveExecuteEffect DEF Leave, RouteInv
<1>5. CASE Revert
    BY <1>5 DEF Revert, RevertExecute, NotEntered, RouteInv, WindowKept
<1>6. QED  BY <1>2, <1>3, <1>4, <1>5, StatusSteps

(* A keeper whose transaction is mined late, or reverts, reopens no intent. *)
THEOREM KeepersSettleFinally == KeeperSpec => SettledIsFinal
<1> DEFINE Final == \A id \in IntentIds :
        status[id] \in {"Executed", "Cancelled"} => status'[id] = status[id]
<1>1. RouteInv /\ [KeeperNext]_keeperFlowVars => [Final]_vars
    BY SettledStays
<1> HIDE DEF Final
<1>2. KeeperSpec => [][Final]_vars
    BY <1>1, KeeperCorrect, PTL DEF KeeperSpec
<1> USE DEF Final
<1>3. QED  BY <1>2 DEF SettledIsFinal

(* What executeIntent has checked before it called the adapter still holds   *)
(* of the storage it started from.                                           *)
Checked == call # NoCall =>
    LET auth == call.auth
        id == auth.intentId
    IN
    /\ now <= auth.deadline /\ now < id.expiry
    /\ auth = Authorization(id, id, auth)
    /\ call.before.status[id] = "Funded"
    /\ ~call.before.paused
    /\ call.before.teeSigner = call.signer
    /\ auth.adapter \in call.before.allowedAdapters

LEMMA EnterChecks ==
    ASSUME RouteInv, KeepersInv, NEW k \in Keepers, Enter(k), RouteInv'
    PROVE  Checked'
<1>1. PICK auth \in Authorizations, signer \in Signers :
        auth = decision[k].auth /\ signer = decision[k].signer
    BY ReceiptHasDecision DEF Enter
<1>2. PICK id : id = auth.intentId
    OBVIOUS
<1>3. /\ call = NoCall /\ ~paused /\ status[id] = "Funded"
      /\ id.expiry > now /\ auth.deadline >= now
      /\ auth.adapter \in allowedAdapters
      /\ signer = teeSigner
      /\ MatchesIntent(auth, auth.actionHash)
      /\ call' = Frame(auth, signer)
      /\ now' = now
    BY <1>1, <1>2 DEF Enter, Execute, EnterExecute, NotEntered, SignedByTee
<1>4. auth = Authorization(id, id, auth)
    BY <1>1, <1>2, <1>3 DEF MatchesIntent, Authorization, Authorizations
<1>5. id \in IntentIds /\ id.expiry \in Nat /\ now \in Nat /\ auth.deadline \in Nat
    BY <1>1, <1>2, ConstantsAssumption, TypeOKFields
       DEF Authorizations, Authorization, IntentIds, IntentId, RouteInv, IInv
<1>6. /\ call'.auth = auth /\ call'.signer = signer /\ call'.before.status = status
      /\ call'.before.paused = paused /\ call'.before.teeSigner = teeSigner
      /\ call'.before.allowedAdapters = allowedAdapters
    BY <1>3 DEF Frame, Storage
<1>7. now' <= auth.deadline /\ now' < id.expiry
    BY <1>3, <1>5
<1>8. QED  BY <1>2, <1>3, <1>4, <1>6, <1>7 DEF Checked

LEMMA CheckedStep ==
    ASSUME RouteInv, KeepersInv, RouteInv', Checked, [KeeperNext]_keeperFlowVars
    PROVE  Checked'
<1>1. ASSUME UNCHANGED call, call # NoCall => now' = now
      PROVE  Checked'
    BY <1>1 DEF Checked
<1>2. CASE UNCHANGED keeperFlowVars \/ UNCHANGED routeVars
    BY <1>1, <1>2 DEF keeperFlowVars, routeVars, vars
<1>3. CASE AdapterStep
    BY <1>1, <1>3 DEF AdapterStep, AdapterExecute, AdapterReturn, ExchangePulls, ExchangePays,
                      vars
<1>4. CASE Others
  <2>1. UNCHANGED call /\ (call # NoCall => now' = now)
      BY <1>4, OthersKeep DEF RouteInv, Kept
  <2>2. QED  BY <1>1, <2>1
<1>5. ASSUME NEW k \in Keepers, OwnerSpends(k)
      PROVE  Checked'
    BY <1>1, <1>5 DEF OwnerSpends
<1>6. CASE call' = NoCall
    BY <1>6 DEF Checked
<1>7. ASSUME NEW k \in Keepers, Enter(k)
      PROVE  Checked'
    BY <1>7, EnterChecks
<1>8. QED
    BY <1>2, <1>3, <1>4, <1>5, <1>6, <1>7
       DEF KeeperNext, Leave, LeaveExecute, Revert, RevertExecute

(* An execution pays its owner, in a standard token, the signed minimum. *)
LEMMA LeavePays ==
    ASSUME RouteInv, NEW t \in Tokens, Leave(t), NEW id, id = call.auth.intentId
    PROVE  call.auth.tokenOut \in StandardTokens =>
             balance'[call.auth.tokenOut][id.owner]
               >= balance[call.auth.tokenOut][id.owner] + call.auth.minimumOutput
<1>1. PICK n \in Nat : /\ call # NoCall /\ call \in Frames /\ t = call.auth.tokenOut
                       /\ id \in IntentIds
                       /\ n >= call.auth.minimumOutput /\ balance[t][Router] >= n
                       /\ balance' = Transfer(t, Router, id.owner, n)
    BY LeaveExecuteEffect DEF Leave, RouteInv
<1>2. /\ id.owner \in Accounts /\ Router \in Accounts /\ id.owner # Router
      /\ balance \in [Tokens -> [Accounts -> Nat]]
      /\ call.auth.minimumOutput \in Nat
    BY <1>1, IntentFields, AccountsDistinct, AuthorizationFields, TypeOKFields
       DEF RouteInv, IInv, Frames
<1>3. t \in StandardTokens => balance'[t][id.owner] = balance[t][id.owner] + n
    BY <1>1, <1>2, TransferMoves
<1>4. QED  BY <1>1, <1>2, <1>3

(* Whatever moves on the chain between the checks of a keeper and the block  *)
(* that mines its transaction, what commits was authorized when it began.    *)
THEOREM KeepersAreAuthorized == KeeperSpec => ExecutionsAuthorized
<1> DEFINE Authorized == \A id \in IntentIds :
        status[id] # "Executed" /\ status'[id] = "Executed" =>
            LET auth == call.auth IN
            /\ auth.intentId = id
            /\ now <= auth.deadline /\ now < id.expiry
            /\ auth = Authorization(id, id, auth)
            /\ call.before.status[id] = "Funded"
            /\ ~call.before.paused
            /\ call.before.teeSigner = call.signer
            /\ auth.adapter \in call.before.allowedAdapters
            /\ auth.tokenOut \in StandardTokens =>
                 balance'[auth.tokenOut][id.owner]
                   >= balance[auth.tokenOut][id.owner] + auth.minimumOutput
<1>1. RouteInv /\ KeepersInv /\ Checked /\ [KeeperNext]_keeperFlowVars => [Authorized]_vars
  <2> SUFFICES ASSUME RouteInv, KeepersInv, Checked, [KeeperNext]_keeperFlowVars
               PROVE  Authorized
      OBVIOUS
  <2> SUFFICES ASSUME NEW id \in IntentIds, status[id] # "Executed", status'[id] = "Executed"
               PROVE  /\ call.auth.intentId = id
                      /\ now <= call.auth.deadline /\ now < id.expiry
                      /\ call.auth = Authorization(id, id, call.auth)
                      /\ call.before.status[id] = "Funded"
                      /\ ~call.before.paused
                      /\ call.before.teeSigner = call.signer
                      /\ call.auth.adapter \in call.before.allowedAdapters
                      /\ call.auth.tokenOut \in StandardTokens =>
                           balance'[call.auth.tokenOut][id.owner]
                             >= balance[call.auth.tokenOut][id.owner] + call.auth.minimumOutput
      OBVIOUS
  <2>1. PICK t \in Tokens : Leave(t)
      BY OnlyLeaveExecutes
  <2>2. call # NoCall /\ status' = [status EXCEPT ![call.auth.intentId] = "Executed"]
      BY <2>1, LeaveExecuteEffect DEF Leave, RouteInv
  <2>3. id = call.auth.intentId
      BY <2>2
  <2>4. QED  BY <2>1, <2>2, <2>3, LeavePays DEF Checked
<1>2. KeeperInit => Checked
    BY DEF KeeperInit, RouteInit, Init, Checked
<1>3. RouteInv /\ KeepersInv /\ RouteInv' /\ Checked /\ [KeeperNext]_keeperFlowVars => Checked'
    BY CheckedStep
<1> HIDE DEF Authorized
<1>4. KeeperSpec => [][Authorized]_vars
    BY <1>1, <1>2, <1>3, KeeperCorrect, PTL DEF KeeperSpec
<1> USE DEF Authorized
<1>5. QED  BY <1>4 DEF ExecutionsAuthorized
=============================================================================
