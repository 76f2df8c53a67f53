---------------------- MODULE ShadowRouterHistoryProofs ----------------------
(***************************************************************************)
(* Proofs about ShadowRouter, continued: what becomes of an intent, its    *)
(* nonce and its owner's money over its lifetime, and that the contract    *)
(* implements the abstract escrow.                                         *)
(***************************************************************************)
EXTENDS ShadowRouterProofs

-----------------------------------------------------------------------------
(* Lemmas on the operators.                                                *)

LEMMA IntentNonce == \A id \in IntentIds : id.nonce \in Nat
BY ConstantsAssumption DEF IntentIds, IntentId

(* A transfer touches the two accounts it names, in its own token. *)
LEMMA TransferElsewhere ==
    ASSUME balance \in [Tokens -> [Accounts -> Nat]],
           NEW t \in Tokens, NEW from, NEW to, NEW n
    PROVE  \A s \in Tokens, a \in Accounts :
             s # t \/ a \notin {from, to} =>
               Transfer(t, from, to, n)[s][a] = balance[s][a]
BY DEF Transfer

(* An owner's deposits have a value: only finitely many intents exist. *)
LEMMA DepositsHaveAmounts ==
    ASSUME CreatedInv, NEW u, NEW t
    PROVE  HasAmounts(DepositsOf(u, t, status))
<1>1. DepositsOf(u, t, status) \subseteq {id \in IntentIds : status[id] # "None"}
    BY DEF DepositsOf
<1>2. IsFiniteSet(DepositsOf(u, t, status))
    BY <1>1, FS_Subset DEF CreatedInv
<1>3. QED  BY <1>1, <1>2, IntentFields DEF HasAmounts

(* So have the outputs an owner was paid. *)
LEMMA OutputsHaveAmounts ==
    ASSUME EventsInv(status, log), log \in SUBSET (ExecutedEvents \cup CancelledEvents),
           NEW u, NEW t
    PROVE  HasAmounts(OutputsTo(u, t, log))
<1>1. OutputsTo(u, t, log) \subseteq log
    BY DEF OutputsTo
<1>2. IsFiniteSet(OutputsTo(u, t, log))
    BY <1>1, FS_Subset DEF EventsInv
<1>3. \A e \in log : e.amount \in Nat
    BY DEF ExecutedEvents, CancelledEvents
<1>4. QED  BY <1>1, <1>2, <1>3 DEF HasAmounts

-----------------------------------------------------------------------------
(* Nonces.                                                                 *)

LEMMA NoncesAfterNewIntent ==
    ASSUME TypeOK, NoncesInv(status, nextIntentNonce), NEW u \in Users, NEW w \in Terms,
           NEW s, NewIntent(u, w, s)
    PROVE  NoncesInv(status', nextIntentNonce')
<1> DEFINE id == IntentId(u, w, nextIntentNonce[u])
<1>1. /\ status \in [IntentIds -> Statuses]
      /\ nextIntentNonce \in [Users -> 0..MaxNonce]
    BY TypeOKFields
<1>2. /\ status' = [status EXCEPT ![id] = s]
      /\ nextIntentNonce' = [nextIntentNonce EXCEPT ![u] = @ + 1]
      /\ nextIntentNonce[u] \in Nat
    BY <1>1, ConstantsAssumption DEF NewIntent, NonceAdvanced
<1>3. id.owner = u /\ id.nonce = nextIntentNonce[u]
    BY DEF IntentId
<1> HIDE DEF id
<1>4. \A v \in Users : /\ nextIntentNonce[v] \in Nat /\ nextIntentNonce'[v] \in Nat
                       /\ nextIntentNonce'[v] >= nextIntentNonce[v]
                       /\ v = u => nextIntentNonce'[v] = nextIntentNonce[v] + 1
    BY <1>1, <1>2, ConstantsAssumption
<1>5. \A i \in IntentIds : i # id => status'[i] = status[i]
    BY <1>1, <1>2
<1>6. ASSUME NEW i \in IntentIds, status'[i] # "None"
      PROVE  i.nonce < nextIntentNonce'[i.owner]
  <2>1. i.owner \in Users /\ i.nonce \in Nat
      BY IntentFields, IntentNonce
  <2>2. CASE i = id
      BY <1>3, <1>4, <2>1, <2>2
  <2>3. CASE i # id
      BY <1>4, <1>5, <1>6, <2>1, <2>3 DEF NoncesInv
  <2>4. QED  BY <2>2, <2>3
<1>7. ASSUME NEW i \in IntentIds, i # id, status'[i] # "None", i.owner = u
      PROVE  i.nonce # id.nonce
  <2>1. i.nonce < nextIntentNonce[u]
      BY <1>5, <1>7 DEF NoncesInv
  <2>2. QED  BY <1>2, <1>3, <2>1, <1>7, IntentNonce
<1>8. NoncesDistinct(status')
    BY <1>3, <1>5, <1>7 DEF NoncesInv, NoncesDistinct
<1>9. QED  BY <1>6, <1>8 DEF NoncesInv

(* Later statuses of an intent change nothing of its nonce. *)
LEMMA NoncesAfterAssignment ==
    ASSUME status \in [IntentIds -> Statuses], NoncesInv(status, nextIntentNonce),
           NEW id \in IntentIds, status[id] # "None", NEW s,
           status' = [status EXCEPT ![id] = s], UNCHANGED nextIntentNonce
    PROVE  NoncesInv(status', nextIntentNonce')
<1>1. \A i \in IntentIds : status'[i] # "None" => status[i] # "None"
    OBVIOUS
<1>2. QED  BY <1>1 DEF NoncesInv, NoncesDistinct

-----------------------------------------------------------------------------
(* Events.                                                                 *)

(* An intent that is not settled has no event, and may change its status. *)
LEMMA EventsAfterAssignment ==
    ASSUME EventsInv(status, log), status \in [IntentIds -> Statuses],
           log \in SUBSET (ExecutedEvents \cup CancelledEvents),
           NEW id \in IntentIds, status[id] \notin {"Executed", "Cancelled"}, NEW s,
           status' = [status EXCEPT ![id] = s], UNCHANGED log
    PROVE  EventsInv(status', log')
<1>1. \A e \in log : e.intentId \in IntentIds /\ e.intentId # id
    BY DEF EventsInv, ExecutedEvents, CancelledEvents
<1>2. \A e \in log : status'[e.intentId] = status[e.intentId]
    BY <1>1
<1>3. QED  BY <1>2 DEF EventsInv

(* Its settlement emits its first event. *)
LEMMA EventsAfterSettlement ==
    ASSUME EventsInv(status, log), status \in [IntentIds -> Statuses],
           log \in SUBSET (ExecutedEvents \cup CancelledEvents),
           NEW id \in IntentIds, status[id] \notin {"Executed", "Cancelled"},
           NEW e, e.intentId = id, NEW s,
           s = IF e.event = "IntentExecuted" THEN "Executed" ELSE "Cancelled",
           status' = [status EXCEPT ![id] = s], log' = log \cup {e}
    PROVE  EventsInv(status', log') /\ e \notin log
<1>1. \A f \in log : f.intentId \in IntentIds /\ f.intentId # id
    BY DEF EventsInv, ExecutedEvents, CancelledEvents
<1>2. e \notin log
    BY <1>1
<1>3. \A f \in log' :
         status'[f.intentId] = IF f.event = "IntentExecuted" THEN "Executed" ELSE "Cancelled"
    BY <1>1 DEF EventsInv
<1>4. IsFiniteSet(log')
    BY FS_AddElement DEF EventsInv
<1>5. SettledOnce(log')
    BY <1>1 DEF EventsInv, SettledOnce
<1>6. QED  BY <1>2, <1>3, <1>4, <1>5 DEF EventsInv

-----------------------------------------------------------------------------
(* Accounts.                                                               *)

(* The terms of an owner's account are natural numbers. *)
LEMMA AccountFields ==
    ASSUME IInv, EventsInv(status, log), NEW u \in Owners, NEW t \in StandardTokens
    PROVE  /\ u \in Users /\ u \in Accounts /\ u # Router /\ u \notin Adapters /\ t \in Tokens
           /\ balance[t][u] \in Nat /\ InitialBalance[t][u] \in Nat
           /\ HasAmounts(DepositsOf(u, t, status)) /\ Value(DepositsOf(u, t, status)) \in Nat
           /\ HasAmounts(OutputsTo(u, t, log)) /\ Value(OutputsTo(u, t, log)) \in Nat
<1>1. u \in Users /\ u \in Accounts /\ u # Router /\ u \notin Adapters /\ t \in Tokens
    BY AccountsDistinct DEF Owners, StandardTokens
<1>2. balance[t][u] \in Nat /\ InitialBalance[t][u] \in Nat
    BY <1>1, TypeOKFields, ConstantsAssumption DEF IInv
<1>3. HasAmounts(DepositsOf(u, t, status)) /\ HasAmounts(OutputsTo(u, t, log))
    BY TypeOKFields, DepositsHaveAmounts, OutputsHaveAmounts DEF IInv
<1>4. QED  BY <1>1, <1>2, <1>3, ValueType

(* Steps that change no term of any account. *)
LEMMA AccountedUnchanged ==
    ASSUME Accounted(status, balance, log),
           \A u \in Owners, t \in StandardTokens :
             /\ balance'[t][u] = balance[t][u]
             /\ DepositsOf(u, t, status') = DepositsOf(u, t, status)
             /\ OutputsTo(u, t, log') = OutputsTo(u, t, log)
    PROVE  Accounted(status', balance', log')
BY DEF Accounted

LEMMA AccountedAfterDeposit ==
    ASSUME IInv, EventsInv(status, log), Accounted(status, balance, log),
           NEW id \in IntentIds, status[id] \in {"None", "Created"}, id.tokenIn \in Tokens,
           status' = [status EXCEPT ![id] = "Funded"], UNCHANGED log,
           CanPay(id.tokenIn, id.owner, id.amount),
           balance' = Transfer(id.tokenIn, id.owner, Router, id.amount)
    PROVE  Accounted(status', balance', log')
<1>1. /\ status \in [IntentIds -> Statuses]
      /\ balance \in [Tokens -> [Accounts -> Nat]]
      /\ id.owner \in Accounts /\ id.owner # Router /\ Router \in Accounts /\ id.amount \in Nat
    BY TypeOKFields, IntentFields, AccountsDistinct DEF IInv
<1>2. balance'[id.tokenIn][id.owner] = balance[id.tokenIn][id.owner] - id.amount
    BY <1>1, TransferMoves DEF CanPay
<1> SUFFICES ASSUME NEW u \in Owners, NEW t \in StandardTokens
             PROVE  balance'[t][u] + Value(DepositsOf(u, t, status'))
                      = InitialBalance[t][u] + Value(OutputsTo(u, t, log))
    BY DEF Accounted
<1>3. balance[t][u] + Value(DepositsOf(u, t, status))
        = InitialBalance[t][u] + Value(OutputsTo(u, t, log))
    BY DEF Accounted
<1>4. CASE id.owner = u /\ id.tokenIn = t
  <2>1. DepositsOf(u, t, status') = DepositsOf(u, t, status) \cup {id}
      BY <1>1, <1>4 DEF DepositsOf
  <2>2. id \notin DepositsOf(u, t, status)
      BY DEF DepositsOf
  <2>3. Value(DepositsOf(u, t, status')) = Value(DepositsOf(u, t, status)) + id.amount
      BY <1>1, <2>1, <2>2, AccountFields, ValueAdd
  <2>4. QED  BY <1>1, <1>2, <1>3, <1>4, <2>3, AccountFields
<1>5. CASE id.owner # u \/ id.tokenIn # t
  <2>1. DepositsOf(u, t, status') = DepositsOf(u, t, status)
      BY <1>1, <1>5 DEF DepositsOf
  <2>2. balance'[t][u] = balance[t][u]
      BY <1>1, <1>5, AccountFields, TransferElsewhere
  <2>3. QED  BY <1>3, <2>1, <2>2
<1>6. QED  BY <1>4, <1>5

LEMMA AccountedAfterRefund ==
    ASSUME IInv, EventsInv(status, log), Accounted(status, balance, log),
           NEW id \in IntentIds, status[id] = "Funded", id.tokenIn \in Tokens,
           status' = [status EXCEPT ![id] = "Cancelled"],
           NEW n, log' = log \cup {CancelledEvent(id, n)},
           balance[id.tokenIn][Router] >= id.amount,
           balance' = Transfer(id.tokenIn, Router, id.owner, id.amount)
    PROVE  Accounted(status', balance', log')
<1>1. /\ status \in [IntentIds -> Statuses]
      /\ balance \in [Tokens -> [Accounts -> Nat]]
      /\ id.owner \in Accounts /\ id.owner # Router /\ Router \in Accounts /\ id.amount \in Nat
    BY TypeOKFields, IntentFields, AccountsDistinct DEF IInv
<1>2. id.tokenIn \in StandardTokens =>
        balance'[id.tokenIn][id.owner] = balance[id.tokenIn][id.owner] + id.amount
    BY <1>1, TransferMoves
<1> SUFFICES ASSUME NEW u \in Owners, NEW t \in StandardTokens
             PROVE  balance'[t][u] + Value(DepositsOf(u, t, status'))
                      = InitialBalance[t][u] + Value(OutputsTo(u, t, log'))
    BY DEF Accounted
<1>3. OutputsTo(u, t, log') = OutputsTo(u, t, log)
    BY DEF OutputsTo, CancelledEvent
<1>4. balance[t][u] + Value(DepositsOf(u, t, status))
        = InitialBalance[t][u] + Value(OutputsTo(u, t, log))
    BY DEF Accounted
<1>5. CASE id.owner = u /\ id.tokenIn = t
  <2>1. DepositsOf(u, t, status') = DepositsOf(u, t, status) \ {id}
      BY <1>1, <1>5 DEF DepositsOf
  <2>2. id \in DepositsOf(u, t, status)
      BY <1>5 DEF DepositsOf
  <2>3. Value(DepositsOf(u, t, status')) = Value(DepositsOf(u, t, status)) - id.amount
      BY <1>1, <2>1, <2>2, AccountFields, ValueRemove
  <2>4. QED  BY <1>1, <1>2, <1>3, <1>4, <1>5, <2>3, AccountFields
<1>6. CASE id.owner # u \/ id.tokenIn # t
  <2>1. DepositsOf(u, t, status') = DepositsOf(u, t, status)
      BY <1>1, <1>6 DEF DepositsOf
  <2>2. balance'[t][u] = balance[t][u]
      BY <1>1, <1>6, AccountFields, TransferElsewhere
  <2>3. QED  BY <1>3, <1>4, <2>1, <2>2
<1>7. QED  BY <1>5, <1>6

LEMMA AccountedAfterExecution ==
    ASSUME IInv, EventsInv(status, log), Accounted(status, balance, log),
           NEW id \in IntentIds, status[id] = "Funded",
           status' = [status EXCEPT ![id] = "Executed"],
           NEW a, NEW tokenOut \in Tokens, NEW n \in Nat,
           ExecutedEvent(id, a, tokenOut, n) \notin log,
           log' = log \cup {ExecutedEvent(id, a, tokenOut, n)},
           balance[tokenOut][Router] >= n,
           balance' = Transfer(tokenOut, Router, id.owner, n)
    PROVE  Accounted(status', balance', log')
<1> DEFINE e == ExecutedEvent(id, a, tokenOut, n)
<1>1. /\ status \in [IntentIds -> Statuses]
      /\ balance \in [Tokens -> [Accounts -> Nat]]
      /\ id.owner \in Accounts /\ id.owner # Router /\ Router \in Accounts
    BY TypeOKFields, IntentFields, AccountsDistinct DEF IInv
<1>2. tokenOut \in StandardTokens =>
        balance'[tokenOut][id.owner] = balance[tokenOut][id.owner] + n
    BY <1>1, TransferMoves
<1> SUFFICES ASSUME NEW u \in Owners, NEW t \in StandardTokens
             PROVE  balance'[t][u] + Value(DepositsOf(u, t, status'))
                      = InitialBalance[t][u] + Value(OutputsTo(u, t, log'))
    BY DEF Accounted
<1>3. DepositsOf(u, t, status') = DepositsOf(u, t, status)
    BY <1>1 DEF DepositsOf
<1>4. balance[t][u] + Value(DepositsOf(u, t, status))
        = InitialBalance[t][u] + Value(OutputsTo(u, t, log))
    BY DEF Accounted
<1>5. CASE id.owner = u /\ tokenOut = t
  <2>1. OutputsTo(u, t, log') = OutputsTo(u, t, log) \cup {e}
      BY <1>5 DEF OutputsTo, ExecutedEvent
  <2>2. e \notin OutputsTo(u, t, log) /\ e.amount = n
      BY DEF OutputsTo, ExecutedEvent
  <2> HIDE DEF e
  <2>3. Value(OutputsTo(u, t, log')) = Value(OutputsTo(u, t, log)) + n
      BY <2>1, <2>2, AccountFields, ValueAdd
  <2>4. QED  BY <1>2, <1>3, <1>4, <1>5, <2>3, AccountFields
<1>6. CASE id.owner # u \/ tokenOut # t
  <2>1. OutputsTo(u, t, log') = OutputsTo(u, t, log)
      BY <1>6 DEF OutputsTo, ExecutedEvent
  <2>2. balance'[t][u] = balance[t][u]
      BY <1>1, <1>6, AccountFields, TransferElsewhere
  <2>3. QED  BY <1>3, <1>4, <2>1, <2>2
<1>7. QED  BY <1>5, <1>6

-----------------------------------------------------------------------------
(* The steps, one lemma per group of actions.                              *)

LEMMA InitHistoryInv == Init => HistoryInv
<1> SUFFICES ASSUME Init PROVE HistoryInv
    OBVIOUS
<1>1. EventsInv(status, log)
    BY FS_EmptySet DEF Init, EventsInv, SettledOnce
<1>2. NoncesInv(status, nextIntentNonce)
    BY DEF Init, NoncesInv, NoncesDistinct
<1>3. ASSUME NEW u \in Owners, NEW t \in StandardTokens
      PROVE  balance[t][u] + Value(DepositsOf(u, t, status))
               = InitialBalance[t][u] + Value(OutputsTo(u, t, log))
  <2>1. DepositsOf(u, t, status) = {} /\ OutputsTo(u, t, log) = {}
      BY DEF Init, DepositsOf, OutputsTo
  <2>2. balance[t][u] = InitialBalance[t][u]
      BY DEF Init
  <2>3. QED  BY <2>1, <2>2
<1>4. WindowInv
    BY DEF Init, WindowInv
<1>5. QED  BY <1>1, <1>2, <1>3, <1>4 DEF HistoryInv, StorageInv, Accounted

(* Administration, time and the adapter's payments concern no intent, event  *)
(* or wallet of an owner.                                                    *)
LEMMA HistoryElsewhere ==
    ASSUME HistoryInv, UNCHANGED <<status, nextIntentNonce, log, call>>,
           call # NoCall => UNCHANGED now,
           \A t \in Tokens, u \in Owners : balance'[t][u] = balance[t][u]
    PROVE  HistoryInv'
<1>1. \A u \in Owners, t \in StandardTokens : balance'[t][u] = balance[t][u]
    BY DEF StandardTokens
<1>2. Accounted(status', balance', log')
    BY <1>1, AccountedUnchanged DEF HistoryInv, StorageInv
<1>3. StorageInv(status, nextIntentNonce, balance, log)'
    BY <1>2 DEF HistoryInv, StorageInv
<1>4. WindowInv'
    BY DEF HistoryInv, WindowInv
<1>5. QED  BY <1>3, <1>4 DEF HistoryInv

LEMMA AdminHistoryInv ==
    ASSUME HistoryInv, AdminStep \/ Tick \/ UNCHANGED vars
    PROVE  HistoryInv'
<1>1. /\ UNCHANGED <<status, nextIntentNonce, balance, log, call>>
      /\ call # NoCall => UNCHANGED now
    BY DEF AdminStep, SetAdapter, SetTeeSigner, SetPaused, TransferOwnership, Tick, NotEntered,
           vars
<1>2. QED  BY <1>1, HistoryElsewhere

LEMMA AdapterPaysHistoryInv ==
    ASSUME IInv, HistoryInv, NEW a \in Adapters, NEW t \in Tokens, NEW n,
           AdapterPays(a, t, n)
    PROVE  HistoryInv'
<1>1. /\ balance' = Transfer(t, a, Router, n)
      /\ UNCHANGED <<status, nextIntentNonce, log, call, now>>
    BY DEF AdapterPays
<1>2. \A u \in Owners : u \in Accounts /\ u \notin {a, Router}
    BY AccountsDistinct DEF Owners
<1>3. \A s \in Tokens, u \in Owners : balance'[s][u] = balance[s][u]
    BY <1>1, <1>2, TransferElsewhere, TypeOKFields DEF IInv
<1>4. QED  BY <1>1, <1>3, HistoryElsewhere

LEMMA CreateIntentHistoryInv ==
    ASSUME IInv, HistoryInv, NEW u \in Users, NEW w \in Terms, CreateIntent(u, w)
    PROVE  HistoryInv'
<1>1. NewIntent(u, w, "Created") /\ UNCHANGED <<adminVars, balance, log, call, now>>
    BY DEF CreateIntent
<1>2. /\ status \in [IntentIds -> Statuses]
      /\ log \in SUBSET (ExecutedEvents \cup CancelledEvents)
    BY TypeOKFields DEF IInv
<1>3. PICK id \in IntentIds : /\ id = IntentId(u, w, nextIntentNonce[u])
                              /\ status[id] = "None"
                              /\ status' = [status EXCEPT ![id] = "Created"]
    BY <1>1, NewIntentEffect DEF Statuses
<1>4. id.expiry > now
    BY <1>1, <1>3 DEF NewIntent, IntentId
<1>5. NoncesInv(status', nextIntentNonce')
    BY <1>1, NoncesAfterNewIntent DEF IInv, HistoryInv, StorageInv
<1>6. EventsInv(status', log')
    BY <1>1, <1>2, <1>3, EventsAfterAssignment DEF HistoryInv, StorageInv
<1>7. Accounted(status', balance', log')
  <2>1. \A v, t : DepositsOf(v, t, status') = DepositsOf(v, t, status)
      BY <1>2, <1>3 DEF DepositsOf
  <2>2. QED  BY <1>1, <2>1, AccountedUnchanged DEF HistoryInv, StorageInv
<1>8. ASSUME call # NoCall
      PROVE  \A i \in IntentIds : status'[i] # call.before.status[i] =>
               call.before.status[i] = "None" /\ status'[i] = "Created" /\ i.expiry > now
    BY <1>2, <1>3, <1>4, <1>8 DEF HistoryInv, WindowInv
<1>9. WindowInv'
    BY <1>1, <1>8 DEF HistoryInv, WindowInv
<1>10. QED  BY <1>5, <1>6, <1>7, <1>9 DEF HistoryInv, StorageInv

LEMMA CreateAndFundIntentHistoryInv ==
    ASSUME IInv, HistoryInv, NEW u \in Users, NEW w \in Terms, CreateAndFundIntent(u, w)
    PROVE  HistoryInv'
<1>1. /\ NewIntent(u, w, "Funded") /\ call = NoCall
      /\ UNCHANGED <<log, call>>
      /\ CanPay(w.tokenIn, u, w.amount)
      /\ balance' = Transfer(w.tokenIn, u, Router, w.amount)
    BY DEF CreateAndFundIntent, NotEntered
<1>2. /\ status \in [IntentIds -> Statuses]
      /\ log \in SUBSET (ExecutedEvents \cup CancelledEvents)
    BY TypeOKFields DEF IInv
<1>3. PICK id \in IntentIds : /\ id.owner = u /\ id.tokenIn = w.tokenIn /\ id.amount = w.amount
                              /\ id.tokenIn \in Tokens
                              /\ status[id] = "None"
                              /\ status' = [status EXCEPT ![id] = "Funded"]
    BY <1>1, NewIntentEffect DEF Statuses
<1>4. NoncesInv(status', nextIntentNonce')
    BY <1>1, NoncesAfterNewIntent DEF IInv, HistoryInv, StorageInv
<1>5. EventsInv(status', log')
    BY <1>1, <1>2, <1>3, EventsAfterAssignment DEF HistoryInv, StorageInv
<1>6. Accounted(status', balance', log')
    BY <1>1, <1>3, AccountedAfterDeposit DEF HistoryInv, StorageInv
<1>7. WindowInv'
    BY <1>1 DEF WindowInv
<1>8. QED  BY <1>4, <1>5, <1>6, <1>7 DEF HistoryInv, StorageInv

LEMMA FundIntentHistoryInv ==
    ASSUME IInv, HistoryInv, NEW u \in Users, NEW id \in IntentIds, FundIntent(u, id)
    PROVE  HistoryInv'
<1>1. /\ call = NoCall /\ id.owner = u /\ status[id] = "Created"
      /\ CanPay(id.tokenIn, id.owner, id.amount)
      /\ status' = [status EXCEPT ![id] = "Funded"]
      /\ balance' = Transfer(id.tokenIn, id.owner, Router, id.amount)
      /\ UNCHANGED <<nextIntentNonce, log, call>>
    BY DEF FundIntent, MayFund, MayFundInsideWindow, NotEntered
<1>2. /\ status \in [IntentIds -> Statuses] /\ id.tokenIn \in Tokens
      /\ log \in SUBSET (ExecutedEvents \cup CancelledEvents)
    BY <1>1, TypeOKFields DEF IInv, CreatedInv
<1>3. NoncesInv(status', nextIntentNonce')
    BY <1>1, <1>2, NoncesAfterAssignment DEF HistoryInv, StorageInv
<1>4. EventsInv(status', log')
    BY <1>1, <1>2, EventsAfterAssignment DEF HistoryInv, StorageInv
<1>5. Accounted(status', balance', log')
    BY <1>1, <1>2, AccountedAfterDeposit DEF HistoryInv, StorageInv
<1>6. WindowInv'
    BY <1>1 DEF WindowInv
<1>7. QED  BY <1>3, <1>4, <1>5, <1>6 DEF HistoryInv, StorageInv

LEMMA CancelIntentHistoryInv ==
    ASSUME IInv, HistoryInv, NEW u \in Users, NEW id \in IntentIds, CancelIntent(u, id)
    PROVE  HistoryInv'
<1>1. /\ call = NoCall /\ status[id] \in {"Created", "Funded"}
      /\ status' = [status EXCEPT ![id] = "Cancelled"]
      /\ log' = log \cup {CancelledEvent(id, Refund(id))}
      /\ UNCHANGED <<nextIntentNonce, call>>
    BY DEF CancelIntent, MayCancel, MayCancelInsideWindow, NotEntered
<1>2. /\ status \in [IntentIds -> Statuses] /\ id.tokenIn \in Tokens
      /\ log \in SUBSET (ExecutedEvents \cup CancelledEvents)
      /\ balance \in [Tokens -> [Accounts -> Nat]] /\ id.amount \in Nat
    BY <1>1, TypeOKFields, IntentFields DEF IInv, CreatedInv
<1>3. NoncesInv(status', nextIntentNonce')
    BY <1>1, <1>2, NoncesAfterAssignment DEF HistoryInv, StorageInv
<1>4. EventsInv(status', log')
  <2>1. /\ CancelledEvent(id, Refund(id)).intentId = id
        /\ CancelledEvent(id, Refund(id)).event = "IntentCancelled"
      BY DEF CancelledEvent
  <2>2. QED  BY <1>1, <1>2, <2>1, EventsAfterSettlement DEF HistoryInv, StorageInv
<1>5. Accounted(status', balance', log')
  <2>1. CASE Refund(id) # 0
    <3>1. /\ status[id] = "Funded" /\ Refund(id) = id.amount
          /\ balance[id.tokenIn][Router] >= id.amount
          /\ balance' = Transfer(id.tokenIn, Router, id.owner, id.amount)
        BY <1>1, <2>1 DEF Refund, CancelIntent, CanPay
    <3>2. QED  BY <1>1, <1>2, <3>1, AccountedAfterRefund DEF HistoryInv, StorageInv
  <2>2. CASE Refund(id) = 0
    <3>1. balance' = balance
        BY <2>2 DEF CancelIntent
    <3>2. ASSUME NEW v \in Owners, NEW t \in StandardTokens
          PROVE  Value(DepositsOf(v, t, status')) = Value(DepositsOf(v, t, status))
      <4>1. DepositsOf(v, t, status') = DepositsOf(v, t, status) \ {id}
          BY <1>1, <1>2 DEF DepositsOf
      <4>2. CASE id \in DepositsOf(v, t, status)
        <5>1. id.amount = 0
            BY <1>1, <2>2, <4>2 DEF Refund, DepositsOf
        <5>2. Value(DepositsOf(v, t, status) \ {id})
                = Value(DepositsOf(v, t, status)) - id.amount
            BY <4>2, AccountFields, ValueRemove DEF HistoryInv, StorageInv
        <5>3. QED  BY <4>1, <5>1, <5>2, AccountFields DEF HistoryInv, StorageInv
      <4>3. CASE id \notin DepositsOf(v, t, status)
        <5>1. DepositsOf(v, t, status) \ {id} = DepositsOf(v, t, status)
            BY <4>3
        <5>2. QED  BY <4>1, <5>1
      <4>4. QED  BY <4>2, <4>3
    <3>3. \A v, t : OutputsTo(v, t, log') = OutputsTo(v, t, log)
        BY <1>1 DEF OutputsTo, CancelledEvent
    <3>4. QED  BY <3>1, <3>2, <3>3 DEF HistoryInv, StorageInv, Accounted
  <2>3. QED  BY <2>1, <2>2
<1>6. WindowInv'
    BY <1>1 DEF WindowInv
<1>7. QED  BY <1>3, <1>4, <1>5, <1>6 DEF HistoryInv, StorageInv

(* What the checks of executeIntent establish, for the length of the window. *)
LEMMA EnterExecuteHistoryInv ==
    ASSUME IInv, HistoryInv, NEW id \in IntentIds, NEW subject \in IntentIds,
           NEW r \in RouteTerms, NEW signer \in Signers, NEW data,
           EnterExecute(Authorization(id, subject, r), signer, data)
    PROVE  HistoryInv'
<1> DEFINE auth == Authorization(id, subject, r)
<1>1. auth.intentId = id
    BY DEF Authorization
<1>2. /\ call = NoCall /\ ~paused /\ status[id] = "Funded"
      /\ id.expiry > now /\ auth.deadline >= now
      /\ auth.adapter \in allowedAdapters
      /\ signer = teeSigner
      /\ balance' = Transfer(id.tokenIn, Router, auth.adapter, id.amount)
      /\ call' = Frame(auth, signer)
      /\ UNCHANGED <<status, nextIntentNonce, log, now>>
    BY <1>1 DEF EnterExecute, NotEntered, SignedByTee
<1>3. auth = Authorization(id, id, auth)
  <2>1. MatchesIntent(auth, data)
      BY DEF EnterExecute
  <2>2. QED  BY <2>1 DEF MatchesIntent, Authorization
<1>4. /\ auth.deadline \in Nat /\ id.expiry \in Nat /\ now \in Nat
      /\ auth.adapter \in Adapters
    BY ConstantsAssumption, TypeOKFields DEF Authorization, IntentIds, IntentId, IInv
<1> HIDE DEF auth
<1>5. /\ call' # NoCall /\ call'.auth = auth /\ call'.signer = signer
      /\ call'.before = Storage
  <2>1. auth \in Authorizations
      BY DEF auth, Authorizations
  <2>2. call' \in Frames
      BY <1>2, <2>1 DEF Frame, Frames, IInv, TypeOK
  <2>3. QED  BY <1>2, <2>2, ConstantsAssumption DEF Frame
<1>6. /\ Storage.status = status /\ Storage.nextIntentNonce = nextIntentNonce
      /\ Storage.balance = balance /\ Storage.log = log /\ Storage.paused = paused
      /\ Storage.teeSigner = teeSigner /\ Storage.allowedAdapters = allowedAdapters
    BY DEF Storage
<1>7. id.tokenIn \in Tokens
    BY <1>2 DEF IInv, CreatedInv
<1>8. \A t \in Tokens, u \in Owners : balance'[t][u] = balance[t][u]
  <2>1. \A u \in Owners : u \in Accounts /\ u \notin {Router, auth.adapter}
      BY <1>4, AccountsDistinct DEF Owners
  <2>2. QED  BY <1>2, <1>7, <2>1, TransferElsewhere, TypeOKFields DEF IInv
<1>9. StorageInv(status', nextIntentNonce', balance', log')
  <2>1. \A u \in Owners, t \in StandardTokens : balance'[t][u] = balance[t][u]
      BY <1>8 DEF StandardTokens
  <2>2. Accounted(status', balance', log')
      BY <1>2, <2>1, AccountedUnchanged DEF HistoryInv, StorageInv
  <2>3. QED  BY <1>2, <2>2 DEF HistoryInv, StorageInv
<1>10. StorageInv(status, nextIntentNonce, balance, log)
    BY DEF HistoryInv
<1>11. now <= auth.deadline /\ now < id.expiry
    BY <1>2, <1>4
<1>12. WindowInv'
    BY <1>1, <1>2, <1>3, <1>5, <1>6, <1>8, <1>10, <1>11 DEF WindowInv, auth
<1>13. QED  BY <1>9, <1>12 DEF HistoryInv

(* What the commit of an execution does, seen from outside. *)
LEMMA LeaveExecuteEffect ==
    ASSUME IInv, NEW t \in Tokens, LeaveExecute(t)
    PROVE  LET id == call.auth.intentId IN
           \E n \in Nat :
             /\ call # NoCall /\ call \in Frames /\ t = call.auth.tokenOut
             /\ id \in IntentIds /\ status[id] = "Funded"
             /\ n >= call.auth.minimumOutput
             /\ n = balance[t][Router] - Baseline(call)
             /\ balance[t][Router] >= n
             /\ status' = [status EXCEPT ![id] = "Executed"]
             /\ balance' = Transfer(t, Router, id.owner, n)
             /\ log' = log \cup {ExecutedEvent(id, call.auth.adapter, t, n)}
             /\ call' = NoCall
             /\ UNCHANGED <<nextIntentNonce, now>>
<1> DEFINE n == balance[t][Router] - Baseline(call)
<1>1. call # NoCall /\ call \in Frames /\ t = call.auth.tokenOut /\ n >= 0
    BY TypeOKFields DEF LeaveExecute, NotEntered, IInv
<1>2. call.auth.intentId \in IntentIds /\ status[call.auth.intentId] = "Funded"
    BY <1>1, AuthorizationFields DEF Frames, IInv, FrameInv
<1>3. Baseline(call) \in Nat
    BY <1>1, BaselineCoversEscrow
<1>4. balance[t][Router] \in Nat
    BY TypeOKFields, AccountsDistinct DEF IInv
<1>5. n \in Nat /\ balance[t][Router] >= n
    BY <1>1, <1>3, <1>4
<1>6. QED  BY <1>1, <1>2, <1>5 DEF LeaveExecute

LEMMA LeaveExecuteHistoryInv ==
    ASSUME IInv, HistoryInv, NEW t \in Tokens, LeaveExecute(t)
    PROVE  HistoryInv'
<1> DEFINE id == call.auth.intentId
<1>1. PICK n \in Nat :
        /\ id \in IntentIds /\ status[id] = "Funded"
        /\ balance[t][Router] >= n
        /\ status' = [status EXCEPT ![id] = "Executed"]
        /\ balance' = Transfer(t, Router, id.owner, n)
        /\ log' = log \cup {ExecutedEvent(id, call.auth.adapter, t, n)}
        /\ call' = NoCall
        /\ UNCHANGED <<nextIntentNonce, now>>
    BY LeaveExecuteEffect
<1> DEFINE e == ExecutedEvent(id, call.auth.adapter, t, n)
<1>2. /\ status \in [IntentIds -> Statuses]
      /\ log \in SUBSET (ExecutedEvents \cup CancelledEvents)
    BY TypeOKFields DEF IInv
<1>3. e.intentId = id /\ e.event = "IntentExecuted"
    BY DEF ExecutedEvent
<1> HIDE DEF id
<1>4. EventsInv(status', log') /\ e \notin log
  <2> HIDE DEF e
  <2>1. log' = log \cup {e}
      BY <1>1 DEF e
  <2>2. QED  BY <1>1, <1>2, <1>3, <2>1, EventsAfterSettlement DEF HistoryInv, StorageInv
<1>5. NoncesInv(status', nextIntentNonce')
    BY <1>1, <1>2, NoncesAfterAssignment DEF HistoryInv, StorageInv
<1>6. Accounted(status', balance', log')
    BY <1>1, <1>4, AccountedAfterExecution DEF HistoryInv, StorageInv
<1>7. WindowInv'
    BY <1>1 DEF WindowInv
<1>8. QED  BY <1>4, <1>5, <1>6, <1>7 DEF HistoryInv, StorageInv

(* A revert restores a storage the invariant was true of. *)
LEMMA RevertExecuteHistoryInv ==
    ASSUME HistoryInv, RevertExecute
    PROVE  HistoryInv'
<1>1. /\ call # NoCall /\ call' = NoCall
      /\ status' = call.before.status /\ nextIntentNonce' = call.before.nextIntentNonce
      /\ balance' = call.before.balance /\ log' = call.before.log
    BY DEF RevertExecute, NotEntered
<1>2. StorageInv(status', nextIntentNonce', balance', log')
    BY <1>1 DEF HistoryInv, WindowInv
<1>3. QED  BY <1>1, <1>2 DEF HistoryInv, WindowInv

-----------------------------------------------------------------------------
(* The steps of the router, in the form the theorems split them.           *)
LEMMA RouterSteps ==
    ASSUME TypeOK, [Next]_vars
    PROVE  \/ \E u \in Users, w \in Terms : CreateIntent(u, w) \/ CreateAndFundIntent(u, w)
           \/ \E u \in Users, id \in IntentIds : FundIntent(u, id) \/ CancelIntent(u, id)
           \/ \E id \in IntentIds, subject \in IntentIds, r \in RouteTerms,
                 signer \in Signers, data \in AdapterCalls :
                   EnterExecute(Authorization(id, subject, r), signer, data)
           \/ \E t \in Tokens : LeaveExecute(t)
           \/ RevertExecute
           \/ \E a \in Adapters, t \in Tokens, n \in Nat : AdapterPays(a, t, n)
           \/ AdminStep \/ Tick \/ UNCHANGED vars
<1>1. ASSUME NEW a \in Adapters, NEW t \in Tokens, NEW n \in 1..balance[t][a],
             AdapterPays(a, t, n)
      PROVE  n \in Nat
  <2>1. balance[t][a] \in Nat
      BY TypeOKFields, AccountsDistinct
  <2>2. QED  BY <2>1
<1>2. CASE UserStep
    BY <1>2 DEF UserStep
<1>3. CASE ExecuteStep
    BY <1>3 DEF ExecuteStep
<1>4. CASE EnvironmentStep
    BY <1>1, <1>4 DEF EnvironmentStep
<1>5. QED  BY <1>2, <1>3, <1>4 DEF Next

LEMMA StepHistoryInv ==
    ASSUME IInv, HistoryInv, [Next]_vars
    PROVE  HistoryInv'
<1>1. TypeOK
    BY DEF IInv
<1>2. CASE \E u \in Users, w \in Terms : CreateIntent(u, w) \/ CreateAndFundIntent(u, w)
    BY <1>2, CreateIntentHistoryInv, CreateAndFundIntentHistoryInv
<1>3. CASE \E u \in Users, id \in IntentIds : FundIntent(u, id) \/ CancelIntent(u, id)
    BY <1>3, FundIntentHistoryInv, CancelIntentHistoryInv
<1>4. CASE \E id \in IntentIds, subject \in IntentIds, r \in RouteTerms,
              signer \in Signers, data \in AdapterCalls :
                EnterExecute(Authorization(id, subject, r), signer, data)
    BY <1>4, EnterExecuteHistoryInv
<1>5. CASE \E t \in Tokens : LeaveExecute(t)
    BY <1>5, LeaveExecuteHistoryInv
<1>6. CASE RevertExecute
    BY <1>6, RevertExecuteHistoryInv
<1>7. CASE \E a \in Adapters, t \in Tokens, n \in Nat : AdapterPays(a, t, n)
    BY <1>7, AdapterPaysHistoryInv
<1>8. CASE AdminStep \/ Tick \/ UNCHANGED vars
    BY <1>8, AdminHistoryInv
<1>9. QED  BY <1>1, <1>2, <1>3, <1>4, <1>5, <1>6, <1>7, <1>8, RouterSteps

(* The events, the nonces and the accounts of the storage, and of the        *)
(* checkpoint a revert would restore, agree with the statuses at all times,  *)
(* and an open window has passed every check of executeIntent.               *)
THEOREM HistoryCorrect == Spec => []HistoryInv
<1>1. Init => HistoryInv
    BY InitHistoryInv
<1>2. IInv /\ HistoryInv /\ [Next]_vars => HistoryInv'
    BY StepHistoryInv
<1>3. QED  BY <1>1, <1>2, InductiveInvariant, PTL DEF Spec

(* An intent is settled at most once, by a refund or by an execution. *)
THEOREM SettlesOnce == Spec => []SingleSettlement
<1>1. HistoryInv => SingleSettlement
    BY DEF HistoryInv, StorageInv, EventsInv, SingleSettlement
<1>2. QED  BY <1>1, HistoryCorrect, PTL

(* No two intents of an owner share a nonce, through all reverts. *)
THEOREM NoncesIdentify == Spec => []NonceIdentifiesIntent
<1>1. HistoryInv => NonceIdentifiesIntent
    BY DEF HistoryInv, StorageInv, NoncesInv, NonceIdentifiesIntent
<1>2. QED  BY <1>1, HistoryCorrect, PTL

(* Every owner's wallet holds what it started with, less the deposits that  *)
(* were not refunded, plus the outputs reported by IntentExecuted.          *)
THEOREM OwnersAccounted == Spec => []OwnerAccounting
<1>1. HistoryInv => OwnerAccounting
    BY DEF HistoryInv, StorageInv, OwnerAccounting
<1>2. QED  BY <1>1, HistoryCorrect, PTL

-----------------------------------------------------------------------------
(* What a step may never do.                                               *)

LEMMA SettledStep ==
    ASSUME IInv, HistoryInv, [Next]_vars, NEW id \in IntentIds,
           status[id] \in {"Executed", "Cancelled"}
    PROVE  status'[id] = status[id]
<1>1. TypeOK /\ status \in [IntentIds -> Statuses]
    BY TypeOKFields DEF IInv
<1>2. ASSUME NEW u \in Users, NEW w \in Terms, CreateIntent(u, w) \/ CreateAndFundIntent(u, w)
      PROVE  status'[id] = status[id]
    BY <1>1, <1>2 DEF CreateIntent, CreateAndFundIntent, NewIntent
<1>3. ASSUME NEW u \in Users, NEW i \in IntentIds, FundIntent(u, i) \/ CancelIntent(u, i)
      PROVE  status'[id] = status[id]
    BY <1>1, <1>3 DEF FundIntent, MayFund, MayFundInsideWindow, CancelIntent, MayCancel,
                      MayCancelInsideWindow
<1>4. ASSUME NEW t \in Tokens, LeaveExecute(t)
      PROVE  status'[id] = status[id]
    BY <1>1, <1>4, LeaveExecuteEffect
<1>5. CASE RevertExecute
    BY <1>5 DEF RevertExecute, NotEntered, HistoryInv, WindowInv
<1>6. ASSUME NEW i \in IntentIds, NEW subject \in IntentIds, NEW r \in RouteTerms,
             NEW signer \in Signers, NEW data \in AdapterCalls,
             EnterExecute(Authorization(i, subject, r), signer, data)
      PROVE  status'[id] = status[id]
    BY <1>6 DEF EnterExecute
<1>7. ASSUME NEW a \in Adapters, NEW t \in Tokens, NEW n \in Nat, AdapterPays(a, t, n)
      PROVE  status'[id] = status[id]
    BY <1>7 DEF AdapterPays
<1>8. CASE AdminStep \/ Tick \/ UNCHANGED vars
    BY <1>8 DEF AdminStep, SetAdapter, SetTeeSigner, SetPaused, TransferOwnership, Tick, vars
<1>9. QED  BY <1>1, <1>2, <1>3, <1>4, <1>5, <1>6, <1>7, <1>8, RouterSteps

(* An executed or cancelled intent keeps its status, whatever is called and  *)
(* whatever is reverted afterwards.                                          *)
THEOREM SettlementIsFinal == Spec => SettledIsFinal
<1>1. IInv /\ HistoryInv /\ [Next]_vars =>
        [\A id \in IntentIds : status[id] \in {"Executed", "Cancelled"} =>
           status'[id] = status[id]]_vars
    BY SettledStep
<1>2. QED  BY <1>1, InductiveInvariant, HistoryCorrect, PTL DEF Spec, SettledIsFinal

(* Only the end of a window makes an intent executed. *)
LEMMA ExecutedByLeave ==
    ASSUME IInv, HistoryInv, [Next]_vars, NEW id \in IntentIds,
           status[id] # "Executed", status'[id] = "Executed"
    PROVE  call.auth.intentId = id /\ \E t \in Tokens : LeaveExecute(t)
<1>1. TypeOK /\ status \in [IntentIds -> Statuses]
    BY TypeOKFields DEF IInv
<1>2. ASSUME NEW u \in Users, NEW w \in Terms, CreateIntent(u, w) \/ CreateAndFundIntent(u, w)
      PROVE  FALSE
    BY <1>1, <1>2 DEF CreateIntent, CreateAndFundIntent, NewIntent
<1>3. ASSUME NEW u \in Users, NEW i \in IntentIds, FundIntent(u, i) \/ CancelIntent(u, i)
      PROVE  FALSE
    BY <1>1, <1>3 DEF FundIntent, CancelIntent
<1>4. ASSUME NEW t \in Tokens, LeaveExecute(t)
      PROVE  call.auth.intentId = id
    BY <1>1, <1>4, LeaveExecuteEffect
<1>5. CASE RevertExecute
    BY <1>5 DEF RevertExecute, NotEntered, HistoryInv, WindowInv
<1>6. ASSUME NEW i \in IntentIds, NEW subject \in IntentIds, NEW r \in RouteTerms,
             NEW signer \in Signers, NEW data \in AdapterCalls,
             EnterExecute(Authorization(i, subject, r), signer, data)
      PROVE  FALSE
    BY <1>6 DEF EnterExecute
<1>7. ASSUME NEW a \in Adapters, NEW t \in Tokens, NEW n \in Nat, AdapterPays(a, t, n)
      PROVE  FALSE
    BY <1>7 DEF AdapterPays
<1>8. CASE AdminStep \/ Tick \/ UNCHANGED vars
    BY <1>8 DEF AdminStep, SetAdapter, SetTeeSigner, SetPaused, TransferOwnership, Tick, vars
<1>9. QED  BY <1>1, <1>2, <1>3, <1>4, <1>5, <1>6, <1>7, <1>8, RouterSteps

LEMMA ExecutionStep ==
    ASSUME IInv, HistoryInv, [Next]_vars, NEW id \in IntentIds,
           status[id] # "Executed", status'[id] = "Executed"
    PROVE  LET auth == call.auth IN
           /\ auth.intentId = id
           /\ now <= auth.deadline /\ now < id.expiry
           /\ auth = Authorization(id, id, auth)
           /\ call.before.status[id] = "Funded"
           /\ ~call.before.paused
           /\ call.before.teeSigner = call.signer
           /\ auth.adapter \in call.before.allowedAdapters
           /\ auth.tokenOut \in StandardTokens =>
                balance'[auth.tokenOut][id.owner]
                  >= balance[auth.tokenOut][id.owner] + auth.minimumOutput
<1>1. PICK t \in Tokens : LeaveExecute(t)
    BY ExecutedByLeave
<1>2. call.auth.intentId = id
    BY ExecutedByLeave
<1>3. PICK n \in Nat : /\ call # NoCall /\ call \in Frames /\ t = call.auth.tokenOut
                       /\ n >= call.auth.minimumOutput
                       /\ balance[t][Router] >= n
                       /\ balance' = Transfer(t, Router, id.owner, n)
    BY <1>1, <1>2, LeaveExecuteEffect
<1>4. t \in StandardTokens =>
        balance'[t][id.owner] >= balance[t][id.owner] + call.auth.minimumOutput
  <2>1. /\ id.owner \in Accounts /\ Router \in Accounts /\ id.owner # Router
        /\ balance \in [Tokens -> [Accounts -> Nat]]
        /\ call.auth.minimumOutput \in Nat
      BY <1>3, IntentFields, AccountsDistinct, AuthorizationFields, TypeOKFields
         DEF IInv, Frames
  <2>2. t \in StandardTokens => balance'[t][id.owner] = balance[t][id.owner] + n
      BY <1>3, <2>1, TransferMoves
  <2>3. QED  BY <1>3, <2>1, <2>2
<1>5. QED  BY <1>2, <1>3, <1>4 DEF HistoryInv, WindowInv

(* An execution commits only under an authorization that matches its intent *)
(* field by field, signed by the key and for an adapter the contract        *)
(* trusted when the transaction began, in time, and for the signed minimum. *)
THEOREM ExecutionIsAuthorized == Spec => ExecutionsAuthorized
<1>1. IInv /\ HistoryInv /\ [Next]_vars =>
        [\A id \in IntentIds :
           status[id] # "Executed" /\ status'[id] = "Executed" =>
             LET auth == call.auth IN
             /\ auth.intentId = id
             /\ now <= auth.deadline /\ now < id.expiry
             /\ auth = Authorization(id, id, auth)
             /\ call.before.status[id] = "Funded"
             /\ ~call.before.paused
             /\ call.before.teeSigner = call.signer
             /\ auth.adapter \in call.before.allowedAdapters
             /\ auth.tokenOut \in StandardTokens =>
                  balance'[auth.tokenOut][id.owner]
                    >= balance[auth.tokenOut][id.owner] + auth.minimumOutput]_vars
    BY ExecutionStep
<1>2. QED  BY <1>1, InductiveInvariant, HistoryCorrect, PTL DEF Spec, ExecutionsAuthorized

-----------------------------------------------------------------------------
(* The router implements the escrow of IntentEscrow: each step is one of its *)
(* steps or a stutter, seen at transaction boundaries.                       *)

Wallet(bal) == [t \in StandardTokens |-> [u \in Owners |-> bal[t][u]]]
EscrowStep == [Escrow!EscrowNext]_<<Committed.status, Wallet(Committed.balance), now>>

LEMMA CommittedOutside ==
    call = NoCall => Committed.status = status /\ Committed.balance = balance
BY DEF Committed, NotEntered, Storage

(* Inside a window, and when it reverts, nothing has happened yet. *)
LEMMA WindowStutters ==
    ASSUME call # NoCall, UNCHANGED <<call, now>> \/ RevertExecute
    PROVE  UNCHANGED <<Committed.status, Committed.balance, now>>
<1>1. CASE UNCHANGED <<call, now>>
    BY <1>1 DEF Committed, NotEntered
<1>2. CASE RevertExecute
    BY <1>2 DEF RevertExecute, Committed, NotEntered, Storage
<1>3. QED  BY <1>1, <1>2

LEMMA StutterIsEscrowStep ==
    ASSUME UNCHANGED <<Committed.status, Committed.balance, now>>
    PROVE  EscrowStep
BY DEF EscrowStep, Wallet

LEMMA CreateIntentEscrow ==
    ASSUME IInv, NEW u \in Users, NEW w \in Terms, CreateIntent(u, w)
    PROVE  EscrowStep
<1>1. NewIntent(u, w, "Created") /\ UNCHANGED <<adminVars, balance, log, call, now>>
    BY DEF CreateIntent
<1>2. CASE call # NoCall
    BY <1>1, <1>2, WindowStutters, StutterIsEscrowStep
<1>3. CASE call = NoCall
  <2>1. PICK id \in IntentIds : /\ id = IntentId(u, w, nextIntentNonce[u])
                                /\ status[id] = "None"
                                /\ status' = [status EXCEPT ![id] = "Created"]
      BY <1>1, NewIntentEffect DEF Statuses
  <2>2. id.expiry > now
      BY <1>1, <2>1 DEF NewIntent, IntentId
  <2>3. /\ Committed.status = status /\ Committed.balance = balance
        /\ Committed'.status = status' /\ Committed'.balance = balance'
      BY <1>1, <1>3 DEF Committed, NotEntered, Storage
  <2>4. id \in Escrow!Fresh
      BY <2>1, <2>2, <2>3 DEF Escrow!Fresh
  <2>5. status' = [i \in IntentIds |-> IF i \in {id} THEN "Created" ELSE status[i]]
      BY <2>1, TypeOKFields DEF IInv
  <2>6. Escrow!Open({id})
      BY <1>1, <2>3, <2>5 DEF Escrow!Open, Escrow!Opened
  <2>7. QED  BY <2>4, <2>6 DEF EscrowStep, Escrow!EscrowNext
<1>4. QED  BY <1>2, <1>3

(* The wallets after a transfer between an owner and the router. *)
LEMMA DepositCredit ==
    ASSUME IInv, NEW id \in IntentIds, id.tokenIn \in Tokens,
           CanPay(id.tokenIn, id.owner, id.amount),
           balance' = Transfer(id.tokenIn, id.owner, Router, id.amount)
    PROVE  Wallet(balance') = Escrow!Credit(Wallet(balance), id.tokenIn, id.owner, -id.amount)
<1>1. /\ balance \in [Tokens -> [Accounts -> Nat]]
      /\ id.owner \in Accounts /\ id.owner # Router /\ Router \in Accounts /\ id.amount \in Nat
    BY TypeOKFields, IntentFields, AccountsDistinct DEF IInv
<1>2. balance'[id.tokenIn][id.owner] = balance[id.tokenIn][id.owner] - id.amount
    BY <1>1, TransferMoves DEF CanPay
<1>3. \A t \in StandardTokens, u \in Owners :
        t # id.tokenIn \/ u # id.owner => balance'[t][u] = balance[t][u]
  <2>1. \A u \in Owners : u \in Accounts /\ u # Router
      BY AccountsDistinct DEF Owners
  <2>2. QED  BY <1>1, <2>1, TransferElsewhere DEF StandardTokens
<1>4. balance[id.tokenIn][id.owner] - id.amount = balance[id.tokenIn][id.owner] + (-id.amount)
    BY <1>1
<1>5. \A t \in StandardTokens, u \in Owners :
        balance'[t][u] = IF t = id.tokenIn /\ u = id.owner THEN balance[t][u] + (-id.amount)
                                                           ELSE balance[t][u]
    BY <1>2, <1>3, <1>4
<1>6. QED  BY <1>5 DEF Wallet, Escrow!Credit

LEMMA RefundCredit ==
    ASSUME IInv, NEW id \in IntentIds, id.tokenIn \in Tokens,
           balance[id.tokenIn][Router] >= id.amount,
           balance' = Transfer(id.tokenIn, Router, id.owner, id.amount)
    PROVE  Wallet(balance') = Escrow!Credit(Wallet(balance), id.tokenIn, id.owner, id.amount)
<1>1. /\ balance \in [Tokens -> [Accounts -> Nat]]
      /\ id.owner \in Accounts /\ id.owner # Router /\ Router \in Accounts /\ id.amount \in Nat
    BY TypeOKFields, IntentFields, AccountsDistinct DEF IInv
<1>2. id.tokenIn \in StandardTokens =>
        balance'[id.tokenIn][id.owner] = balance[id.tokenIn][id.owner] + id.amount
    BY <1>1, TransferMoves
<1>3. \A t \in StandardTokens, u \in Owners :
        t # id.tokenIn \/ u # id.owner => balance'[t][u] = balance[t][u]
  <2>1. \A u \in Owners : u \in Accounts /\ u # Router
      BY AccountsDistinct DEF Owners
  <2>2. QED  BY <1>1, <2>1, TransferElsewhere DEF StandardTokens
<1>4. \A t \in StandardTokens, u \in Owners :
        balance'[t][u] = IF t = id.tokenIn /\ u = id.owner THEN balance[t][u] + id.amount
                                                           ELSE balance[t][u]
    BY <1>2, <1>3
<1>5. QED  BY <1>4 DEF Wallet, Escrow!Credit

LEMMA DepositEscrow ==
    ASSUME IInv, call = NoCall, UNCHANGED <<call, now>>,
           NEW id \in IntentIds, status[id] \in {"None", "Created"}, id.tokenIn \in Tokens,
           id.expiry > now,
           status' = [status EXCEPT ![id] = "Funded"],
           CanPay(id.tokenIn, id.owner, id.amount),
           balance' = Transfer(id.tokenIn, id.owner, Router, id.amount)
    PROVE  EscrowStep
<1>1. /\ Committed.status = status /\ Committed.balance = balance
      /\ Committed'.status = status' /\ Committed'.balance = balance'
    BY DEF Committed, NotEntered, Storage
<1>2. Wallet(balance') = Escrow!Credit(Wallet(balance), id.tokenIn, id.owner, -id.amount)
    BY DepositCredit
<1>3. Escrow!Fund(id)
    BY <1>1, <1>2 DEF Escrow!Fund, Wallet
<1>4. QED  BY <1>3 DEF EscrowStep, Escrow!EscrowNext

LEMMA CreateAndFundIntentEscrow ==
    ASSUME IInv, NEW u \in Users, NEW w \in Terms, CreateAndFundIntent(u, w)
    PROVE  EscrowStep
<1>1. /\ NewIntent(u, w, "Funded") /\ call = NoCall /\ UNCHANGED <<call, now>>
      /\ CanPay(w.tokenIn, u, w.amount)
      /\ balance' = Transfer(w.tokenIn, u, Router, w.amount)
    BY DEF CreateAndFundIntent, NotEntered
<1>2. PICK id \in IntentIds : /\ id = IntentId(u, w, nextIntentNonce[u])
                              /\ id.owner = u /\ id.tokenIn = w.tokenIn /\ id.amount = w.amount
                              /\ id.tokenIn \in Tokens
                              /\ status[id] = "None"
                              /\ status' = [status EXCEPT ![id] = "Funded"]
    BY <1>1, NewIntentEffect DEF Statuses
<1>3. id.expiry > now
    BY <1>1, <1>2 DEF NewIntent, IntentId
<1>4. QED  BY <1>1, <1>2, <1>3, DepositEscrow

LEMMA FundIntentEscrow ==
    ASSUME IInv, NEW u \in Users, NEW id \in IntentIds, FundIntent(u, id)
    PROVE  EscrowStep
<1>1. /\ call = NoCall /\ id.owner = u /\ status[id] = "Created" /\ id.expiry > now
      /\ CanPay(id.tokenIn, id.owner, id.amount)
      /\ status' = [status EXCEPT ![id] = "Funded"]
      /\ balance' = Transfer(id.tokenIn, id.owner, Router, id.amount)
      /\ UNCHANGED <<call, now>>
    BY DEF FundIntent, MayFund, MayFundInsideWindow, NotEntered
<1>2. id.tokenIn \in Tokens
    BY <1>1 DEF IInv, CreatedInv
<1>3. QED  BY <1>1, <1>2, DepositEscrow

LEMMA CancelIntentEscrow ==
    ASSUME IInv, NEW u \in Users, NEW id \in IntentIds, CancelIntent(u, id)
    PROVE  EscrowStep
<1>1. /\ call = NoCall /\ status[id] \in {"Created", "Funded"}
      /\ status' = [status EXCEPT ![id] = "Cancelled"]
      /\ UNCHANGED <<call, now>>
    BY DEF CancelIntent, MayCancel, MayCancelInsideWindow, NotEntered
<1>2. id.tokenIn \in Tokens /\ id.amount \in Nat
    BY <1>1, IntentFields DEF IInv, CreatedInv
<1>3. /\ Committed.status = status /\ Committed.balance = balance
      /\ Committed'.status = status' /\ Committed'.balance = balance'
    BY <1>1 DEF Committed, NotEntered, Storage
<1>4. Wallet(balance') = IF status[id] = "Funded"
                         THEN Escrow!Credit(Wallet(balance), id.tokenIn, id.owner, id.amount)
                         ELSE Wallet(balance)
  <2>1. CASE Refund(id) # 0
    <3>1. /\ status[id] = "Funded"
          /\ balance[id.tokenIn][Router] >= id.amount
          /\ balance' = Transfer(id.tokenIn, Router, id.owner, id.amount)
        BY <1>1, <2>1 DEF Refund, CancelIntent, CanPay
    <3>2. QED  BY <1>2, <3>1, RefundCredit
  <2>2. CASE Refund(id) = 0
    <3>1. balance' = balance
        BY <2>2 DEF CancelIntent
    <3>2. CASE status[id] # "Funded"
        BY <3>1, <3>2
    <3>3. CASE status[id] = "Funded"
      <4>1. id.amount = 0
          BY <2>2, <3>3 DEF Refund
      <4>2. \A t \in StandardTokens, u1 \in Owners : balance[t][u1] + 0 = balance[t][u1]
        <5>1. \A t \in StandardTokens, u1 \in Owners : balance[t][u1] \in Nat
            BY TypeOKFields, AccountsDistinct DEF IInv, StandardTokens, Owners
        <5>2. QED  BY <5>1
      <4>3. QED  BY <3>1, <3>3, <4>1, <4>2 DEF Wallet, Escrow!Credit
    <3>4. QED  BY <3>2, <3>3
  <2>3. QED  BY <2>1, <2>2
<1>5. Escrow!Refund(id)
    BY <1>1, <1>3, <1>4 DEF Escrow!Refund, Wallet
<1>6. QED  BY <1>5 DEF EscrowStep, Escrow!EscrowNext

LEMMA LeaveExecuteEscrow ==
    ASSUME IInv, HistoryInv, NEW tokenOut \in Tokens, LeaveExecute(tokenOut)
    PROVE  EscrowStep
<1> DEFINE id == call.auth.intentId
           before == call.before
           S == {i \in IntentIds : status[i] # before.status[i]}
<1>1. PICK n \in Nat :
        /\ call # NoCall /\ call \in Frames /\ tokenOut = call.auth.tokenOut
        /\ id \in IntentIds
        /\ n >= call.auth.minimumOutput
        /\ balance[tokenOut][Router] >= n
        /\ status' = [status EXCEPT ![id] = "Executed"]
        /\ balance' = Transfer(tokenOut, Router, id.owner, n)
        /\ call' = NoCall /\ now' = now
    BY LeaveExecuteEffect
<1>2. /\ status \in [IntentIds -> Statuses]
      /\ balance \in [Tokens -> [Accounts -> Nat]]
      /\ id.owner \in Accounts /\ id.owner # Router /\ Router \in Accounts
      /\ call.auth.minimumOutput \in Nat
    BY <1>1, TypeOKFields, IntentFields, AccountsDistinct, AuthorizationFields DEF IInv, Frames
<1>3. PICK r \in RouteTerms : /\ r.tokenOut = tokenOut
                              /\ r.minimumOutput = call.auth.minimumOutput
    BY <1>1 DEF Frames, Authorizations, Authorization
<1>4. /\ Committed.status = before.status /\ Committed.balance = before.balance
      /\ Committed'.status = status' /\ Committed'.balance = balance'
    BY <1>1 DEF Committed, NotEntered, Storage
<1>5. /\ \A i \in S : before.status[i] = "None" /\ status[i] = "Created" /\ i.expiry > now
      /\ \A t \in Tokens, u \in Owners : balance[t][u] = before.balance[t][u]
      /\ before.status[id] = "Funded" /\ now < id.expiry
    BY <1>1 DEF HistoryInv, WindowInv
<1>6. S \in SUBSET Escrow!Fresh
    BY <1>4, <1>5 DEF Escrow!Fresh
<1>7. status = Escrow!Opened(S)
  <2>1. \A i \in IntentIds : status[i] = IF i \in S THEN "Created" ELSE before.status[i]
      BY <1>5
  <2> HIDE DEF S, before
  <2>2. QED  BY <1>2, <1>4, <2>1 DEF Escrow!Opened
<1> HIDE DEF S
<1>8. status' = [Escrow!Opened(S) EXCEPT ![id] = "Executed"]
    BY <1>1, <1>7
<1> HIDE DEF id
<1>9. balance' \in [Tokens -> [Accounts -> Nat]]
    BY <1>1, <1>2, TransferMoves
<1>10. \A t \in StandardTokens, u \in Owners : t \in Tokens /\ u \in Accounts /\ u # Router
    BY AccountsDistinct DEF StandardTokens, Owners
<1>11. \A t \in StandardTokens, u \in Owners : balance'[t][u] \in Nat
    BY <1>9, <1>10
<1>12. ASSUME NEW t \in StandardTokens, NEW u \in Owners
       PROVE  IF t = r.tokenOut /\ u = id.owner
              THEN balance'[t][u] >= before.balance[t][u] + r.minimumOutput
              ELSE balance'[t][u] = before.balance[t][u]
  <2>1. before.balance[t][u] = balance[t][u]
      BY <1>5, <1>10
  <2>2. CASE t = tokenOut /\ u = id.owner
    <3>1. balance'[t][u] = balance[t][u] + n
        BY <1>1, <1>2, <2>2, TransferMoves
    <3>2. balance[t][u] \in Nat
        BY <1>2, <1>10
    <3>3. QED  BY <1>1, <1>2, <1>3, <2>1, <2>2, <3>1, <3>2
  <2>3. CASE ~(t = tokenOut /\ u = id.owner)
    <3>1. balance'[t][u] = balance[t][u]
        BY <1>1, <1>2, <1>10, <2>3, TransferElsewhere
    <3>2. QED  BY <1>3, <2>1, <2>3, <3>1
  <2>4. QED  BY <2>2, <2>3
<1> HIDE DEF before
<1>13. PICK i \in IntentIds, opened \in SUBSET Escrow!Fresh : i = id /\ opened = S
    BY <1>1, <1>6 DEF id
<1>14. Escrow!Exchange(i, opened, r)
  <2>1. Committed'.status = [Escrow!Opened(opened) EXCEPT ![i] = "Executed"]
      BY <1>4, <1>8, <1>13
  <2>2. Committed.status[i] = "Funded" /\ i.expiry > now /\ now' = now
      BY <1>1, <1>4, <1>5, <1>13 DEF id
  <2>3. QED  BY <1>4, <1>11, <1>12, <1>13, <2>1, <2>2 DEF Escrow!Exchange
<1>15. Escrow!EscrowNext
    BY <1>3, <1>13, <1>14 DEF Escrow!EscrowNext
<1>16. QED  BY <1>15 DEF EscrowStep

LEMMA EnterExecuteEscrow ==
    ASSUME IInv, HistoryInv, NEW auth \in Authorizations, NEW signer \in Signers, NEW data,
           EnterExecute(auth, signer, data)
    PROVE  EscrowStep
<1>1. call = NoCall /\ call' = Frame(auth, signer) /\ now' = now
    BY DEF EnterExecute, NotEntered
<1>2. call' \in Frames
    BY <1>1 DEF Frame, Frames, IInv, TypeOK
<1>3. call' # NoCall /\ call'.before = Storage
    BY <1>1, <1>2, ConstantsAssumption DEF Frame
<1>4. Committed' = Committed
    BY <1>1, <1>3 DEF Committed, NotEntered
<1>5. QED  BY <1>1, <1>4, StutterIsEscrowStep

(* Administration and donations are no business of the escrow; time passes. *)
LEMMA OtherEscrow ==
    ASSUME UNCHANGED <<status, balance, call, now>> \/ Tick \/ (\E a, t, n : AdapterPays(a, t, n)),
           IInv, \A t \in StandardTokens, u \in Owners : balance'[t][u] = balance[t][u]
    PROVE  EscrowStep
<1>1. UNCHANGED <<status, call>> /\ (now' = now \/ Tick)
    BY DEF Tick, AdapterPays
<1>2. UNCHANGED <<Committed.status, Wallet(Committed.balance)>>
  <2>1. CASE call = NoCall
    <3>1. /\ Committed.status = status /\ Committed.balance = balance
          /\ Committed'.status = status' /\ Committed'.balance = balance'
        BY <1>1, <2>1 DEF Committed, NotEntered, Storage
    <3>2. Wallet(balance') = Wallet(balance)
        BY DEF Wallet
    <3>3. QED  BY <1>1, <3>1, <3>2
  <2>2. CASE call # NoCall
      BY <1>1, <2>2 DEF Committed, NotEntered
  <2>3. QED  BY <2>1, <2>2
<1>3. CASE now' = now
    BY <1>2, <1>3 DEF EscrowStep
<1>4. CASE Tick
  <2>1. now' \in now..MaxTime
      BY <1>4, TypeOKFields, ConstantsAssumption DEF Tick, IInv
  <2>2. Escrow!Pass
      BY <1>2, <2>1 DEF Escrow!Pass, Wallet
  <2>3. QED  BY <2>2 DEF EscrowStep, Escrow!EscrowNext
<1>5. QED  BY <1>1, <1>3, <1>4

LEMMA RouterStepIsEscrowStep ==
    ASSUME IInv, HistoryInv, [Next]_vars
    PROVE  EscrowStep
<1>1. TypeOK
    BY DEF IInv
<1>2. CASE \E u \in Users, w \in Terms : CreateIntent(u, w) \/ CreateAndFundIntent(u, w)
    BY <1>2, CreateIntentEscrow, CreateAndFundIntentEscrow
<1>3. CASE \E u \in Users, id \in IntentIds : FundIntent(u, id) \/ CancelIntent(u, id)
    BY <1>3, FundIntentEscrow, CancelIntentEscrow
<1>4. CASE \E id \in IntentIds, subject \in IntentIds, r \in RouteTerms,
              signer \in Signers, data \in AdapterCalls :
                EnterExecute(Authorization(id, subject, r), signer, data)
    BY <1>4, EnterExecuteEscrow DEF Authorizations
<1>5. CASE \E t \in Tokens : LeaveExecute(t)
    BY <1>5, LeaveExecuteEscrow
<1>6. CASE RevertExecute
    BY <1>6, WindowStutters, StutterIsEscrowStep DEF RevertExecute, NotEntered
<1>7. ASSUME NEW a \in Adapters, NEW t \in Tokens, NEW n \in Nat, AdapterPays(a, t, n)
      PROVE  EscrowStep
  <2>1. \A u \in Owners : u \in Accounts /\ u \notin {a, Router}
      BY AccountsDistinct DEF Owners
  <2>2. \A s \in StandardTokens, u \in Owners : balance'[s][u] = balance[s][u]
      BY <1>7, <2>1, TransferElsewhere, TypeOKFields DEF IInv, AdapterPays, StandardTokens
  <2>3. QED  BY <1>7, <2>2, OtherEscrow
<1>8. CASE AdminStep \/ Tick \/ UNCHANGED vars
  <2>1. UNCHANGED balance /\ (UNCHANGED <<status, balance, call, now>> \/ Tick)
      BY <1>8 DEF AdminStep, SetAdapter, SetTeeSigner, SetPaused, TransferOwnership, Tick, vars
  <2>2. QED  BY <2>1, OtherEscrow
<1>9. QED  BY <1>1, <1>2, <1>3, <1>4, <1>5, <1>6, <1>7, <1>8, RouterSteps

(* ShadowRouter implements IntentEscrow: an intent is opened, funded from its *)
(* owner's wallet, and then refunded in full or exchanged for at least the    *)
(* minimum of a route, before it expires, once; nothing else moves a wallet.  *)
THEOREM RouterImplementsEscrow == Spec => ImplementsEscrow
<1>1. Init => Escrow!EscrowInit
  <2> SUFFICES ASSUME Init PROVE Escrow!EscrowInit
      OBVIOUS
  <2>1. Committed.status = status /\ Committed.balance = balance
      BY CommittedOutside DEF Init
  <2>2. QED  BY <2>1 DEF Init, Escrow!EscrowInit
<1>2. IInv /\ HistoryInv /\ [Next]_vars => [Escrow!EscrowNext]_Escrow!escrowVars
  <2>1. EscrowStep => [Escrow!EscrowNext]_Escrow!escrowVars
      BY DEF EscrowStep, Escrow!escrowVars, Wallet
  <2>2. QED  BY <2>1, RouterStepIsEscrowStep
<1>3. QED
    BY <1>1, <1>2, InductiveInvariant, HistoryCorrect, PTL
       DEF Spec, ImplementsEscrow, Escrow!Spec
=============================================================================
