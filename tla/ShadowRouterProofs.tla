------------------------- MODULE ShadowRouterProofs -------------------------
(***************************************************************************)
(* Proofs about ShadowRouter for every set of users, tokens, adapters,     *)
(* keys, terms and routes, and every bound on nonces and time.             *)
(***************************************************************************)
EXTENDS ShadowRouter, FiniteSetTheorems, FunctionTheorems, TLAPS

-----------------------------------------------------------------------------
(* The value of a set of records: the sum of their amounts.                *)

HasAmounts(S) == IsFiniteSet(S) /\ \A x \in S : x.amount \in Nat

(* One record of amount n contributes n units. *)
LEMMA UnitsOfOne ==
    ASSUME NEW x, x.amount \in Nat
    PROVE  /\ IsFiniteSet({x} \X (1..x.amount))
           /\ Cardinality({x} \X (1..x.amount)) = x.amount
<1> DEFINE n == x.amount
           f == [k \in 1..n |-> <<x, k>>]
<1>1. IsFiniteSet(1..n) /\ Cardinality(1..n) = n
    BY FS_Interval
<1>2. f \in Bijection(1..n, {x} \X (1..n))
  <2>1. f \in [1..n -> {x} \X (1..n)]
      OBVIOUS
  <2>2. \A i, j \in 1..n : f[i] = f[j] => i = j
      OBVIOUS
  <2>3. \A t \in {x} \X (1..n) : \E k \in 1..n : f[k] = t
      OBVIOUS
  <2>4. QED  BY <2>1, <2>2, <2>3, Fun_IsBij
<1>3. ExistsBijection(1..n, {x} \X (1..n))
    BY <1>2 DEF ExistsBijection
<1>4. QED  BY <1>1, <1>3, FS_Bijection

(* A finite set of records has finitely many units, a natural number of them. *)
LEMMA ValueType ==
    ASSUME NEW S, HasAmounts(S)
    PROVE  IsFiniteSet(Units(S)) /\ Value(S) \in Nat
<1> DEFINE T == {{x} \X (1..x.amount) : x \in S}
           f == [x \in S |-> {x} \X (1..x.amount)]
<1>1. f \in Surjection(S, T)
    BY DEF Surjection
<1>2. IsFiniteSet(T)
    BY <1>1, FS_Surjection DEF HasAmounts
<1>3. \A y \in T : IsFiniteSet(y)
    BY UnitsOfOne DEF HasAmounts
<1>4. IsFiniteSet(UNION T)
    BY <1>2, <1>3, FS_UNION
<1>5. QED  BY <1>4, FS_CardinalityType DEF Units, Value

(* Adding a record adds its amount. *)
LEMMA ValueAdd ==
    ASSUME NEW S, HasAmounts(S), NEW y, y \notin S, y.amount \in Nat
    PROVE  /\ HasAmounts(S \cup {y})
           /\ Value(S \cup {y}) = Value(S) + y.amount
<1> DEFINE U == {y} \X (1..y.amount)
<1>1. HasAmounts(S \cup {y})
    BY FS_AddElement DEF HasAmounts
<1>2. Units(S \cup {y}) = Units(S) \cup U
    BY DEF Units
<1>3. Units(S) \cap U = {}
    BY DEF Units
<1>4. IsFiniteSet(U) /\ Cardinality(U) = y.amount
    BY UnitsOfOne
<1>5. IsFiniteSet(Units(S)) /\ Value(S) \in Nat
    BY ValueType
<1> HIDE DEF U
<1>6. Cardinality(Units(S) \cup U)
        = Cardinality(Units(S)) + Cardinality(U) - Cardinality(Units(S) \cap U)
    BY <1>4, <1>5, FS_Union
<1>7. Cardinality(Units(S) \cap U) = 0
    BY <1>3, FS_EmptySet, Zenon
<1>8. Value(S \cup {y}) = Value(S) + Cardinality(U) - 0
    BY <1>2, <1>6, <1>7, Zenon DEF Value
<1>9. Value(S \cup {y}) = Value(S) + y.amount
    BY <1>4, <1>5, <1>8
<1>10. QED  BY <1>1, <1>9

(* Removing a record takes its amount away. *)
LEMMA ValueRemove ==
    ASSUME NEW S, HasAmounts(S), NEW y \in S
    PROVE  /\ HasAmounts(S \ {y})
           /\ Value(S \ {y}) = Value(S) - y.amount
<1>1. HasAmounts(S \ {y}) /\ y.amount \in Nat
    BY FS_RemoveElement DEF HasAmounts
<1>2. (S \ {y}) \cup {y} = S
    OBVIOUS
<1>3. Value((S \ {y}) \cup {y}) = Value(S \ {y}) + y.amount
    BY <1>1, ValueAdd
<1>4. Value(S \ {y}) \in Nat
    BY <1>1, ValueType
<1>5. Value(S) = Value(S \ {y}) + y.amount
    BY <1>2, <1>3
<1>6. QED  BY <1>1, <1>4, <1>5

-----------------------------------------------------------------------------
(* Types of the constants the actions work with.                           *)

LEMMA IntentFields ==
    \A id \in IntentIds : /\ id.owner \in Users
                          /\ id.tokenIn \in Tokens \cup {ZeroAddress}
                          /\ id.amount \in Nat
BY ConstantsAssumption DEF IntentIds, IntentId

LEMMA NewIntentFields ==
    ASSUME NEW u \in Users, NEW w \in Terms, NEW n \in 0..(MaxNonce - 1)
    PROVE  /\ IntentId(u, w, n) \in IntentIds
           /\ IntentId(u, w, n).owner = u
           /\ IntentId(u, w, n).tokenIn = w.tokenIn
           /\ IntentId(u, w, n).amount = w.amount
BY DEF IntentIds, IntentId

LEMMA AuthorizationFields ==
    \A auth \in Authorizations : /\ auth.intentId \in IntentIds
                                 /\ auth.adapter \in Adapters
                                 /\ auth.minimumOutput \in Nat
BY ConstantsAssumption DEF Authorizations, Authorization

LEMMA AccountsDistinct ==
    /\ Users \subseteq Accounts /\ Adapters \subseteq Accounts /\ Router \in Accounts
    /\ \A a \in Users \cup Adapters : a # Router
BY ConstantsAssumption DEF Accounts

(* What a transfer the payer can afford does to the balances. *)
LEMMA TransferMoves ==
    ASSUME balance \in [Tokens -> [Accounts -> Nat]],
           NEW t \in Tokens, NEW from \in Accounts, NEW to \in Accounts, NEW n \in Nat,
           balance[t][from] >= n
    PROVE  LET b == Transfer(t, from, to, n) IN
           /\ b \in [Tokens -> [Accounts -> Nat]]
           /\ \A s \in Tokens : s # t => b[s] = balance[s]
           /\ from # to => b[t][from] = balance[t][from] - n
           /\ from # to => b[t][to] >= balance[t][to]
           /\ from # to /\ t \in StandardTokens => b[t][to] = balance[t][to] + n
<1>1. Fee[t] \in Nat
    BY ConstantsAssumption
<1>2. Received(t, n) \in Nat
    BY <1>1 DEF Received
<1>3. t \in StandardTokens => Received(t, n) = n
    BY DEF Received, StandardTokens
<1> DEFINE b == Transfer(t, from, to, n)
           b1 == [balance EXCEPT ![t][from] = @ - n]
<1>4. b = [b1 EXCEPT ![t][to] = @ + Received(t, n)]
    BY DEF Transfer
<1>4a. b1 \in [Tokens -> [Accounts -> Nat]]
    OBVIOUS
<1> HIDE DEF b1
<1>5. b \in [Tokens -> [Accounts -> Nat]]
    BY <1>2, <1>4, <1>4a
<1>6. /\ \A s \in Tokens : s # t => b[s] = balance[s]
      /\ from # to => b[t][from] = balance[t][from] - n
      /\ from # to => b[t][to] = balance[t][to] + Received(t, n)
    BY DEF Transfer
<1>7. from # to => b[t][to] >= balance[t][to]
    BY <1>2, <1>6
<1>8. QED  BY <1>3, <1>5, <1>6, <1>7

-----------------------------------------------------------------------------
(* The set of funded intents.                                              *)

(* It has a value: only finitely many intents have been created. *)
LEMMA FundedHasAmounts ==
    ASSUME IsFiniteSet({id \in IntentIds : status[id] # "None"}), NEW t,
           NEW S \in SUBSET FundedIntents(status, t)
    PROVE  HasAmounts(S) /\ Value(S) \in Nat
<1>1. S \subseteq {id \in IntentIds : status[id] # "None"}
    BY DEF FundedIntents
<1>2. IsFiniteSet(S)
    BY <1>1, FS_Subset
<1>3. \A x \in S : x.amount \in Nat
    BY <1>1, IntentFields
<1>4. QED  BY <1>2, <1>3, ValueType DEF HasAmounts

(* How an assignment to one status changes it. *)
LEMMA FundedAfterAssignment ==
    ASSUME status \in [IntentIds -> Statuses], NEW id \in IntentIds, NEW s, NEW t
    PROVE  LET st == [status EXCEPT ![id] = s] IN
           /\ s # "Funded" => FundedIntents(st, t) = FundedIntents(status, t) \ {id}
           /\ s = "Funded" /\ id.tokenIn = t =>
                FundedIntents(st, t) = FundedIntents(status, t) \cup {id}
           /\ s = "Funded" /\ id.tokenIn # t =>
                FundedIntents(st, t) = FundedIntents(status, t)
BY DEF FundedIntents

(* What is funded while no adapter runs, with one intent added or removed. *)
LEMMA FundedValueAdd ==
    ASSUME IsFiniteSet({i \in IntentIds : status[i] # "None"}), NEW t,
           NEW id \in IntentIds, id \notin FundedIntents(status, t)
    PROVE  Value(FundedIntents(status, t) \cup {id})
             = Value(FundedIntents(status, t)) + id.amount
BY FundedHasAmounts, ValueAdd, IntentFields

LEMMA FundedValueRemove ==
    ASSUME IsFiniteSet({i \in IntentIds : status[i] # "None"}), NEW t,
           NEW id \in FundedIntents(status, t)
    PROVE  Value(FundedIntents(status, t) \ {id})
             = Value(FundedIntents(status, t)) - id.amount
BY FundedHasAmounts, ValueRemove

(* The set of created intents stays finite. *)
LEMMA CreatedAfterAssignment ==
    ASSUME CreatedInv, status \in [IntentIds -> Statuses],
           NEW id \in IntentIds, NEW s, id.tokenIn \in Tokens,
           status' = [status EXCEPT ![id] = s]
    PROVE  CreatedInv'
<1> DEFINE C == {i \in IntentIds : status[i] # "None"}
<1>1. IsFiniteSet(C \cup {id})
    BY FS_AddElement DEF CreatedInv
<1>2. {i \in IntentIds : status'[i] # "None"} \subseteq C \cup {id}
    OBVIOUS
<1>3. IsFiniteSet({i \in IntentIds : status'[i] # "None"})
    BY <1>1, <1>2, FS_Subset
<1>4. \A i \in IntentIds : status'[i] # "None" => i.tokenIn \in Tokens
    BY DEF CreatedInv
<1>5. QED  BY <1>3, <1>4 DEF CreatedInv

-----------------------------------------------------------------------------
(* The inductive invariant, one lemma per group of actions.                *)

(* What TypeOK says of each variable. *)
LEMMA TypeOKFields ==
    TypeOK <=> /\ status \in [IntentIds -> Statuses]
               /\ nextIntentNonce \in [Users -> 0..MaxNonce]
               /\ owner \in Admins
               /\ teeSigner \in Signers
               /\ paused \in BOOLEAN
               /\ allowedAdapters \in SUBSET Adapters
               /\ balance \in [Tokens -> [Accounts -> Nat]]
               /\ log \in SUBSET (ExecutedEvents \cup CancelledEvents)
               /\ now \in 0..MaxTime
               /\ call \in Frames \cup {NoCall}
BY DEF TypeOK, Storage, Storages

LEMMA InitIInv == Init => IInv
<1> SUFFICES ASSUME Init PROVE IInv
    OBVIOUS
<1>1. TypeOK
  <2>1. status \in [IntentIds -> Statuses]
      BY DEF Init, Statuses
  <2>2. nextIntentNonce \in [Users -> 0..MaxNonce] /\ now \in 0..MaxTime
      BY ConstantsAssumption DEF Init
  <2>3. /\ owner \in Admins /\ teeSigner \in Signers /\ paused \in BOOLEAN
        /\ allowedAdapters \in SUBSET Adapters
        /\ log \in SUBSET (ExecutedEvents \cup CancelledEvents)
        /\ call \in Frames \cup {NoCall}
      BY DEF Init
  <2>4. balance \in [Tokens -> [Accounts -> Nat]]
      BY ConstantsAssumption DEF Init
  <2>5. QED  BY <2>1, <2>2, <2>3, <2>4, TypeOKFields
<1>2. {id \in IntentIds : status[id] # "None"} = {}
    BY DEF Init
<1>3. CreatedInv
    BY <1>2, FS_EmptySet DEF CreatedInv
<1>4. FrameInv
    BY DEF FrameInv, Init
<1>5. \A t \in StandardTokens : FundedIntents(status, t) \ InFlight = {}
    BY <1>2 DEF FundedIntents
<1>6. Units({}) = {}
    BY DEF Units
<1>7. Value({}) = 0
    BY <1>6, FS_EmptySet DEF Value
<1>8. \A t \in StandardTokens : balance[t][Router] \in Nat
    BY <1>1, TypeOKFields, AccountsDistinct DEF StandardTokens
<1>9. Solvency
    BY <1>5, <1>7, <1>8 DEF Solvency, Escrowed
<1>10. QED  BY <1>1, <1>3, <1>4, <1>9 DEF IInv

(* Steps that move no funds and change no intent. *)
LEMMA StepElsewhere ==
    ASSUME IInv, UNCHANGED <<status, balance, call>>
    PROVE  CreatedInv' /\ FrameInv' /\ Solvency'
<1>1. CreatedInv'
    BY DEF IInv, CreatedInv
<1>2. FrameInv'
    BY DEF IInv, FrameInv, FundedIntents
<1>3. Solvency'
    BY DEF IInv, Solvency, Escrowed, InFlight, NotEntered, FundedIntents
<1>4. QED  BY <1>1, <1>2, <1>3

LEMMA AdminIInv ==
    ASSUME IInv, AdminStep \/ Tick
    PROVE  IInv'
<1>1. UNCHANGED <<status, balance, call>>
    BY DEF AdminStep, SetAdapter, SetTeeSigner, SetPaused, TransferOwnership, Tick
<1>2. TypeOK'
  <2>1. UNCHANGED <<status, nextIntentNonce, balance, log, call>>
      BY DEF AdminStep, SetAdapter, SetTeeSigner, SetPaused, TransferOwnership, Tick
  <2>2. /\ owner' \in Admins /\ teeSigner' \in Signers /\ paused' \in BOOLEAN
        /\ allowedAdapters' \in SUBSET Adapters /\ now' \in 0..MaxTime
      BY ConstantsAssumption, TypeOKFields
         DEF IInv, AdminStep, SetAdapter, SetTeeSigner, SetPaused, TransferOwnership, Tick,
             adminVars
  <2>3. QED  BY <2>1, <2>2, TypeOKFields DEF IInv, TypeOK, Storage, Storages
<1>3. QED  BY <1>1, <1>2, StepElsewhere DEF IInv

(* What _createIntent does, whichever status the new intent gets. *)
LEMMA NewIntentEffect ==
    ASSUME IInv, NEW u \in Users, NEW w \in Terms, NEW s \in Statuses, NewIntent(u, w, s)
    PROVE  \E id \in IntentIds :
             /\ id = IntentId(u, w, nextIntentNonce[u])
             /\ id.owner = u /\ id.tokenIn = w.tokenIn /\ id.amount = w.amount
             /\ id.tokenIn \in Tokens
             /\ status[id] = "None"
             /\ status' = [status EXCEPT ![id] = s]
             /\ status' \in [IntentIds -> Statuses]
             /\ nextIntentNonce' \in [Users -> 0..MaxNonce]
             /\ CreatedInv'
<1> DEFINE id == IntentId(u, w, nextIntentNonce[u])
<1>1. status \in [IntentIds -> Statuses] /\ nextIntentNonce \in [Users -> 0..MaxNonce]
    BY TypeOKFields DEF IInv
<1>2. nextIntentNonce[u] \in 0..(MaxNonce - 1)
    BY <1>1, ConstantsAssumption DEF NewIntent
<1>3. /\ id \in IntentIds /\ id.owner = u /\ id.tokenIn = w.tokenIn
      /\ id.amount = w.amount
    BY <1>2, NewIntentFields
<1>4. id.tokenIn \in Tokens
    BY <1>3, ConstantsAssumption DEF NewIntent
<1>5. status[id] = "None" /\ status' = [status EXCEPT ![id] = s]
    BY DEF NewIntent
<1>6. nextIntentNonce' \in [Users -> 0..MaxNonce]
    BY <1>1, <1>2, ConstantsAssumption DEF NewIntent, NonceAdvanced
<1> HIDE DEF id
<1>7. status' \in [IntentIds -> Statuses]
    BY <1>1, <1>3, <1>5
<1>8. CreatedInv'
    BY <1>1, <1>3, <1>4, <1>5, CreatedAfterAssignment DEF IInv
<1>9. QED  BY <1>3, <1>4, <1>5, <1>6, <1>7, <1>8 DEF id

LEMMA CreateIntentIInv ==
    ASSUME IInv, NEW u \in Users, NEW w \in Terms, CreateIntent(u, w)
    PROVE  IInv'
<1>1. NewIntent(u, w, "Created") /\ UNCHANGED <<adminVars, balance, log, call, now>>
    BY DEF CreateIntent
<1>2. PICK id \in IntentIds :
             /\ status[id] = "None"
             /\ status' = [status EXCEPT ![id] = "Created"]
             /\ status' \in [IntentIds -> Statuses]
             /\ nextIntentNonce' \in [Users -> 0..MaxNonce]
             /\ CreatedInv'
    BY <1>1, NewIntentEffect DEF Statuses
<1>3. TypeOK'
    BY <1>1, <1>2 DEF IInv, TypeOK, Storage, Storages, adminVars
<1>4. \A t : FundedIntents(status', t) = FundedIntents(status, t)
    BY <1>2, TypeOKFields DEF IInv, FundedIntents
<1>5. FrameInv'
  <2> SUFFICES ASSUME call # NoCall PROVE FrameInv'
      BY <1>1 DEF FrameInv
  <2> DEFINE j == call.auth.intentId
  <2>1. j \in IntentIds
      BY TypeOKFields, AuthorizationFields DEF IInv, Frames
  <2>2. status \in [IntentIds -> Statuses] /\ call' = call
      BY <1>1, TypeOKFields DEF IInv
  <2>3. status[j] = "Funded"
      BY DEF IInv, FrameInv
  <2>4. status'[j] = "Funded"
      BY <1>2, <2>1, <2>2, <2>3
  <2>5. \A i \in IntentIds :
           /\ status'[i] = "Funded" <=> call.before.status[i] = "Funded"
           /\ call.before.status[i] # "None" => status'[i] # "None"
      BY <1>2, <2>2 DEF IInv, FrameInv
  <2>6. QED  BY <2>2, <2>4, <2>5 DEF IInv, FrameInv
<1>6. Solvency'
    BY <1>1, <1>4 DEF IInv, Solvency, Escrowed, InFlight, NotEntered
<1>7. QED  BY <1>2, <1>3, <1>5, <1>6 DEF IInv

(* A deposit: its intent becomes funded while no adapter runs. *)
LEMMA DepositIInv ==
    ASSUME IInv, call = NoCall, UNCHANGED <<adminVars, log, call, now>>,
           NEW id \in IntentIds, status[id] \in {"None", "Created"}, id.tokenIn \in Tokens,
           status' = [status EXCEPT ![id] = "Funded"],
           nextIntentNonce' \in [Users -> 0..MaxNonce],
           CanPay(id.tokenIn, id.owner, id.amount),
           balance' = Transfer(id.tokenIn, id.owner, Router, id.amount)
    PROVE  IInv'
<1> USE DEF IInv
<1>1. /\ status \in [IntentIds -> Statuses]
      /\ balance \in [Tokens -> [Accounts -> Nat]]
    BY TypeOKFields
<1>2. /\ id.owner \in Accounts /\ id.owner # Router /\ Router \in Accounts
      /\ id.amount \in Nat
    BY IntentFields, AccountsDistinct
<1>3. balance[id.tokenIn][id.owner] >= id.amount
    BY DEF CanPay
<1>4. /\ balance' \in [Tokens -> [Accounts -> Nat]]
      /\ \A s \in Tokens : s # id.tokenIn => balance'[s] = balance[s]
      /\ id.tokenIn \in StandardTokens =>
           balance'[id.tokenIn][Router] = balance[id.tokenIn][Router] + id.amount
    BY <1>1, <1>2, <1>3, TransferMoves
<1>5. status' \in [IntentIds -> Statuses]
    BY <1>1 DEF Statuses
<1>6. TypeOK'
    BY <1>4, <1>5 DEF TypeOK, Storage, Storages, adminVars
<1>7. CreatedInv'
    BY <1>1, CreatedAfterAssignment
<1>8. FrameInv'
    BY DEF FrameInv
<1>9. ASSUME NEW t \in StandardTokens
      PROVE  balance'[t][Router] >= Value(FundedIntents(status', t))
  <2>1. balance[t][Router] >= Value(FundedIntents(status, t))
      BY DEF Solvency, Escrowed, InFlight, NotEntered
  <2>2. t \in Tokens /\ balance[t][Router] \in Nat /\ balance'[t][Router] \in Nat
      BY <1>1, <1>2, <1>4 DEF StandardTokens
  <2>3. Value(FundedIntents(status, t)) \in Nat
      BY FundedHasAmounts DEF CreatedInv
  <2>4. CASE id.tokenIn = t
    <3>1. FundedIntents(status', t) = FundedIntents(status, t) \cup {id}
        BY <1>1, <2>4, FundedAfterAssignment
    <3>2. Value(FundedIntents(status', t)) = Value(FundedIntents(status, t)) + id.amount
      <4>1. id \notin FundedIntents(status, t)
          BY DEF FundedIntents
      <4>2. QED  BY <3>1, <4>1, FundedValueAdd DEF CreatedInv
    <3>3. QED  BY <1>2, <1>4, <2>1, <2>2, <2>3, <2>4, <3>2
  <2>5. CASE id.tokenIn # t
    <3>1. FundedIntents(status', t) = FundedIntents(status, t)
        BY <1>1, <2>5, FundedAfterAssignment
    <3>2. QED  BY <1>4, <2>1, <2>2, <2>5, <3>1
  <2>6. QED  BY <2>4, <2>5
<1>10. Solvency'
    BY <1>9 DEF Solvency, Escrowed, InFlight, NotEntered
<1>11. QED  BY <1>6, <1>7, <1>8, <1>10

LEMMA CreateAndFundIntentIInv ==
    ASSUME IInv, NEW u \in Users, NEW w \in Terms, CreateAndFundIntent(u, w)
    PROVE  IInv'
<1>1. /\ NewIntent(u, w, "Funded") /\ call = NoCall
      /\ UNCHANGED <<adminVars, log, call, now>>
      /\ CanPay(w.tokenIn, u, w.amount)
      /\ balance' = Transfer(w.tokenIn, u, Router, w.amount)
    BY DEF CreateAndFundIntent, NotEntered
<1>2. PICK id \in IntentIds :
             /\ id.owner = u /\ id.tokenIn = w.tokenIn /\ id.amount = w.amount
             /\ id.tokenIn \in Tokens
             /\ status[id] = "None"
             /\ status' = [status EXCEPT ![id] = "Funded"]
             /\ nextIntentNonce' \in [Users -> 0..MaxNonce]
    BY <1>1, NewIntentEffect DEF Statuses
<1>3. QED  BY <1>1, <1>2, DepositIInv

LEMMA FundIntentIInv ==
    ASSUME IInv, NEW u \in Users, NEW id \in IntentIds, FundIntent(u, id)
    PROVE  IInv'
<1>1. /\ call = NoCall /\ id.owner = u /\ status[id] = "Created"
      /\ CanPay(id.tokenIn, id.owner, id.amount)
      /\ status' = [status EXCEPT ![id] = "Funded"]
      /\ balance' = Transfer(id.tokenIn, id.owner, Router, id.amount)
      /\ UNCHANGED <<nextIntentNonce, adminVars, log, call, now>>
    BY DEF FundIntent, MayFund, MayFundInsideWindow, NotEntered
<1>2. id.tokenIn \in Tokens
    BY <1>1 DEF IInv, CreatedInv
<1>3. nextIntentNonce' \in [Users -> 0..MaxNonce]
    BY <1>1, TypeOKFields DEF IInv
<1>4. QED  BY <1>1, <1>2, <1>3, DepositIInv

LEMMA CancelIntentIInv ==
    ASSUME IInv, NEW u \in Users, NEW id \in IntentIds, CancelIntent(u, id)
    PROVE  IInv'
<1> USE DEF IInv
<1>1. /\ status \in [IntentIds -> Statuses]
      /\ balance \in [Tokens -> [Accounts -> Nat]]
      /\ log \in SUBSET (ExecutedEvents \cup CancelledEvents)
    BY TypeOKFields
<1>2. /\ call = NoCall /\ status[id] \in {"Created", "Funded"}
      /\ status' = [status EXCEPT ![id] = "Cancelled"]
      /\ log' = log \cup {CancelledEvent(id, Refund(id))}
      /\ UNCHANGED <<nextIntentNonce, adminVars, call, now>>
    BY DEF CancelIntent, MayCancel, MayCancelInsideWindow, NotEntered
<1>3. /\ id.owner \in Accounts /\ id.owner # Router /\ Router \in Accounts
      /\ id.amount \in Nat /\ id.tokenIn \in Tokens
    BY <1>2, IntentFields, AccountsDistinct DEF CreatedInv
<1>4. Refund(id) \in Nat
    BY <1>3 DEF Refund
<1>5. CASE Refund(id) = 0
  <2>1. balance' = balance
      BY <1>5 DEF CancelIntent
  <2>2. TypeOK' /\ CreatedInv' /\ FrameInv'
    <3>1. CancelledEvent(id, Refund(id)) \in CancelledEvents
        BY <1>4 DEF CancelledEvent, CancelledEvents
    <3>2. status' \in [IntentIds -> Statuses]
        BY <1>1, <1>2 DEF Statuses
    <3>3. log' \in SUBSET (ExecutedEvents \cup CancelledEvents)
        BY <1>1, <1>2, <3>1
    <3>4. TypeOK'
        BY <1>2, <2>1, <3>2, <3>3 DEF TypeOK, Storage, Storages, adminVars
    <3>5. QED  BY <1>1, <1>2, <1>3, <3>4, CreatedAfterAssignment DEF FrameInv
  <2>3. ASSUME NEW t \in StandardTokens
        PROVE  balance'[t][Router] >= Value(FundedIntents(status', t))
    <3>1. FundedIntents(status', t) = FundedIntents(status, t) \ {id}
        BY <1>1, <1>2, FundedAfterAssignment
    <3>2. balance[t][Router] >= Value(FundedIntents(status, t))
        BY <1>2 DEF Solvency, Escrowed, InFlight, NotEntered
    <3>3. CASE id \in FundedIntents(status, t)
      <4>1. id.amount = 0
          BY <1>5, <3>3 DEF Refund, FundedIntents
      <4>2. Value(FundedIntents(status, t) \ {id})
              = Value(FundedIntents(status, t)) - id.amount
          BY <3>3, FundedValueRemove DEF CreatedInv
      <4>3. Value(FundedIntents(status, t)) \in Nat
          BY FundedHasAmounts DEF CreatedInv
      <4>4. QED  BY <2>1, <3>1, <3>2, <4>1, <4>2, <4>3
    <3>4. CASE id \notin FundedIntents(status, t)
      <4>1. FundedIntents(status, t) \ {id} = FundedIntents(status, t)
          BY <3>4
      <4>2. QED  BY <2>1, <3>1, <3>2, <4>1
    <3>5. QED  BY <3>3, <3>4
  <2>4. Solvency'
      BY <1>2, <2>3 DEF Solvency, Escrowed, InFlight, NotEntered
  <2>5. QED  BY <2>2, <2>4
<1>6. CASE Refund(id) # 0
  <2>1. /\ status[id] = "Funded" /\ Refund(id) = id.amount
        /\ balance[id.tokenIn][Router] >= id.amount
        /\ balance' = Transfer(id.tokenIn, Router, id.owner, id.amount)
      BY <1>2, <1>6 DEF Refund, CancelIntent, CanPay
  <2>2. /\ balance' \in [Tokens -> [Accounts -> Nat]]
        /\ \A s \in Tokens : s # id.tokenIn => balance'[s] = balance[s]
        /\ balance'[id.tokenIn][Router] = balance[id.tokenIn][Router] - id.amount
      BY <1>1, <1>3, <2>1, TransferMoves
  <2>3. TypeOK' /\ CreatedInv' /\ FrameInv'
    <3>1. CancelledEvent(id, Refund(id)) \in CancelledEvents
        BY <1>4 DEF CancelledEvent, CancelledEvents
    <3>2. status' \in [IntentIds -> Statuses]
        BY <1>1, <1>2 DEF Statuses
    <3>3. log' \in SUBSET (ExecutedEvents \cup CancelledEvents)
        BY <1>1, <1>2, <3>1
    <3>4. TypeOK'
        BY <1>2, <2>2, <3>2, <3>3 DEF TypeOK, Storage, Storages, adminVars
    <3>5. QED  BY <1>1, <1>2, <1>3, <3>4, CreatedAfterAssignment DEF FrameInv
  <2>4. ASSUME NEW t \in StandardTokens
        PROVE  balance'[t][Router] >= Value(FundedIntents(status', t))
    <3>1. FundedIntents(status', t) = FundedIntents(status, t) \ {id}
        BY <1>1, <1>2, FundedAfterAssignment
    <3>2. balance[t][Router] >= Value(FundedIntents(status, t))
        BY <1>2 DEF Solvency, Escrowed, InFlight, NotEntered
    <3>3. t \in Tokens /\ balance[t][Router] \in Nat
        BY <1>1, <1>3 DEF StandardTokens
    <3>4. CASE t = id.tokenIn
      <4>1. id \in FundedIntents(status, t)
          BY <2>1, <3>4 DEF FundedIntents
      <4>2. Value(FundedIntents(status, t) \ {id})
              = Value(FundedIntents(status, t)) - id.amount
          BY <4>1, FundedValueRemove DEF CreatedInv
      <4>3. Value(FundedIntents(status, t)) \in Nat
          BY FundedHasAmounts DEF CreatedInv
      <4>4. QED  BY <1>3, <2>2, <3>1, <3>2, <3>3, <3>4, <4>2, <4>3
    <3>5. CASE t # id.tokenIn
      <4>1. FundedIntents(status, t) \ {id} = FundedIntents(status, t)
          BY <3>5 DEF FundedIntents
      <4>2. QED  BY <2>2, <3>1, <3>2, <3>3, <3>5, <4>1
    <3>6. QED  BY <3>4, <3>5
  <2>5. Solvency'
      BY <1>2, <2>4 DEF Solvency, Escrowed, InFlight, NotEntered
  <2>6. QED  BY <2>3, <2>5
<1>7. QED  BY <1>5, <1>6

(* Payments that take nothing of a standard token from the router. *)
LEMMA BalancesIInv ==
    ASSUME IInv, UNCHANGED <<status, nextIntentNonce, adminVars, log, call, now>>,
           balance' \in [Tokens -> [Accounts -> Nat]],
           \A s \in StandardTokens : balance'[s][Router] >= balance[s][Router]
    PROVE  IInv'
<1> USE DEF IInv
<1>1. /\ balance \in [Tokens -> [Accounts -> Nat]] /\ Router \in Accounts
    BY TypeOKFields, AccountsDistinct
<1>2. TypeOK'
    BY DEF TypeOK, Storage, Storages, adminVars
<1>3. CreatedInv' /\ FrameInv'
    BY DEF CreatedInv, FrameInv
<1>4. \A s \in StandardTokens : Escrowed(s)' = Escrowed(s)
    BY DEF Escrowed, InFlight, NotEntered, FundedIntents
<1>5. ASSUME NEW s \in StandardTokens
      PROVE  balance'[s][Router] >= Escrowed(s)
  <2>1. balance[s][Router] >= Escrowed(s) /\ s \in Tokens
      BY DEF Solvency, StandardTokens
  <2>2. balance[s][Router] \in Nat /\ balance'[s][Router] \in Nat
      BY <1>1, <2>1
  <2>3. Escrowed(s) \in Nat
    <3>1. FundedIntents(status, s) \ InFlight \in SUBSET FundedIntents(status, s)
        OBVIOUS
    <3>2. QED  BY <3>1, FundedHasAmounts DEF Escrowed, CreatedInv
  <2>4. QED  BY <2>1, <2>2, <2>3
<1>6. Solvency'
    BY <1>4, <1>5 DEF Solvency
<1>7. QED  BY <1>2, <1>3, <1>6

LEMMA AdapterPaysIInv ==
    ASSUME IInv, NEW a \in Adapters, NEW t \in Tokens, NEW n \in Nat, AdapterPays(a, t, n)
    PROVE  IInv'
<1>1. /\ balance \in [Tokens -> [Accounts -> Nat]]
      /\ a \in Accounts /\ a # Router /\ Router \in Accounts
      /\ balance[t][a] >= n /\ balance' = Transfer(t, a, Router, n)
      /\ UNCHANGED <<status, nextIntentNonce, adminVars, log, call, now>>
    BY TypeOKFields, AccountsDistinct DEF AdapterPays, CanPay, IInv
<1>2. /\ balance' \in [Tokens -> [Accounts -> Nat]]
      /\ \A s \in Tokens : s # t => balance'[s] = balance[s]
      /\ balance'[t][Router] >= balance[t][Router]
    BY <1>1, TransferMoves
<1>3. \A s \in StandardTokens : balance'[s][Router] >= balance[s][Router]
    BY <1>1, <1>2 DEF StandardTokens
<1>4. QED  BY <1>1, <1>2, <1>3, BalancesIInv

(* The deposit under execution leaves the escrow with its input. *)
LEMMA EnterExecuteIInv ==
    ASSUME IInv, NEW auth \in Authorizations, NEW signer \in Signers, NEW data,
           EnterExecute(auth, signer, data)
    PROVE  IInv'
<1> USE DEF IInv
<1> DEFINE id == auth.intentId
<1>1. /\ status \in [IntentIds -> Statuses]
      /\ balance \in [Tokens -> [Accounts -> Nat]]
      /\ Storage \in Storages
    BY TypeOKFields DEF TypeOK
<1>2. /\ call = NoCall /\ status[id] = "Funded"
      /\ balance[id.tokenIn][Router] >= id.amount
      /\ balance' = Transfer(id.tokenIn, Router, auth.adapter, id.amount)
      /\ call' = Frame(auth, signer)
      /\ UNCHANGED <<status, nextIntentNonce, adminVars, log, now>>
    BY DEF EnterExecute, CanPay, NotEntered
<1>3. /\ id \in IntentIds /\ id.amount \in Nat /\ auth.adapter \in Accounts
      /\ auth.adapter # Router /\ Router \in Accounts
    BY IntentFields, AuthorizationFields, AccountsDistinct
<1>4. id.tokenIn \in Tokens
    BY <1>2, <1>3 DEF CreatedInv
<1>5. /\ balance' \in [Tokens -> [Accounts -> Nat]]
      /\ \A s \in Tokens : s # id.tokenIn => balance'[s] = balance[s]
      /\ balance'[id.tokenIn][Router] = balance[id.tokenIn][Router] - id.amount
    BY <1>1, <1>2, <1>3, <1>4, TransferMoves
<1>6. call' \in Frames /\ call' # NoCall
    BY <1>1, <1>2, ConstantsAssumption DEF Frame, Frames
<1>7. /\ call'.auth = auth
      /\ call'.before.status = status
      /\ call'.before.balance = balance
    BY <1>2 DEF Frame, Storage
<1>8. TypeOK'
    BY <1>2, <1>5, <1>6 DEF TypeOK, Storage, Storages, adminVars
<1>9. CreatedInv'
    BY <1>2 DEF CreatedInv
<1>10. \A t \in StandardTokens : balance[t][Router] >= Value(FundedIntents(status, t))
    BY <1>2 DEF Solvency, Escrowed, InFlight, NotEntered
<1> HIDE DEF id
<1>11. FrameInv'
    BY <1>2, <1>7, <1>10 DEF FrameInv, id
<1>12. ASSUME NEW t \in StandardTokens
       PROVE  balance'[t][Router] >= Value(FundedIntents(status, t) \ {id})
  <2>1. t \in Tokens /\ balance[t][Router] \in Nat
      BY <1>1, <1>3 DEF StandardTokens
  <2>2. CASE t = id.tokenIn
    <3>1. id \in FundedIntents(status, t)
        BY <1>2, <1>3, <2>2 DEF FundedIntents, id
    <3>2. Value(FundedIntents(status, t) \ {id})
            = Value(FundedIntents(status, t)) - id.amount
        BY <1>3, <3>1, FundedValueRemove DEF CreatedInv
    <3>3. Value(FundedIntents(status, t)) \in Nat
        BY FundedHasAmounts DEF CreatedInv
    <3>4. QED  BY <1>3, <1>5, <1>10, <2>1, <2>2, <3>2, <3>3
  <2>3. CASE t # id.tokenIn
    <3>1. FundedIntents(status, t) \ {id} = FundedIntents(status, t)
        BY <2>3 DEF FundedIntents
    <3>2. QED  BY <1>5, <1>10, <2>1, <2>3, <3>1
  <2>4. QED  BY <2>2, <2>3
<1>13. Solvency'
    BY <1>2, <1>6, <1>7, <1>12 DEF Solvency, Escrowed, InFlight, NotEntered, id
<1>14. QED  BY <1>8, <1>9, <1>11, <1>13

(* What the router owes when the adapter has returned is covered by the    *)
(* balance it had before, less the input of the intent under execution.    *)
LEMMA BaselineCoversEscrow ==
    ASSUME IInv, call # NoCall, NEW t \in Tokens, t = call.auth.tokenOut
    PROVE  /\ Baseline(call) \in Nat
           /\ t \in StandardTokens =>
                Baseline(call) >= Value(FundedIntents(status, t) \ {call.auth.intentId})
<1> USE DEF IInv
<1> DEFINE id == call.auth.intentId
           before == call.before.balance[t][Router]
<1>1. call \in Frames
    BY TypeOKFields
<1>2. id \in IntentIds /\ id.amount \in Nat /\ Router \in Accounts
    BY <1>1, AuthorizationFields, IntentFields, AccountsDistinct DEF Frames
<1>3. call.before.balance \in [Tokens -> [Accounts -> Nat]]
    BY <1>1 DEF Frames, Storages
<1>4. before \in Nat
    BY <1>2, <1>3
<1>5. /\ status[id] = "Funded"
      /\ call.before.balance[id.tokenIn][Router] >= id.amount
      /\ \A s : FundedIntents(call.before.status, s) = FundedIntents(status, s)
      /\ \A s \in StandardTokens : call.before.balance[s][Router]
                                     >= Value(FundedIntents(call.before.status, s))
    BY DEF FrameInv, FundedIntents
<1>6. Value(FundedIntents(status, t)) \in Nat
    BY FundedHasAmounts DEF CreatedInv
<1>7. t \in StandardTokens => before >= Value(FundedIntents(status, t))
    BY <1>5
<1>8. CASE t = id.tokenIn
  <2>1. Baseline(call) = before - id.amount
      BY <1>8 DEF Baseline
  <2>2. id \in FundedIntents(status, t)
      BY <1>2, <1>5, <1>8 DEF FundedIntents
  <2>3. Value(FundedIntents(status, t) \ {id})
          = Value(FundedIntents(status, t)) - id.amount
      BY <1>2, <2>2, FundedValueRemove DEF CreatedInv
  <2>4. before >= id.amount
      BY <1>5, <1>8
  <2> HIDE DEF id, before
  <2>5. QED  BY <1>2, <1>4, <1>6, <1>7, <2>1, <2>3, <2>4 DEF id
<1>9. CASE t # id.tokenIn
  <2>1. Baseline(call) = before
      BY <1>9 DEF Baseline
  <2>2. FundedIntents(status, t) \ {id} = FundedIntents(status, t)
      BY <1>9 DEF FundedIntents
  <2>3. QED  BY <1>4, <1>7, <2>1, <2>2
<1>10. QED  BY <1>8, <1>9

LEMMA LeaveExecuteIInv ==
    ASSUME IInv, NEW t \in Tokens, LeaveExecute(t)
    PROVE  IInv'
<1> USE DEF IInv
<1> DEFINE id == call.auth.intentId
           amountOut == balance[t][Router] - Baseline(call)
<1>1. /\ status \in [IntentIds -> Statuses]
      /\ balance \in [Tokens -> [Accounts -> Nat]]
      /\ log \in SUBSET (ExecutedEvents \cup CancelledEvents)
    BY TypeOKFields
<1>2. /\ call # NoCall /\ t = call.auth.tokenOut
      /\ amountOut >= 0
      /\ status' = [status EXCEPT ![id] = "Executed"]
      /\ balance' = Transfer(t, Router, id.owner, amountOut)
      /\ log' = log \cup {ExecutedEvent(id, call.auth.adapter, t, amountOut)}
      /\ call' = NoCall
      /\ UNCHANGED <<nextIntentNonce, adminVars, now>>
    BY DEF LeaveExecute, NotEntered
<1>3. /\ id \in IntentIds /\ id.owner \in Accounts /\ id.owner # Router
      /\ Router \in Accounts /\ call.auth.adapter \in Adapters
    BY <1>2, TypeOKFields, IntentFields, AuthorizationFields, AccountsDistinct DEF Frames
<1>4. id.tokenIn \in Tokens
  <2>1. status[id] = "Funded"
      BY <1>2 DEF FrameInv
  <2>2. QED  BY <1>3, <2>1 DEF CreatedInv
<1>5. /\ Baseline(call) \in Nat
      /\ t \in StandardTokens => Baseline(call) >= Value(FundedIntents(status, t) \ {id})
    BY <1>2, BaselineCoversEscrow
<1>6. balance[t][Router] \in Nat
    BY <1>1, <1>3
<1>7. amountOut \in Nat /\ balance[t][Router] >= amountOut
    BY <1>2, <1>5, <1>6
<1> HIDE DEF id
<1>8. /\ balance' \in [Tokens -> [Accounts -> Nat]]
      /\ \A s \in Tokens : s # t => balance'[s] = balance[s]
      /\ balance'[t][Router] = balance[t][Router] - amountOut
    BY <1>1, <1>2, <1>3, <1>7, TransferMoves
<1>9. balance'[t][Router] = Baseline(call)
    BY <1>5, <1>6, <1>8
<1> HIDE DEF amountOut
<1>10. status' \in [IntentIds -> Statuses]
    BY <1>1, <1>2 DEF Statuses
<1>11. log' \in SUBSET (ExecutedEvents \cup CancelledEvents)
  <2>1. ExecutedEvent(id, call.auth.adapter, t, amountOut) \in ExecutedEvents
      BY <1>3, <1>7 DEF ExecutedEvent, ExecutedEvents
  <2>2. QED  BY <1>1, <1>2, <2>1
<1>12. TypeOK'
    BY <1>2, <1>8, <1>10, <1>11 DEF TypeOK, Storage, Storages, adminVars
<1>13. CreatedInv'
    BY <1>1, <1>2, <1>3, <1>4, CreatedAfterAssignment
<1>14. FrameInv'
    BY <1>2 DEF FrameInv
<1>15. ASSUME NEW s \in StandardTokens
       PROVE  balance'[s][Router] >= Value(FundedIntents(status', s))
  <2>1. FundedIntents(status', s) = FundedIntents(status, s) \ {id}
      BY <1>1, <1>2, <1>3, FundedAfterAssignment
  <2>2. balance[s][Router] >= Value(FundedIntents(status, s) \ {id})
      BY <1>2 DEF Solvency, Escrowed, InFlight, NotEntered, id
  <2>3. CASE s = t
      BY <1>5, <1>9, <2>1, <2>3
  <2>4. CASE s # t
      BY <1>8, <2>1, <2>2, <2>4 DEF StandardTokens
  <2>5. QED  BY <2>3, <2>4
<1>16. Solvency'
    BY <1>2, <1>15 DEF Solvency, Escrowed, InFlight, NotEntered
<1>17. QED  BY <1>12, <1>13, <1>14, <1>16

LEMMA RevertExecuteIInv ==
    ASSUME IInv, RevertExecute
    PROVE  IInv'
<1> USE DEF IInv
<1>1. /\ call # NoCall /\ call' = NoCall /\ now' = now
      /\ status' = call.before.status
      /\ balance' = call.before.balance
    BY DEF RevertExecute, NotEntered
<1>2. call \in Frames
    BY <1>1, TypeOKFields
<1>3. Storage' \in Storages
    BY <1>2 DEF RevertExecute, Storage, Frames, Storages
<1>4. TypeOK'
    BY <1>1, <1>3 DEF TypeOK
<1>5. \A i \in IntentIds : status'[i] # "None" => status[i] # "None"
    BY <1>1 DEF FrameInv
<1>6. CreatedInv'
  <2>1. {i \in IntentIds : status'[i] # "None"} \subseteq {i \in IntentIds : status[i] # "None"}
      BY <1>5
  <2>2. IsFiniteSet({i \in IntentIds : status'[i] # "None"})
      BY <2>1, FS_Subset DEF CreatedInv
  <2>3. QED  BY <1>5, <2>2 DEF CreatedInv
<1>7. FrameInv'
    BY <1>1 DEF FrameInv
<1>8. \A t \in StandardTokens : balance'[t][Router] >= Value(FundedIntents(status', t))
    BY <1>1 DEF FrameInv
<1>9. Solvency'
    BY <1>1, <1>8 DEF Solvency, Escrowed, InFlight, NotEntered
<1>10. QED  BY <1>4, <1>6, <1>7, <1>9

-----------------------------------------------------------------------------
LEMMA StepIInv ==
    ASSUME IInv, [Next]_vars
    PROVE  IInv'
<1>1. CASE UserStep
    BY <1>1, CreateIntentIInv, CreateAndFundIntentIInv, FundIntentIInv, CancelIntentIInv
       DEF UserStep
<1>2. CASE ExecuteStep
  <2>1. ASSUME NEW id \in IntentIds, NEW subject \in IntentIds, NEW r \in RouteTerms,
               NEW signer \in Signers, NEW data \in AdapterCalls,
               EnterExecute(Authorization(id, subject, r), signer, data)
        PROVE  IInv'
    <3>1. Authorization(id, subject, r) \in Authorizations
        BY DEF Authorizations
    <3>2. QED  BY <2>1, <3>1, EnterExecuteIInv
  <2>2. QED  BY <1>2, <2>1, LeaveExecuteIInv, RevertExecuteIInv DEF ExecuteStep
<1>3. CASE AdminStep
    BY <1>3, AdminIInv
<1>4. CASE EnvironmentStep
  <2>1. ASSUME NEW a \in Adapters, NEW t \in Tokens, NEW n \in 1..balance[t][a],
               AdapterPays(a, t, n)
        PROVE  IInv'
    <3>1. balance[t][a] \in Nat
        BY TypeOKFields, AccountsDistinct DEF IInv
    <3>2. n \in Nat
        BY <3>1
    <3>3. QED  BY <2>1, <3>2, AdapterPaysIInv
  <2>2. QED  BY <1>4, <2>1, AdminIInv DEF EnvironmentStep
<1>5. CASE UNCHANGED vars
  <2>1. TypeOK'
      BY <1>5 DEF IInv, TypeOK, Storage, vars
  <2>2. QED  BY <1>5, <2>1, StepElsewhere DEF IInv, vars
<1>6. QED  BY <1>1, <1>2, <1>3, <1>4, <1>5 DEF Next

(* The inductive invariant holds in every reachable state: the types, the  *)
(* finiteness of the escrow, what the adapter's window leaves unchanged,   *)
(* and the solvency of the router.                                         *)
THEOREM InductiveInvariant == Spec => []IInv
<1>1. Init => IInv
    BY InitIInv
<1>2. IInv /\ [Next]_vars => IInv'
    BY StepIInv
<1>3. QED  BY <1>1, <1>2, PTL DEF Spec

(* Every variable keeps the type its declaration in the contract gives it. *)
THEOREM TypeCorrect == Spec => []TypeOK
<1>1. IInv => TypeOK
    BY DEF IInv
<1>2. QED  BY <1>1, InductiveInvariant, PTL

(* The router always holds the deposits it owes in standard tokens, whatever *)
(* adapters do while they run and however executions end.                    *)
THEOREM RouterSolvent == Spec => []Solvency
<1>1. IInv => Solvency
    BY DEF IInv
<1>2. QED  BY <1>1, InductiveInvariant, PTL

(* The guard of CancelIntent, without the ENABLED of FundsNeverTrapped. *)
RefundPossible == \A id \in IntentIds :
    /\ NotEntered
    /\ status[id] = "Funded"
    /\ id.tokenIn \in StandardTokens
    => MayCancel(id.owner, id) /\ CanPay(id.tokenIn, Router, Refund(id))

(* At every moment between transactions cancelIntent can refund the owner of *)
(* a funded intent: paused or not, expired or not, whoever is admin and      *)
(* whichever adapters are on the list.                                       *)
THEOREM OwnersCanLeave == Spec => []RefundPossible
<1>1. IInv => RefundPossible
  <2> SUFFICES ASSUME IInv, NotEntered, NEW id \in IntentIds, status[id] = "Funded",
                      id.tokenIn \in StandardTokens
               PROVE  /\ MayCancel(id.owner, id)
                      /\ CanPay(id.tokenIn, Router, Refund(id))
      BY DEF RefundPossible
  <2> DEFINE t == id.tokenIn
             F == FundedIntents(status, t)
  <2>1. MayCancel(id.owner, id) /\ Refund(id) = id.amount
      BY DEF MayCancel, MayCancelInsideWindow, Refund
  <2>2. balance[t][Router] >= Value(F)
    <3>1. F \ InFlight = F
        BY DEF InFlight
    <3>2. QED  BY <3>1 DEF IInv, Solvency, Escrowed
  <2>3. IsFiniteSet({i \in IntentIds : status[i] # "None"}) /\ id \in F
      BY DEF IInv, CreatedInv, FundedIntents
  <2>4. Value(F \ {id}) = Value(F) - id.amount
      BY <2>3, FundedValueRemove
  <2>5. Value(F) \in Nat /\ Value(F \ {id}) \in Nat
      BY <2>3, FundedHasAmounts
  <2>6. id.amount \in Nat /\ balance[t][Router] \in Nat
    <3>1. balance \in [Tokens -> [Accounts -> Nat]]
        BY TypeOKFields DEF IInv
    <3>2. t \in Tokens /\ Router \in Accounts
        BY DEF StandardTokens, Accounts
    <3>3. QED  BY <3>1, <3>2, IntentFields
  <2> HIDE DEF t, F
  <2>7. balance[t][Router] >= id.amount
      BY <2>2, <2>4, <2>5, <2>6
  <2>8. QED  BY <2>1, <2>7 DEF CanPay, t
<1>2. QED  BY <1>1, InductiveInvariant, PTL
=============================================================================
