------------------------ MODULE ExtensionSetupProofs ------------------------
(***************************************************************************)
(* Proofs about ExtensionSetup, for any number of setups, of instruction   *)
(* senders and of extensions.                                              *)
(***************************************************************************)
EXTENDS ExtensionSetup, TLAPS

(* What holds of a setup at each stage: its transactions are for its sender, *)
(* the identifier it goes by is the one of its receipt, and the grants it    *)
(* has passed are on that extension.                                         *)
SetupInv(s) ==
    /\ at[s] = "idle" => tx[s] = "none" /\ own[s] = 0
    /\ at[s] \in {"idle", "register"} => grant[s] = 1
    /\ tx[s] # "none" => arg[s] \in Senders
    /\ own[s] # 0 => senderOf[own[s]] = arg[s] /\ arg[s] \in Senders
    /\ at[s] \in {"check", "grant", "done"} => own[s] # 0
    /\ at[s] = "register" /\ tx[s] = "mined" => own[s] # 0
    /\ at[s] \in {"check", "grant"} =>
         \A k \in 1..3 : k < grant[s] => GrantOrder[k] \in granted[own[s]]
    /\ at[s] = "grant" /\ tx[s] = "mined" => GrantOrder[grant[s]] \in granted[own[s]]
    /\ at[s] = "done" => \A k \in 1..3 : GrantOrder[k] \in granted[own[s]]

(* The registry knows no sender twice, and a contract that has looked its   *)
(* identifier up has found its own.                                         *)
RegistryInv ==
    /\ \A i, j \in Ids : senderOf[i] = senderOf[j] /\ senderOf[i] # NoSender => i = j
    /\ \A c \in Senders : extensionId[c] # 0 => senderOf[extensionId[c]] = c

IInv == TypeOK /\ RegistryInv /\ \A s \in Setups : SetupInv(s)

-----------------------------------------------------------------------------

LEMMA IdFacts == /\ 0 \notin Ids
                 /\ \A id \in Ids : id \in Int
                 /\ FirstId \in Ids
BY ExtensionSetupAssumption DEF Ids

LEMMA GrantFacts == /\ \A k \in 1..3 : GrantOrder[k] \in Grants
                    /\ \A S \in SUBSET Grants :
                         (\A k \in 1..3 : GrantOrder[k] \in S) => S = Grants
BY DEF Grants

LEMMA InitIInv == Init => IInv
<1> SUFFICES ASSUME Init PROVE IInv
    OBVIOUS
<1>1. TypeOK
  <2>1. nextId \in FirstId..(MaxId + 1)
      BY ExtensionSetupAssumption DEF Init
  <2>2. \A id \in Ids : senderOf[id] = NoSender /\ ~(id < nextId)
      BY ExtensionSetupAssumption DEF Init, Ids
  <2>3. QED  BY <2>1, <2>2 DEF Init, TypeOK
<1>2. RegistryInv
    BY DEF Init, RegistryInv
<1>3. \A s \in Setups : SetupInv(s)
    BY DEF Init, SetupInv
<1>4. QED  BY <1>1, <1>2, <1>3 DEF IInv

(* A setup's own steps leave the other setups and the registry alone. *)
LEMMA OtherSetups ==
    ASSUME IInv, NEW s \in Setups, UNCHANGED <<registry, extensionId>>,
           \A r \in Setups : r # s => /\ at'[r] = at[r] /\ arg'[r] = arg[r]
                                      /\ grant'[r] = grant[r] /\ tx'[r] = tx[r]
                                      /\ own'[r] = own[r],
           TypeOK', SetupInv(s)'
    PROVE  IInv'
<1>1. ASSUME NEW r \in Setups, r # s
      PROVE  SetupInv(r)'
    BY <1>1 DEF IInv, SetupInv, registry
<1>2. RegistryInv'
    BY DEF IInv, RegistryInv, registry
<1>3. QED  BY <1>1, <1>2 DEF IInv

LEMMA SendRegisterIInv ==
    ASSUME IInv, NEW s \in Setups, NEW c \in Senders, SendRegister(s, c)
    PROVE  IInv'
<1> USE DEF IInv
<1>1. TypeOK'
    BY DEF TypeOK, SendRegister, Goto, registry
<1>2. SetupInv(s)'
    BY DEF TypeOK, SendRegister, Goto, registry, SetupInv
<1>3. \A r \in Setups : r # s => /\ at'[r] = at[r] /\ arg'[r] = arg[r]
                                 /\ grant'[r] = grant[r] /\ tx'[r] = tx[r]
                                 /\ own'[r] = own[r]
    BY DEF TypeOK, SendRegister, Goto
<1>4. QED  BY <1>1, <1>2, <1>3, OtherSetups DEF SendRegister

LEMMA RegisterReceiptIInv ==
    ASSUME IInv, NEW s \in Setups, RegisterReceipt(s)
    PROVE  IInv'
<1> USE DEF IInv
<1>1. own' = own
    BY DEF RegisterReceipt, ReceiptId, TypeOK
<1>2. TypeOK'
    BY <1>1 DEF TypeOK, RegisterReceipt, Goto, registry
<1>3. SetupInv(s)'
    BY <1>1, GrantFacts DEF TypeOK, RegisterReceipt, Goto, registry, SetupInv
<1>4. \A r \in Setups : r # s => at'[r] = at[r]
    BY DEF TypeOK, RegisterReceipt, Goto
<1>5. QED  BY <1>1, <1>2, <1>3, <1>4, OtherSetups DEF RegisterReceipt

(* The setup has seen its current grant made. *)
LEMMA AfterGrantInv ==
    ASSUME IInv, NEW s \in Setups, at[s] \in {"check", "grant"}, AfterGrant(s),
           GrantOrder[grant[s]] \in granted[own[s]],
           UNCHANGED <<registry, extensionId, arg, tx, own>>
    PROVE  IInv'
<1> USE DEF IInv
<1>1. grant[s] \in 1..3 /\ grant \in [Setups -> 1..3]
    BY DEF TypeOK
<1>2. \A k \in 1..3 : k <= grant[s] => GrantOrder[k] \in granted[own[s]]
  <2>1. \A k \in 1..3 : k <= grant[s] => k < grant[s] \/ k = grant[s]
      BY <1>1
  <2>2. QED  BY <2>1 DEF SetupInv
<1>3. CASE grant[s] = 3
  <2>1. at' = [at EXCEPT ![s] = "done"] /\ grant' = grant
      BY <1>3 DEF AfterGrant, LastGrant, Goto
  <2>2. TypeOK'
      BY <2>1 DEF TypeOK, registry
  <2>3. SetupInv(s)'
      BY <1>2, <1>3, <2>1 DEF TypeOK, registry, SetupInv
  <2>4. \A r \in Setups : r # s => at'[r] = at[r]
      BY <2>1 DEF TypeOK
  <2>5. QED  BY <2>1, <2>2, <2>3, <2>4, OtherSetups
<1>4. CASE grant[s] # 3
  <2>1. at' = [at EXCEPT ![s] = "check"] /\ grant' = [grant EXCEPT ![s] = @ + 1]
      BY <1>4 DEF AfterGrant, LastGrant, Goto
  <2>2. grant'[s] = grant[s] + 1 /\ grant' \in [Setups -> 1..3]
      BY <1>1, <1>4, <2>1
  <2>3. TypeOK'
      BY <2>1, <2>2 DEF TypeOK, registry
  <2>4. \A k \in 1..3 : k < grant'[s] => GrantOrder[k] \in granted[own[s]]
      BY <1>1, <1>2, <2>2
  <2>5. SetupInv(s)'
      BY <2>1, <2>4 DEF TypeOK, registry, SetupInv
  <2>6. \A r \in Setups : r # s => at'[r] = at[r] /\ grant'[r] = grant[r]
      BY <2>1 DEF TypeOK
  <2>7. QED  BY <2>3, <2>5, <2>6, OtherSetups
<1>5. QED  BY <1>3, <1>4

LEMMA CheckGrantIInv ==
    ASSUME IInv, NEW s \in Setups, CheckGrant(s)
    PROVE  IInv'
<1> USE DEF IInv
<1>1. CASE GrantOrder[grant[s]] \in granted[own[s]]
    BY <1>1, AfterGrantInv DEF CheckGrant
<1>2. CASE GrantOrder[grant[s]] \notin granted[own[s]]
  <2>1. /\ at[s] = "check" /\ at' = [at EXCEPT ![s] = "grant"]
        /\ tx' = [tx EXCEPT ![s] = "pending"]
        /\ UNCHANGED <<registry, extensionId, arg, own, grant>>
      BY <1>2 DEF CheckGrant, Goto
  <2>2. TypeOK'
      BY <2>1 DEF TypeOK, registry
  <2>3. SetupInv(s)'
      BY <2>1 DEF TypeOK, registry, SetupInv
  <2>4. \A r \in Setups : r # s => at'[r] = at[r] /\ tx'[r] = tx[r]
      BY <2>1 DEF TypeOK
  <2>5. QED  BY <2>1, <2>2, <2>3, <2>4, OtherSetups
<1>3. QED  BY <1>1, <1>2

LEMMA FailsIInv ==
    ASSUME IInv, NEW s \in Setups, at[s] \in {"register", "check", "grant"},
           Goto(s, "failed"), UNCHANGED <<registry, extensionId, arg, grant, tx, own>>
    PROVE  IInv'
<1> USE DEF IInv
<1>1. TypeOK'
    BY DEF TypeOK, Goto, registry
<1>2. SetupInv(s)'
    BY DEF TypeOK, Goto, registry, SetupInv
<1>3. \A r \in Setups : r # s => at'[r] = at[r]
    BY DEF TypeOK, Goto
<1>4. QED  BY <1>1, <1>2, <1>3, OtherSetups

LEMMA GrantReceiptIInv ==
    ASSUME IInv, NEW s \in Setups, GrantReceipt(s)
    PROVE  IInv'
<1>1. CASE tx[s] = "mined"
    BY <1>1, AfterGrantInv DEF GrantReceipt, IInv, SetupInv
<1>2. CASE tx[s] # "mined"
    BY <1>2, FailsIInv DEF GrantReceipt
<1>3. QED  BY <1>1, <1>2

(* A registration may be mined long after its setup gave up on it: it takes *)
(* an identifier nobody has, for a sender that has none.                    *)
LEMMA MineRegisterIInv ==
    ASSUME IInv, NEW s \in Setups, MineRegister(s)
    PROVE  IInv'
<1> USE DEF IInv
<1>1. CASE Registered(arg[s])
  <2>1. tx' = [tx EXCEPT ![s] = "reverted"] /\ own[s] = 0 /\ tx[s] = "pending"
        /\ UNCHANGED <<registry, own, extensionId, at, arg, grant>>
      BY <1>1 DEF MineRegister
  <2>2. TypeOK'
      BY <2>1 DEF TypeOK, registry
  <2>3. SetupInv(s)'
      BY <2>1 DEF TypeOK, registry, SetupInv
  <2>4. \A r \in Setups : r # s => tx'[r] = tx[r]
      BY <2>1 DEF TypeOK
  <2>5. QED  BY <2>1, <2>2, <2>3, <2>4, OtherSetups
<1>2. CASE ~Registered(arg[s])
  <2>1. /\ tx[s] = "pending" /\ own[s] = 0 /\ nextId \in Ids
        /\ tx' = [tx EXCEPT ![s] = "mined"]
        /\ senderOf' = [senderOf EXCEPT ![nextId] = arg[s]]
        /\ own' = [own EXCEPT ![s] = nextId]
        /\ nextId' = nextId + 1
        /\ UNCHANGED <<granted, extensionId, at, arg, grant>>
      BY <1>2 DEF MineRegister
  <2>2. arg[s] \in Senders /\ arg[s] # NoSender
      BY <2>1, ExtensionSetupAssumption DEF SetupInv
  <2>3. /\ nextId \in Int /\ nextId' \in FirstId..(MaxId + 1)
        /\ \A id \in Ids : id < nextId' <=> id < nextId \/ id = nextId
      BY <2>1, ExtensionSetupAssumption DEF Ids
  <2>4. senderOf[nextId] = NoSender /\ senderOf'[nextId] = arg[s]
      BY <2>1, <2>3 DEF TypeOK
  <2>5. \A id \in Ids : id # nextId => senderOf'[id] = senderOf[id]
      BY <2>1 DEF TypeOK
  <2>6. TypeOK'
    <3>1. \A id \in Ids : senderOf'[id] # NoSender <=> id < nextId'
        BY <2>2, <2>3, <2>4, <2>5 DEF TypeOK
    <3>2. /\ senderOf' \in [Ids -> Senders \cup {NoSender}]
          /\ own' \in [Setups -> Ids \cup {0}]
          /\ tx' \in [Setups -> {"none", "pending", "mined", "reverted"}]
        BY <2>1, <2>2 DEF TypeOK
    <3>3. QED  BY <2>1, <2>3, <3>1, <3>2 DEF TypeOK
  <2>7. ASSUME NEW id \in Ids, senderOf[id] # NoSender
        PROVE  senderOf'[id] = senderOf[id]
      BY <2>4, <2>5, <2>7
  <2>8. RegistryInv'
    <3>1. ASSUME NEW i \in Ids, NEW j \in Ids, senderOf'[i] = senderOf'[j],
                 senderOf'[i] # NoSender
          PROVE  i = j
      <4>1. \A id \in Ids : senderOf[id] # arg[s]
          BY <1>2 DEF Registered
      <4>2. QED  BY <2>4, <2>5, <3>1, <4>1 DEF RegistryInv
    <3>2. ASSUME NEW c \in Senders, extensionId'[c] # 0
          PROVE  senderOf'[extensionId'[c]] = c
        BY <2>1, <2>7, <3>2, ExtensionSetupAssumption DEF RegistryInv, TypeOK
    <3>3. QED  BY <3>1, <3>2 DEF RegistryInv
  <2>9. SetupInv(s)'
    <3>1. own'[s] = nextId /\ nextId # 0 /\ tx'[s] = "mined"
        BY <2>1, IdFacts DEF TypeOK
    <3>2. at[s] \notin {"idle", "check", "grant", "done"}
        BY <2>1 DEF SetupInv
    <3>3. QED  BY <2>1, <2>2, <2>4, <3>1, <3>2 DEF SetupInv
  <2>10. ASSUME NEW r \in Setups, r # s
         PROVE  SetupInv(r)'
    <3>1. tx'[r] = tx[r] /\ own'[r] = own[r]
        BY <2>1, <2>10 DEF TypeOK
    <3>2. own[r] # 0 => senderOf'[own[r]] = senderOf[own[r]]
        BY <2>7, ExtensionSetupAssumption DEF SetupInv, TypeOK
    <3>3. QED  BY <2>1, <3>1, <3>2 DEF SetupInv
  <2>11. QED  BY <2>6, <2>8, <2>9, <2>10
<1>3. QED  BY <1>1, <1>2

LEMMA MineGrantIInv ==
    ASSUME IInv, NEW s \in Setups, MineGrant(s)
    PROVE  IInv'
<1> USE DEF IInv
<1>1. /\ tx[s] = "pending" /\ own[s] # 0 /\ own[s] \in Ids
      /\ UNCHANGED <<senderOf, nextId, extensionId, at, arg, grant, own>>
    BY DEF MineGrant, TypeOK
<1>2. /\ granted' \in [Ids -> SUBSET Grants]
      /\ \A id \in Ids : granted[id] \subseteq granted'[id]
      /\ tx' \in [Setups -> {"none", "pending", "mined", "reverted"}]
      /\ \A r \in Setups : r # s => tx'[r] = tx[r]
      /\ tx'[s] \in {"mined", "reverted"}
      /\ tx'[s] = "mined" => GrantOrder[grant[s]] \in granted'[own[s]]
  <2>1. CASE /\ tx' = [tx EXCEPT ![s] = "mined"]
             /\ granted' = [granted EXCEPT ![own[s]] = @ \cup {GrantOrder[grant[s]]}]
    <3>1. GrantOrder[grant[s]] \in Grants
        BY GrantFacts DEF TypeOK
    <3> HIDE DEF IInv
    <3>2. granted \in [Ids -> SUBSET Grants]
        BY DEF IInv, TypeOK
    <3>3. /\ tx' \in [Setups -> {"none", "pending", "mined", "reverted"}]
          /\ \A r \in Setups : r # s => tx'[r] = tx[r]
          /\ tx'[s] = "mined"
        BY <2>1 DEF IInv, TypeOK
    <3>4. QED  BY <1>1, <2>1, <3>1, <3>2, <3>3
  <2>2. CASE tx' = [tx EXCEPT ![s] = "reverted"] /\ UNCHANGED granted
      BY <2>2 DEF TypeOK
  <2>3. QED  BY <2>1, <2>2 DEF MineGrant
<1>3. TypeOK' /\ RegistryInv'
    BY <1>1, <1>2 DEF TypeOK, RegistryInv
<1>4. \A r \in Setups : own[r] # 0 => granted[own[r]] \subseteq granted'[own[r]]
    BY <1>2 DEF TypeOK
<1>5. ASSUME NEW r \in Setups, r # s
      PROVE  SetupInv(r)'
    BY <1>1, <1>2, <1>4, <1>5 DEF SetupInv
<1>6. SetupInv(s)'
    BY <1>1, <1>2, <1>4 DEF SetupInv
<1>7. QED  BY <1>3, <1>5, <1>6

LEMMA SetExtensionIdIInv ==
    ASSUME IInv, NEW c \in Senders, SetExtensionId(c)
    PROVE  IInv'
<1> USE DEF IInv
<1>1. PICK id \in FirstId..(nextId - 1) :
        senderOf[id] = c /\ extensionId' = [extensionId EXCEPT ![c] = id]
    BY DEF SetExtensionId
<1>2. id \in Ids
    BY ExtensionSetupAssumption DEF TypeOK, Ids
<1>3. UNCHANGED <<senderOf, granted, nextId, at, arg, grant, tx, own>>
    BY DEF SetExtensionId, registry
<1>4. TypeOK' /\ RegistryInv'
    BY <1>1, <1>2, <1>3 DEF TypeOK, RegistryInv
<1>5. \A s \in Setups : SetupInv(s)'
    BY <1>3 DEF SetupInv
<1>6. QED  BY <1>4, <1>5

-----------------------------------------------------------------------------
(* Registry, contracts and setups agree at all times. *)
THEOREM SetupInvariant == Spec => []IInv
<1>1. Init => IInv
    BY InitIInv
<1>2. IInv /\ [Next]_vars => IInv'
  <2> SUFFICES ASSUME IInv, [Next]_vars PROVE IInv'
      OBVIOUS
  <2>1. ASSUME NEW s \in Setups, SetupStep(s)
        PROVE  IInv'
      BY <2>1, SendRegisterIInv, RegisterReceiptIInv, CheckGrantIInv, GrantReceiptIInv, FailsIInv
         DEF SetupStep, Fail
  <2>2. ASSUME NEW s \in Setups, MineRegister(s) \/ MineGrant(s)
        PROVE  IInv'
      BY <2>2, MineRegisterIInv, MineGrantIInv
  <2>3. ASSUME NEW c \in Senders, SetExtensionId(c)
        PROVE  IInv'
      BY <2>3, SetExtensionIdIInv
  <2>4. CASE UNCHANGED vars
      BY <2>4 DEF IInv, TypeOK, RegistryInv, SetupInv, vars, registry
  <2>5. QED  BY <2>1, <2>2, <2>3, <2>4 DEF Next
<1>3. QED  BY <1>1, <1>2, PTL DEF Spec

(* The variables keep their shapes; identifiers are handed out in order. *)
THEOREM SetupTypeCorrect == Spec => []TypeOK
<1>1. IInv => TypeOK
    BY DEF IInv
<1>2. QED  BY <1>1, SetupInvariant, PTL

(* What a setup returns can be used: the extension is registered for its    *)
(* sender, carries all three grants and is the one setExtensionId finds.    *)
THEOREM ReturnedIsUsable == Spec => []ReturnedExtensionUsable
<1>1. IInv => ReturnedExtensionUsable
  <2> SUFFICES ASSUME IInv, NEW s \in Setups, at[s] = "done"
               PROVE  /\ senderOf[own[s]] = arg[s]
                      /\ granted[own[s]] = Grants
                      /\ extensionId[arg[s]] \in {0, own[s]}
      BY DEF ReturnedExtensionUsable
  <2>1. own[s] # 0 /\ own[s] \in Ids /\ senderOf[own[s]] = arg[s] /\ arg[s] \in Senders
      BY DEF IInv, SetupInv, TypeOK
  <2>2. granted[own[s]] = Grants
      BY <2>1, GrantFacts DEF IInv, SetupInv, TypeOK
  <2>3. extensionId[arg[s]] \in {0, own[s]}
    <3>1. CASE extensionId[arg[s]] # 0
      <4>1. extensionId[arg[s]] \in Ids /\ senderOf[extensionId[arg[s]]] = arg[s]
          BY <2>1, <3>1 DEF IInv, RegistryInv, TypeOK
      <4>2. QED  BY <2>1, <4>1, ExtensionSetupAssumption DEF IInv, RegistryInv
    <3>2. QED  BY <3>1
  <2>4. QED  BY <2>1, <2>2, <2>3
<1>2. QED  BY <1>1, SetupInvariant, PTL
=============================================================================
