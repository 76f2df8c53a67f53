---------------------------- MODULE ExtensionSetup ----------------------------
(***************************************************************************)
(* The registration of an FCC extension: SetupExtension of                 *)
(* fcc-scaffold/tools/pkg/fccutils/extension.go and setExtensionId of      *)
(* contracts/ShadowRouteInstructionSender.sol.                             *)
(*                                                                         *)
(* A setup sends one transaction to register the extension of an           *)
(* instruction sender and then makes three grants, each after a look at    *)
(* the chain whether it is needed.  It may be interrupted anywhere, and    *)
(* CheckTx gives up on a transaction that is not mined in two minutes but  *)
(* may be mined later; several setups may be running.                      *)
(*                                                                         *)
(* External: the registry of extensions, which hands out identifiers in    *)
(* order and refuses a second extension of the same instruction sender     *)
(* (tools/integration/registration_test.go).                               *)
(***************************************************************************)
EXTENDS Integers

CONSTANTS
    Setups,     \* invocations of register-extension
    Senders,    \* InstructionSender contracts
    FirstId,    \* FIRST_PUBLIC_EXTENSION_ID
    MaxId,      \* bound on the extensions registered
    NoSender

(* The three grants of a setup, in order: the deployer as TEE machine owner, *)
(* as wallet project owner, and the EVM key type.                            *)
GrantOrder == <<"machineOwner", "projectOwner", "keyType">>
Grants == {GrantOrder[k] : k \in 1..3}
Ids == FirstId..MaxId

ASSUME ExtensionSetupAssumption ==
    /\ FirstId \in Nat \ {0}
    /\ MaxId \in Nat /\ MaxId >= FirstId
    /\ NoSender \notin Senders

VARIABLES
    senderOf,     \* getTeeExtensionInstructionsSender(id), or NoSender
    granted,      \* granted[id]: the grants made to the extension
    nextId,       \* nextPublicExtensionId
    extensionId,  \* extensionId[c] of contract c, 0 when unset
    at,           \* at[s]: where setup s is
    arg,          \* arg[s]: its instruction sender
    grant,        \* grant[s]: the grant it is at, 1..3
    tx,           \* tx[s]: its latest transaction
    own           \* own[s]: the identifier in the receipt of its Register, or 0

registry == <<senderOf, granted, nextId>>
vars == <<registry, extensionId, at, arg, grant, tx, own>>

Goto(s, stage) == at' = [at EXCEPT ![s] = stage]

Init ==
    /\ senderOf = [id \in Ids |-> NoSender]
    /\ granted = [id \in Ids |-> {}]
    /\ nextId = FirstId
    /\ extensionId = [c \in Senders |-> 0]
    /\ at = [s \in Setups |-> "idle"]
    /\ arg = [s \in Setups |-> NoSender]
    /\ grant = [s \in Setups |-> 1]
    /\ tx = [s \in Setups |-> "none"]
    /\ own = [s \in Setups |-> 0]

Registered(c) == \E id \in Ids : senderOf[id] = c

-----------------------------------------------------------------------------
(* SetupExtension begins with registerExtension, unconditionally.  Register *)
(* estimates its gas first and fails if the registry would revert.          *)
SendRegister(s, c) ==
    /\ at[s] = "idle"
    /\ arg' = [arg EXCEPT ![s] = c]
    /\ IF Registered(c)
       THEN Goto(s, "refused") /\ UNCHANGED tx
       ELSE Goto(s, "register") /\ tx' = [tx EXCEPT ![s] = "pending"]
    /\ UNCHANGED <<registry, extensionId, grant, own>>

(* The identifier is read from the log of the setup's own receipt. *)
LatestId(s) == nextId - 1
ReceiptId(s) == own[s]

RegisterReceipt(s) ==
    /\ at[s] = "register"
    /\ tx[s] \in {"mined", "reverted"}
    /\ Goto(s, IF tx[s] = "mined" THEN "check" ELSE "refused")
    /\ own' = [own EXCEPT ![s] = ReceiptId(s)]
    /\ UNCHANGED <<registry, extensionId, arg, grant, tx>>

LastGrantTooLate(k) == k = 4
LastGrant(k) == k = 3

(* After a grant the setup goes on to the next one, or returns. *)
AfterGrant(s) ==
    IF LastGrant(grant[s])
    THEN Goto(s, "done") /\ UNCHANGED grant
    ELSE Goto(s, "check") /\ grant' = [grant EXCEPT ![s] = @ + 1]

(* The grants are made only when the chain does not show them yet. *)
CheckGrant(s) ==
    /\ at[s] = "check"
    /\ IF GrantOrder[grant[s]] \in granted[own[s]]
       THEN AfterGrant(s) /\ UNCHANGED tx
       ELSE Goto(s, "grant") /\ tx' = [tx EXCEPT ![s] = "pending"] /\ UNCHANGED grant
    /\ UNCHANGED <<registry, extensionId, arg, own>>

GrantReceipt(s) ==
    /\ at[s] = "grant"
    /\ tx[s] \in {"mined", "reverted"}
    /\ IF tx[s] = "mined" THEN AfterGrant(s) ELSE Goto(s, "failed") /\ UNCHANGED grant
    /\ UNCHANGED <<registry, extensionId, arg, tx, own>>

(* CheckTx times out, an RPC call fails or the operator interrupts the setup. *)
Fail(s) ==
    /\ at[s] \in {"register", "check", "grant"}
    /\ Goto(s, "failed")
    /\ UNCHANGED <<registry, extensionId, arg, grant, tx, own>>

(* setExtensionId: the first extension registered with this contract. *)
SetExtensionId(c) ==
    /\ extensionId[c] = 0
    /\ \E id \in FirstId..(nextId - 1) :
         /\ senderOf[id] = c
         /\ \A other \in FirstId..(id - 1) : senderOf[other] # c
         /\ extensionId' = [extensionId EXCEPT ![c] = id]
    /\ UNCHANGED <<registry, at, arg, grant, tx, own>>

-----------------------------------------------------------------------------
(* Environment: transactions are mined in any order, or never. *)

MineRegister(s) ==
    /\ tx[s] = "pending"
    /\ own[s] = 0
    /\ nextId \in Ids
    /\ IF Registered(arg[s])
       THEN /\ tx' = [tx EXCEPT ![s] = "reverted"]
            /\ UNCHANGED <<registry, own>>
       ELSE /\ tx' = [tx EXCEPT ![s] = "mined"]
            /\ senderOf' = [senderOf EXCEPT ![nextId] = arg[s]]
            /\ own' = [own EXCEPT ![s] = nextId]
            /\ nextId' = nextId + 1
            /\ UNCHANGED granted
    /\ UNCHANGED <<extensionId, at, arg, grant>>

MineGrant(s) ==
    /\ tx[s] = "pending"
    /\ own[s] # 0
    /\ \/ /\ tx' = [tx EXCEPT ![s] = "mined"]
          /\ granted' = [granted EXCEPT ![own[s]] = @ \cup {GrantOrder[grant[s]]}]
       \/ /\ tx' = [tx EXCEPT ![s] = "reverted"]
          /\ UNCHANGED granted
    /\ UNCHANGED <<senderOf, nextId, extensionId, at, arg, grant, own>>

SetupStep(s) ==
    \/ \E c \in Senders : SendRegister(s, c)
    \/ RegisterReceipt(s) \/ CheckGrant(s) \/ GrantReceipt(s) \/ Fail(s)

Next ==
    \/ \E s \in Setups : SetupStep(s) \/ MineRegister(s) \/ MineGrant(s)
    \/ \E c \in Senders : SetExtensionId(c)

Spec == Init /\ [][Next]_vars

-----------------------------------------------------------------------------
(* The registry, the contracts and the setups hold values of their shapes;  *)
(* extensions occupy the identifiers below nextId.                          *)
TypeOK ==
    /\ senderOf \in [Ids -> Senders \cup {NoSender}]
    /\ granted \in [Ids -> SUBSET Grants]
    /\ nextId \in FirstId..(MaxId + 1)
    /\ \A id \in Ids : senderOf[id] # NoSender <=> id < nextId
    /\ extensionId \in [Senders -> Ids \cup {0}]
    /\ at \in [Setups -> {"idle", "register", "check", "grant", "done", "failed", "refused"}]
    /\ arg \in [Setups -> Senders \cup {NoSender}]
    /\ grant \in [Setups -> 1..3]
    /\ tx \in [Setups -> {"none", "pending", "mined", "reverted"}]
    /\ own \in [Setups -> Ids \cup {0}]

(* The identifier a setup returns is usable by the contract it was called    *)
(* for: the registry knows that contract under it, all three grants are on   *)
(* it, and setExtensionId of the contract has found or will find this very   *)
(* identifier, whatever other setups registered meanwhile.                   *)
ReturnedExtensionUsable == \A s \in Setups : at[s] = "done" =>
    /\ senderOf[own[s]] = arg[s]
    /\ granted[own[s]] = Grants
    /\ extensionId[arg[s]] \in {0, own[s]}

(* "Verifies the second run detects the existing registration and returns  *)
(* the same extension ID without submitting duplicate transactions"        *)
(* (fcc-scaffold/docs/testing.md:82): no setup is refused because the      *)
(* extension it asks for exists.                                           *)
SecondSetupSucceeds == \A s \in Setups : at[s] # "refused"
=============================================================================
