----------------------------- MODULE MintDeposit -----------------------------
(***************************************************************************)
(* The scripts integration/run-mint-deposit.mjs and                        *)
(* integration/resume-mint-deposit.mjs, which take an XRP holder from an   *)
(* XRPL payment to a funded intent in the router.                          *)
(*                                                                         *)
(* A script is a process that gives up control at every await, so a step   *)
(* of it runs from one await to the next and everything the script has     *)
(* read may be out of date when it uses it.  A script may also stop at any *)
(* await: an RPC call throws, or the operator interrupts it.  It writes    *)
(* its record file last; until then the XRPL payment, the attestation      *)
(* request and the Flare transaction exist only on the ledgers.            *)
(*                                                                         *)
(* External: the XRP ledger; the Flare data connector (an attestation is   *)
(* requested, its round is finalized or not, its proof is published or     *)
(* not); the asset manager and the personal account, which check that the  *)
(* proof is of a payment not used before, that its memo is the hash of the *)
(* operation presented, and that the operation carries the account's       *)
(* current nonce.  The router is seen through createAndFundIntent only.    *)
(*                                                                         *)
(* Hashing is injective: a memo is the operation it is the hash of.        *)
(***************************************************************************)
EXTENDS Integers, FiniteSets

CONSTANTS
    Runs,           \* invocations of run-mint-deposit
    Resumes,        \* invocations of resume-mint-deposit
    LegacyPayment,  \* a payment made before the commitment named the nonce
    Lifetime,       \* 7200 seconds from the build of the operation to its expiry
    Slack,          \* 120 seconds around it that resume searches
    Confirmations,  \* validated ledgers a run waits for
    MaxAttempts,    \* polls of the data connector
    MaxTime,        \* bound on the clock
    MaxNonce,       \* bound on the nonce of the personal account
    None

Payments == Runs \cup {LegacyPayment}   \* a run makes at most one
Scripts == Runs \cup Resumes

(* The operation approves the router and calls createAndFundIntent with the  *)
(* policy commitment and the expiry.  A commitment binds the intent nonce;   *)
(* the legacy one is the hash of a JSON text that does not.                  *)
Commitment(n) == [policy |-> "private", intentNonce |-> n]
LegacyCommitment == [policy |-> "legacy", intentNonce |-> None]
Operation(n, commitment, e) == [nonce |-> n, commitment |-> commitment, expiry |-> e]
Intent(n, op) == [nonce |-> n, commitment |-> op.commitment, expiry |-> op.expiry]

Commitments == {Commitment(n) : n \in 0..MaxNonce} \cup {LegacyCommitment}
Operations == [nonce : 0..MaxNonce, commitment : Commitments, expiry : 0..(MaxTime + Lifetime)]
Intents == [nonce : 0..MaxNonce, commitment : Commitments, expiry : 0..(MaxTime + Lifetime)]
Stages == {"idle", "nonce", "intentNonce", "pay", "confirm", "request", "recover",
           "finalize", "proof", "mint", "receipt", "done", "stopped", "unrecovered"}
Ended == {"done", "stopped", "unrecovered"}

ASSUME MintDepositAssumption ==
    /\ LegacyPayment \notin Runs
    /\ Runs \cap Resumes = {}
    /\ Lifetime \in Nat /\ Slack \in Nat /\ MaxTime \in Nat /\ MaxNonce \in Nat
    /\ MaxAttempts \in Nat \ {0}
    /\ Confirmations \in Nat

(* None is neither an operation nor a payment. *)
ASSUME NoneAssumption ==
    /\ None \notin Operations
    /\ None \notin [op : Operations, time : 0..MaxTime, depth : 0..Confirmations]

VARIABLES
    now,
    accountNonce,     \* MasterAccountController.getNonce(personalAccount)
    nextIntentNonce,  \* ShadowRouter.nextIntentNonce(personalAccount)
    intents,          \* the intents of the personal account in the router
    payment,          \* payment[p]: the XRPL payment, or None
    minted,           \* payments the asset manager has turned into FXRP
    attestation,      \* attestation[p]: what the data connector knows of it
    mintTx,           \* mintTx[s]: the Flare transaction script s sent
    at,               \* at[s]: where script s is
    local,            \* local[s]: its variables
    record,           \* deployments/coston2-mint-deposit-v2.json, or None
    resumeRecord      \* deployments/coston2-mint-deposit.json, or None

files == <<record, resumeRecord>>
ledgers == <<payment, attestation>>
flare == <<accountNonce, nextIntentNonce, intents, minted>>
vars == <<now, flare, ledgers, mintTx, at, local, files>>

NoLocal == [nonce |-> 0, intentNonce |-> 0, op |-> None, payment |-> None, attempts |-> 0]

Goto(s, stage) == at' = [at EXCEPT ![s] = stage]

(* A legacy payment is of nonce 0 and was requested from the connector.  *)
Init ==
    /\ now = 0
    /\ accountNonce = 0
    /\ nextIntentNonce = 0
    /\ intents = {}
    /\ \E legacy \in {None, [op |-> Operation(0, LegacyCommitment, Lifetime),
                             time |-> 0, depth |-> Confirmations]} :
         /\ payment = [p \in Payments |-> IF p = LegacyPayment THEN legacy ELSE None]
         /\ attestation = [p \in Payments |-> IF p = LegacyPayment /\ legacy # None
                                              THEN "requested" ELSE "none"]
    /\ minted = {}
    /\ mintTx = [s \in Scripts |-> "none"]
    /\ at = [s \in Scripts |-> "idle"]
    /\ local = [s \in Scripts |-> NoLocal]
    /\ record = None
    /\ resumeRecord = None

-----------------------------------------------------------------------------
(* run-mint-deposit *)

Start(r) ==
    /\ at[r] = "idle"
    /\ Goto(r, "nonce")
    /\ UNCHANGED <<now, flare, ledgers, mintTx, local, files>>

(* The two reads, in the order of the code, and in the other order. *)
NonceReadSwapped(l, stage) ==
    IF stage = "nonce" THEN [l EXCEPT !.intentNonce = nextIntentNonce]
                       ELSE [l EXCEPT !.nonce = accountNonce]
NonceRead(l, stage) ==
    IF stage = "nonce" THEN [l EXCEPT !.nonce = accountNonce]
                       ELSE [l EXCEPT !.intentNonce = nextIntentNonce]

ReadAccountNonce(r) ==
    /\ at[r] = "nonce"
    /\ local' = [local EXCEPT ![r] = NonceRead(@, "nonce")]
    /\ Goto(r, "intentNonce")
    /\ UNCHANGED <<now, flare, ledgers, mintTx, files>>

(* The second read, and the operation built from both without an await. *)
ReadIntentNonce(r) ==
    /\ at[r] = "intentNonce"
    /\ LET l == NonceRead(local[r], "intentNonce")
       IN  local' = [local EXCEPT ![r] = [l EXCEPT
             !.op = Operation(l.nonce, Commitment(l.intentNonce), now + Lifetime),
             !.payment = r]]
    /\ Goto(r, "pay")
    /\ UNCHANGED <<now, flare, ledgers, mintTx, files>>

(* submitAndWait succeeds once the payment is in a validated ledger. *)
Pay(r) ==
    /\ at[r] = "pay"
    /\ payment' = [payment EXCEPT ![r] = [op |-> local[r].op, time |-> now, depth |-> 0]]
    /\ Goto(r, "confirm")
    /\ UNCHANGED <<now, flare, attestation, mintTx, local, files>>

(* waitForXrplConfirmations: polls without a bound. *)
Confirm(r) ==
    /\ at[r] = "confirm"
    /\ payment[r].depth >= Confirmations
    /\ Goto(r, "request")
    /\ UNCHANGED <<now, flare, ledgers, mintTx, local, files>>

RequestAttestation(r) ==
    /\ at[r] = "request"
    /\ attestation' = [attestation EXCEPT ![r] = "requested"]
    /\ Goto(r, "finalize")
    /\ UNCHANGED <<now, flare, payment, mintTx, local, files>>

-----------------------------------------------------------------------------
(* resume-mint-deposit *)

(* The operator names a payment and the attestation request made for it. *)
StartResume(s, p) ==
    /\ at[s] = "idle"
    /\ attestation[p] # "none"
    /\ local' = [local EXCEPT ![s].payment = p]
    /\ Goto(s, "recover")
    /\ UNCHANGED <<now, flare, ledgers, mintTx, files>>

(* The operations resume can find for a payment made at time t. *)
Candidates(t) ==
    {Operation(0, LegacyCommitment, t + Lifetime + delta) : delta \in -Slack..Slack}

Recover(s) ==
    LET paid == payment[local[s].payment] IN
    /\ at[s] = "recover"
    /\ IF paid.op \in Candidates(paid.time)
       THEN local' = [local EXCEPT ![s].op = paid.op] /\ Goto(s, "finalize")
       ELSE Goto(s, "unrecovered") /\ UNCHANGED local
    /\ UNCHANGED <<now, flare, ledgers, mintTx, files>>

-----------------------------------------------------------------------------
(* retrieveXrpPaymentProof and executeDirectMintingWithData, of both scripts. *)

AttemptNotCounted(n) == n
AttemptCounted(n) == n + 1
LastAttemptTooLate(n) == n = MaxAttempts
LastAttempt(n) == n = MaxAttempts - 1

(* One poll: an answer moves the script on, the last of MaxAttempts polls  *)
(* without one ends it.                                                    *)
Poll(s, stage, answered, next) ==
    /\ at[s] = stage
    /\ IF answered
       THEN local' = [local EXCEPT ![s].attempts = 0] /\ Goto(s, next)
       ELSE /\ local' = [local EXCEPT ![s].attempts = AttemptCounted(@)]
            /\ Goto(s, IF LastAttempt(local[s].attempts) THEN "stopped" ELSE stage)
    /\ UNCHANGED <<now, flare, ledgers, mintTx, files>>

PollFinalized(s) ==
    Poll(s, "finalize", attestation[local[s].payment] \in {"finalized", "published"}, "proof")
PollProof(s) ==
    Poll(s, "proof", attestation[local[s].payment] = "published", "mint")

(* executeDirectMintingWithData would succeed on the current Flare state. *)
Mintable(p, op) ==
    /\ attestation[p] = "published"
    /\ p \notin minted
    /\ op = payment[p].op
    /\ op.nonce = accountNonce
    /\ op.expiry > now

(* writeContract estimates the gas first, and throws if the call reverts. *)
SendMint(s) ==
    /\ at[s] = "mint"
    /\ IF Mintable(local[s].payment, local[s].op)
       THEN mintTx' = [mintTx EXCEPT ![s] = "pending"] /\ Goto(s, "receipt")
       ELSE Goto(s, "stopped") /\ UNCHANGED mintTx
    /\ UNCHANGED <<now, flare, ledgers, local, files>>

(* What a run writes down: the intent it expects, whatever the receipt says; *)
(* a resume names the payment and the transaction only.                      *)
RecordOfLateNonce(r) ==
    [payment |-> r, intent |-> Intent(nextIntentNonce, local[r].op), mintTx |-> r]
RecordOf(r) ==
    [payment |-> r, intent |-> Intent(local[r].intentNonce, local[r].op), mintTx |-> r]

(* The receipt is there; its status is not looked at. *)
WriteRecord(s) ==
    /\ at[s] = "receipt"
    /\ mintTx[s] \in {"success", "reverted"}
    /\ IF s \in Runs
       THEN record' = RecordOf(s) /\ UNCHANGED resumeRecord
       ELSE /\ resumeRecord' = [payment |-> local[s].payment, mintTx |-> s]
            /\ UNCHANGED record
    /\ Goto(s, "done")
    /\ UNCHANGED <<now, flare, ledgers, mintTx, local>>

(* waitForTransactionReceipt gives up: the transaction may be mined later. *)
ReceiptTimeout(s) ==
    /\ at[s] = "receipt"
    /\ mintTx[s] = "pending"
    /\ Goto(s, "stopped")
    /\ UNCHANGED <<now, flare, ledgers, mintTx, local, files>>

(* An await throws, or the operator interrupts the script. *)
Stop(s) ==
    /\ at[s] \notin Ended \cup {"idle"}
    /\ Goto(s, "stopped")
    /\ UNCHANGED <<now, flare, ledgers, mintTx, local, files>>

-----------------------------------------------------------------------------
(* Environment. *)

(* The transaction is mined: it executes the operation or reverts, which it *)
(* may do even when the operation is valid (out of gas, a paused router).   *)
MineSuccess(s) ==
    LET l == local[s] IN
    /\ mintTx[s] = "pending"
    /\ Mintable(l.payment, l.op)
    /\ accountNonce < MaxNonce
    /\ mintTx' = [mintTx EXCEPT ![s] = "success"]
    /\ minted' = minted \cup {l.payment}
    /\ accountNonce' = accountNonce + 1
    /\ intents' = intents \cup {Intent(nextIntentNonce, l.op)}
    /\ nextIntentNonce' = nextIntentNonce + 1
    /\ UNCHANGED <<now, ledgers, at, local, files>>

MineRevert(s) ==
    /\ mintTx[s] = "pending"
    /\ mintTx' = [mintTx EXCEPT ![s] = "reverted"]
    /\ UNCHANGED <<now, flare, ledgers, at, local, files>>

(* The personal account executes an operation of another kind. *)
OtherOperation ==
    /\ accountNonce < MaxNonce
    /\ accountNonce' = accountNonce + 1
    /\ UNCHANGED <<now, nextIntentNonce, intents, minted, ledgers, mintTx, at, local, files>>

LedgerCloses ==
    /\ \E p \in Payments : payment[p] # None /\ payment[p].depth < Confirmations
    /\ payment' = [p \in Payments |->
         IF payment[p] # None /\ payment[p].depth < Confirmations
         THEN [payment[p] EXCEPT !.depth = @ + 1] ELSE payment[p]]
    /\ UNCHANGED <<now, flare, attestation, mintTx, at, local, files>>

Attest(p) ==
    /\ \/ attestation[p] = "requested" /\ attestation' = [attestation EXCEPT ![p] = "finalized"]
       \/ attestation[p] = "finalized" /\ attestation' = [attestation EXCEPT ![p] = "published"]
    /\ UNCHANGED <<now, flare, payment, mintTx, at, local, files>>

Tick ==
    /\ now < MaxTime
    /\ now' = now + 1
    /\ UNCHANGED <<flare, ledgers, mintTx, at, local, files>>

-----------------------------------------------------------------------------
(* A step the script takes once what it awaits is there. *)
Proceed(s) ==
    \/ s \in Runs /\ \/ ReadAccountNonce(s) \/ ReadIntentNonce(s) \/ Pay(s)
                     \/ Confirm(s) \/ RequestAttestation(s)
    \/ s \in Resumes /\ Recover(s)
    \/ PollFinalized(s) \/ PollProof(s) \/ SendMint(s) \/ WriteRecord(s)
    \/ ReceiptTimeout(s)

Mine(s) == MineSuccess(s) \/ MineRevert(s)

Next ==
    \/ \E r \in Runs : Start(r)
    \/ \E s \in Resumes, p \in Payments : StartResume(s, p)
    \/ \E s \in Scripts : Proceed(s) \/ Stop(s) \/ Mine(s)
    \/ \E p \in Payments : Attest(p)
    \/ OtherOperation \/ LedgerCloses \/ Tick

(* The runtime resumes a script whose await has an answer, every RPC call is *)
(* answered, and the XRP ledger closes.  Nothing makes the data connector    *)
(* answer, Flare mine a transaction, or the operator start a script.         *)
Fairness == (\A s \in Scripts : WF_vars(Proceed(s))) /\ WF_vars(LedgerCloses)

Spec == Init /\ [][Next]_vars /\ Fairness

-----------------------------------------------------------------------------
(* The nonces, files and ledgers hold values of the shapes the scripts give *)
(* them, and a script past its payment has an operation.                    *)
TypeOK ==
    /\ now \in 0..MaxTime
    /\ accountNonce \in 0..MaxNonce
    /\ nextIntentNonce \in 0..accountNonce
    /\ intents \subseteq Intents
    /\ minted \subseteq Payments
    /\ \A p \in Payments : payment[p] # None =>
         payment[p] \in [op : Operations, time : 0..MaxTime, depth : 0..Confirmations]
    /\ attestation \in [Payments -> {"none", "requested", "finalized", "published"}]
    /\ mintTx \in [Scripts -> {"none", "pending", "success", "reverted"}]
    /\ at \in [Scripts -> Stages]
    /\ \A s \in Scripts : /\ local[s].attempts \in 0..MaxAttempts
                          /\ at[s] \in {"finalize", "proof", "mint", "receipt"} =>
                               local[s].op \in Operations /\ local[s].payment \in Payments

(* An intent funded through a payment has the nonce its policy commits to,   *)
(* so the TEE can match the policy with it.  Another run, or a resume, may   *)
(* create an intent between the two reads and the mint: what prevents a      *)
(* stale commitment from being funded is that the account nonce, which the   *)
(* personal account compares, is read before the intent nonce.               *)
DepositMatchesCommitment == \A i \in intents :
    i.commitment.policy = "private" => i.commitment.intentNonce = i.nonce

(* A record file whose Flare transaction succeeded names a payment that has *)
(* become FXRP, and that of a run the intent funded with it, though its     *)
(* identifier was computed before the payment.                              *)
RecordedIntentFunded ==
    /\ record # None /\ mintTx[record.mintTx] = "success" =>
         record.payment \in minted /\ record.intent \in intents
    /\ resumeRecord # None /\ mintTx[resumeRecord.mintTx] = "success" =>
         resumeRecord.payment \in minted

(* A script that has started ends: with its record, by an exception, or     *)
(* because it was stopped, whether or not the data connector ever answers.  *)
ScriptsTerminate == \A s \in Scripts : (at[s] # "idle") ~> (at[s] \in Ended)

(* The payments, seen as the offers of the operations they were made for.   *)
Promise == INSTANCE DepositPromise WITH
    offer <- [p \in Payments |-> IF payment[p] = None THEN None ELSE payment[p].op],
    funded <- minted,
    next <- nextIntentNonce

(* However runs, resumes and other operations of the account interleave, a  *)
(* payment is executed at most once, for the operation that was paid for    *)
(* and before it expires; of two payments with the same account nonce, one  *)
(* at most; and it funds the intent that its policy is committed to.        *)
ImplementsDeposit == Promise!Spec

(* What is left of script s: its stages, and the polls of the one it is in. *)
Remaining ==
    [idle |-> 10, nonce |-> 9, intentNonce |-> 8, pay |-> 7, confirm |-> 6, request |-> 5,
     recover |-> 5, finalize |-> 4, proof |-> 3, mint |-> 2, receipt |-> 1,
     done |-> 0, stopped |-> 0, unrecovered |-> 0]
Rank(s) == Remaining[at[s]] * (MaxAttempts + 1) + MaxAttempts - local[s].attempts

(* Every step that moves a script brings it closer to its end, though it    *)
(* polls, fails or is resumed by another: none comes back to a stage it has *)
(* left, above all not to the payment, and none polls more often than       *)
(* MaxAttempts times.                                                       *)
ScriptsAdvance == [][\A s \in Scripts :
    at'[s] # at[s] \/ local'[s] # local[s] => Rank(s)' \in 0..(Rank(s) - 1)]_vars

(* "If a run stops after the XRPL payment and FDC request, do not send the   *)
(* payment again.  Resume those exact transactions" (README.md:163): resume  *)
(* recovers the operation a run has paid for.                                *)
ResumeRecoversRun == \A s \in Resumes :
    local[s].payment \in Runs => at[s] # "unrecovered"
=============================================================================
