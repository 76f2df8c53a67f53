-------------------------- MODULE MintDepositProofs --------------------------
(***************************************************************************)
(* Proofs about MintDeposit, for any number of runs and resumes and every  *)
(* value of its bounds.                                                    *)
(***************************************************************************)
EXTENDS MintDeposit, TLAPS

-----------------------------------------------------------------------------
(* The inductive invariant.                                                *)

PaymentRecords == [op : Operations, time : 0..MaxTime, depth : 0..Confirmations]
Locals == [nonce : 0..MaxNonce, intentNonce : 0..MaxNonce, op : Operations \cup {None},
           payment : Payments \cup {None}, attempts : 0..MaxAttempts]

Shapes ==
    /\ now \in 0..MaxTime
    /\ accountNonce \in 0..MaxNonce
    /\ nextIntentNonce \in 0..accountNonce
    /\ intents \subseteq Intents
    /\ minted \subseteq Payments
    /\ payment \in [Payments -> PaymentRecords \cup {None}]
    /\ attestation \in [Payments -> {"none", "requested", "finalized", "published"}]
    /\ mintTx \in [Scripts -> {"none", "pending", "success", "reverted"}]
    /\ at \in [Scripts -> Stages]
    /\ local \in [Scripts -> Locals]

(* An operation commits to the next intent nonce for as long as the account   *)
(* nonce it carries is the current one.                                       *)
Current(op) ==
    /\ op \in Operations /\ op.nonce <= accountNonce
    /\ op.nonce = accountNonce /\ op.commitment.policy = "private" =>
         op.commitment.intentNonce = nextIntentNonce

Paid(p) == payment[p] \in PaymentRecords /\ Current(payment[p].op)

PaymentInv(p) == payment[p] # None \/ attestation[p] # "none" => Paid(p)

Prepared(s) ==
    \/ at[s] \in {"pay", "confirm", "request", "finalize", "proof", "mint", "receipt"}
    \/ mintTx[s] # "none"

(* What a script carries from stage to stage. *)
ScriptInv(s) ==
    LET l == local[s] IN
    /\ at[s] = "intentNonce" => /\ l.nonce <= accountNonce
                                /\ l.attempts = 0
    /\ at[s] \in {"idle", "nonce", "pay", "confirm", "request", "recover"} => l.attempts = 0
    /\ at[s] \in {"finalize", "proof"} => l.attempts < MaxAttempts
    /\ at[s] \in {"confirm", "request"} => s \in Runs /\ Paid(s)
    /\ at[s] = "recover" => l.payment \in Payments /\ attestation[l.payment] # "none"
    /\ Prepared(s) => l.payment \in Payments /\ Current(l.op)
    /\ Prepared(s) /\ s \in Runs =>
         l.payment = s /\ l.op.commitment = Commitment(l.intentNonce)
    /\ mintTx[s] # "none" => at[s] \in {"receipt"} \cup Ended
    /\ mintTx[s] = "success" =>
         /\ l.payment \in minted
         /\ s \in Runs => Intent(l.intentNonce, l.op) \in intents

RecordInv ==
    /\ record # None => \E r \in Runs : at[r] = "done" /\ record = RecordOf(r)
    /\ resumeRecord # None => \E s \in Resumes :
         at[s] = "done" /\ resumeRecord = [payment |-> local[s].payment, mintTx |-> s]

IInv ==
    /\ Shapes
    /\ DepositMatchesCommitment
    /\ \A p \in Payments : PaymentInv(p)
    /\ \A s \in Scripts : ScriptInv(s)
    /\ RecordInv

-----------------------------------------------------------------------------
(* What a step of one script, or of the environment, leaves of the others.  *)

Kept(s) == at'[s] = at[s] /\ local'[s] = local[s] /\ mintTx'[s] = mintTx[s]

(* The ledgers forget nothing, and no operation becomes current again. *)
LedgersKeep ==
    /\ \A op : Current(op) => Current(op)'
    /\ intents \subseteq intents' /\ minted \subseteq minted'
    /\ \A p \in Payments : /\ Paid(p) => Paid(p)'
                           /\ attestation[p] # "none" => attestation'[p] # "none"

LEMMA OthersKept ==
    ASSUME IInv, LedgersKeep, NEW s \in Scripts, Kept(s),
           accountNonce <= accountNonce', accountNonce' \in Nat
    PROVE  ScriptInv(s)'
<1> DEFINE l == local[s]
<1>1. at'[s] = at[s] /\ local'[s] = local[s] /\ mintTx'[s] = mintTx[s]
    BY DEF Kept
<1>2. ScriptInv(s) /\ l \in Locals /\ accountNonce \in Nat
    BY DEF IInv, Shapes
<1>3. Prepared(s)' <=> Prepared(s)
    BY <1>1 DEF Prepared
<1>4. ASSUME Prepared(s)
      PROVE  local'[s].payment \in Payments /\ Current(local[s].op)'
  <2>1. PICK op : op = l.op
      OBVIOUS
  <2>2. Current(op)'
      BY <1>2, <1>4, <2>1 DEF ScriptInv, LedgersKeep
  <2>3. QED  BY <1>1, <1>2, <1>4, <2>1, <2>2 DEF ScriptInv, Current
<1>5. at[s] = "intentNonce" => l.nonce <= accountNonce'
    BY <1>2 DEF ScriptInv, Locals
<1>6. at[s] \in {"confirm", "request"} => s \in Runs /\ Paid(s)'
    BY <1>2 DEF ScriptInv, LedgersKeep, Payments
<1>7. at[s] = "recover" => attestation'[l.payment] # "none"
    BY <1>2 DEF ScriptInv, LedgersKeep
<1>8. mintTx[s] = "success" =>
        l.payment \in minted' /\ (s \in Runs => Intent(l.intentNonce, l.op) \in intents')
    BY <1>2 DEF ScriptInv, LedgersKeep
<1>9. QED  BY <1>1, <1>2, <1>3, <1>4, <1>5, <1>6, <1>7, <1>8 DEF ScriptInv

LEMMA RecordKept ==
    ASSUME RecordInv, UNCHANGED files,
           \A s \in Scripts : at[s] = "done" => at'[s] = "done" /\ local'[s] = local[s]
    PROVE  RecordInv'
<1>1. ASSUME record' # None
      PROVE  \E r \in Runs : at'[r] = "done" /\ record' = RecordOf(r)'
  <2>1. PICK r \in Runs : at[r] = "done" /\ record = RecordOf(r)
      BY <1>1 DEF RecordInv, files
  <2>2. QED  BY <2>1 DEF RecordOf, files, Scripts
<1>2. ASSUME resumeRecord' # None
      PROVE  \E s \in Resumes :
               at'[s] = "done" /\ resumeRecord' = [payment |-> local'[s].payment, mintTx |-> s]
  <2>1. PICK s \in Resumes :
          at[s] = "done" /\ resumeRecord = [payment |-> local[s].payment, mintTx |-> s]
      BY <1>2 DEF RecordInv, files
  <2>2. QED  BY <2>1 DEF files, Scripts
<1>3. QED  BY <1>1, <1>2 DEF RecordInv

(* A step of one script, which is not done, on a Flare that stays as it is. *)
LEMMA ScriptStep ==
    ASSUME IInv, NEW s \in Scripts, at[s] # "done", UNCHANGED <<now, flare, files>>,
           \A v \in Scripts : v # s => Kept(v),
           \A p \in Payments : /\ Paid(p) => Paid(p)'
                               /\ attestation[p] # "none" => attestation'[p] # "none",
           Shapes', \A p \in Payments : PaymentInv(p)', ScriptInv(s)'
    PROVE  IInv'
<1>1. UNCHANGED <<accountNonce, nextIntentNonce, intents, minted>> /\ accountNonce \in Nat
    BY DEF flare, IInv, Shapes
<1>2. LedgersKeep
    BY <1>1 DEF LedgersKeep, Current
<1>3. \A v \in Scripts : ScriptInv(v)'
    BY <1>1, <1>2, OthersKept
<1>4. DepositMatchesCommitment'
    BY <1>1 DEF IInv, DepositMatchesCommitment
<1>5. RecordInv'
    BY RecordKept DEF IInv, Kept
<1>6. QED  BY <1>3, <1>4, <1>5 DEF IInv

(* The same, when the XRP ledger and the data connector stay too. *)
LEMMA LocalStep ==
    ASSUME IInv, NEW s \in Scripts, at[s] # "done", UNCHANGED <<now, flare, ledgers, files>>,
           \A v \in Scripts : v # s => Kept(v),
           at' \in [Scripts -> Stages], local' \in [Scripts -> Locals],
           mintTx' \in [Scripts -> {"none", "pending", "success", "reverted"}],
           ScriptInv(s)'
    PROVE  IInv'
<1>1. UNCHANGED <<now, accountNonce, nextIntentNonce, intents, minted, payment, attestation>>
    BY DEF flare, ledgers
<1>2. Shapes'
    BY <1>1 DEF IInv, Shapes
<1>3. \A p \in Payments : /\ PaymentInv(p)' /\ (Paid(p) => Paid(p)')
                          /\ attestation[p] # "none" => attestation'[p] # "none"
    BY <1>1 DEF IInv, PaymentInv, Paid, Current
<1>4. QED  BY <1>2, <1>3, ScriptStep

-----------------------------------------------------------------------------
(* run-mint-deposit                                                        *)

LEMMA StartIInv ==
    ASSUME IInv, NEW r \in Runs, Start(r)
    PROVE  IInv'
<1>1. /\ at[r] = "idle" /\ at' = [at EXCEPT ![r] = "nonce"] /\ r \in Scripts
      /\ UNCHANGED <<now, flare, ledgers, mintTx, local, files>>
    BY DEF Start, Goto, Scripts
<1>2. at'[r] = "nonce" /\ ScriptInv(r) /\ UNCHANGED <<minted, intents, accountNonce, nextIntentNonce>>
    BY <1>1 DEF IInv, Shapes, flare
<1>3. mintTx[r] = "none"
    BY <1>1, <1>2 DEF ScriptInv, Ended
<1>4. ScriptInv(r)'
    BY <1>1, <1>2, <1>3 DEF ScriptInv, Prepared
<1>5. \A v \in Scripts : v # r => Kept(v)
    BY <1>1 DEF Kept, IInv, Shapes
<1>6. QED  BY <1>1, <1>4, <1>5, LocalStep DEF IInv, Shapes, Stages

LEMMA ReadAccountNonceIInv ==
    ASSUME IInv, NEW r \in Runs, ReadAccountNonce(r)
    PROVE  IInv'
<1> DEFINE l == [local[r] EXCEPT !.nonce = accountNonce]
<1>1. /\ at[r] = "nonce" /\ at' = [at EXCEPT ![r] = "intentNonce"] /\ r \in Scripts
      /\ local' = [local EXCEPT ![r] = l]
      /\ UNCHANGED <<now, flare, ledgers, mintTx, files>>
    BY DEF ReadAccountNonce, NonceRead, Goto, Scripts
<1>2. l \in Locals /\ l.nonce = accountNonce /\ l.attempts = local[r].attempts
    BY <1>1 DEF IInv, Shapes, Locals
<1> HIDE DEF l
<1>3. at'[r] = "intentNonce" /\ local'[r] = l /\ ScriptInv(r)
    BY <1>1 DEF IInv, Shapes
<1>4. mintTx[r] = "none" /\ accountNonce' = accountNonce /\ accountNonce \in Nat
    BY <1>1, <1>3 DEF IInv, Shapes, ScriptInv, Ended, flare
<1>5. ScriptInv(r)'
    BY <1>1, <1>2, <1>3, <1>4 DEF ScriptInv, Prepared
<1>6. \A v \in Scripts : v # r => Kept(v)
    BY <1>1 DEF Kept, IInv, Shapes
<1>7. at' \in [Scripts -> Stages] /\ local' \in [Scripts -> Locals]
    BY <1>1, <1>2 DEF IInv, Shapes, Stages
<1>8. QED  BY <1>1, <1>5, <1>6, <1>7, LocalStep DEF IInv, Shapes

(* The account nonce was read before, so an operation that still carries the *)
(* current one commits to the intent nonce that is read now.                 *)
LEMMA ReadIntentNonceIInv ==
    ASSUME IInv, NEW r \in Runs, ReadIntentNonce(r)
    PROVE  IInv'
<1> DEFINE l == local[r]
           op == Operation(l.nonce, Commitment(nextIntentNonce), now + Lifetime)
           m == [l EXCEPT !.intentNonce = nextIntentNonce, !.op = op, !.payment = r]
<1>1. /\ at[r] = "intentNonce" /\ at' = [at EXCEPT ![r] = "pay"] /\ r \in Scripts
      /\ r \in Payments
      /\ UNCHANGED <<now, flare, ledgers, mintTx, files>>
    BY DEF ReadIntentNonce, Goto, Scripts, Payments
<1>2. l \in Locals /\ ScriptInv(r) /\ l.nonce <= accountNonce /\ l.attempts = 0
      /\ nextIntentNonce \in 0..MaxNonce /\ l.nonce \in 0..MaxNonce /\ accountNonce \in Nat
    BY <1>1, MintDepositAssumption DEF IInv, Shapes, ScriptInv, Locals
<1>3. local' = [local EXCEPT ![r] = m]
  <2>1. local' = [local EXCEPT ![r] =
          [[l EXCEPT !.intentNonce = nextIntentNonce] EXCEPT !.op = op, !.payment = r]]
      BY <1>2 DEF ReadIntentNonce, NonceRead, Locals
  <2>2. [[l EXCEPT !.intentNonce = nextIntentNonce] EXCEPT !.op = op, !.payment = r] = m
      OBVIOUS
  <2>3. QED  BY <2>1, <2>2
<1>4. op \in Operations /\ op.nonce = l.nonce /\ op.commitment = Commitment(nextIntentNonce)
      /\ op.commitment.intentNonce = nextIntentNonce
    BY <1>2, MintDepositAssumption
       DEF Operation, Operations, Commitments, Commitment, IInv, Shapes
<1> HIDE DEF op
<1>5. m \in Locals /\ m.op = op /\ m.payment = r /\ m.intentNonce = nextIntentNonce
      /\ m.attempts = 0
    BY <1>1, <1>2, <1>4 DEF Locals
<1> HIDE DEF m
<1>6. at'[r] = "pay" /\ local'[r] = m
    BY <1>1, <1>3 DEF IInv, Shapes
<1>7. mintTx[r] = "none" /\ UNCHANGED <<accountNonce, nextIntentNonce>>
    BY <1>1, <1>2 DEF IInv, Shapes, ScriptInv, Ended, flare
<1>8. Current(local[r].op)'
    BY <1>2, <1>4, <1>5, <1>6, <1>7 DEF Current
<1>9. ScriptInv(r)'
    BY <1>1, <1>4, <1>5, <1>6, <1>7, <1>8 DEF ScriptInv, Commitment
<1>10. \A v \in Scripts : v # r => Kept(v)
    BY <1>1, <1>3 DEF Kept, IInv, Shapes
<1>11. at' \in [Scripts -> Stages] /\ local' \in [Scripts -> Locals]
    BY <1>1, <1>3, <1>5 DEF IInv, Shapes, Stages
<1>12. QED  BY <1>1, <1>9, <1>10, <1>11, LocalStep DEF IInv, Shapes

LEMMA PayIInv ==
    ASSUME IInv, NEW r \in Runs, Pay(r)
    PROVE  IInv'
<1> DEFINE paid == [op |-> local[r].op, time |-> now, depth |-> 0]
<1>1. /\ at[r] = "pay" /\ at' = [at EXCEPT ![r] = "confirm"] /\ r \in Scripts
      /\ r \in Payments /\ payment' = [payment EXCEPT ![r] = paid]
      /\ UNCHANGED <<now, flare, attestation, mintTx, local, files>>
    BY DEF Pay, Goto, Scripts, Payments
<1>2. ScriptInv(r) /\ local[r].payment = r /\ Current(local[r].op) /\ mintTx[r] = "none"
    BY <1>1 DEF IInv, Shapes, ScriptInv, Prepared, Ended
<1>3. paid \in PaymentRecords /\ paid.op = local[r].op
    BY <1>2, MintDepositAssumption DEF PaymentRecords, Current, IInv, Shapes
<1> HIDE DEF paid
<1>4. /\ payment'[r] = paid /\ payment' \in [Payments -> PaymentRecords \cup {None}]
      /\ \A p \in Payments : p # r => payment'[p] = payment[p]
      /\ UNCHANGED <<accountNonce, nextIntentNonce, intents, minted>>
    BY <1>1, <1>3 DEF IInv, Shapes, flare
<1>5. Paid(r)'
    BY <1>2, <1>3, <1>4 DEF Paid, Current
<1>6. \A p \in Payments : p # r => (Paid(p) => Paid(p)')
    BY <1>4 DEF Paid, Current
<1>7. \A p \in Payments : PaymentInv(p)'
    BY <1>1, <1>4, <1>5, <1>6 DEF PaymentInv, IInv
<1>8. at'[r] = "confirm" /\ local'[r] = local[r] /\ mintTx'[r] = mintTx[r]
    BY <1>1 DEF IInv, Shapes
<1>9. Prepared(r) /\ Current(local[r].op)'
    BY <1>1, <1>2, <1>4, <1>8 DEF Prepared, Current
<1>10. ScriptInv(r)'
    BY <1>1, <1>2, <1>5, <1>8, <1>9 DEF ScriptInv, Ended
<1>11. Shapes'
    BY <1>1, <1>4 DEF IInv, Shapes, Stages
<1>12. \A v \in Scripts : v # r => Kept(v)
    BY <1>1 DEF Kept, IInv, Shapes
<1>13. \A p \in Payments : /\ Paid(p) => Paid(p)'
                           /\ attestation[p] # "none" => attestation'[p] # "none"
    BY <1>1, <1>5, <1>6
<1>14. QED  BY <1>1, <1>7, <1>10, <1>11, <1>12, <1>13, ScriptStep

LEMMA ConfirmIInv ==
    ASSUME IInv, NEW r \in Runs, Confirm(r)
    PROVE  IInv'
<1>1. /\ at[r] = "confirm" /\ at' = [at EXCEPT ![r] = "request"] /\ r \in Scripts
      /\ UNCHANGED <<now, flare, ledgers, mintTx, local, files>>
    BY DEF Confirm, Goto, Scripts
<1>2. at'[r] = "request" /\ ScriptInv(r)
      /\ UNCHANGED <<minted, intents, accountNonce, nextIntentNonce, payment, attestation>>
    BY <1>1 DEF IInv, Shapes, flare, ledgers
<1>3. ScriptInv(r)'
    BY <1>1, <1>2 DEF ScriptInv, Prepared, Current, Paid, Ended
<1>4. \A v \in Scripts : v # r => Kept(v)
    BY <1>1 DEF Kept, IInv, Shapes
<1>5. QED  BY <1>1, <1>3, <1>4, LocalStep DEF IInv, Shapes, Stages

LEMMA RequestAttestationIInv ==
    ASSUME IInv, NEW r \in Runs, RequestAttestation(r)
    PROVE  IInv'
<1>1. /\ at[r] = "request" /\ at' = [at EXCEPT ![r] = "finalize"] /\ r \in Scripts
      /\ r \in Payments /\ attestation' = [attestation EXCEPT ![r] = "requested"]
      /\ UNCHANGED <<now, flare, payment, mintTx, local, files>>
    BY DEF RequestAttestation, Goto, Scripts, Payments
<1>2. ScriptInv(r) /\ Paid(r) /\ mintTx[r] = "none"
    BY <1>1 DEF IInv, Shapes, ScriptInv, Ended
<1>3. UNCHANGED <<accountNonce, nextIntentNonce, intents, minted>>
    BY <1>1 DEF flare
<1>4. \A p \in Payments : /\ Paid(p) => Paid(p)'
                          /\ attestation[p] # "none" => attestation'[p] # "none"
    BY <1>1, <1>3 DEF Paid, Current, IInv, Shapes
<1>5. \A p \in Payments : PaymentInv(p)'
    BY <1>1, <1>2, <1>4 DEF PaymentInv, IInv, Shapes
<1>6. at'[r] = "finalize" /\ local'[r] = local[r] /\ mintTx'[r] = mintTx[r]
    BY <1>1 DEF IInv, Shapes
<1>7. Prepared(r) /\ Current(local[r].op)' /\ local[r].attempts < MaxAttempts
    BY <1>1, <1>2, <1>3, MintDepositAssumption DEF ScriptInv, Prepared, Current
<1>8. ScriptInv(r)'
    BY <1>1, <1>2, <1>6, <1>7 DEF ScriptInv, Ended
<1>9. Shapes'
    BY <1>1, <1>3 DEF IInv, Shapes, Stages
<1>10. \A v \in Scripts : v # r => Kept(v)
    BY <1>1 DEF Kept, IInv, Shapes
<1>11. QED  BY <1>1, <1>4, <1>5, <1>8, <1>9, <1>10, ScriptStep

-----------------------------------------------------------------------------
(* resume-mint-deposit                                                     *)

LEMMA StartResumeIInv ==
    ASSUME IInv, NEW s \in Resumes, NEW p \in Payments, StartResume(s, p)
    PROVE  IInv'
<1> DEFINE m == [local[s] EXCEPT !.payment = p]
<1>1. /\ at[s] = "idle" /\ at' = [at EXCEPT ![s] = "recover"] /\ s \in Scripts
      /\ attestation[p] # "none" /\ local' = [local EXCEPT ![s] = m]
      /\ UNCHANGED <<now, flare, ledgers, mintTx, files>>
    BY DEF StartResume, Goto, Scripts
<1>2. m \in Locals /\ m.payment = p /\ m.attempts = local[s].attempts
    BY <1>1 DEF IInv, Shapes, Locals
<1> HIDE DEF m
<1>3. at'[s] = "recover" /\ local'[s] = m /\ ScriptInv(s) /\ attestation' = attestation
    BY <1>1 DEF IInv, Shapes, ledgers
<1>4. mintTx[s] = "none"
    BY <1>1, <1>3 DEF ScriptInv, Ended
<1>5. ScriptInv(s)'
    BY <1>1, <1>2, <1>3, <1>4 DEF ScriptInv, Prepared
<1>6. \A v \in Scripts : v # s => Kept(v)
    BY <1>1 DEF Kept, IInv, Shapes
<1>7. at' \in [Scripts -> Stages] /\ local' \in [Scripts -> Locals]
    BY <1>1, <1>2 DEF IInv, Shapes, Stages
<1>8. QED  BY <1>1, <1>5, <1>6, <1>7, LocalStep DEF IInv, Shapes

(* The operation resume finds is the one that was paid for. *)
LEMMA RecoverIInv ==
    ASSUME IInv, NEW s \in Resumes, Recover(s)
    PROVE  IInv'
<1> DEFINE paid == payment[local[s].payment]
<1>1. /\ at[s] = "recover" /\ s \in Scripts /\ s \notin Runs
      /\ UNCHANGED <<now, flare, ledgers, mintTx, files>>
    BY MintDepositAssumption DEF Recover, Scripts
<1>2. ScriptInv(s) /\ mintTx[s] = "none" /\ local[s].payment \in Payments
      /\ local[s].attempts = 0 /\ local[s] \in Locals
    BY <1>1 DEF IInv, Shapes, ScriptInv, Ended
<1>3. UNCHANGED <<accountNonce, nextIntentNonce, intents, minted>>
    BY <1>1 DEF flare
<1>4. \A v \in Scripts : v # s => Kept(v)
    BY <1>1 DEF Kept, IInv, Shapes, Recover, Goto
<1>5. CASE paid.op \in Candidates(paid.time)
  <2> DEFINE m == [local[s] EXCEPT !.op = paid.op]
  <2>1. local' = [local EXCEPT ![s] = m] /\ at' = [at EXCEPT ![s] = "finalize"]
      BY <1>5 DEF Recover, Goto
  <2>2. Current(paid.op)
      BY <1>1, <1>2 DEF IInv, ScriptInv, PaymentInv, Paid
  <2>3. m \in Locals /\ m.op = paid.op /\ m.payment = local[s].payment /\ m.attempts = 0
      BY <1>2, <2>2 DEF Locals, Current
  <2> HIDE DEF m
  <2>4. at'[s] = "finalize" /\ local'[s] = m /\ mintTx'[s] = "none"
      BY <1>1, <1>2, <2>1 DEF IInv, Shapes
  <2>5. Current(local[s].op)'
      BY <1>3, <2>2, <2>3, <2>4 DEF Current
  <2>6. ScriptInv(s)'
      BY <1>1, <1>2, <2>3, <2>4, <2>5, MintDepositAssumption DEF ScriptInv
  <2>7. at' \in [Scripts -> Stages] /\ local' \in [Scripts -> Locals]
      BY <2>1, <2>3 DEF IInv, Shapes, Stages
  <2>8. QED  BY <1>1, <1>4, <2>6, <2>7, LocalStep DEF IInv, Shapes
<1>6. CASE paid.op \notin Candidates(paid.time)
  <2>1. at' = [at EXCEPT ![s] = "unrecovered"] /\ UNCHANGED local
      BY <1>6 DEF Recover, Goto
  <2>2. at'[s] = "unrecovered" /\ mintTx'[s] = "none"
      BY <1>1, <1>2, <2>1 DEF IInv, Shapes
  <2>3. ScriptInv(s)'
      BY <2>2 DEF ScriptInv, Prepared
  <2>4. QED  BY <1>1, <1>4, <2>1, <2>3, LocalStep DEF IInv, Shapes, Stages
<1>7. QED  BY <1>5, <1>6

-----------------------------------------------------------------------------
(* The proof, the mint and the record, of both scripts.                    *)

LEMMA PollIInv ==
    ASSUME IInv, NEW s \in Scripts, PollFinalized(s) \/ PollProof(s)
    PROVE  IInv'
<1> DEFINE l == local[s]
<1>1. at[s] \in {"finalize", "proof"} /\ UNCHANGED <<now, flare, ledgers, mintTx, files>>
    BY DEF PollFinalized, PollProof, Poll
<1>2. ScriptInv(s) /\ mintTx[s] = "none" /\ l \in Locals /\ Prepared(s)
      /\ l.attempts \in Nat /\ l.attempts < MaxAttempts
    BY <1>1 DEF IInv, Shapes, ScriptInv, Ended, Prepared, Locals
<1>3. PICK n \in 0..MaxAttempts, place \in {"finalize", "proof", "mint", "stopped"} :
        /\ at' = [at EXCEPT ![s] = place]
        /\ local' = [local EXCEPT ![s] = [l EXCEPT !.attempts = n]]
        /\ place # "stopped" => n < MaxAttempts
  <2>1. l.attempts + 1 \in 0..MaxAttempts /\ 0 \in 0..MaxAttempts /\ 0 < MaxAttempts
        /\ (l.attempts # MaxAttempts - 1 => l.attempts + 1 < MaxAttempts)
      BY <1>2, MintDepositAssumption
  <2>2. CASE /\ local' = [local EXCEPT ![s].attempts = 0]
             /\ \E next \in {"proof", "mint"} : at' = [at EXCEPT ![s] = next]
    <3>1. PICK next \in {"proof", "mint"} : at' = [at EXCEPT ![s] = next]
        BY <2>2
    <3>2. local' = [local EXCEPT ![s] = [l EXCEPT !.attempts = 0]]
        BY <2>2
    <3>3. QED  BY <2>1, <3>1, <3>2
  <2>3. CASE /\ local' = [local EXCEPT ![s].attempts = l.attempts + 1]
             /\ \E stage \in {"finalize", "proof"} :
                  at' = [at EXCEPT ![s] = IF l.attempts = MaxAttempts - 1
                                          THEN "stopped" ELSE stage]
    <3>1. PICK stage \in {"finalize", "proof"} :
            at' = [at EXCEPT ![s] = IF l.attempts = MaxAttempts - 1 THEN "stopped" ELSE stage]
        BY <2>3
    <3>2. local' = [local EXCEPT ![s] = [l EXCEPT !.attempts = l.attempts + 1]]
        BY <2>3
    <3>3. PICK k \in 0..MaxAttempts : k = l.attempts + 1
        BY <2>1
    <3>4. CASE l.attempts = MaxAttempts - 1
      <4>1. at' = [at EXCEPT ![s] = "stopped"]
          BY <3>1, <3>4
      <4>2. QED  BY <3>2, <3>3, <4>1
    <3>5. CASE l.attempts # MaxAttempts - 1
      <4>1. at' = [at EXCEPT ![s] = stage] /\ k < MaxAttempts
          BY <2>1, <3>1, <3>3, <3>5
      <4>2. QED  BY <3>2, <3>3, <4>1
    <3>6. QED  BY <3>4, <3>5
  <2>4. QED  BY <2>2, <2>3 DEF PollFinalized, PollProof, Poll, Goto, AttemptCounted, LastAttempt
<1> DEFINE m == [l EXCEPT !.attempts = n]
<1>4. local' = [local EXCEPT ![s] = m] /\ at' = [at EXCEPT ![s] = place]
      /\ m \in Locals /\ m.attempts = n /\ m.payment = l.payment /\ m.op = l.op
      /\ m.intentNonce = l.intentNonce
    BY <1>2, <1>3 DEF Locals
<1> HIDE DEF m
<1>5. /\ at'[s] = place /\ local'[s] = m /\ mintTx'[s] = "none"
      /\ UNCHANGED <<accountNonce, nextIntentNonce>>
    BY <1>1, <1>2, <1>4 DEF IInv, Shapes, flare
<1>6. Current(local[s].op)'
    BY <1>2, <1>4, <1>5 DEF ScriptInv, Current
<1>7. ScriptInv(s)'
    BY <1>2, <1>3, <1>4, <1>5, <1>6 DEF ScriptInv, Ended
<1>8. \A v \in Scripts : v # s => Kept(v)
    BY <1>1, <1>4 DEF Kept, IInv, Shapes
<1>9. at' \in [Scripts -> Stages] /\ local' \in [Scripts -> Locals]
    BY <1>4 DEF IInv, Shapes, Stages
<1>10. QED  BY <1>1, <1>7, <1>8, <1>9, LocalStep DEF IInv, Shapes

LEMMA SendMintIInv ==
    ASSUME IInv, NEW s \in Scripts, SendMint(s)
    PROVE  IInv'
<1>1. at[s] = "mint" /\ UNCHANGED <<now, flare, ledgers, local, files>>
    BY DEF SendMint
<1>2. ScriptInv(s) /\ mintTx[s] = "none" /\ Prepared(s)
      /\ UNCHANGED <<accountNonce, nextIntentNonce>>
    BY <1>1 DEF IInv, Shapes, ScriptInv, Ended, Prepared, flare
<1>3. Current(local[s].op)' /\ local'[s] = local[s]
    BY <1>1, <1>2 DEF ScriptInv, Current
<1>4. \/ at' = [at EXCEPT ![s] = "receipt"] /\ mintTx' = [mintTx EXCEPT ![s] = "pending"]
      \/ at' = [at EXCEPT ![s] = "stopped"] /\ UNCHANGED mintTx
    BY DEF SendMint, Goto
<1>5. \/ at'[s] = "receipt" /\ mintTx'[s] = "pending"
      \/ at'[s] = "stopped" /\ mintTx'[s] = "none"
    BY <1>2, <1>4 DEF IInv, Shapes
<1>6. ScriptInv(s)'
    BY <1>2, <1>3, <1>5 DEF ScriptInv, Ended
<1>7. \A v \in Scripts : v # s => Kept(v)
    BY <1>1, <1>4 DEF Kept, IInv, Shapes
<1>8. at' \in [Scripts -> Stages]
      /\ mintTx' \in [Scripts -> {"none", "pending", "success", "reverted"}]
    BY <1>4 DEF IInv, Shapes, Stages
<1>9. QED  BY <1>1, <1>6, <1>7, <1>8, LocalStep DEF IInv, Shapes

(* A script that is stopped, or gives up on a receipt. *)
LEMMA StopsIInv ==
    ASSUME IInv, NEW s \in Scripts, at[s] \notin Ended, at' = [at EXCEPT ![s] = "stopped"],
           UNCHANGED <<now, flare, ledgers, mintTx, local, files>>
    PROVE  IInv'
<1>1. /\ at'[s] = "stopped" /\ ScriptInv(s) /\ mintTx'[s] = mintTx[s] /\ local'[s] = local[s]
      /\ UNCHANGED <<minted, intents, accountNonce, nextIntentNonce>>
    BY DEF IInv, Shapes, flare
<1>2. Prepared(s)' => Prepared(s)
    BY <1>1 DEF Prepared
<1>3. ScriptInv(s)'
    BY <1>1, <1>2 DEF ScriptInv, Current, Ended
<1>4. \A v \in Scripts : v # s => Kept(v)
    BY DEF Kept, IInv, Shapes
<1>5. QED  BY <1>3, <1>4, LocalStep DEF IInv, Shapes, Stages, Ended

(* The record names what its script carries, which does not change any more. *)
LEMMA WriteRecordIInv ==
    ASSUME IInv, NEW s \in Scripts, WriteRecord(s)
    PROVE  IInv'
<1>1. /\ at[s] = "receipt" /\ at' = [at EXCEPT ![s] = "done"]
      /\ UNCHANGED <<now, accountNonce, nextIntentNonce, intents, minted, payment, attestation,
                     mintTx, local>>
    BY DEF WriteRecord, Goto, flare, ledgers
<1>2. /\ at'[s] = "done" /\ ScriptInv(s) /\ \A v \in Scripts : v # s => at'[v] = at[v]
    BY <1>1 DEF IInv, Shapes
<1>3. ScriptInv(s)'
    BY <1>1, <1>2 DEF ScriptInv, Prepared, Current, Ended
<1>4. Shapes'
    BY <1>1 DEF IInv, Shapes, Stages
<1>5. LedgersKeep /\ accountNonce \in Nat /\ \A p \in Payments : PaymentInv(p)'
    BY <1>1 DEF LedgersKeep, Current, Paid, PaymentInv, IInv, Shapes
<1>6. \A v \in Scripts : v # s => ScriptInv(v)'
    BY <1>1, <1>2, <1>5, OthersKept DEF Kept
<1>7. DepositMatchesCommitment'
    BY <1>1 DEF IInv, DepositMatchesCommitment
<1>8. RecordInv'
  <2>1. ASSUME record' # None
        PROVE  \E r \in Runs : at'[r] = "done" /\ record' = RecordOf(r)'
    <3>1. CASE UNCHANGED record
      <4>1. PICK r \in Runs : at[r] = "done" /\ record = RecordOf(r)
          BY <2>1, <3>1 DEF IInv, RecordInv
      <4>2. r \in Scripts /\ at'[r] = "done"
          BY <1>1, <4>1 DEF Scripts, IInv, Shapes
      <4>3. QED  BY <1>1, <3>1, <4>1, <4>2 DEF RecordOf
    <3>2. CASE s \in Runs /\ record' = RecordOf(s)
        BY <1>1, <1>2, <3>2 DEF RecordOf
    <3>3. QED  BY <3>1, <3>2 DEF WriteRecord
  <2>2. ASSUME resumeRecord' # None
        PROVE  \E v \in Resumes :
                 at'[v] = "done" /\ resumeRecord' = [payment |-> local'[v].payment, mintTx |-> v]
    <3>1. CASE UNCHANGED resumeRecord
      <4>1. PICK v \in Resumes :
              at[v] = "done" /\ resumeRecord = [payment |-> local[v].payment, mintTx |-> v]
          BY <2>2, <3>1 DEF IInv, RecordInv
      <4>2. v \in Scripts /\ at'[v] = "done"
          BY <1>1, <4>1 DEF Scripts, IInv, Shapes
      <4>3. QED  BY <1>1, <3>1, <4>1, <4>2
    <3>2. CASE s \notin Runs /\ resumeRecord' = [payment |-> local[s].payment, mintTx |-> s]
        BY <1>1, <1>2, <3>2 DEF Scripts
    <3>3. QED  BY <3>1, <3>2 DEF WriteRecord
  <2>3. QED  BY <2>1, <2>2 DEF RecordInv
<1>9. QED  BY <1>3, <1>4, <1>5, <1>6, <1>7, <1>8 DEF IInv

-----------------------------------------------------------------------------
(* The environment.                                                        *)

(* No step of the environment moves a script. *)
LEMMA EnvironmentStep ==
    ASSUME IInv, LedgersKeep, accountNonce <= accountNonce', UNCHANGED <<mintTx, at, local, files>>,
           Shapes', DepositMatchesCommitment', \A p \in Payments : PaymentInv(p)'
    PROVE  IInv'
<1>1. accountNonce' \in Nat
    BY DEF Shapes
<1>2. \A s \in Scripts : ScriptInv(s)'
    BY <1>1, OthersKept DEF Kept
<1>3. RecordInv'
    BY RecordKept DEF IInv
<1>4. QED  BY <1>2, <1>3 DEF IInv

(* Once the account has executed an operation, none of the operations that    *)
(* were built before carries its current nonce.                               *)
LEMMA NonceMoves ==
    ASSUME Shapes, accountNonce' = accountNonce + 1,
           intents \subseteq intents', minted \subseteq minted', UNCHANGED ledgers
    PROVE  LedgersKeep /\ (\A p \in Payments : PaymentInv(p) => PaymentInv(p)')
<1>1. accountNonce \in Nat
    BY DEF Shapes
<1>2. \A op : Current(op) => Current(op)'
  <2> SUFFICES ASSUME NEW op, Current(op) PROVE Current(op)'
      OBVIOUS
  <2>1. op.nonce \in Nat /\ op.nonce < accountNonce'
      BY <1>1 DEF Current, Operations
  <2>2. QED  BY <1>1, <2>1 DEF Current
<1>3. \A p \in Payments : Paid(p) => Paid(p)'
  <2> SUFFICES ASSUME NEW p \in Payments, Paid(p) PROVE Paid(p)'
      OBVIOUS
  <2>1. PICK op : op = payment[p].op
      OBVIOUS
  <2>2. Current(op)'
      BY <1>2, <2>1 DEF Paid
  <2>3. QED  BY <2>1, <2>2 DEF Paid, Current, ledgers
<1>4. QED  BY <1>2, <1>3 DEF LedgersKeep, PaymentInv, ledgers

(* The operation carries the current account nonce, so that it commits to the *)
(* intent nonce the router is about to use.                                   *)
LEMMA MineSuccessIInv ==
    ASSUME IInv, NEW s \in Scripts, MineSuccess(s)
    PROVE  IInv'
<1> DEFINE l == local[s]
           i == Intent(nextIntentNonce, l.op)
<1>1. /\ mintTx[s] = "pending" /\ l.op.nonce = accountNonce /\ accountNonce < MaxNonce
      /\ mintTx' = [mintTx EXCEPT ![s] = "success"]
      /\ minted' = minted \cup {l.payment} /\ accountNonce' = accountNonce + 1
      /\ intents' = intents \cup {i} /\ nextIntentNonce' = nextIntentNonce + 1
      /\ UNCHANGED <<now, payment, attestation, at, local, files>>
    BY DEF MineSuccess, Mintable, ledgers
<1>2. ScriptInv(s) /\ Prepared(s) /\ l.payment \in Payments /\ Current(l.op)
      /\ at[s] \in {"receipt"} \cup Ended
    BY <1>1 DEF IInv, ScriptInv, Prepared
<1>3. accountNonce \in 0..MaxNonce /\ nextIntentNonce \in 0..accountNonce /\ MaxNonce \in Nat
    BY MintDepositAssumption DEF IInv, Shapes
<1>4. l.op.commitment.policy = "private" => l.op.commitment.intentNonce = nextIntentNonce
    BY <1>1, <1>2 DEF Current
<1>5. /\ i.nonce = nextIntentNonce /\ i.commitment = l.op.commitment
      /\ i \in Intents
    BY <1>2, <1>3 DEF Intent, Intents, Current, Operations
<1>6. s \in Runs => i = Intent(l.intentNonce, l.op)
    BY <1>2, <1>4 DEF ScriptInv, Commitment
<1> HIDE DEF i
<1>7. accountNonce' \in 0..MaxNonce /\ nextIntentNonce' \in 0..accountNonce'
    BY <1>1, <1>3
<1>8. Shapes'
    BY <1>1, <1>2, <1>5, <1>7 DEF IInv, Shapes
<1>9. LedgersKeep /\ \A p \in Payments : PaymentInv(p)'
    BY <1>1, NonceMoves DEF IInv, ledgers
<1>10. DepositMatchesCommitment'
    BY <1>1, <1>4, <1>5 DEF IInv, DepositMatchesCommitment
<1>11. \A v \in Scripts : v # s => ScriptInv(v)'
    BY <1>1, <1>3, <1>9, OthersKept DEF Kept
<1>12. ScriptInv(s)'
  <2>1. PICK op : op = l.op
      OBVIOUS
  <2>2. Current(op)'
      BY <1>2, <1>9, <2>1 DEF LedgersKeep
  <2>3. Current(local[s].op)'
      BY <1>1, <2>1, <2>2 DEF Current
  <2>4. mintTx'[s] = "success" /\ at'[s] = at[s] /\ local'[s] = l
      BY <1>1 DEF IInv, Shapes
  <2>5. l.payment \in minted' /\ i \in intents'
      BY <1>1
  <2>6. QED  BY <1>2, <1>6, <2>3, <2>4, <2>5 DEF ScriptInv, Ended
<1>13. RecordInv'
    BY <1>1, RecordKept DEF IInv
<1>14. QED  BY <1>8, <1>9, <1>10, <1>11, <1>12, <1>13 DEF IInv

LEMMA MineRevertIInv ==
    ASSUME IInv, NEW s \in Scripts, MineRevert(s)
    PROVE  IInv'
<1>1. /\ mintTx[s] = "pending" /\ mintTx' = [mintTx EXCEPT ![s] = "reverted"]
      /\ UNCHANGED <<now, flare, ledgers, at, local, files>>
    BY DEF MineRevert
<1>2. UNCHANGED <<accountNonce, nextIntentNonce, intents, minted, payment, attestation>>
    BY <1>1 DEF flare, ledgers
<1>3. Shapes'
    BY <1>1, <1>2 DEF IInv, Shapes
<1>4. LedgersKeep /\ accountNonce \in Nat /\ \A p \in Payments : PaymentInv(p)'
    BY <1>2 DEF LedgersKeep, Current, Paid, PaymentInv, IInv, Shapes
<1>5. \A v \in Scripts : v # s => ScriptInv(v)'
    BY <1>1, <1>2, <1>4, OthersKept DEF Kept
<1>6. ScriptInv(s) /\ Prepared(s) /\ mintTx'[s] = "reverted"
    BY <1>1 DEF IInv, Prepared, Shapes
<1>7. ScriptInv(s)'
    BY <1>1, <1>2, <1>6 DEF ScriptInv, Current, Paid, Prepared, Ended
<1>8. DepositMatchesCommitment' /\ RecordInv'
    BY <1>1, <1>2, RecordKept DEF IInv, DepositMatchesCommitment
<1>9. QED  BY <1>3, <1>4, <1>5, <1>7, <1>8 DEF IInv

LEMMA OtherOperationIInv ==
    ASSUME IInv, OtherOperation
    PROVE  IInv'
<1>1. /\ accountNonce < MaxNonce /\ accountNonce' = accountNonce + 1
      /\ UNCHANGED <<now, nextIntentNonce, intents, minted, payment, attestation,
                     mintTx, at, local, files>>
    BY DEF OtherOperation, ledgers
<1>2. accountNonce \in 0..MaxNonce /\ nextIntentNonce \in 0..accountNonce /\ MaxNonce \in Nat
    BY MintDepositAssumption DEF IInv, Shapes
<1>3. accountNonce' \in 0..MaxNonce /\ nextIntentNonce' \in 0..accountNonce'
    BY <1>1, <1>2
<1>4. Shapes'
    BY <1>1, <1>3 DEF IInv, Shapes
<1>5. LedgersKeep /\ \A p \in Payments : PaymentInv(p)'
    BY <1>1, NonceMoves DEF IInv, ledgers
<1>6. DepositMatchesCommitment'
    BY <1>1 DEF IInv, DepositMatchesCommitment
<1>7. QED  BY <1>1, <1>2, <1>4, <1>5, <1>6, EnvironmentStep

LEMMA LedgerClosesIInv ==
    ASSUME IInv, LedgerCloses
    PROVE  IInv'
<1>1. /\ payment' = [p \in Payments |->
           IF payment[p] # None /\ payment[p].depth < Confirmations
           THEN [payment[p] EXCEPT !.depth = @ + 1] ELSE payment[p]]
      /\ UNCHANGED <<now, accountNonce, nextIntentNonce, intents, minted, attestation,
                     mintTx, at, local, files>>
    BY DEF LedgerCloses, flare
<1>2. \A p \in Payments :
        /\ payment'[p] \in PaymentRecords \cup {None}
        /\ payment[p] = None => payment'[p] = None
        /\ payment[p] \in PaymentRecords =>
             payment'[p] \in PaymentRecords /\ payment'[p].op = payment[p].op
  <2> SUFFICES ASSUME NEW p \in Payments
               PROVE  /\ payment'[p] \in PaymentRecords \cup {None}
                      /\ payment[p] = None => payment'[p] = None
                      /\ payment[p] \in PaymentRecords =>
                           payment'[p] \in PaymentRecords /\ payment'[p].op = payment[p].op
      OBVIOUS
  <2>1. payment[p] \in PaymentRecords \cup {None}
      BY DEF IInv, Shapes
  <2>2. CASE payment[p] # None /\ payment[p].depth < Confirmations
    <3>1. payment[p] \in PaymentRecords /\ payment[p].depth + 1 \in 0..Confirmations
        BY <2>1, <2>2, MintDepositAssumption DEF PaymentRecords
    <3>2. payment'[p] = [payment[p] EXCEPT !.depth = @ + 1]
        BY <1>1, <2>2
    <3>3. QED  BY <2>2, <3>1, <3>2 DEF PaymentRecords
  <2>3. CASE ~(payment[p] # None /\ payment[p].depth < Confirmations)
      BY <1>1, <2>1, <2>3
  <2>4. QED  BY <2>2, <2>3
<1>3. \A p \in Payments : Paid(p) => Paid(p)'
    BY <1>1, <1>2 DEF Paid, Current
<1>4. \A p \in Payments : PaymentInv(p)'
    BY <1>1, <1>2, <1>3 DEF IInv, PaymentInv
<1>5. Shapes'
    BY <1>1, <1>2 DEF IInv, Shapes
<1>6. LedgersKeep /\ accountNonce \in Nat
    BY <1>1, <1>3 DEF LedgersKeep, Current, IInv, Shapes
<1>7. DepositMatchesCommitment'
    BY <1>1 DEF IInv, DepositMatchesCommitment
<1>8. QED  BY <1>1, <1>4, <1>5, <1>6, <1>7, EnvironmentStep

LEMMA AttestIInv ==
    ASSUME IInv, NEW p \in Payments, Attest(p)
    PROVE  IInv'
<1>1. /\ attestation[p] # "none"
      /\ \E a \in {"finalized", "published"} : attestation' = [attestation EXCEPT ![p] = a]
      /\ UNCHANGED <<now, accountNonce, nextIntentNonce, intents, minted, payment,
                     mintTx, at, local, files>>
    BY DEF Attest, flare
<1>2. \A q \in Payments : attestation'[q] # "none" <=> attestation[q] # "none"
    BY <1>1 DEF IInv, Shapes
<1>3. \A q \in Payments : PaymentInv(q)' /\ (Paid(q) => Paid(q)')
    BY <1>1, <1>2 DEF IInv, PaymentInv, Paid, Current
<1>4. Shapes'
    BY <1>1 DEF IInv, Shapes
<1>5. LedgersKeep /\ accountNonce \in Nat
    BY <1>1, <1>2, <1>3 DEF LedgersKeep, Current, IInv, Shapes
<1>6. DepositMatchesCommitment'
    BY <1>1 DEF IInv, DepositMatchesCommitment
<1>7. QED  BY <1>1, <1>3, <1>4, <1>5, <1>6, EnvironmentStep

(* Time passes, or nothing happens. *)
LEMMA QuietIInv ==
    ASSUME IInv, now' \in 0..MaxTime, UNCHANGED <<flare, ledgers, mintTx, at, local, files>>
    PROVE  IInv'
<1>1. UNCHANGED <<accountNonce, nextIntentNonce, intents, minted, payment, attestation>>
    BY DEF flare, ledgers
<1>2. Shapes'
    BY <1>1 DEF IInv, Shapes
<1>3. LedgersKeep /\ accountNonce \in Nat /\ \A p \in Payments : PaymentInv(p)'
    BY <1>1 DEF LedgersKeep, Current, Paid, PaymentInv, IInv, Shapes
<1>4. DepositMatchesCommitment'
    BY <1>1 DEF IInv, DepositMatchesCommitment
<1>5. QED  BY <1>1, <1>2, <1>3, <1>4, EnvironmentStep

-----------------------------------------------------------------------------
(* The theorems.  Only the safety part of Spec is used.                    *)

LEMMA InitIInv == Init => IInv
<1> SUFFICES ASSUME Init PROVE IInv
    OBVIOUS
<1> DEFINE first == [op |-> Operation(0, LegacyCommitment, Lifetime),
                     time |-> 0, depth |-> Confirmations]
<1>1. PICK legacy \in {None, first} :
        /\ payment = [p \in Payments |-> IF p = LegacyPayment THEN legacy ELSE None]
        /\ attestation = [p \in Payments |-> IF p = LegacyPayment /\ legacy # None
                                             THEN "requested" ELSE "none"]
    BY DEF Init
<1>2. first \in PaymentRecords /\ first.op \in Operations /\ first.op.nonce = 0
      /\ first.op.commitment.policy = "legacy"
    BY MintDepositAssumption
       DEF PaymentRecords, Operations, Operation, Commitments, LegacyCommitment
<1> HIDE DEF first
<1>3. NoLocal \in Locals /\ NoLocal.attempts = 0
    BY MintDepositAssumption DEF NoLocal, Locals
<1>4. Shapes
    BY <1>1, <1>2, <1>3, MintDepositAssumption DEF Init, Shapes, Stages
<1>5. \A p \in Payments : PaymentInv(p)
    BY <1>1, <1>2 DEF Init, PaymentInv, Paid, Current
<1>6. \A s \in Scripts : ScriptInv(s)
    BY <1>3 DEF Init, ScriptInv, Prepared
<1>7. QED  BY <1>4, <1>5, <1>6 DEF Init, IInv, DepositMatchesCommitment, RecordInv

LEMMA NextIInv == IInv /\ [Next]_vars => IInv'
<1> SUFFICES ASSUME IInv, [Next]_vars PROVE IInv'
    OBVIOUS
<1>1. ASSUME NEW s \in Scripts, Proceed(s)
      PROVE  IInv'
  <2>1. CASE PollFinalized(s) \/ PollProof(s)
      BY <2>1, PollIInv
  <2>2. CASE ReceiptTimeout(s)
    <3>1. /\ at[s] \notin Ended /\ at' = [at EXCEPT ![s] = "stopped"]
          /\ UNCHANGED <<now, flare, ledgers, mintTx, local, files>>
        BY <2>2 DEF ReceiptTimeout, Goto, Ended
    <3>2. QED  BY <3>1, StopsIInv
  <2>3. QED
      BY <1>1, <2>1, <2>2, ReadAccountNonceIInv, ReadIntentNonceIInv, PayIInv, ConfirmIInv,
         RequestAttestationIInv, RecoverIInv, SendMintIInv, WriteRecordIInv DEF Proceed
<1>2. ASSUME NEW s \in Scripts, Stop(s)
      PROVE  IInv'
  <2>1. /\ at[s] \notin Ended /\ at' = [at EXCEPT ![s] = "stopped"]
        /\ UNCHANGED <<now, flare, ledgers, mintTx, local, files>>
      BY <1>2 DEF Stop, Goto
  <2>2. QED  BY <2>1, StopsIInv
<1>3. CASE Tick \/ UNCHANGED vars
  <2>1. now' \in 0..MaxTime /\ UNCHANGED <<flare, ledgers, mintTx, at, local, files>>
      BY <1>3, MintDepositAssumption DEF Tick, vars, IInv, Shapes
  <2>2. QED  BY <2>1, QuietIInv
<1>4. QED
    BY <1>1, <1>2, <1>3, StartIInv, StartResumeIInv, MineSuccessIInv, MineRevertIInv,
       OtherOperationIInv, LedgerClosesIInv, AttestIInv DEF Next, Mine

(* The invariant of the deposit scripts: an operation that carries the current *)
(* account nonce commits to the router's next intent nonce.                    *)
THEOREM DepositInvariant == Spec => []IInv
BY InitIInv, NextIInv, PTL DEF Spec

(* The nonces, files and ledgers hold values of their shapes. *)
THEOREM DepositTypeCorrect == Spec => []TypeOK
<1>1. IInv => TypeOK
  <2> SUFFICES ASSUME IInv PROVE TypeOK
      OBVIOUS
  <2>1. \A s \in Scripts : /\ local[s].attempts \in 0..MaxAttempts
                           /\ at[s] \in {"finalize", "proof", "mint", "receipt"} =>
                                local[s].op \in Operations /\ local[s].payment \in Payments
      BY DEF IInv, Shapes, Locals, ScriptInv, Prepared, Current
  <2>2. QED  BY <2>1 DEF IInv, Shapes, TypeOK, PaymentRecords
<1>2. QED  BY <1>1, DepositInvariant, PTL

(* A funded intent has the nonce its policy commits to, whatever other runs,   *)
(* resumes and operations come between the reads and the mint.                 *)
THEOREM DepositsMatch == Spec => []DepositMatchesCommitment
<1>1. IInv => DepositMatchesCommitment
    BY DEF IInv
<1>2. QED  BY <1>1, DepositInvariant, PTL

(* A record whose transaction succeeded names an intent that was funded. *)
THEOREM RecordsFunded == Spec => []RecordedIntentFunded
<1>1. IInv => RecordedIntentFunded
  <2> SUFFICES ASSUME IInv PROVE RecordedIntentFunded
      OBVIOUS
  <2>1. ASSUME record # None, mintTx[record.mintTx] = "success"
        PROVE  record.payment \in minted /\ record.intent \in intents
    <3>1. PICK r \in Runs : record = RecordOf(r)
        BY <2>1 DEF IInv, RecordInv
    <3>2. r \in Scripts /\ record.mintTx = r /\ record.payment = r
          /\ record.intent = Intent(local[r].intentNonce, local[r].op)
        BY <3>1 DEF RecordOf, Scripts
    <3>3. ScriptInv(r) /\ Prepared(r)
        BY <2>1, <3>2 DEF IInv, Prepared
    <3>4. QED  BY <2>1, <3>2, <3>3 DEF ScriptInv
  <2>2. ASSUME resumeRecord # None, mintTx[resumeRecord.mintTx] = "success"
        PROVE  resumeRecord.payment \in minted
    <3>1. PICK s \in Resumes : resumeRecord = [payment |-> local[s].payment, mintTx |-> s]
        BY <2>2 DEF IInv, RecordInv
    <3>2. s \in Scripts /\ ScriptInv(s)
        BY DEF IInv, Scripts
    <3>3. QED  BY <2>2, <3>1, <3>2 DEF ScriptInv
  <2>3. QED  BY <2>1, <2>2 DEF RecordedIntentFunded
<1>2. QED  BY <1>1, DepositInvariant, PTL

-----------------------------------------------------------------------------
(* The deposits implement what they promise.                               *)

(* A payment that was minted carries an account nonce that is spent, and a  *)
(* run that has not paid has no payment.                                    *)
SpentInv ==
    /\ \A p \in minted : payment[p] \in PaymentRecords /\ payment[p].op.nonce < accountNonce
    /\ \A r \in Runs : at[r] \in {"idle", "nonce", "intentNonce", "pay"} => payment[r] = None

Unpaid == {"idle", "nonce", "intentNonce", "pay"}

LEMMA InitSpentInv == Init => SpentInv
BY MintDepositAssumption DEF Init, SpentInv, Payments

(* What a step is to the promise: an offer, the execution of one, or time. *)
DepositStep ==
    \/ \E r \in Runs : /\ payment[r] = None /\ payment'[r] \in PaymentRecords
                       /\ payment' = [payment EXCEPT ![r] = payment'[r]]
                       /\ at[r] = "pay" /\ at' = [at EXCEPT ![r] = "confirm"]
                       /\ UNCHANGED <<flare, now>>
    \/ \E s \in Scripts : MineSuccess(s)
    \/ /\ now' \in now..MaxTime
       /\ UNCHANGED <<nextIntentNonce, intents, minted>>
       /\ accountNonce <= accountNonce'
       /\ \A p \in Payments :
            \/ payment'[p] = payment[p]
            \/ /\ payment[p] \in PaymentRecords /\ payment'[p] \in PaymentRecords
               /\ payment'[p].op = payment[p].op
       /\ \A r \in Runs : at'[r] \in Unpaid => at[r] \in Unpaid

(* A step that leaves the payments and the account as they are, and moves no *)
(* script back before its payment.                                           *)
LEMMA QuietDepositStep ==
    ASSUME IInv, UNCHANGED <<flare, payment>>, now' \in now..MaxTime,
           \A r \in Runs : at'[r] \in Unpaid => at[r] \in Unpaid
    PROVE  DepositStep
<1>1. accountNonce' = accountNonce /\ accountNonce \in Nat
    BY DEF flare, IInv, Shapes
<1>2. QED  BY <1>1 DEF DepositStep, flare

LEMMA StageMoves ==
    ASSUME IInv, NEW s \in Scripts, NEW stage, at' = [at EXCEPT ![s] = stage],
           stage \in Unpaid => at[s] \in Unpaid
    PROVE  \A r \in Runs : at'[r] \in Unpaid => at[r] \in Unpaid
BY DEF IInv, Shapes, Scripts

LEMMA PayIsDepositStep ==
    ASSUME IInv, SpentInv, NEW r \in Runs, Pay(r)
    PROVE  DepositStep
<1> DEFINE paid == [op |-> local[r].op, time |-> now, depth |-> 0]
<1>1. /\ at[r] = "pay" /\ at' = [at EXCEPT ![r] = "confirm"]
      /\ r \in Payments /\ r \in Scripts /\ payment' = [payment EXCEPT ![r] = paid]
      /\ UNCHANGED <<now, flare>>
    BY DEF Pay, Goto, Payments, Scripts
<1>2. Current(local[r].op)
    BY <1>1 DEF IInv, ScriptInv, Prepared
<1>3. paid \in PaymentRecords
    BY <1>2, MintDepositAssumption DEF PaymentRecords, Current, IInv, Shapes
<1> HIDE DEF paid
<1>4. payment'[r] = paid /\ payment[r] = None
    BY <1>1 DEF IInv, Shapes, SpentInv
<1>5. QED  BY <1>1, <1>3, <1>4 DEF DepositStep

LEMMA LedgerClosesIsDepositStep ==
    ASSUME IInv, LedgerCloses
    PROVE  DepositStep
<1>1. /\ payment' = [p \in Payments |->
           IF payment[p] # None /\ payment[p].depth < Confirmations
           THEN [payment[p] EXCEPT !.depth = @ + 1] ELSE payment[p]]
      /\ UNCHANGED <<now, accountNonce, nextIntentNonce, intents, minted, at>>
    BY DEF LedgerCloses, flare
<1>2. ASSUME NEW p \in Payments, payment[p] # None, payment[p].depth < Confirmations
      PROVE  /\ payment[p] \in PaymentRecords /\ payment'[p] \in PaymentRecords
             /\ payment'[p].op = payment[p].op
  <2>1. payment[p] \in PaymentRecords
      BY <1>2 DEF IInv, Shapes
  <2>2. payment[p].depth + 1 \in 0..Confirmations
      BY <1>2, <2>1, MintDepositAssumption DEF PaymentRecords
  <2>3. payment'[p] = [payment[p] EXCEPT !.depth = @ + 1]
      BY <1>1, <1>2
  <2>4. QED  BY <2>1, <2>2, <2>3 DEF PaymentRecords
<1>3. now' \in now..MaxTime /\ accountNonce <= accountNonce'
    BY <1>1, MintDepositAssumption DEF IInv, Shapes
<1>4. QED  BY <1>1, <1>2, <1>3 DEF DepositStep

LEMMA EveryDepositStep == IInv /\ SpentInv /\ [Next]_vars => DepositStep
<1> SUFFICES ASSUME IInv, SpentInv, [Next]_vars PROVE DepositStep
    OBVIOUS
<1>1. now \in 0..MaxTime /\ MaxTime \in Nat
    BY MintDepositAssumption DEF IInv, Shapes
<1>2. now' = now => now' \in now..MaxTime
    BY <1>1
<1>3. ASSUME NEW s \in Scripts, NEW stage, at' = [at EXCEPT ![s] = stage],
             stage \in Unpaid => at[s] \in Unpaid, UNCHANGED <<now, flare, payment>>
      PROVE  DepositStep
    BY <1>2, <1>3, StageMoves, QuietDepositStep
<1>4. ASSUME UNCHANGED <<flare, payment, at>>, now' \in now..MaxTime
      PROVE  DepositStep
    BY <1>4, QuietDepositStep
<1>5. ASSUME NEW r \in Runs, Start(r)
      PROVE  DepositStep
    BY <1>3, <1>5 DEF Start, Goto, Unpaid, Scripts, ledgers
<1>6. ASSUME NEW s \in Resumes, NEW p \in Payments, StartResume(s, p)
      PROVE  DepositStep
    BY <1>3, <1>6 DEF StartResume, Goto, Unpaid, Scripts, ledgers
<1>7. ASSUME NEW s \in Scripts, Proceed(s)
      PROVE  DepositStep
  <2>1. CASE s \in Runs /\ (ReadAccountNonce(s) \/ ReadIntentNonce(s))
      BY <1>3, <2>1 DEF ReadAccountNonce, ReadIntentNonce, Goto, Unpaid, ledgers
  <2>2. CASE s \in Runs /\ Pay(s)
      BY <2>2, PayIsDepositStep
  <2>3. CASE s \in Runs /\ (Confirm(s) \/ RequestAttestation(s))
      BY <1>3, <2>3 DEF Confirm, RequestAttestation, Goto, Unpaid, ledgers
  <2>4. CASE Recover(s)
      BY <1>3, <2>4 DEF Recover, Goto, Unpaid, ledgers
  <2>5. CASE PollFinalized(s) \/ PollProof(s)
    <3>1. PICK stage \in {"finalize", "proof", "mint", "stopped"} : at' = [at EXCEPT ![s] = stage]
        BY <2>5 DEF PollFinalized, PollProof, Poll, Goto
    <3>2. UNCHANGED <<now, flare, payment>>
        BY <2>5 DEF PollFinalized, PollProof, Poll, ledgers
    <3>3. QED  BY <1>3, <3>1, <3>2 DEF Unpaid
  <2>6. CASE SendMint(s)
      BY <1>3, <2>6 DEF SendMint, Goto, Unpaid, ledgers
  <2>7. CASE WriteRecord(s) \/ ReceiptTimeout(s)
      BY <1>3, <2>7 DEF WriteRecord, ReceiptTimeout, Goto, Unpaid, ledgers
  <2>8. QED  BY <1>7, <2>1, <2>2, <2>3, <2>4, <2>5, <2>6, <2>7 DEF Proceed
<1>8. ASSUME NEW s \in Scripts, Stop(s)
      PROVE  DepositStep
    BY <1>3, <1>8 DEF Stop, Goto, Unpaid, ledgers
<1>9. ASSUME NEW s \in Scripts, Mine(s)
      PROVE  DepositStep
  <2>1. CASE MineSuccess(s)
      BY <2>1 DEF DepositStep
  <2>2. CASE MineRevert(s)
      BY <1>2, <1>4, <2>2 DEF MineRevert, ledgers
  <2>3. QED  BY <1>9, <2>1, <2>2 DEF Mine
<1>10. CASE (\E p \in Payments : Attest(p)) \/ UNCHANGED vars
    BY <1>2, <1>4, <1>10 DEF Attest, vars, ledgers
<1>11. CASE Tick
  <2>1. now' \in now..MaxTime
      BY <1>1, <1>11 DEF Tick
  <2>2. QED  BY <1>4, <1>11, <2>1 DEF Tick, ledgers
<1>12. CASE OtherOperation
  <2>1. /\ accountNonce' = accountNonce + 1 /\ accountNonce \in Nat
        /\ UNCHANGED <<now, nextIntentNonce, intents, minted, payment, at>>
      BY <1>12 DEF OtherOperation, ledgers, IInv, Shapes
  <2>2. QED  BY <1>2, <2>1 DEF DepositStep
<1>13. CASE LedgerCloses
    BY <1>13, LedgerClosesIsDepositStep
<1>14. QED
    BY <1>5, <1>6, <1>7, <1>8, <1>9, <1>10, <1>11, <1>12, <1>13 DEF Next

(* What is executed was paid for, and carries the current account nonce. *)
LEMMA MineSuccessExecutes ==
    ASSUME IInv, NEW s \in Scripts, MineSuccess(s)
    PROVE  \E p \in Payments \ minted :
             /\ payment[p] \in PaymentRecords
             /\ payment[p].op.nonce = accountNonce
             /\ payment[p].op.expiry > now
             /\ payment[p].op.commitment.policy = "private" =>
                  payment[p].op.commitment.intentNonce = nextIntentNonce
             /\ minted' = minted \cup {p}
             /\ intents' = intents \cup {Intent(nextIntentNonce, payment[p].op)}
             /\ nextIntentNonce' = nextIntentNonce + 1
             /\ accountNonce' = accountNonce + 1
             /\ UNCHANGED <<now, payment, at>>
<1> DEFINE p == local[s].payment
<1>1. /\ p \notin minted /\ attestation[p] = "published" /\ local[s].op = payment[p].op
      /\ local[s].op.nonce = accountNonce /\ local[s].op.expiry > now
      /\ mintTx[s] = "pending"
    BY DEF MineSuccess, Mintable
<1>2. p \in Payments
    BY <1>1 DEF IInv, ScriptInv, Prepared
<1>3. Paid(p)
    BY <1>1, <1>2 DEF IInv, PaymentInv
<1>4. /\ minted' = minted \cup {p}
      /\ intents' = intents \cup {Intent(nextIntentNonce, payment[p].op)}
      /\ nextIntentNonce' = nextIntentNonce + 1
      /\ accountNonce' = accountNonce + 1
      /\ UNCHANGED <<now, payment, at>>
    BY <1>1 DEF MineSuccess, ledgers
<1> HIDE DEF p
<1>5. QED  BY <1>1, <1>2, <1>3, <1>4 DEF Paid, Current

LEMMA NextSpentInv == IInv /\ SpentInv /\ [Next]_vars => SpentInv'
<1> SUFFICES ASSUME IInv, SpentInv, [Next]_vars PROVE SpentInv'
    OBVIOUS
<1>1. accountNonce \in Nat /\ minted \subseteq Payments /\ Runs \subseteq Payments
      /\ payment \in [Payments -> PaymentRecords \cup {None}]
    BY DEF IInv, Shapes, Payments
<1>2. \A q \in minted : payment[q] \in PaymentRecords /\ payment[q].op.nonce < accountNonce
    BY DEF SpentInv
<1>3. \A q \in minted : payment[q].op.nonce \in Nat
    BY <1>2 DEF PaymentRecords, Operations
<1>4. \A r \in Runs : at[r] \in Unpaid => payment[r] = None
    BY DEF SpentInv, Unpaid
<1>5. CASE \E r \in Runs : /\ payment[r] = None /\ payment'[r] \in PaymentRecords
                           /\ payment' = [payment EXCEPT ![r] = payment'[r]]
                           /\ at[r] = "pay" /\ at' = [at EXCEPT ![r] = "confirm"]
                           /\ UNCHANGED <<flare, now>>
  <2>1. PICK r \in Runs : /\ payment[r] = None
                          /\ payment' = [payment EXCEPT ![r] = payment'[r]]
                          /\ at' = [at EXCEPT ![r] = "confirm"] /\ UNCHANGED flare
      BY <1>5
  <2>2. r \notin minted /\ UNCHANGED <<minted, accountNonce>>
      BY <1>2, <2>1, NoneAssumption DEF flare, PaymentRecords
  <2>3. \A q \in Payments \ {r} : payment'[q] = payment[q]
      BY <1>1, <2>1
  <2>4. \A q \in Runs : at'[q] \in Unpaid => q # r /\ at[q] \in Unpaid
      BY <2>1 DEF Unpaid, IInv, Shapes, Scripts
  <2>5. QED  BY <1>1, <1>2, <1>4, <2>2, <2>3, <2>4 DEF SpentInv, Unpaid
<1>6. CASE \E s \in Scripts : MineSuccess(s)
  <2>1. PICK p \in Payments \ minted :
          /\ payment[p] \in PaymentRecords /\ payment[p].op.nonce = accountNonce
          /\ minted' = minted \cup {p} /\ accountNonce' = accountNonce + 1
          /\ UNCHANGED <<payment, at>>
      BY <1>6, MineSuccessExecutes
  <2>2. \A q \in minted' : payment'[q] \in PaymentRecords /\ payment'[q].op.nonce < accountNonce'
      BY <1>1, <1>2, <1>3, <2>1
  <2>3. QED  BY <1>4, <2>1, <2>2 DEF SpentInv, Unpaid
<1>7. CASE /\ minted' = minted /\ accountNonce <= accountNonce'
           /\ \A p \in Payments :
                \/ payment'[p] = payment[p]
                \/ /\ payment[p] \in PaymentRecords /\ payment'[p] \in PaymentRecords
                   /\ payment'[p].op = payment[p].op
           /\ \A r \in Runs : at'[r] \in Unpaid => at[r] \in Unpaid
  <2>1. accountNonce' \in Nat
      BY NextIInv DEF IInv, Shapes
  <2>2. \A q \in minted' : payment'[q] \in PaymentRecords /\ payment'[q].op.nonce < accountNonce'
      BY <1>1, <1>2, <1>3, <1>7, <2>1
  <2>3. \A r \in Runs : at'[r] \in Unpaid => payment'[r] = None
      BY <1>1, <1>4, <1>7, NoneAssumption DEF PaymentRecords
  <2>4. QED  BY <2>2, <2>3 DEF SpentInv, Unpaid
<1>8. QED  BY <1>5, <1>6, <1>7, EveryDepositStep DEF DepositStep

(* What payment p offers. *)
OfferOf(p) == IF payment[p] = None THEN None ELSE payment[p].op

(* A step of the scripts or of the ledgers is a step of the promise. *)
LEMMA DepositStepIsPromised ==
    IInv /\ SpentInv /\ [Next]_vars => [Promise!DepositNext]_Promise!depositVars
<1> SUFFICES ASSUME IInv, SpentInv, [Next]_vars PROVE Promise!DepositNext
    OBVIOUS
<1> DEFINE offers == [p \in Payments |-> OfferOf(p)]
<1>1. minted \subseteq Payments /\ Runs \subseteq Payments
      /\ payment \in [Payments -> PaymentRecords \cup {None}] /\ accountNonce \in Nat
    BY DEF IInv, Shapes, Payments
<1>2. CASE \E r \in Runs : /\ payment[r] = None /\ payment'[r] \in PaymentRecords
                           /\ payment' = [payment EXCEPT ![r] = payment'[r]]
                           /\ at[r] = "pay" /\ at' = [at EXCEPT ![r] = "confirm"]
                           /\ UNCHANGED <<flare, now>>
  <2>1. PICK r \in Runs : /\ payment[r] = None /\ payment'[r] \in PaymentRecords
                          /\ payment' = [payment EXCEPT ![r] = payment'[r]]
                          /\ UNCHANGED <<flare, now>>
      BY <1>2
  <2>2. \A q \in Payments \ {r} : payment'[q] = payment[q]
      BY <1>1, <2>1
  <2>3. payment'[r] # None /\ payment'[r].op \in Operations
      BY <2>1, NoneAssumption DEF PaymentRecords
  <2>4. offers[r] = None /\ offers'[r] \in Operations
        /\ offers' = [offers EXCEPT ![r] = offers'[r]]
      BY <1>1, <2>1, <2>2, <2>3 DEF OfferOf
  <2>5. UNCHANGED <<minted, intents, nextIntentNonce, now>>
      BY <2>1 DEF flare
  <2>6. Promise!Offer(r)
      BY <2>4, <2>5 DEF Promise!Offer, OfferOf
  <2>7. QED  BY <1>1, <2>6 DEF Promise!DepositNext
<1>3. CASE \E s \in Scripts : MineSuccess(s)
  <2>1. PICK p \in Payments \ minted :
          /\ payment[p] \in PaymentRecords
          /\ payment[p].op.nonce = accountNonce
          /\ payment[p].op.expiry > now
          /\ payment[p].op.commitment.policy = "private" =>
               payment[p].op.commitment.intentNonce = nextIntentNonce
          /\ minted' = minted \cup {p}
          /\ intents' = intents \cup {Intent(nextIntentNonce, payment[p].op)}
          /\ nextIntentNonce' = nextIntentNonce + 1
          /\ UNCHANGED <<now, payment>>
      BY <1>3, MineSuccessExecutes
  <2>2. offers[p] = payment[p].op /\ offers[p] # None
      BY <2>1, NoneAssumption DEF OfferOf, PaymentRecords
  <2>3. \A q \in minted : offers[q].nonce # offers[p].nonce
    <3> SUFFICES ASSUME NEW q \in minted PROVE offers[q].nonce # offers[p].nonce
        OBVIOUS
    <3>1. payment[q] \in PaymentRecords /\ payment[q].op.nonce < accountNonce
        BY DEF SpentInv
    <3>2. offers[q] = payment[q].op /\ payment[q].op.nonce \in Nat
        BY <1>1, <3>1, NoneAssumption DEF OfferOf, PaymentRecords, Operations
    <3>3. QED  BY <1>1, <2>1, <2>2, <3>1, <3>2
  <2>4. Promise!Names(offers[p].commitment, nextIntentNonce)
      BY <2>1, <2>2 DEF Promise!Names
  <2>5. offers' = offers
      BY <2>1 DEF OfferOf
  <2>6. Promise!Fund(p)
      BY <2>1, <2>2, <2>3, <2>4, <2>5 DEF Promise!Fund, OfferOf, Intent
  <2>7. QED  BY <2>6 DEF Promise!DepositNext
<1>4. CASE /\ now' \in now..MaxTime
           /\ UNCHANGED <<nextIntentNonce, intents, minted>>
           /\ \A p \in Payments :
                \/ payment'[p] = payment[p]
                \/ /\ payment[p] \in PaymentRecords /\ payment'[p] \in PaymentRecords
                   /\ payment'[p].op = payment[p].op
  <2>1. \A p \in Payments : OfferOf(p)' = OfferOf(p)
      BY <1>4, NoneAssumption DEF OfferOf, PaymentRecords
  <2>2. offers' = offers
      BY <2>1
  <2>3. QED  BY <1>4, <2>2 DEF Promise!DepositNext, Promise!Pass, OfferOf
<1>5. QED  BY <1>2, <1>3, <1>4, EveryDepositStep DEF DepositStep

(* The scripts, with the ledgers between them, implement the promise: step by *)
(* step, a payment is executed at most once, for the operation paid for and   *)
(* before it expires, instead of any other with its account nonce, and funds  *)
(* the intent that its policy is committed to.                                *)
THEOREM ScriptsImplementDeposit == Spec => ImplementsDeposit
<1>1. Init => Promise!DepositInit
  <2> SUFFICES ASSUME Init PROVE Promise!DepositInit
      OBVIOUS
  <2>1. payment \in [Payments -> PaymentRecords \cup {None}]
      BY InitIInv DEF IInv, Shapes
  <2>2. \A p \in Payments : OfferOf(p) \in Operations \cup {None}
      BY <2>1, NoneAssumption DEF OfferOf, PaymentRecords
  <2>3. QED  BY <2>2 DEF Init, Promise!DepositInit, OfferOf
<1>2. Spec => []SpentInv
    BY InitSpentInv, NextSpentInv, DepositInvariant, PTL DEF Spec
<1>3. QED
    BY <1>1, <1>2, DepositStepIsPromised, DepositInvariant, PTL
       DEF Spec, ImplementsDeposit, Promise!Spec

-----------------------------------------------------------------------------
(* Every script has an end.                                                *)

Moved(s) == at'[s] # at[s] \/ local'[s] # local[s]
Advanced(s) == Moved(s) => Rank(s)' \in 0..(Rank(s) - 1)

LEMMA RanksAreNatural ==
    ASSUME Shapes, NEW s \in Scripts
    PROVE  /\ Remaining[at[s]] \in 0..10 /\ local[s].attempts \in 0..MaxAttempts
           /\ MaxAttempts \in Nat /\ Rank(s) \in Nat
<1>1. Remaining[at[s]] \in 0..10
    BY DEF Remaining, Shapes, Stages
<1>2. local[s].attempts \in 0..MaxAttempts /\ MaxAttempts \in Nat
    BY MintDepositAssumption DEF Shapes, Locals
<1>3. Remaining[at[s]] * (MaxAttempts + 1) \in Nat
    BY <1>1, <1>2
<1>4. QED  BY <1>1, <1>2, <1>3 DEF Rank

(* A script that moves to a later stage comes closer to its end, whatever its *)
(* count of polls becomes.                                                    *)
LEMMA LaterStageAdvances ==
    ASSUME Shapes, Shapes', NEW s \in Scripts, Remaining[at'[s]] < Remaining[at[s]]
    PROVE  Rank(s)' \in 0..(Rank(s) - 1)
<1> DEFINE k == Remaining[at[s]]
           j == Remaining[at'[s]]
           a == local[s].attempts
           b == local'[s].attempts
<1>1. k \in 0..10 /\ a \in 0..MaxAttempts /\ MaxAttempts \in Nat /\ Rank(s) \in Nat
    BY RanksAreNatural
<1>2. j \in 0..10 /\ b \in 0..MaxAttempts
  <2>1. j \in 0..10
      BY DEF Remaining, Shapes, Stages
  <2>2. QED  BY <1>1, <2>1 DEF Shapes, Locals
<1>3. Rank(s) = k * (MaxAttempts + 1) + MaxAttempts - a
      /\ Rank(s)' = j * (MaxAttempts + 1) + MaxAttempts - b
    BY DEF Rank, Remaining
<1> HIDE DEF k, j, a, b
<1>4. PICK d \in 0..9 : k = j + 1 + d
  <2>1. j < k
      BY DEF k, j
  <2>2. k - j - 1 \in 0..9 /\ k = j + 1 + (k - j - 1)
      BY <1>1, <1>2, <2>1
  <2>3. QED  BY <2>2
<1>5. /\ d * (MaxAttempts + 1) \in Nat /\ j * (MaxAttempts + 1) \in Nat
      /\ k * (MaxAttempts + 1) = j * (MaxAttempts + 1) + (MaxAttempts + 1) + d * (MaxAttempts + 1)
    BY <1>1, <1>2, <1>4
<1>6. PICK x \in Nat, y \in Nat : x = j * (MaxAttempts + 1) /\ y = d * (MaxAttempts + 1)
    BY <1>5
<1>7. Rank(s) = x + (MaxAttempts + 1) + y + MaxAttempts - a /\ Rank(s)' = x + MaxAttempts - b
    BY <1>3, <1>5, <1>6
<1>8. QED  BY <1>1, <1>2, <1>6, <1>7

(* One more poll in the same stage does, too. *)
LEMMA PollAdvances ==
    ASSUME Shapes, Shapes', NEW s \in Scripts, at'[s] = at[s],
           local'[s].attempts = local[s].attempts + 1
    PROVE  Rank(s)' \in 0..(Rank(s) - 1)
<1> DEFINE c == Remaining[at[s]] * (MaxAttempts + 1)
<1>1. /\ Remaining[at[s]] \in 0..10 /\ local[s].attempts \in 0..MaxAttempts
      /\ MaxAttempts \in Nat /\ Rank(s) \in Nat
    BY RanksAreNatural
<1>2. local'[s].attempts \in 0..MaxAttempts
    BY <1>1 DEF Shapes, Locals
<1>3. c \in Nat
    BY <1>1
<1>4. Rank(s) = c + MaxAttempts - local[s].attempts
      /\ Rank(s)' = c + MaxAttempts - local'[s].attempts
    BY DEF Rank, Remaining
<1> HIDE DEF c
<1>5. QED  BY <1>1, <1>2, <1>3, <1>4

(* A step that takes one script to a later stage. *)
LEMMA StageStepAdvances ==
    ASSUME Shapes, Shapes', NEW s \in Scripts, NEW stage \in Stages,
           at' = [at EXCEPT ![s] = stage], Remaining[stage] < Remaining[at[s]],
           \A v \in Scripts : v # s => local'[v] = local[v]
    PROVE  \A v \in Scripts : Advanced(v)
<1>1. at'[s] = stage /\ \A v \in Scripts : v # s => ~Moved(v)
    BY DEF Shapes, Moved
<1>2. Rank(s)' \in 0..(Rank(s) - 1)
    BY <1>1, LaterStageAdvances
<1>3. QED  BY <1>1, <1>2 DEF Advanced

LEMMA PollStepAdvances ==
    ASSUME IInv, Shapes', NEW s \in Scripts, PollFinalized(s) \/ PollProof(s)
    PROVE  \A v \in Scripts : Advanced(v)
<1>1. at[s] \in {"finalize", "proof"} /\ local[s] \in Locals
      /\ (\A v \in Scripts : v # s => at'[v] = at[v] /\ local'[v] = local[v])
    BY DEF PollFinalized, PollProof, Poll, Goto, IInv, Shapes
<1>2. PICK stage \in Stages : /\ at' = [at EXCEPT ![s] = stage]
                              /\ \/ Remaining[stage] < Remaining[at[s]]
                                 \/ /\ stage = at[s]
                                    /\ local' = [local EXCEPT ![s].attempts = @ + 1]
    BY <1>1 DEF PollFinalized, PollProof, Poll, Goto, AttemptCounted, Stages, Remaining
<1>3. CASE Remaining[stage] < Remaining[at[s]]
    BY <1>1, <1>2, <1>3, StageStepAdvances DEF IInv
<1>4. CASE stage = at[s] /\ local' = [local EXCEPT ![s].attempts = @ + 1]
  <2>1. at'[s] = at[s] /\ local'[s].attempts = local[s].attempts + 1
      BY <1>1, <1>2, <1>4 DEF IInv, Shapes, Locals
  <2>2. Rank(s)' \in 0..(Rank(s) - 1)
      BY <2>1, PollAdvances DEF IInv
  <2>3. QED  BY <1>1, <2>2 DEF Advanced, Moved
<1>5. QED  BY <1>2, <1>3, <1>4

LEMMA EveryStepAdvances ==
    IInv /\ Shapes' /\ [Next]_vars => [\A s \in Scripts : Advanced(s)]_vars
<1> SUFFICES ASSUME IInv, Shapes', Next PROVE \A v \in Scripts : Advanced(v)
    BY DEF vars, Advanced, Moved, flare, ledgers, files
<1>1. ASSUME NEW s \in Scripts, NEW stage \in Stages,
             at' = [at EXCEPT ![s] = stage], Remaining[stage] < Remaining[at[s]],
             \A v \in Scripts : v # s => local'[v] = local[v]
      PROVE  \A v \in Scripts : Advanced(v)
    BY <1>1, StageStepAdvances DEF IInv
<1>2. ASSUME UNCHANGED <<at, local>>
      PROVE  \A v \in Scripts : Advanced(v)
    BY <1>2 DEF Advanced, Moved
<1>3. \A s \in Scripts : at[s] \in Stages
    BY DEF IInv, Shapes
<1>4. ASSUME NEW s \in Scripts, Goto(s, "stopped"), at[s] \notin Ended, UNCHANGED local
      PROVE  \A v \in Scripts : Advanced(v)
  <2>1. Remaining["stopped"] < Remaining[at[s]]
      BY <1>3, <1>4 DEF Remaining, Stages, Ended
  <2>2. QED  BY <1>1, <1>4, <2>1 DEF Goto, Stages
<1>5. ASSUME NEW r \in Runs, Start(r)
      PROVE  \A v \in Scripts : Advanced(v)
  <2>1. r \in Scripts /\ at' = [at EXCEPT ![r] = "nonce"] /\ local' = local
        /\ Remaining["nonce"] < Remaining[at[r]]
      BY <1>5 DEF Start, Goto, Remaining, Scripts
  <2>2. QED  BY <1>1, <2>1 DEF Stages
<1>6. ASSUME NEW s \in Resumes, NEW p \in Payments, StartResume(s, p)
      PROVE  \A v \in Scripts : Advanced(v)
  <2>1. s \in Scripts /\ at' = [at EXCEPT ![s] = "recover"]
        /\ Remaining["recover"] < Remaining[at[s]]
      BY <1>6 DEF StartResume, Goto, Remaining, Scripts
  <2>2. \A v \in Scripts : v # s => local'[v] = local[v]
      BY <1>6 DEF StartResume, IInv, Shapes
  <2>3. QED  BY <1>1, <2>1, <2>2 DEF Stages
<1>7. ASSUME NEW s \in Scripts, Proceed(s)
      PROVE  \A v \in Scripts : Advanced(v)
  <2>1. CASE PollFinalized(s) \/ PollProof(s)
      BY <2>1, PollStepAdvances
  <2>2. CASE ReceiptTimeout(s)
      BY <1>4, <2>2 DEF ReceiptTimeout, Ended
  <2>3. CASE /\ \/ ReadAccountNonce(s) \/ ReadIntentNonce(s) \/ Pay(s)
                \/ Confirm(s) \/ RequestAttestation(s)
    <3>1. \A v \in Scripts : v # s => local'[v] = local[v]
        BY <2>3 DEF ReadAccountNonce, ReadIntentNonce, Pay, Confirm, RequestAttestation,
                    IInv, Shapes
    <3>2. PICK stage \in Stages : /\ at' = [at EXCEPT ![s] = stage]
                                  /\ Remaining[stage] < Remaining[at[s]]
        BY <2>3 DEF ReadAccountNonce, ReadIntentNonce, Pay, Confirm, RequestAttestation,
                    Goto, Stages, Remaining
    <3>3. QED  BY <1>1, <3>1, <3>2
  <2>4. CASE Recover(s) \/ SendMint(s) \/ WriteRecord(s)
    <3>1. \A v \in Scripts : v # s => local'[v] = local[v]
        BY <2>4 DEF Recover, SendMint, WriteRecord, IInv, Shapes
    <3>2. PICK stage \in Stages : /\ at' = [at EXCEPT ![s] = stage]
                                  /\ Remaining[stage] < Remaining[at[s]]
        BY <2>4 DEF Recover, SendMint, WriteRecord, Goto, Stages, Remaining
    <3>3. QED  BY <1>1, <3>1, <3>2
  <2>5. QED  BY <1>7, <2>1, <2>2, <2>3, <2>4 DEF Proceed
<1>8. ASSUME NEW s \in Scripts, Stop(s)
      PROVE  \A v \in Scripts : Advanced(v)
    BY <1>4, <1>8 DEF Stop
<1>9. QED
    BY <1>2, <1>5, <1>6, <1>7, <1>8
       DEF Next, Mine, MineSuccess, MineRevert, Attest, OtherOperation, LedgerCloses, Tick

(* Each step that moves a script brings it closer to its end: it takes at most *)
(* 11 * (MaxAttempts + 1) of them, and never returns to a stage it has left.   *)
THEOREM ScriptsComeToAnEnd == Spec => ScriptsAdvance
<1>1. IInv => Shapes
    BY DEF IInv
<1>2. [\A s \in Scripts : Advanced(s)]_vars
        => [\A s \in Scripts :
              at'[s] # at[s] \/ local'[s] # local[s] => Rank(s)' \in 0..(Rank(s) - 1)]_vars
    BY DEF Advanced, Moved
<1>3. QED
    BY <1>1, <1>2, EveryStepAdvances, DepositInvariant, PTL DEF Spec, ScriptsAdvance
=============================================================================
