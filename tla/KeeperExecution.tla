---------------------------- MODULE KeeperExecution ----------------------------
(***************************************************************************)
(* The scripts that present a signed authorization to the router and put   *)
(* the delivery on record: scripts/execute-fcc-pangolin-v2.mjs with the    *)
(* decision of an evaluation, scripts/execute-pangolin-intent.js with one  *)
(* it signs itself.                                                        *)
(*                                                                         *)
(* A script reads the chain at each await, and anything may happen on it   *)
(* in between: the owner cancels or spends, the admin pauses or delists,   *)
(* another keeper is first.  The transaction, once sent, is mined whenever; *)
(* a script may stop at any point, its transaction not.                    *)
(***************************************************************************)
EXTENDS RouteAdapter

CONSTANTS
    Keepers,   \* runs of the scripts
    NoRecord

(* The data of a signed route is among what can be presented. *)
ASSUME KeeperAssumption ==
    /\ NoRecord \notin Keepers
    /\ \A r \in RouteTerms : r.actionHash \in AdapterCalls

VARIABLES
    step,      \* the await the script is at
    decision,  \* the authorization and the key that signed it
    before,    \* balanceBefore
    after,     \* balanceAfter, or NoRecord while it is not read
    receipt,   \* "none", "pending", "success" or "reverted"
    executor,  \* the keeper whose transaction has the window open, or NoRecord
    record     \* the evidence file, or NoRecord

keeperVars == <<step, decision, before, after, receipt, executor, record>>
keeperFlowVars == <<routeVars, keeperVars>>

Scripts == {"fcc", "direct"}

KeeperInit ==
    /\ RouteInit
    /\ step = [k \in Keepers |-> "idle"]
    /\ decision = [k \in Keepers |-> NoRecord]
    /\ before = [k \in Keepers |-> 0]
    /\ after = [k \in Keepers |-> NoRecord]
    /\ receipt = [k \in Keepers |-> "none"]
    /\ executor = NoRecord
    /\ record = [k \in Keepers |-> NoRecord]

At(k, s) == step[k] = s /\ NotEntered
Goto(k, s) == step' = [step EXCEPT ![k] = s]
Fcc(k) == decision[k].script = "fcc"

-----------------------------------------------------------------------------
(* The fcc script fetches the decision for the deposit it has on record; the *)
(* direct one goes by constants, and what it will sign with its own key is   *)
(* settled here but for the check of its deadline.                           *)
Start(k, script, id, r, signer) ==
    /\ At(k, "idle")
    /\ status[id] # "None"
    /\ decision' = [decision EXCEPT ![k] = [script |-> script, signer |-> signer,
                                            auth |-> Authorization(id, id, r)]]
    /\ Goto(k, IF script = "fcc" THEN "readIntent" ELSE "checkSigner")
    /\ UNCHANGED <<before, after, receipt, executor, record>>

(* A check passes, and the script goes on to the next, each in its order. *)
Passed(k, fccNext, directNext) ==
    /\ Goto(k, IF Fcc(k) THEN fccNext ELSE directNext)
    /\ UNCHANGED <<decision, before, after, receipt, executor, record>>

InTime(auth) ==
    /\ now < auth.intentId.expiry
    /\ now <= auth.deadline /\ auth.deadline <= auth.intentId.expiry

ReadIntent(k) ==
    /\ At(k, "readIntent")
    /\ status[decision[k].auth.intentId] = "Funded"
    /\ Fcc(k) => InTime(decision[k].auth)
    /\ Passed(k, "checkAdapter", "readBlock")

ReadBlock(k) ==
    /\ At(k, "readBlock")
    /\ InTime(decision[k].auth)
    /\ Passed(k, "readBalance", "readBalance")

CheckAdapter(k) ==
    /\ At(k, "checkAdapter")
    /\ decision[k].auth.adapter \in allowedAdapters
    /\ Passed(k, "checkSigner", "readIntent")

CheckSigner(k) ==
    /\ At(k, "checkSigner")
    /\ decision[k].signer = teeSigner
    /\ Passed(k, "readBalance", "checkAdapter")

OwnerBalance(auth) == balance[auth.tokenOut][auth.owner]

ReadBalanceBefore(k) ==
    /\ At(k, "readBalance")
    /\ decision[k].auth.tokenOut \in Tokens
    /\ before' = [before EXCEPT ![k] = OwnerBalance(decision[k].auth)]
    /\ Goto(k, "send")
    /\ UNCHANGED <<decision, after, receipt, executor, record>>

Execute(k) == EnterExecute(decision[k].auth, decision[k].signer, decision[k].auth.actionHash)

(* The static call, and the gas estimate of the transaction, fail where the *)
(* transaction would.                                                       *)
Send(k) ==
    /\ At(k, "send")
    /\ ENABLED Execute(k)
    /\ receipt' = [receipt EXCEPT ![k] = "pending"]
    /\ Goto(k, "wait")
    /\ UNCHANGED <<decision, before, after, executor, record>>

-----------------------------------------------------------------------------
(* The transaction is mined: it enters the router, or is refused there. *)

Enter(k) ==
    /\ receipt[k] = "pending"
    /\ Execute(k)
    /\ executor' = k
    /\ UNCHANGED <<step, decision, before, after, receipt, record>>

Refused(k) ==
    /\ receipt[k] = "pending" /\ NotEntered
    /\ ~ENABLED Execute(k)
    /\ receipt' = [receipt EXCEPT ![k] = "reverted"]
    /\ UNCHANGED <<step, decision, before, after, executor, record>>

Mined(outcome) ==
    /\ receipt' = IF executor = NoRecord THEN receipt
                                         ELSE [receipt EXCEPT ![executor] = outcome]
    /\ executor' = NoRecord
    /\ UNCHANGED <<step, decision, before, after, record>>

-----------------------------------------------------------------------------
(* wait() resolves with a receipt, and throws if its status is not 1. *)
AnyReceipt(k) == receipt[k] \in {"success", "reverted"}
Succeeded(k) == receipt[k] = "success"

Wait(k) ==
    /\ At(k, "wait")
    /\ Succeeded(k)
    /\ Goto(k, "readBack")
    /\ UNCHANGED <<decision, before, after, receipt, executor, record>>

(* The fcc script reads the balance and the status at once, the direct one *)
(* the balance first.                                                      *)
ReadBalanceAfter(k) ==
    /\ step[k] \in {"readBack", "executed"} /\ NotEntered
    /\ after[k] = NoRecord
    /\ after' = [after EXCEPT ![k] = OwnerBalance(decision[k].auth)]
    /\ UNCHANGED <<step, decision, before, receipt, executor, record>>

ReadStatus(k) ==
    /\ At(k, "readBack")
    /\ Fcc(k) \/ after[k] # NoRecord
    /\ status[decision[k].auth.intentId] = "Executed"
    /\ Goto(k, "executed")
    /\ UNCHANGED <<decision, before, after, receipt, executor, record>>

Delivered(k) == after[k] - before[k]

(* The fcc script wants the minimum, the direct one anything at all. *)
WriteRecord(k) ==
    /\ At(k, "executed")
    /\ after[k] # NoRecord
    /\ Delivered(k) >= IF Fcc(k) THEN decision[k].auth.minimumOutput ELSE 1
    /\ record' = [record EXCEPT ![k] = [auth |-> decision[k].auth,
                                        deliveredOutput |-> Delivered(k)]]
    /\ Goto(k, "stopped")
    /\ UNCHANGED <<decision, before, after, receipt, executor>>

(* A check throws, or the process ends. *)
Stop(k) ==
    /\ step[k] \notin {"idle", "stopped"} /\ NotEntered
    /\ Goto(k, "stopped")
    /\ UNCHANGED <<decision, before, after, receipt, executor, record>>

(* Between the reads of a script the owner spends what it is paid, with an *)
(* account outside the model.                                              *)
OwnerSpends(k) ==
    /\ NotEntered
    /\ step[k] \in {"send", "wait", "readBack", "executed"}
    /\ CanPay(decision[k].auth.tokenOut, decision[k].auth.owner, 1)
    /\ balance' = [balance EXCEPT ![decision[k].auth.tokenOut][decision[k].auth.owner] = @ - 1]
    /\ UNCHANGED <<status, nextIntentNonce, adminVars, log, call, now, adapterVars, keeperVars>>

KeeperStep(k) ==
    \/ \E script \in Scripts, id \in IntentIds, r \in RouteTerms, s \in Signers :
         Start(k, script, id, r, s)
    \/ ReadIntent(k) \/ ReadBlock(k) \/ CheckAdapter(k) \/ CheckSigner(k)
    \/ ReadBalanceBefore(k) \/ Send(k) \/ Refused(k)
    \/ Wait(k) \/ ReadBalanceAfter(k) \/ ReadStatus(k) \/ WriteRecord(k)
    \/ Stop(k)

KeeperNext ==
    \/ (\E k \in Keepers : KeeperStep(k)) /\ UNCHANGED routeVars
    \/ (\E k \in Keepers : Enter(k)) /\ UNCHANGED adapterVars
    \/ (Others \/ AdapterStep) /\ UNCHANGED keeperVars
    \/ \E k \in Keepers : OwnerSpends(k)
    \/ (\E t \in Tokens : Leave(t)) /\ Mined("success")
    \/ Revert /\ Mined("reverted")

KeeperSpec == KeeperInit /\ [][KeeperNext]_keeperFlowVars

-----------------------------------------------------------------------------
(* A record of an execution is backed by the chain, whatever moved the       *)
(* owner's balance between the two reads it is computed from and whoever     *)
(* else presented the same authorization: the script's own transaction       *)
(* executed the intent and paid a standard token's signed minimum, and no    *)
(* two records claim one execution.                                          *)
RecordBacked ==
    /\ \A k \in Keepers : record[k] # NoRecord =>
         LET auth == record[k].auth IN
         /\ receipt[k] = "success"
         /\ \E e \in log : /\ e.event = "IntentExecuted" /\ e.intentId = auth.intentId
                           /\ e.adapter = auth.adapter /\ e.token = auth.tokenOut
                           /\ e.amount >= auth.minimumOutput
    /\ \A j, k \in Keepers : record[j] # NoRecord /\ record[k] # NoRecord /\ j # k =>
         record[j].auth.intentId # record[k].auth.intentId
=============================================================================
