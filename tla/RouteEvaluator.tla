---------------------------- MODULE RouteEvaluator ----------------------------
(***************************************************************************)
(* The confidential evaluator of fcc-scaffold/go/internal/extension in     *)
(* front of the router.                                                    *)
(*                                                                         *)
(* processEvaluate serves POST /action in a goroutine of its own.  It      *)
(* decrypts a request, then reads the chain: its identifier, and then the  *)
(* intent, the quotes, the allowlist; every read sees the latest block     *)
(* and nothing holds the chain still in between.  A request that passes is *)
(* signed with the key of the TEE machine that serves it.  Anyone may then *)
(* present the signed authorization to the router, at once, later, or      *)
(* after the admin has rotated the key.                                    *)
(*                                                                         *)
(* The module extends ShadowRouter: its steps are those of the router,     *)
(* with executeIntent confined to authorizations an evaluator has signed,  *)
(* and those of the evaluator between them.  A transaction is atomic for   *)
(* an RPC reader, so an evaluation does not move while one is open.        *)
(*                                                                         *)
(* An intent's ciphertextHash is the policy it commits to: hashing is      *)
(* injective.  The router address is left out of requests and policies, as *)
(* there is one router.                                                    *)
(***************************************************************************)
EXTENDS ShadowRouter, Sequences

CONSTANTS
    Evaluations,     \* concurrent requests to the evaluators
    Constraints,     \* what users ask for: allowedAdapters, maximumRisk, minimumOutput
    V2Routes,        \* SHADOW_V2_ROUTES_JSON: a sequence of adapter, path and risk
    Outputs,         \* amounts getAmountsOut may answer
    ChainIds, LiveChainId,
    Expiries, Deadlines,  \* expiries and deadlines requests name
    NoRequest

RouteIndexes == 1..Len(V2Routes)

(* An EvaluateRequest for intent id that repeats the fields of subject. *)
Request(id, subject, c, chainId, expiry, deadline) ==
    [intentId |-> id, chainId |-> chainId, owner |-> subject.owner,
     tokenIn |-> subject.tokenIn, amount |-> subject.amount, nonce |-> subject.nonce,
     expiry |-> expiry, deadline |-> deadline, constraints |-> c]

Requests == {Request(id, s, c, chainId, x, d) : id \in IntentIds, s \in IntentIds,
             c \in Constraints, chainId \in ChainIds, x \in Expiries, d \in Deadlines}

(* privatePolicyCommitment *)
PolicyCommitment(req) ==
    [chainId |-> req.chainId, owner |-> req.owner, tokenIn |-> req.tokenIn,
     amount |-> req.amount, nonce |-> req.nonce, expiry |-> req.expiry,
     constraints |-> req.constraints]

(* The action of an authorization: the encoded path, minimum and deadline. *)
ActionHash(k, minimum, deadline) ==
    [path |-> k, minimumOutput |-> minimum, deadline |-> deadline]

(* Among the terms a key may sign are those the evaluator signs. *)
ASSUME RouteEvaluatorAssumption ==
    /\ V2Routes \in Seq([adapter : Adapters, tokenIn : Tokens, tokenOut : Tokens, risk : Nat])
    /\ \A c \in Constraints : /\ c.allowedAdapters \subseteq Adapters
                              /\ c.maximumRisk \in Nat
                              /\ c.minimumOutput \in Nat
    /\ Outputs \subseteq Nat /\ Expiries \subseteq Nat /\ Deadlines \subseteq Nat
    /\ NoRequest \notin Requests
    /\ \A k \in RouteIndexes, c \in Constraints, d \in Deadlines :
         [adapter |-> V2Routes[k].adapter, tokenOut |-> V2Routes[k].tokenOut,
          actionHash |-> ActionHash(k, c.minimumOutput, d),
          minimumOutput |-> c.minimumOutput, deadline |-> d] \in RouteTerms

VARIABLES
    stage,    \* stage[e]: where evaluation e is
    request,  \* request[e]: the decrypted request while e is under way
    chosen,   \* chosen[e]: the index of the route chosen, or 0
    signed    \* the authorizations published, each with the key that signed it

evaluatorVars == <<stage, request, chosen, signed>>
flowVars == <<vars, evaluatorVars>>

EvaluatorInit ==
    /\ Init
    /\ stage = [e \in Evaluations |-> "idle"]
    /\ request = [e \in Evaluations |-> NoRequest]
    /\ chosen = [e \in Evaluations |-> 0]
    /\ signed = {}

-----------------------------------------------------------------------------
(* The evaluation goes on to next or is rejected; one that has ended keeps   *)
(* none of its locals.                                                       *)
Advance(e, accepted, next) ==
    /\ stage' = [stage EXCEPT ![e] = IF accepted THEN next ELSE "rejected"]
    /\ request' = IF stage'[e] \in {"signed", "rejected"}
                  THEN [request EXCEPT ![e] = NoRequest] ELSE request

(* The chain identifier never changes: reading it is part of this step. *)
ChainMatches(req) == req.chainId = LiveChainId

(* The request is decrypted and decoded. *)
Receive(e, req) ==
    /\ stage[e] = "idle"
    /\ ChainMatches(req)
    /\ request' = [request EXCEPT ![e] = req]
    /\ stage' = [stage EXCEPT ![e] = "intent"]
    /\ UNCHANGED <<chosen, signed>>

(* A policy privatePolicyCommitment accepts. *)
ValidPolicy(req) ==
    /\ req.amount > 0
    /\ req.constraints.minimumOutput > 0
    /\ req.expiry # 0
    /\ req.constraints.allowedAdapters # {}

MatchesDeposit(req) ==
    LET id == req.intentId IN
    /\ req.owner = id.owner
    /\ req.tokenIn = id.tokenIn
    /\ req.amount = id.amount
    /\ req.nonce = id.nonce
MatchesIntentFields(req) ==
    MatchesDeposit(req) /\ req.expiry = req.intentId.expiry
MatchesFundedIntent(req) ==
    status[req.intentId] = "Funded" /\ MatchesIntentFields(req)

VerifyFundedIntent(req) ==
    /\ MatchesFundedIntent(req)
    /\ ValidPolicy(req)
    /\ PolicyCommitment(req) = req.intentId.ciphertextHash

ReadIntent(e) ==
    /\ stage[e] = "intent"
    /\ Advance(e, VerifyFundedIntent(request[e]), "quotes")
    /\ UNCHANGED <<chosen, signed>>

(* The quote source offers route k for the request when its path starts at   *)
(* the input token and the exchange answers; quotes[k] is the answer.  A     *)
(* route quoted live is valid until the deadline of the request.             *)
Offered(req, quotes) == {k \in DOMAIN quotes : V2Routes[k].tokenIn = req.tokenIn}

AnyAdapter(req, quotes) == {k \in Offered(req, quotes) :
    /\ V2Routes[k].risk <= req.constraints.maximumRisk
    /\ quotes[k] >= req.constraints.minimumOutput}
Candidates(req, quotes) == {k \in Offered(req, quotes) :
    /\ V2Routes[k].adapter \in req.constraints.allowedAdapters
    /\ V2Routes[k].risk <= req.constraints.maximumRisk
    /\ quotes[k] >= req.constraints.minimumOutput}

(* The stable sort by falling output puts first the earliest of the best. *)
BestCountedFromZero(candidates, quotes) == -1 + CHOOSE k \in candidates :
    \A j \in candidates : quotes[k] >= quotes[j]
Best(candidates, quotes) == CHOOSE k \in candidates : \A j \in candidates :
    quotes[k] > quotes[j] \/ (quotes[k] = quotes[j] /\ k <= j)

(* The quotes are read and chooseRoute runs, by the clock of the machine. *)
ChooseRoute(e, quotes, teeTime) ==
    LET req == request[e]
        candidates == Candidates(req, quotes)
        acceptable == /\ req.deadline > teeTime
                      /\ req.expiry > teeTime
                      /\ req.deadline <= req.expiry
                      /\ candidates # {}
    IN
    /\ stage[e] = "quotes"
    /\ Advance(e, acceptable, "adapter")
    /\ chosen' = [chosen EXCEPT ![e] = IF acceptable THEN Best(candidates, quotes) ELSE 0]
    /\ UNCHANGED signed

(* signDecision *)
Decision(req, k) ==
    [intentId |-> req.intentId, owner |-> req.owner, tokenIn |-> req.tokenIn,
     maximumAmount |-> req.amount, intentCommitment |-> PolicyCommitment(req),
     intentNonce |-> req.nonce, adapter |-> V2Routes[k].adapter,
     tokenOut |-> V2Routes[k].tokenOut,
     actionHash |-> ActionHash(k, req.constraints.minimumOutput, req.deadline),
     minimumOutput |-> req.constraints.minimumOutput, deadline |-> req.deadline]

(* The allowlist is read last; the key is that of the machine. *)
Sign(e, key) ==
    LET allowed == V2Routes[chosen[e]].adapter \in allowedAdapters IN
    /\ stage[e] = "adapter"
    /\ Advance(e, allowed, "signed")
    /\ signed' = IF allowed THEN signed \cup {[auth |-> Decision(request[e], chosen[e]),
                                               key |-> key, plaintext |-> FALSE]}
                            ELSE signed
    /\ chosen' = [chosen EXCEPT ![e] = 0]

(* The request cannot be decrypted, is for another chain, or a read fails. *)
Reject(e) ==
    /\ stage[e] \in {"idle", "intent", "quotes", "adapter"}
    /\ Advance(e, FALSE, "rejected")
    /\ chosen' = [chosen EXCEPT ![e] = 0]
    /\ UNCHANGED signed

-----------------------------------------------------------------------------
(* The first-generation evaluator, fcc-extension/main.go, in its plaintext   *)
(* test mode, with the same key.  It reads nothing: the routes, with their   *)
(* risks and outputs, are the request's own, so that the caller names the    *)
(* route r that is chosen and the action it runs.  A refused request leaves  *)
(* nothing behind; one with another deposit or another policy than those of  *)
(* its intent, or for another chain, a signature the router does not accept. *)
(* Neither it nor the router compares the expiry in the policy with that of  *)
(* the intent.                                                               *)
PlaintextRequests == {req \in Requests :
    MatchesDeposit(req) /\ PolicyCommitment(req) = req.intentId.ciphertextHash}

ChosenByCaller(req, r, teeTime) ==
    /\ req.deadline > teeTime /\ req.expiry > teeTime /\ req.deadline <= req.expiry
    /\ r.adapter \in req.constraints.allowedAdapters

PlaintextDecision(req, r) ==
    [intentId |-> req.intentId, owner |-> req.owner, tokenIn |-> req.tokenIn,
     maximumAmount |-> req.amount, intentCommitment |-> PolicyCommitment(req),
     intentNonce |-> req.nonce, adapter |-> r.adapter, tokenOut |-> r.tokenOut,
     actionHash |-> r.actionHash, minimumOutput |-> req.constraints.minimumOutput,
     deadline |-> req.deadline]

EvaluateInPlaintext(e, req, r, teeTime, key) ==
    /\ stage[e] = "idle"
    /\ ChosenByCaller(req, r, teeTime)
    /\ ValidPolicy(req) /\ ChainMatches(req)
    /\ stage' = [stage EXCEPT ![e] = "signed"]
    /\ signed' = signed \cup {[auth |-> PlaintextDecision(req, r), key |-> key,
                               plaintext |-> TRUE]}
    /\ UNCHANGED <<request, chosen>>

EvaluationStep(e) ==
    \/ \E req \in Requests : Receive(e, req)
    \/ ReadIntent(e) \/ Reject(e)
    \/ \E answered \in SUBSET RouteIndexes : \E quotes \in [answered -> Outputs] :
         \E teeTime \in 0..MaxTime : ChooseRoute(e, quotes, teeTime)
    \/ \E key \in Signers : Sign(e, key)
    \/ \E req \in PlaintextRequests, key \in Signers, teeTime \in 0..MaxTime :
         \E r \in {r \in RouteTerms : /\ r.deadline = req.deadline
                                      /\ r.minimumOutput = req.constraints.minimumOutput} :
           EvaluateInPlaintext(e, req, r, teeTime, key)

RouterStep ==
    \/ UserStep \/ AdminStep \/ EnvironmentStep
    \/ \E s \in signed, data \in AdapterCalls : EnterExecute(s.auth, s.key, data)
    \/ \E t \in Tokens : LeaveExecute(t)
    \/ RevertExecute

FlowNext ==
    \/ NotEntered /\ (\E e \in Evaluations : EvaluationStep(e)) /\ UNCHANGED vars
    \/ RouterStep /\ UNCHANGED evaluatorVars

FlowSpec == EvaluatorInit /\ [][FlowNext]_flowVars

-----------------------------------------------------------------------------
(* An evaluation under way has a request, one about to sign has a route, and *)
(* what is published are authorizations.                                     *)
EvaluatorTypeOK ==
    /\ stage \in [Evaluations -> {"idle", "intent", "quotes", "adapter",
                                  "signed", "rejected"}]
    /\ \A e \in Evaluations :
         /\ request[e] \in Requests
              <=> stage[e] \in {"intent", "quotes", "adapter"}
         /\ stage[e] = "adapter" => chosen[e] \in RouteIndexes
    /\ \A s \in signed : s.auth \in Authorizations /\ s.key \in Signers

(* Whoever presents an authorization to the router, whenever, and whatever   *)
(* has changed on the chain since the evaluator read it, an execution obeys  *)
(* the private policy its intent committed to: the policy is about this very *)
(* deposit, the adapter is one the owner allowed, and the owner is paid at   *)
(* least the minimum.  The policy's expiry is the intent's and the risk no   *)
(* higher than allowed unless the plaintext evaluator, which reads no chain  *)
(* and believes the risks it is told, has signed this very swap.             *)
PolicyHonoured == \A x \in log : x.event = "IntentExecuted" =>
    LET id == x.intentId
        policy == id.ciphertextHash
    IN  /\ policy.owner = id.owner /\ policy.tokenIn = id.tokenIn
        /\ policy.amount = id.amount /\ policy.nonce = id.nonce
        /\ policy.chainId = LiveChainId
        /\ x.adapter \in policy.constraints.allowedAdapters
        /\ x.amount >= policy.constraints.minimumOutput
        /\ \/ /\ policy.expiry = id.expiry
              /\ \E k \in RouteIndexes :
                   /\ V2Routes[k].adapter = x.adapter /\ V2Routes[k].tokenOut = x.token
                   /\ V2Routes[k].risk <= policy.constraints.maximumRisk
           \/ \E s \in signed : /\ s.plaintext /\ s.auth.intentId = id
                               /\ s.auth.adapter = x.adapter /\ s.auth.tokenOut = x.token

(* What the evaluator read stays good enough after the read: an intent with *)
(* a published authorization never returns to the states in which its owner *)
(* had not deposited, not even through a reverted execution, and the        *)
(* authorization does not outlive the intent.  The plaintext evaluator      *)
(* promises neither.                                                        *)
SignedForFundedIntent == \A s \in signed : ~s.plaintext =>
    /\ status[s.auth.intentId] \in {"Funded", "Executed", "Cancelled"}
    /\ s.auth.deadline <= s.auth.intentId.expiry
=============================================================================
