------------------------ MODULE RouteEvaluatorProofs ------------------------
(***************************************************************************)
(* Proofs about RouteEvaluator for every number of concurrent evaluations, *)
(* every set of routes, policies and quotes, and everything the router may *)
(* do between the reads of an evaluation and after its signature.          *)
(***************************************************************************)
EXTENDS RouteEvaluator, ShadowRouterHistoryProofs

UnderWay(e) == stage[e] \in {"intent", "quotes", "adapter"}

EvaluatorShapes ==
    /\ stage \in [Evaluations -> {"idle", "intent", "quotes", "adapter",
                                  "signed", "rejected"}]
    /\ request \in [Evaluations -> Requests \cup {NoRequest}]
    /\ chosen \in [Evaluations -> RouteIndexes \cup {0}]
    /\ \A e \in Evaluations : request[e] \in Requests <=> UnderWay(e)

(* The policy an intent commits to is one for this very deposit. *)
PolicyOfIntent(id) ==
    LET policy == id.ciphertextHash IN
    /\ policy.owner = id.owner /\ policy.tokenIn = id.tokenIn
    /\ policy.amount = id.amount /\ policy.nonce = id.nonce
    /\ policy.chainId = LiveChainId

(* The request repeats the deposit of the intent and its policy. *)
Repeats(req) ==
    MatchesDeposit(req) /\ PolicyCommitment(req) = req.intentId.ciphertextHash

(* The request repeats the intent, its expiry too, and its policy. *)
Verified(req) ==
    MatchesIntentFields(req) /\ PolicyCommitment(req) = req.intentId.ciphertextHash

(* Route k obeys the constraints c. *)
Allowed(k, c) ==
    /\ k \in RouteIndexes
    /\ V2Routes[k].adapter \in c.allowedAdapters
    /\ V2Routes[k].risk <= c.maximumRisk

(* What an evaluation has established holds of the request it keeps. *)
EvaluationInv(e) == UnderWay(e) =>
    /\ ChainMatches(request[e])
    /\ stage[e] \in {"quotes", "adapter"} => Verified(request[e])
    /\ stage[e] = "adapter" => /\ Allowed(chosen[e], request[e].constraints)
                               /\ request[e].deadline <= request[e].expiry

LowRiskRoute(auth) ==
    \E k \in RouteIndexes :
      /\ V2Routes[k].adapter = auth.adapter
      /\ V2Routes[k].tokenOut = auth.tokenOut
      /\ V2Routes[k].risk <= auth.intentId.ciphertextHash.constraints.maximumRisk

(* What is published is an authorization of an intent for its own policy. *)
SignedInv(s) ==
    /\ s.auth \in Authorizations /\ s.key \in Signers /\ s.plaintext \in BOOLEAN
    /\ PolicyOfIntent(s.auth.intentId)
    /\ s.auth.adapter \in s.auth.intentId.ciphertextHash.constraints.allowedAdapters
    /\ s.auth.minimumOutput = s.auth.intentId.ciphertextHash.constraints.minimumOutput
    /\ s.plaintext = FALSE =>
         /\ LowRiskRoute(s.auth)
         /\ s.auth.intentId.ciphertextHash.expiry = s.auth.intentId.expiry
         /\ s.auth.deadline <= s.auth.intentId.expiry

(* The facts that rest on no property of the router. *)
EvaluatorInv ==
    /\ EvaluatorShapes
    /\ \A e \in Evaluations : EvaluationInv(e)
    /\ \A s \in signed : SignedInv(s)

(* An intent that was once seen funded holds a deposit or is settled. *)
Held(id) == status[id] \in {"Funded", "Executed", "Cancelled"}

(* The facts that relate evaluations and authorizations to the router. *)
FlowInv ==
    /\ \A e \in Evaluations :
         stage[e] \in {"quotes", "adapter"} => Held(request[e].intentId)
    /\ \A s \in signed : s.plaintext = FALSE => Held(s.auth.intentId)
    /\ call # NoCall => \E s \in signed : s.auth = call.auth
    /\ PolicyHonoured

-----------------------------------------------------------------------------
(* The route chosen.                                                       *)

(* A set of natural numbers has a least element. *)
LEMMA LeastNumber ==
    ASSUME NEW T, T \subseteq Nat, T # {}
    PROVE  \E n \in T : \A m \in T : n <= m
<1> DEFINE R == {ss \in Nat \X Nat : ss[1] < ss[2]}
<1>1. OpToRel(<, Nat) = R
    BY DEF OpToRel
<1>2. IsWellFoundedOn(R, Nat)
    BY <1>1, NatLessThanWellFounded
<1> HIDE DEF R
<1>3. PICK n \in T : \A m \in T : ~(<<m, n>> \in R)
    BY <1>2, WFMin
<1>4. \A m \in T : ~(m < n)
    BY <1>3 DEF R
<1>5. QED  BY <1>4

(* The candidates the stable sort puts before k. *)
Better(k, candidates, quotes) ==
    {j \in candidates : quotes[j] > quotes[k] \/ (quotes[j] = quotes[k] /\ j < k)}

(* A candidate with as few better ones as any has none: of two candidates one *)
(* is better than the other, and what is better than that one is better than  *)
(* both.                                                                      *)
LEMMA BestIsCandidate ==
    ASSUME NEW candidates, NEW quotes, candidates # {}, IsFiniteSet(candidates),
           candidates \subseteq Nat, \A k \in candidates : quotes[k] \in Nat
    PROVE  /\ Best(candidates, quotes) \in candidates
           /\ \A j \in candidates :
                \/ quotes[Best(candidates, quotes)] > quotes[j]
                \/ /\ quotes[Best(candidates, quotes)] = quotes[j]
                   /\ Best(candidates, quotes) <= j
<1> DEFINE B(k) == Better(k, candidates, quotes)
           T == {Cardinality(B(k)) : k \in candidates}
<1>1. \A k \in candidates : IsFiniteSet(B(k)) /\ Cardinality(B(k)) \in Nat
    BY FS_Subset, FS_CardinalityType DEF Better
<1>2. PICK n \in T : \A m \in T : n <= m
    BY <1>1, LeastNumber
<1>3. PICK k \in candidates : n = Cardinality(B(k))
    BY <1>2
<1>4. ASSUME NEW j \in B(k)
      PROVE  FALSE
  <2>1. j \in candidates /\ j \in Nat /\ k \in Nat /\ quotes[j] \in Nat /\ quotes[k] \in Nat
      BY <1>4 DEF Better
  <2>2. quotes[j] > quotes[k] \/ (quotes[j] = quotes[k] /\ j < k)
      BY <1>4 DEF Better
  <2>3. B(j) \subseteq B(k)
    <3> SUFFICES ASSUME NEW i \in candidates,
                        quotes[i] > quotes[j] \/ (quotes[i] = quotes[j] /\ i < j)
                 PROVE  quotes[i] > quotes[k] \/ (quotes[i] = quotes[k] /\ i < k)
        BY DEF Better
    <3>1. i \in Nat /\ quotes[i] \in Nat
        OBVIOUS
    <3>2. QED  BY <2>1, <2>2, <3>1
  <2>4. j \notin B(j)
      BY <2>1 DEF Better
  <2> HIDE DEF B
  <2>5. B(j) # B(k)
      BY <1>4, <2>4
  <2>6. Cardinality(B(j)) < Cardinality(B(k))
      BY <1>1, <2>1, <2>3, <2>5, FS_Subset
  <2>7. n <= Cardinality(B(j))
      BY <1>2, <2>1
  <2>8. QED  BY <1>1, <1>3, <2>1, <2>6, <2>7
<1>5. \A j \in candidates : quotes[k] > quotes[j] \/ (quotes[k] = quotes[j] /\ k <= j)
  <2> SUFFICES ASSUME NEW j \in candidates
               PROVE  quotes[k] > quotes[j] \/ (quotes[k] = quotes[j] /\ k <= j)
      OBVIOUS
  <2>1. j \in Nat /\ k \in Nat /\ quotes[j] \in Nat /\ quotes[k] \in Nat
      OBVIOUS
  <2>2. ~(quotes[j] > quotes[k] \/ (quotes[j] = quotes[k] /\ j < k))
      BY <1>4 DEF Better
  <2>3. QED  BY <2>1, <2>2
<1>6. QED  BY <1>5 DEF Best

LEMMA RouteFields ==
    /\ Len(V2Routes) \in Nat
    /\ \A k \in RouteIndexes : /\ V2Routes[k].adapter \in Adapters
                               /\ V2Routes[k].tokenOut \in Tokens
                               /\ V2Routes[k].risk \in Nat
<1> DEFINE Route == [adapter : Adapters, tokenIn : Tokens, tokenOut : Tokens, risk : Nat]
<1>1. V2Routes \in Seq(Route)
    BY RouteEvaluatorAssumption
<1> HIDE DEF Route
<1>2. Len(V2Routes) \in Nat /\ \A k \in RouteIndexes : V2Routes[k] \in Route
    BY <1>1 DEF RouteIndexes
<1>3. QED  BY <1>2 DEF Route

(* The routes chooseRoute keeps obey the constraints of the request. *)
LEMMA CandidatesAreRoutes ==
    ASSUME NEW req, NEW answered \in SUBSET RouteIndexes, NEW quotes \in [answered -> Outputs]
    PROVE  /\ Candidates(req, quotes) \subseteq answered
           /\ IsFiniteSet(Candidates(req, quotes)) /\ Candidates(req, quotes) \subseteq Nat
           /\ \A k \in Candidates(req, quotes) : quotes[k] \in Nat
<1> DEFINE C == Candidates(req, quotes)
<1>1. C \subseteq answered /\ C \subseteq RouteIndexes
    BY DEF Candidates, Offered
<1>2. IsFiniteSet(C) /\ C \subseteq Nat
  <2>1. IsFiniteSet(RouteIndexes) /\ RouteIndexes \subseteq Nat
      BY FS_Interval, RouteFields DEF RouteIndexes
  <2>2. QED  BY <1>1, <2>1, FS_Subset
<1>3. \A k \in C : quotes[k] \in Nat
    BY <1>1, RouteEvaluatorAssumption
<1>4. QED  BY <1>1, <1>2, <1>3

LEMMA ChosenIsAllowed ==
    ASSUME NEW req, NEW answered \in SUBSET RouteIndexes, NEW quotes \in [answered -> Outputs],
           Candidates(req, quotes) # {}
    PROVE  Allowed(Best(Candidates(req, quotes), quotes), req.constraints)
<1> DEFINE C == Candidates(req, quotes)
<1>1. C \subseteq answered /\ Best(C, quotes) \in C
    BY CandidatesAreRoutes, BestIsCandidate
<1>2. QED  BY <1>1 DEF Candidates, Offered, Allowed

(* Whatever the exchanges answer, the stable sort of chooseRoute has a first *)
(* element: an acceptable route that none offered beats on output, the       *)
(* earliest configured of those, and good for the minimum that is signed.    *)
THEOREM BestRouteIsChosen ==
    ASSUME NEW req, NEW answered \in SUBSET RouteIndexes, NEW quotes \in [answered -> Outputs],
           req.constraints \in Constraints, Candidates(req, quotes) # {}
    PROVE  \E best \in Candidates(req, quotes) :
             /\ best = Best(Candidates(req, quotes), quotes)
             /\ quotes[best] >= req.constraints.minimumOutput
             /\ \A k \in Candidates(req, quotes) :
                  /\ quotes[k] <= quotes[best]
                  /\ quotes[k] = quotes[best] => best <= k
<1> DEFINE C == Candidates(req, quotes)
<1>1. IsFiniteSet(C) /\ C \subseteq Nat /\ \A k \in C : quotes[k] \in Nat
    BY CandidatesAreRoutes
<1>2. PICK best \in C : /\ best = Best(C, quotes)
                        /\ \A j \in C : quotes[best] > quotes[j]
                                         \/ (quotes[best] = quotes[j] /\ best <= j)
    BY <1>1, BestIsCandidate
<1>3. quotes[best] >= req.constraints.minimumOutput
    BY <1>2 DEF Candidates
<1>4. \A k \in C : quotes[k] <= quotes[best] /\ (quotes[k] = quotes[best] => best <= k)
    BY <1>1, <1>2
<1>5. QED  BY <1>2, <1>3, <1>4

-----------------------------------------------------------------------------
(* What is signed.                                                         *)

LEMMA RequestFields ==
    \A req \in Requests : /\ req.intentId \in IntentIds
                          /\ req.constraints \in Constraints
                          /\ req.deadline \in Deadlines
BY DEF Requests, Request

(* A request that repeats the deposit and the policy is for that policy, and *)
(* what is signed for it authorizes the intent with its own fields.          *)
LEMMA RepeatingRequest ==
    ASSUME NEW req \in Requests, Repeats(req), ChainMatches(req)
    PROVE  /\ PolicyOfIntent(req.intentId)
           /\ req.intentId.ciphertextHash.constraints = req.constraints
BY DEF Repeats, ChainMatches, MatchesDeposit, PolicyCommitment, PolicyOfIntent

(* A verified request has the expiry of the intent and of its policy. *)
LEMMA VerifiedRequest ==
    ASSUME NEW req, Verified(req)
    PROVE  /\ Repeats(req)
           /\ req.expiry = req.intentId.expiry
           /\ req.intentId.ciphertextHash.expiry = req.intentId.expiry
BY DEF Verified, Repeats, MatchesIntentFields, PolicyCommitment

LEMMA DecisionIsAuthorization ==
    ASSUME NEW req \in Requests, Repeats(req), NEW k \in RouteIndexes
    PROVE  Decision(req, k) \in Authorizations
<1> DEFINE id == req.intentId
           c == req.constraints
           r == [adapter |-> V2Routes[k].adapter, tokenOut |-> V2Routes[k].tokenOut,
                 actionHash |-> ActionHash(k, c.minimumOutput, req.deadline),
                 minimumOutput |-> c.minimumOutput, deadline |-> req.deadline]
<1>1. r \in RouteTerms
    BY RouteEvaluatorAssumption, RequestFields
<1>2. Decision(req, k) = Authorization(id, id, r)
    BY DEF Repeats, MatchesDeposit, Decision, Authorization
<1>3. QED  BY <1>1, <1>2, RequestFields DEF Authorizations

LEMMA DecisionSigned ==
    ASSUME NEW req \in Requests, Verified(req), ChainMatches(req),
           NEW k, Allowed(k, req.constraints), req.deadline <= req.expiry, NEW key \in Signers
    PROVE  SignedInv([auth |-> Decision(req, k), key |-> key, plaintext |-> FALSE])
<1> DEFINE auth == Decision(req, k)
<1>1. /\ auth.intentId = req.intentId /\ auth.adapter = V2Routes[k].adapter
      /\ auth.tokenOut = V2Routes[k].tokenOut /\ auth.deadline = req.deadline
      /\ auth.minimumOutput = req.constraints.minimumOutput
    BY DEF Decision
<1>2. auth \in Authorizations
    BY VerifiedRequest, DecisionIsAuthorization DEF Allowed
<1> HIDE DEF auth
<1>3. /\ PolicyOfIntent(req.intentId)
      /\ req.intentId.ciphertextHash.constraints = req.constraints
      /\ req.expiry = req.intentId.expiry
      /\ req.intentId.ciphertextHash.expiry = req.intentId.expiry
    BY VerifiedRequest, RepeatingRequest
<1>4. LowRiskRoute(auth)
    BY <1>1, <1>3 DEF LowRiskRoute, Allowed
<1>5. QED  BY <1>1, <1>2, <1>3, <1>4 DEF SignedInv, Allowed, auth

LEMMA PlaintextSigned ==
    ASSUME NEW req \in PlaintextRequests, ChainMatches(req), NEW r \in RouteTerms,
           r.deadline = req.deadline, r.minimumOutput = req.constraints.minimumOutput,
           r.adapter \in req.constraints.allowedAdapters, NEW key \in Signers
    PROVE  SignedInv([auth |-> PlaintextDecision(req, r), key |-> key, plaintext |-> TRUE])
<1> DEFINE auth == PlaintextDecision(req, r)
           id == req.intentId
<1>1. req \in Requests /\ Repeats(req)
    BY DEF PlaintextRequests, Repeats
<1>2. /\ auth.intentId = id /\ auth.adapter = r.adapter
      /\ auth.minimumOutput = req.constraints.minimumOutput
    BY DEF PlaintextDecision
<1>3. auth = Authorization(id, id, r)
    BY <1>1 DEF Repeats, MatchesDeposit, PlaintextDecision, Authorization
<1>4. auth \in Authorizations
    BY <1>1, <1>3, RequestFields DEF Authorizations
<1> HIDE DEF auth, id
<1>5. QED  BY <1>1, <1>2, <1>4, RepeatingRequest DEF SignedInv, auth, id

-----------------------------------------------------------------------------
(* The steps of an evaluation.                                             *)

(* Evaluation e moves and no other one does; it signs only what it has       *)
(* verified, and goes past the reading of the intent only if it is funded.   *)
Moves(e) ==
    /\ EvaluatorShapes'
    /\ EvaluationInv(e)'
    /\ \A f \in Evaluations : f # e => /\ stage'[f] = stage[f]
                                       /\ request'[f] = request[f]
                                       /\ chosen'[f] = chosen[f]
    /\ stage'[e] \in {"quotes", "adapter"} =>
         /\ request'[e] = request[e]
         /\ stage[e] = "quotes" \/ status[request[e].intentId] = "Funded"
    /\ signed \subseteq signed'
    /\ \A s \in signed' : s \notin signed =>
         /\ SignedInv(s)
         /\ s.plaintext = FALSE => /\ stage[e] = "adapter"
                                   /\ s.auth.intentId = request[e].intentId

(* The shapes after Advance, for any choice of a route. *)
LEMMA AdvanceShapes ==
    ASSUME EvaluatorShapes, NEW e \in Evaluations, UnderWay(e) \/ stage[e] = "idle",
           NEW accepted, accepted => UnderWay(e), NEW next \in {"quotes", "adapter", "signed"},
           Advance(e, accepted, next),
           NEW k \in RouteIndexes \cup {0}, chosen' = [chosen EXCEPT ![e] = k]
    PROVE  /\ EvaluatorShapes'
           /\ \A f \in Evaluations : f # e => /\ stage'[f] = stage[f]
                                              /\ request'[f] = request[f]
                                              /\ chosen'[f] = chosen[f]
           /\ accepted => stage'[e] = next
           /\ ~accepted => stage'[e] = "rejected"
           /\ UnderWay(e)' => request'[e] = request[e]
           /\ chosen'[e] = k
<1>1. /\ stage \in [Evaluations -> {"idle", "intent", "quotes", "adapter",
                                    "signed", "rejected"}]
      /\ request \in [Evaluations -> Requests \cup {NoRequest}]
      /\ chosen \in [Evaluations -> RouteIndexes \cup {0}]
    BY DEF EvaluatorShapes
<1>2. stage' = [stage EXCEPT ![e] = IF accepted THEN next ELSE "rejected"]
    BY DEF Advance
<1>3. /\ accepted => stage'[e] = next
      /\ ~accepted => stage'[e] = "rejected"
      /\ \A f \in Evaluations : f # e => stage'[f] = stage[f]
    BY <1>1, <1>2
<1>4. stage' \in [Evaluations -> {"idle", "intent", "quotes", "adapter",
                                  "signed", "rejected"}]
    BY <1>1, <1>2
<1>5. request' = IF stage'[e] \in {"signed", "rejected"}
                 THEN [request EXCEPT ![e] = NoRequest] ELSE request
    BY DEF Advance
<1>6. /\ request' \in [Evaluations -> Requests \cup {NoRequest}]
      /\ \A f \in Evaluations : f # e => request'[f] = request[f]
      /\ stage'[e] \in {"signed", "rejected"} => request'[e] = NoRequest
      /\ stage'[e] \notin {"signed", "rejected"} => request' = request
    BY <1>1, <1>5
<1>7. /\ chosen' \in [Evaluations -> RouteIndexes \cup {0}]
      /\ \A f \in Evaluations : f # e => chosen'[f] = chosen[f]
      /\ chosen'[e] = k
    BY <1>1
<1>8. NoRequest \notin Requests
    BY RouteEvaluatorAssumption
<1>9. \A f \in Evaluations : request'[f] \in Requests <=> UnderWay(f)'
  <2> SUFFICES ASSUME NEW f \in Evaluations
               PROVE  request'[f] \in Requests <=> UnderWay(f)'
      OBVIOUS
  <2>1. CASE f # e
      BY <1>3, <1>6, <2>1 DEF EvaluatorShapes, UnderWay
  <2>2. CASE f = e /\ stage'[e] \in {"signed", "rejected"}
      BY <1>6, <1>8, <2>2 DEF UnderWay
  <2>3. CASE f = e /\ stage'[e] \notin {"signed", "rejected"}
    <3>1. accepted /\ UnderWay(e) /\ stage'[e] \in {"quotes", "adapter"}
        BY <1>3, <2>3
    <3>2. QED  BY <1>6, <2>3, <3>1 DEF EvaluatorShapes, UnderWay
  <2>4. QED  BY <2>1, <2>2, <2>3
<1>10. UnderWay(e)' => request'[e] = request[e]
    BY <1>6 DEF UnderWay
<1>11. QED  BY <1>3, <1>4, <1>6, <1>7, <1>9, <1>10 DEF EvaluatorShapes

LEMMA ReceiveMoves ==
    ASSUME EvaluatorInv, NEW e \in Evaluations, NEW req \in Requests, Receive(e, req)
    PROVE  Moves(e)
<1>1. /\ stage' = [stage EXCEPT ![e] = "intent"] /\ request' = [request EXCEPT ![e] = req]
      /\ UNCHANGED <<chosen, signed>> /\ ChainMatches(req)
    BY DEF Receive
<1>2. /\ stage \in [Evaluations -> {"idle", "intent", "quotes", "adapter",
                                    "signed", "rejected"}]
      /\ request \in [Evaluations -> Requests \cup {NoRequest}]
    BY DEF EvaluatorInv, EvaluatorShapes
<1>3. /\ stage'[e] = "intent" /\ request'[e] = req
      /\ \A f \in Evaluations : f # e => stage'[f] = stage[f] /\ request'[f] = request[f]
    BY <1>1, <1>2
<1>4. /\ stage' \in [Evaluations -> {"idle", "intent", "quotes", "adapter",
                                     "signed", "rejected"}]
      /\ request' \in [Evaluations -> Requests \cup {NoRequest}]
    BY <1>1, <1>2
<1>5. EvaluatorShapes'
    BY <1>1, <1>3, <1>4 DEF EvaluatorInv, EvaluatorShapes, UnderWay
<1>6. EvaluationInv(e)'
    BY <1>1, <1>3 DEF EvaluationInv, ChainMatches
<1>7. QED  BY <1>1, <1>3, <1>5, <1>6 DEF Moves

LEMMA ReadIntentMoves ==
    ASSUME EvaluatorInv, NEW e \in Evaluations, ReadIntent(e)
    PROVE  Moves(e)
<1> DEFINE accepted == VerifyFundedIntent(request[e])
<1>1. /\ stage[e] = "intent" /\ Advance(e, accepted, "quotes")
      /\ UNCHANGED <<chosen, signed>>
    BY DEF ReadIntent
<1>2. /\ UnderWay(e) /\ EvaluatorShapes /\ EvaluationInv(e)
    BY <1>1 DEF EvaluatorInv, UnderWay
<1>3. /\ chosen[e] \in RouteIndexes \cup {0}
      /\ chosen' = [chosen EXCEPT ![e] = chosen[e]]
    BY <1>1, <1>2 DEF EvaluatorShapes
<1>4. accepted => Verified(request[e]) /\ status[request[e].intentId] = "Funded"
    BY DEF VerifyFundedIntent, MatchesFundedIntent, Verified
<1> HIDE DEF accepted
<1>5. /\ EvaluatorShapes'
      /\ \A f \in Evaluations : f # e => /\ stage'[f] = stage[f]
                                         /\ request'[f] = request[f]
                                         /\ chosen'[f] = chosen[f]
      /\ accepted => stage'[e] = "quotes"
      /\ ~accepted => stage'[e] = "rejected"
      /\ UnderWay(e)' => request'[e] = request[e]
    BY <1>1, <1>2, <1>3, AdvanceShapes
<1>6. EvaluationInv(e)'
  <2>1. CASE ~accepted
      BY <1>5, <2>1 DEF EvaluationInv, UnderWay
  <2>2. CASE accepted
    <3>1. stage'[e] = "quotes" /\ request'[e] = request[e]
        BY <1>5, <2>2 DEF UnderWay
    <3>2. ChainMatches(request[e])' /\ Verified(request[e])'
        BY <1>2, <1>4, <2>2, <3>1
           DEF EvaluationInv, ChainMatches, Verified, MatchesIntentFields, MatchesDeposit,
               PolicyCommitment
    <3>3. QED  BY <3>1, <3>2 DEF EvaluationInv
  <2>3. QED  BY <2>1, <2>2
<1>7. stage'[e] \in {"quotes", "adapter"} =>
        /\ request'[e] = request[e]
        /\ status[request[e].intentId] = "Funded"
    BY <1>4, <1>5 DEF UnderWay
<1>8. QED  BY <1>1, <1>5, <1>6, <1>7 DEF Moves

LEMMA ChooseRouteMoves ==
    ASSUME EvaluatorInv, NEW e \in Evaluations, NEW answered \in SUBSET RouteIndexes,
           NEW quotes \in [answered -> Outputs], NEW teeTime, ChooseRoute(e, quotes, teeTime)
    PROVE  Moves(e)
<1> DEFINE req == request[e]
           candidates == Candidates(req, quotes)
           accepted == /\ req.deadline > teeTime
                       /\ req.expiry > teeTime
                       /\ req.deadline <= req.expiry
                       /\ candidates # {}
           k == IF accepted THEN Best(candidates, quotes) ELSE 0
<1>1. /\ stage[e] = "quotes" /\ Advance(e, accepted, "adapter")
      /\ chosen' = [chosen EXCEPT ![e] = k] /\ UNCHANGED signed
    BY DEF ChooseRoute
<1>2. /\ UnderWay(e) /\ EvaluatorShapes /\ EvaluationInv(e)
    BY <1>1 DEF EvaluatorInv, UnderWay
<1>3. accepted => /\ Allowed(k, req.constraints)
                  /\ req.deadline <= req.expiry
    BY ChosenIsAllowed
<1>4. k \in RouteIndexes \cup {0}
    BY <1>3 DEF Allowed
<1> HIDE DEF accepted, k
<1>5. /\ EvaluatorShapes'
      /\ \A f \in Evaluations : f # e => /\ stage'[f] = stage[f]
                                         /\ request'[f] = request[f]
                                         /\ chosen'[f] = chosen[f]
      /\ accepted => stage'[e] = "adapter"
      /\ ~accepted => stage'[e] = "rejected"
      /\ UnderWay(e)' => request'[e] = request[e]
      /\ chosen'[e] = k
    BY <1>1, <1>2, <1>4, AdvanceShapes
<1>6. EvaluationInv(e)'
  <2>1. CASE ~accepted
      BY <1>5, <2>1 DEF EvaluationInv, UnderWay
  <2>2. CASE accepted
    <3>1. stage'[e] = "adapter" /\ request'[e] = request[e] /\ chosen'[e] = k
        BY <1>5, <2>2 DEF UnderWay
    <3>2. ChainMatches(request[e])' /\ Verified(request[e])'
        BY <1>1, <1>2, <3>1
           DEF EvaluationInv, ChainMatches, Verified, MatchesIntentFields, MatchesDeposit,
               PolicyCommitment
    <3>3. Allowed(chosen[e], request[e].constraints)'
        BY <1>3, <2>2, <3>1 DEF Allowed
    <3>4. QED  BY <1>3, <2>2, <3>1, <3>2, <3>3 DEF EvaluationInv
  <2>3. QED  BY <2>1, <2>2
<1>7. stage'[e] \in {"quotes", "adapter"} => request'[e] = request[e]
    BY <1>5 DEF UnderWay
<1>8. QED  BY <1>1, <1>5, <1>6, <1>7 DEF Moves

LEMMA SignMoves ==
    ASSUME EvaluatorInv, NEW e \in Evaluations, NEW key \in Signers, Sign(e, key)
    PROVE  Moves(e)
<1> DEFINE allowed == V2Routes[chosen[e]].adapter \in allowedAdapters
           s == [auth |-> Decision(request[e], chosen[e]), key |-> key, plaintext |-> FALSE]
<1>1. /\ stage[e] = "adapter" /\ Advance(e, allowed, "signed")
      /\ signed' = IF allowed THEN signed \cup {s} ELSE signed
      /\ chosen' = [chosen EXCEPT ![e] = 0]
    BY DEF Sign
<1>2. /\ UnderWay(e) /\ EvaluatorShapes /\ EvaluationInv(e) /\ request[e] \in Requests
    BY <1>1 DEF EvaluatorInv, EvaluatorShapes, UnderWay
<1>3. SignedInv(s)
    BY <1>1, <1>2, DecisionSigned DEF EvaluationInv
<1>4. s.auth.intentId = request[e].intentId
    BY DEF Decision
<1> HIDE DEF allowed, s
<1>5. /\ EvaluatorShapes'
      /\ \A f \in Evaluations : f # e => /\ stage'[f] = stage[f]
                                         /\ request'[f] = request[f]
                                         /\ chosen'[f] = chosen[f]
      /\ stage'[e] \in {"signed", "rejected"}
    BY <1>1, <1>2, AdvanceShapes
<1>6. EvaluationInv(e)'
    BY <1>5 DEF EvaluationInv, UnderWay
<1>7. QED  BY <1>1, <1>3, <1>4, <1>5, <1>6 DEF Moves

LEMMA RejectMoves ==
    ASSUME EvaluatorInv, NEW e \in Evaluations, Reject(e)
    PROVE  Moves(e)
<1>1. /\ UnderWay(e) \/ stage[e] = "idle"
      /\ Advance(e, FALSE, "signed")
      /\ chosen' = [chosen EXCEPT ![e] = 0] /\ UNCHANGED signed
    BY DEF Reject, UnderWay, Advance
<1>2. /\ EvaluatorShapes'
      /\ \A f \in Evaluations : f # e => /\ stage'[f] = stage[f]
                                         /\ request'[f] = request[f]
                                         /\ chosen'[f] = chosen[f]
      /\ stage'[e] = "rejected"
    BY <1>1, AdvanceShapes DEF EvaluatorInv
<1>3. EvaluationInv(e)'
    BY <1>2 DEF EvaluationInv, UnderWay
<1>4. QED  BY <1>1, <1>2, <1>3 DEF Moves

LEMMA EvaluateInPlaintextMoves ==
    ASSUME EvaluatorInv, NEW e \in Evaluations, NEW req \in PlaintextRequests,
           NEW r \in RouteTerms, r.deadline = req.deadline,
           r.minimumOutput = req.constraints.minimumOutput, NEW teeTime,
           NEW key \in Signers, EvaluateInPlaintext(e, req, r, teeTime, key)
    PROVE  Moves(e)
<1> DEFINE s == [auth |-> PlaintextDecision(req, r), key |-> key, plaintext |-> TRUE]
<1>1. /\ stage[e] = "idle" /\ stage' = [stage EXCEPT ![e] = "signed"]
      /\ signed' = signed \cup {s} /\ UNCHANGED <<request, chosen>>
    BY DEF EvaluateInPlaintext
<1>2. SignedInv(s) /\ s.plaintext = TRUE
    BY PlaintextSigned DEF EvaluateInPlaintext, ChosenByCaller
<1> HIDE DEF s
<1>3. /\ stage' \in [Evaluations -> {"idle", "intent", "quotes", "adapter",
                                     "signed", "rejected"}]
      /\ stage'[e] = "signed"
      /\ \A f \in Evaluations : f # e => stage'[f] = stage[f]
    BY <1>1 DEF EvaluatorInv, EvaluatorShapes
<1>4. EvaluatorShapes'
    BY <1>1, <1>3 DEF EvaluatorInv, EvaluatorShapes, UnderWay
<1>5. EvaluationInv(e)'
    BY <1>3 DEF EvaluationInv, UnderWay
<1>6. QED  BY <1>1, <1>2, <1>3, <1>4, <1>5 DEF Moves

LEMMA EvaluationStepMoves ==
    ASSUME EvaluatorInv, NEW e \in Evaluations, EvaluationStep(e)
    PROVE  Moves(e)
BY ReceiveMoves, ReadIntentMoves, RejectMoves, ChooseRouteMoves, SignMoves,
   EvaluateInPlaintextMoves DEF EvaluationStep

-----------------------------------------------------------------------------
(* The evaluator by itself.                                                *)

LEMMA InitEvaluatorInv == EvaluatorInit => EvaluatorInv
<1> SUFFICES ASSUME EvaluatorInit PROVE EvaluatorInv
    OBVIOUS
<1>1. /\ stage = [e \in Evaluations |-> "idle"]
      /\ request = [e \in Evaluations |-> NoRequest]
      /\ chosen = [e \in Evaluations |-> 0]
      /\ signed = {}
    BY DEF EvaluatorInit
<1>2. EvaluatorShapes
    BY <1>1, RouteEvaluatorAssumption DEF EvaluatorShapes, UnderWay
<1>3. \A e \in Evaluations : EvaluationInv(e)
    BY <1>1 DEF EvaluationInv, UnderWay
<1>4. QED  BY <1>1, <1>2, <1>3 DEF EvaluatorInv

LEMMA StepEvaluatorInv ==
    ASSUME EvaluatorInv, [FlowNext]_flowVars
    PROVE  EvaluatorInv'
<1>1. ASSUME NEW e \in Evaluations, EvaluationStep(e)
      PROVE  EvaluatorInv'
  <2>1. Moves(e)
      BY <1>1, EvaluationStepMoves
  <2>2. ASSUME NEW f \in Evaluations PROVE EvaluationInv(f)'
    <3>1. CASE f = e
        BY <2>1, <3>1 DEF Moves
    <3>2. CASE f # e
      <4>1. stage'[f] = stage[f] /\ request'[f] = request[f] /\ chosen'[f] = chosen[f]
          BY <2>1, <3>2 DEF Moves
      <4>2. EvaluationInv(f)
          BY DEF EvaluatorInv
      <4>3. QED
          BY <4>1, <4>2 DEF EvaluationInv, UnderWay, ChainMatches, Verified, Allowed,
                            MatchesIntentFields, PolicyCommitment
    <3>3. QED  BY <3>1, <3>2
  <2>3. \A s \in signed' : SignedInv(s)
      BY <2>1 DEF Moves, EvaluatorInv
  <2>4. QED  BY <2>1, <2>2, <2>3 DEF Moves, EvaluatorInv
<1>2. CASE UNCHANGED evaluatorVars
    BY <1>2 DEF evaluatorVars, EvaluatorInv, EvaluatorShapes, EvaluationInv, UnderWay,
                ChainMatches, Verified, Allowed, MatchesIntentFields, PolicyCommitment
<1>3. QED  BY <1>1, <1>2 DEF FlowNext, flowVars

(* An evaluation that is under way holds what processEvaluate has read and  *)
(* checked up to its stage, whatever the chain has done since.              *)
THEOREM EvaluatorCorrect == FlowSpec => []EvaluatorInv
<1>1. EvaluatorInv /\ [FlowNext]_flowVars => EvaluatorInv'
    BY StepEvaluatorInv
<1>2. QED  BY <1>1, InitEvaluatorInv, PTL DEF FlowSpec

(* An evaluation under way has a request, one about to sign has a route, and *)
(* what processEvaluate publishes are authorizations the router can parse.   *)
THEOREM EvaluatorTypeCorrect == FlowSpec => []EvaluatorTypeOK
<1>1. EvaluatorInv => EvaluatorTypeOK
  <2> SUFFICES ASSUME EvaluatorInv PROVE EvaluatorTypeOK
      OBVIOUS
  <2>1. \A e \in Evaluations : stage[e] = "adapter" => chosen[e] \in RouteIndexes
      BY DEF EvaluatorInv, EvaluationInv, UnderWay, Allowed
  <2>2. QED
      BY <2>1 DEF EvaluatorInv, EvaluatorShapes, UnderWay, SignedInv, EvaluatorTypeOK
<1>2. QED  BY <1>1, EvaluatorCorrect, PTL

-----------------------------------------------------------------------------
(* The evaluator in front of the router.                                   *)

(* Every step of the flow is one of the router or leaves it alone: what an   *)
(* evaluator signs is among what the router's callers may present.           *)
LEMMA FlowStepIsRouterStep ==
    ASSUME EvaluatorInv, [FlowNext]_flowVars
    PROVE  [Next]_vars
<1>1. CASE RouterStep
  <2>1. ASSUME NEW s \in signed, NEW data \in AdapterCalls, EnterExecute(s.auth, s.key, data)
        PROVE  ExecuteStep
    <3>1. s.auth \in Authorizations /\ s.key \in Signers
        BY DEF EvaluatorInv, SignedInv
    <3>2. PICK id \in IntentIds, subject \in IntentIds, r \in RouteTerms :
                 s.auth = Authorization(id, subject, r)
        BY <3>1 DEF Authorizations
    <3>3. EnterExecute(Authorization(id, subject, r), s.key, data)
        BY <2>1, <3>2
    <3>4. QED  BY <3>1, <3>3 DEF ExecuteStep
  <2>2. QED  BY <1>1, <2>1 DEF RouterStep, Next, ExecuteStep
<1>2. CASE UNCHANGED vars
    BY <1>2
<1>3. QED  BY <1>1, <1>2 DEF FlowNext, flowVars

(* The router behind the evaluator is the router of ShadowRouter: what is   *)
(* proved of it for any signer holds for authorizations evaluators publish. *)
THEOREM FlowImplementsRouter == FlowSpec => Spec
<1>1. EvaluatorInit => Init
    BY DEF EvaluatorInit
<1>2. EvaluatorInv /\ [FlowNext]_flowVars => [Next]_vars
    BY FlowStepIsRouterStep
<1>3. QED  BY <1>1, <1>2, EvaluatorCorrect, PTL DEF FlowSpec, Spec

(* So the owners are promised what the escrow promises, with the evaluators in *)
(* front of the router and whoever presents what they publish.                 *)
THEOREM FlowImplementsEscrow == FlowSpec => ImplementsEscrow
BY FlowImplementsRouter, RouterImplementsEscrow, PTL

(* A deposit is never taken back to the time before it was made. *)
LEMMA HeldStep ==
    ASSUME IInv, HistoryInv, [Next]_vars, NEW id \in IntentIds, Held(id)
    PROVE  Held(id)'
<1>1. TypeOK /\ status \in [IntentIds -> Statuses]
    BY TypeOKFields DEF IInv
<1>2. ASSUME NEW u \in Users, NEW w \in Terms, CreateIntent(u, w) \/ CreateAndFundIntent(u, w)
      PROVE  Held(id)'
    BY <1>1, <1>2 DEF CreateIntent, CreateAndFundIntent, NewIntent, Held
<1>3. ASSUME NEW u \in Users, NEW i \in IntentIds, FundIntent(u, i) \/ CancelIntent(u, i)
      PROVE  Held(id)'
    BY <1>1, <1>3 DEF FundIntent, CancelIntent, Held
<1>4. ASSUME NEW t \in Tokens, LeaveExecute(t)
      PROVE  Held(id)'
    BY <1>1, <1>4, LeaveExecuteEffect DEF Held
<1>5. CASE RevertExecute
    BY <1>5 DEF RevertExecute, NotEntered, HistoryInv, WindowInv, Held
<1>6. ASSUME NEW i \in IntentIds, NEW subject \in IntentIds, NEW r \in RouteTerms,
             NEW signer \in Signers, NEW data \in AdapterCalls,
             EnterExecute(Authorization(i, subject, r), signer, data)
      PROVE  Held(id)'
    BY <1>6 DEF EnterExecute, Held
<1>7. ASSUME NEW a \in Adapters, NEW t \in Tokens, NEW n \in Nat, AdapterPays(a, t, n)
      PROVE  Held(id)'
    BY <1>7 DEF AdapterPays, Held
<1>8. CASE AdminStep \/ Tick \/ UNCHANGED vars
    BY <1>8 DEF AdminStep, SetAdapter, SetTeeSigner, SetPaused, TransferOwnership, Tick, vars,
                Held
<1>9. QED  BY <1>1, <1>2, <1>3, <1>4, <1>5, <1>6, <1>7, <1>8, RouterSteps

(* What the router's step adds to the log and to the window. *)
LEMMA NewExecution ==
    ASSUME IInv, HistoryInv, [Next]_vars, NEW x \in log', x \notin log,
           x.event = "IntentExecuted"
    PROVE  /\ call # NoCall /\ call \in Frames
           /\ x.intentId = call.auth.intentId /\ x.adapter = call.auth.adapter
           /\ x.token = call.auth.tokenOut
           /\ x.amount \in Nat /\ x.amount >= call.auth.minimumOutput
<1>1. TypeOK
    BY DEF IInv
<1>2. ASSUME NEW u \in Users, NEW w \in Terms, CreateIntent(u, w) \/ CreateAndFundIntent(u, w)
      PROVE  FALSE
    BY <1>2 DEF CreateIntent, CreateAndFundIntent
<1>3. ASSUME NEW u \in Users, NEW i \in IntentIds, FundIntent(u, i) \/ CancelIntent(u, i)
      PROVE  FALSE
    BY <1>3 DEF FundIntent, CancelIntent, CancelledEvent
<1>4. CASE \E t \in Tokens : LeaveExecute(t)
    BY <1>4, LeaveExecuteEffect DEF ExecutedEvent
<1>5. CASE RevertExecute
    BY <1>5 DEF RevertExecute, NotEntered, HistoryInv, WindowInv
<1>6. ASSUME NEW i \in IntentIds, NEW subject \in IntentIds, NEW r \in RouteTerms,
             NEW signer \in Signers, NEW data \in AdapterCalls,
             EnterExecute(Authorization(i, subject, r), signer, data)
      PROVE  FALSE
    BY <1>6 DEF EnterExecute
<1>7. ASSUME NEW a \in Adapters, NEW t \in Tokens, NEW n \in Nat, AdapterPays(a, t, n)
      PROVE  FALSE
    BY <1>7 DEF AdapterPays
<1>8. CASE AdminStep \/ Tick \/ UNCHANGED vars
    BY <1>8 DEF AdminStep, SetAdapter, SetTeeSigner, SetPaused, TransferOwnership, Tick, vars
<1>9. QED  BY <1>1, <1>2, <1>3, <1>4, <1>5, <1>6, <1>7, <1>8, RouterSteps

(* Only executeIntent with a published authorization opens a window. *)
LEMMA WindowSigned ==
    ASSUME [FlowNext]_flowVars, call # NoCall => \E s \in signed : s.auth = call.auth,
           call' # NoCall
    PROVE  \E s \in signed' : s.auth = call'.auth
<1>1. CASE \E s \in signed, data \in AdapterCalls : EnterExecute(s.auth, s.key, data)
  <2>1. PICK s \in signed, data \in AdapterCalls : EnterExecute(s.auth, s.key, data)
      BY <1>1
  <2>2. call'.auth = s.auth
      BY <2>1 DEF EnterExecute, Frame
  <2>3. signed' = signed
    <3>1. ~(UNCHANGED vars)
        BY <2>1 DEF EnterExecute, NotEntered, vars
    <3>2. QED  BY <3>1 DEF FlowNext, flowVars, evaluatorVars
  <2>4. QED  BY <2>2, <2>3
<1>2. CASE UNCHANGED call /\ signed \subseteq signed'
    BY <1>2
<1>3. ASSUME RouterStep, UNCHANGED evaluatorVars,
             ~(\E s \in signed, data \in AdapterCalls : EnterExecute(s.auth, s.key, data))
      PROVE  UNCHANGED call
  <2>1. CASE UserStep
      BY <2>1 DEF UserStep, CreateIntent, CreateAndFundIntent, FundIntent, CancelIntent
  <2>2. CASE AdminStep \/ EnvironmentStep
      BY <2>2 DEF AdminStep, SetAdapter, SetTeeSigner, SetPaused, TransferOwnership,
                  EnvironmentStep, AdapterPays, Tick
  <2>3. CASE (\E t \in Tokens : LeaveExecute(t)) \/ RevertExecute
      BY <2>3 DEF LeaveExecute, RevertExecute
  <2>4. QED  BY <1>3, <2>1, <2>2, <2>3 DEF RouterStep
<1>4. ASSUME NEW e \in Evaluations, EvaluationStep(e)
      PROVE  signed \subseteq signed'
    BY <1>4 DEF EvaluationStep, Receive, ReadIntent, ChooseRoute, Sign, Reject,
                EvaluateInPlaintext
<1>5. QED  BY <1>1, <1>2, <1>3, <1>4 DEF FlowNext, flowVars, vars, evaluatorVars

(* What the router logs obeys the policy of its intent. *)
LEMMA PolicyHonouredStep ==
    ASSUME IInv, HistoryInv, EvaluatorInv, FlowInv, [Next]_vars, signed \subseteq signed'
    PROVE  PolicyHonoured'
<1> DEFINE Honoured(x, S) ==
      /\ PolicyOfIntent(x.intentId)
      /\ x.adapter \in x.intentId.ciphertextHash.constraints.allowedAdapters
      /\ x.amount >= x.intentId.ciphertextHash.constraints.minimumOutput
      /\ \/ /\ x.intentId.ciphertextHash.expiry = x.intentId.expiry
            /\ \E k \in RouteIndexes :
                 /\ V2Routes[k].adapter = x.adapter
                 /\ V2Routes[k].tokenOut = x.token
                 /\ V2Routes[k].risk <= x.intentId.ciphertextHash.constraints.maximumRisk
         \/ \E s \in S : /\ s.plaintext /\ s.auth.intentId = x.intentId
                         /\ s.auth.adapter = x.adapter /\ s.auth.tokenOut = x.token
<1>1. ASSUME NEW x \in log, x.event = "IntentExecuted"
      PROVE  Honoured(x, signed)
    BY <1>1 DEF FlowInv, PolicyHonoured, PolicyOfIntent
<1>2. ASSUME NEW x \in log', x \notin log, x.event = "IntentExecuted"
      PROVE  Honoured(x, signed)
  <2>1. /\ call # NoCall /\ x.intentId = call.auth.intentId /\ x.adapter = call.auth.adapter
        /\ x.token = call.auth.tokenOut /\ x.amount >= call.auth.minimumOutput
      BY <1>2, NewExecution
  <2>2. PICK s \in signed : s.auth = call.auth
      BY <2>1 DEF FlowInv
  <2>3. SignedInv(s)
      BY DEF EvaluatorInv
  <2>4. /\ PolicyOfIntent(x.intentId)
        /\ x.adapter \in x.intentId.ciphertextHash.constraints.allowedAdapters
        /\ x.amount >= x.intentId.ciphertextHash.constraints.minimumOutput
      BY <2>1, <2>2, <2>3 DEF SignedInv
  <2>5. CASE s.plaintext = TRUE
    <3>1. /\ s.plaintext /\ s.auth.intentId = x.intentId
          /\ s.auth.adapter = x.adapter /\ s.auth.tokenOut = x.token
        BY <2>1, <2>2, <2>5
    <3>2. QED  BY <2>4, <3>1
  <2>6. CASE s.plaintext = FALSE
    <3>1. /\ LowRiskRoute(s.auth)
          /\ s.auth.intentId.ciphertextHash.expiry = s.auth.intentId.expiry
        BY <2>3, <2>6 DEF SignedInv
    <3>2. QED  BY <2>1, <2>2, <2>4, <3>1 DEF LowRiskRoute
  <2>7. QED  BY <2>3, <2>5, <2>6 DEF SignedInv
<1>3. ASSUME NEW x \in log', x.event = "IntentExecuted"
      PROVE  Honoured(x, signed')
  <2>1. Honoured(x, signed)
      BY <1>1, <1>2, <1>3
  <2>2. QED  BY <2>1
<1>4. QED  BY <1>3 DEF PolicyHonoured, PolicyOfIntent

LEMMA StepFlowInv ==
    ASSUME IInv, HistoryInv, EvaluatorInv, FlowInv, [FlowNext]_flowVars
    PROVE  FlowInv'
<1>1. [Next]_vars
    BY FlowStepIsRouterStep
<1>2. \A id \in IntentIds : Held(id) => Held(id)'
    BY <1>1, HeldStep
<1>3. \A e \in Evaluations : UnderWay(e) => request[e].intentId \in IntentIds
    BY RequestFields DEF EvaluatorInv, EvaluatorShapes
<1>4. \A s \in signed : s.auth.intentId \in IntentIds
    BY AuthorizationFields DEF EvaluatorInv, SignedInv
<1>5. ASSUME NEW e \in Evaluations, stage[e] \in {"quotes", "adapter"}
      PROVE  status'[request[e].intentId] \in {"Funded", "Executed", "Cancelled"}
  <2>1. request[e].intentId \in IntentIds /\ Held(request[e].intentId)
      BY <1>3, <1>5 DEF FlowInv, UnderWay
  <2>2. PICK id \in IntentIds : id = request[e].intentId
      BY <2>1
  <2>3. Held(id)'
      BY <1>2, <2>1, <2>2
  <2>4. QED  BY <2>2, <2>3 DEF Held
<1>6. call' # NoCall => \E s \in signed' : s.auth = call'.auth
    BY WindowSigned DEF FlowInv
<1>7. CASE UNCHANGED evaluatorVars
    BY <1>1, <1>2, <1>4, <1>5, <1>6, <1>7, PolicyHonouredStep DEF evaluatorVars, FlowInv, Held
<1>8. ASSUME NEW e \in Evaluations, EvaluationStep(e), UNCHANGED vars
      PROVE  FlowInv'
  <2>1. Moves(e) /\ UNCHANGED status
      BY <1>8, EvaluationStepMoves DEF vars
  <2>2. ASSUME NEW f \in Evaluations, stage'[f] \in {"quotes", "adapter"}
        PROVE  Held(request[f].intentId)'
    <3>1. CASE f = e
        BY <2>1, <2>2, <3>1 DEF Moves, FlowInv, Held
    <3>2. CASE f # e
        BY <2>1, <2>2, <3>2 DEF Moves, FlowInv, Held
    <3>3. QED  BY <3>1, <3>2
  <2>3. ASSUME NEW s \in signed', s.plaintext = FALSE
        PROVE  Held(s.auth.intentId)'
    <3>1. CASE s \in signed
        BY <2>1, <2>3, <3>1 DEF FlowInv, Held
    <3>2. CASE s \notin signed
      <4>1. stage[e] = "adapter" /\ s.auth.intentId = request[e].intentId
          BY <2>1, <2>3, <3>2 DEF Moves
      <4>2. QED  BY <2>1, <4>1 DEF FlowInv, Held
    <3>3. QED  BY <3>1, <3>2
  <2>4. PolicyHonoured'
      BY <1>1, <2>1, PolicyHonouredStep DEF Moves
  <2>5. QED  BY <1>6, <2>2, <2>3, <2>4 DEF FlowInv
<1>9. QED  BY <1>7, <1>8 DEF FlowNext, flowVars

(* What the evaluators have signed, and what the router has executed on it,  *)
(* stays in agreement with the intents and the policies they commit to.      *)
THEOREM FlowCorrect == FlowSpec => []FlowInv
<1>1. EvaluatorInit => FlowInv
    BY DEF EvaluatorInit, Init, FlowInv, PolicyHonoured
<1>2. IInv /\ HistoryInv /\ EvaluatorInv /\ FlowInv /\ [FlowNext]_flowVars => FlowInv'
    BY StepFlowInv
<1>3. FlowSpec => []IInv /\ []HistoryInv
    BY FlowImplementsRouter, InductiveInvariant, HistoryCorrect, PTL
<1>4. QED  BY <1>1, <1>2, <1>3, EvaluatorCorrect, PTL DEF FlowSpec

(* Whoever presents an authorization to executeIntent, and whenever, what is *)
(* executed obeys the private policy its intent committed to.                *)
THEOREM PoliciesHonoured == FlowSpec => []PolicyHonoured
<1>1. FlowInv => PolicyHonoured
    BY DEF FlowInv
<1>2. QED  BY <1>1, FlowCorrect, PTL

(* What processEvaluate signs stays about a deposited intent, and does not *)
(* outlive it.                                                             *)
THEOREM SignedStaysFunded == FlowSpec => []SignedForFundedIntent
<1>1. EvaluatorInv /\ FlowInv => SignedForFundedIntent
  <2> SUFFICES ASSUME EvaluatorInv, FlowInv, NEW s \in signed, ~s.plaintext
               PROVE  /\ status[s.auth.intentId] \in {"Funded", "Executed", "Cancelled"}
                      /\ s.auth.deadline <= s.auth.intentId.expiry
      BY DEF SignedForFundedIntent
  <2>1. SignedInv(s)
      BY DEF EvaluatorInv
  <2>2. s.plaintext = FALSE
      BY <2>1 DEF SignedInv
  <2>3. QED  BY <2>1, <2>2 DEF SignedInv, FlowInv, Held
<1>2. QED  BY <1>1, EvaluatorCorrect, FlowCorrect, PTL
=============================================================================
