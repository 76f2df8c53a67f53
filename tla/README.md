# ShadowRoute: a TLA+ verification project

ShadowRoute lets an XRP holder fund an escrowed intent on Flare, has a
confidential evaluator choose a swap route under a private policy, and executes
the signed route through an allowlisted adapter.  This directory models the
parts of it in which order, concurrency and failure matter, checks them with TLC
on small instances, and proves their safety with TLAPS for every value of the
constants.

## 1. The system

| part | source | state | operations |
|---|---|---|---|
| escrow contract | `contracts/ShadowRouter.sol` | intents, nonces, owner, TEE signer, pause, allowlist, token balances | create, createAndFund, fund, execute, cancel, four admin calls |
| route adapter | `contracts/UniswapV2RouteAdapter.sol` | balances, allowance to the exchange | execute |
| exchange | external, a Uniswap V2 router | its balances | swapExactTokensForTokens |
| instruction sender | `contracts/ShadowRouteInstructionSender.sol` | `extensionId` | setExtensionId, sendEvaluation |
| route evaluator | `fcc-scaffold/go/internal/extension` | signing key, evaluation counter, the locals of each request | processEvaluate: decrypt, verify, quote, choose, sign |
| mint-and-deposit scripts | `integration/run-mint-deposit.mjs`, `resume-mint-deposit.mjs`, `fdc-xrp.mjs` | locals between awaits, two record files | pay on XRPL, attest, poll, mint, record; resume |
| extension registration | `fcc-scaffold/tools/pkg/fccutils/extension.go` | the registry on chain | register, three grants |
| TEE machine registration | `fcc-scaffold/tools/pkg/fccutils/registration.go` | a progress file, the machine registry on chain | pre-register, attest, availability check, to production |
| keeper scripts | `scripts/execute-fcc-pangolin-v2.mjs`, `execute-pangolin-intent.js` | locals between awaits, a record file | preflight, executeIntent, post-check |
| first-generation evaluator | `fcc-extension/main.go` | its signing key | evaluate a plaintext request |
| deployment scripts | `fcc-scaffold/scripts` | `config/extension.env`, the running node | pre-build, start-services, post-build, test, full-setup, stop-services |
| operator tools | `fcc-scaffold/tools/cmd`, `scripts/pause-stale-fcc-tee.mjs` | the registry on chain, evidence files | deploy-contract, allow-tee-version, set-governance, run-test, pause |
| validation report | `fcc-scaffold/tools/pkg/validate`, `cmd/verify-deploy` | none | the checks of seven steps, tally, exit status |
| redemption scripts | `integration/*redemption.mjs` | none | one transaction |
| framework servers, audit-deploy, web UI | `fcc-scaffold/python`, `typescript`, `tools/cmd/audit-deploy`, `web`, `api` | none that outlives a call | |

How they interact.  The scripts create a funded intent in the router by way of
an XRPL payment, a proof of it from the Flare data connector, and the owner's
personal account.  The instruction sender forwards an encrypted request to a TEE
machine of the registered extension, where the evaluator reads the router over
RPC and signs a `RouteAuthorization`.  Anyone may hand the authorization to the
router, which calls the adapter and measures its own balance when the adapter
returns.  Around them are the operator's tools: they deploy the sender, register
its extension, start the node that holds the signing key, register it as a
machine of the extension, and report on the result.

What is hard about it, and what makes each part correct:

* **Escrow contract.**  An external call in the middle of `executeIntent`, a
  reentrancy guard on some functions only, amounts inferred from balance
  differences, checks that fail after the swap, keys and allowlists that change
  between signing and use.  Correct: every deposit is covered by the balance at
  all times, is settled once, is paid for with its owner's authorization, and can
  always be withdrawn.
* **Route adapter.**  Foreign code runs between an approval and its removal, on
  balances that may hold strangers' tokens.  Correct: nothing is left to pull or
  to take, and what commits is the swap that was signed.
* **Evaluator.**  Four reads of a moving chain, concurrent requests, signatures
  that outlive what was read.  Correct: whatever is executed obeys the private
  policy the intent commits to.  The first-generation evaluator signs the route
  its caller names; correct there: the adapter and the minimum are the policy's.
* **Keeper scripts.**  Checks at successive awaits, other keepers, an owner who
  cancels and spends, transactions that are mined after the script gave up.
  Correct: a record claims no execution the chain does not bear out.
* **Mint-and-deposit scripts.**  Two nonces read in two calls and used minutes
  later, bounded and unbounded polling, a record written last, an operator who
  interrupts, resumes and starts again.  Correct: the funded intent is the one
  the policy commits to and the record names; scripts end; an interrupted run can
  be resumed.
* **Extension registration.**  Four transactions that may each time out and be
  mined later, several setups at once.  Correct: a returned identifier is
  complete and is the one the contract finds.
* **TEE machine registration.**  A progress file that may be missing, stale, cut
  short or about another machine, one-shot challenges that expire, transactions
  mined after their run gave up.  Correct: the file never claims more than the
  chain bears out, a fresh run does not depend on an old challenge, and the
  machine reported as registered is in production.
* **Deployment.**  A file, a node, a contract and a registry that each name the
  extension, written by scripts that die anywhere and are run again in any order,
  on a chain whose registry may be redeployed empty.  Correct: a setup that
  completes serves, evidence is true, the report says what is wrong.

## 2. Modules

| module | models | extends |
|---|---|---|
| `ShadowRouter` | the escrow contract and ERC-20 tokens | |
| `IntentEscrow` | what the escrow promises (abstract) | |
| `RouteAdapter` | the Uniswap V2 adapter and its exchange inside the router's window | `ShadowRouter` |
| `KeeperExecution` | the keeper scripts in front of adapter and router | `RouteAdapter` |
| `RouteEvaluator` | both evaluators in front of the router | `ShadowRouter` |
| `MintDeposit` | the run and resume scripts | |
| `DepositPromise` | what a deposit promises (abstract) | |
| `ExtensionSetup` | `SetupExtension` and `setExtensionId` | |
| `TeeRegistration` | `register-tee` and `RegisterNode` | |
| `DeployChecks` | the report of `verify-deploy`, as operators | |
| `Deployment` | the deployment scripts, their tools and the registry | `DeployChecks` |
| `ShadowRouterProofs` | type correctness and solvency of the router | `ShadowRouter` |
| `ShadowRouterHistoryProofs` | events, nonces, accounts, authority, refinement of `IntentEscrow` | `ShadowRouterProofs` |
| `RouteEvaluatorProofs` | the evaluators in front of the router | `RouteEvaluator`, `ShadowRouterHistoryProofs` |
| `KeeperExecutionProofs` | adapter, exchange and keepers | `KeeperExecution`, `ShadowRouterHistoryProofs` |
| `MintDepositProofs`, `ExtensionSetupProofs`, `TeeRegistrationProofs`, `DeploymentProofs` | theorems about the module of that name | that module |
| `MC...` | constants for TLC: `MCShadowRouter`, `MCKeeperExecution`, `MCRouteEvaluator`, `MCMintDeposit`, `MCTeeRegistration`, `MCDeployment` | |

### ShadowRouter

One action per external function, with the guards in the order of the code.  A
transaction is atomic except `executeIntent`: `EnterExecute` is the code up to
the adapter call, `LeaveExecute` the code after it, `RevertExecute` the revert
of the whole transaction, and `call` holds the arguments and a checkpoint of the
storage in between.  While the window is open the adapter may call everything
that the code leaves open: `createIntent` (it has no `nonReentrant`), the admin
functions, transfers of its own tokens.  The functions with `nonReentrant` have
the conjunct `NotEntered`.

Abstractions: `keccak256` is injective, so an intent's identifier is the record
of its immutable fields and the mapping `intents` reduces to `status`; a
signature that recovers to `s` is the pair of the authorization and `s`, and keys
may have signed anything; `log` keeps the two events that move funds, as a set.
A token burns `Fee[t]` units of a transfer; "standard" tokens burn none, and the
accounting properties are about those.  `MaxNonce` stands for the largest
`uint64`, at which the checked increment reverts.  `MaxTime` bounds the clock.

A function whose only transfer fails is a disabled action: a revert outside the
window changes nothing.

### RouteAdapter

Extends the router and fills in the window of `executeIntent` for one adapter.
`AdapterExecute` is `execute` up to the call of the exchange, `AdapterReturn` the
rest of it; in between the exchange may pull up to its allowance
(`ExchangePulls`), pay or not (`ExchangePays`), and call everything the router
leaves open (`Others`).  With a standing allowance it could pull at any other time
too, which is what `AdapterKeepsNothing` excludes.  `Leave` and `Revert` are the
router's steps with the adapter's part of them: a revert restores the allowance.
An `actionHash` is the data it hashes, so `path`, `amountOutMin` and `deadline`
are fields of it.

Within the window of this adapter nobody acts but during the exchange's call; for
any other adapter the window is as open as in `ShadowRouter`.

### KeeperExecution

Extends `RouteAdapter`.  A script is a sequence of awaits, and the chain moves
between any two.  `execute-fcc-pangolin-v2.mjs` reads the intent, the allowlist
and the signer, `execute-pangolin-intent.js` the signer, the allowlist, the intent
and the latest block, from which it makes its deadline; `Passed` has both orders.
Then come the balance before, the transaction, its receipt, the status and the
balance after (the first script asks for both at once, so that they are read in
either order, the second for the balance first) and the record.  `Send` stands for
the static call and the gas estimate, which fail when the transaction would (a
static call earlier than the transaction would only stop the script more often);
the transaction itself is mined later, entering the router (`Enter`) or refused
(`Refused`).  What `execute-pangolin-intent.js` will sign is settled at `Start`,
though it signs after its reads: of what it reads only the deadline, checked when
the block is read, and the amount of the quote go into it.  `Stop` is a
throw or the end of the process at any await.  `OwnerSpends` moves the owner's
balance between the two reads the delivered amount is computed from.  The host's
clock is the chain's.

### RouteEvaluator

Extends the router.  An evaluation is a goroutine: `Receive` (with the chain
identifier, which never changes), `ReadIntent`, `ChooseRoute`, `Sign`, one step
per chain read, with any router step in between.  `Reject` stands for a failing
decryption, read or quote.
`executeIntent` is confined to authorizations that were signed, with the key that
signed them; signing keys other than the machine's are still possible, since
every machine of the extension has its own.  The clock of the machine
(`teeTime`) is not that of the chain.  The policy is the `ciphertextHash` of the
intent.  Routes are the configured live V2 routes; their quotes are arbitrary
members of `Outputs`, and a route may go without an answer.

`EvaluateInPlaintext` is the first-generation evaluator in its test mode, one step
without any chain read, with any of the keys.  Its requests come with quotes that
the caller wrote, so that the best of them, and its risk, are whatever the caller
wants (`ChosenByCaller`).  `PlaintextRequests` keeps to the requests whose
authorization the router could accept: `ShadowRouter.sol:183-190` compares owner,
token, amount, commitment and nonce, and for requests that differ in one of them,
or are for another chain, it signs what nobody can use.  Nobody compares the
expiry in such a request, which is that of the policy, with the intent's: an
intent that commits to a policy with another expiry than its own is refused by the
confidential evaluator, signed by this one and executed.  That is why
`PolicyHonoured` has the policy's expiry, like its risk, with an exception.

### MintDeposit

A step runs from one await to the next.  `Stop` is an exception or an interrupt
at any await.  `Poll` is both bounded loops of `retrieveXrpPaymentProof`;
`Confirm` is the unbounded wait for validated ledgers.  `WriteRecord` does not
look at the receipt, as the code does not.  The personal account's check of
user-operation nonces, the single use of a payment and the expiry check of the
router are in `Mintable`; a valid operation may still revert (`MineRevert`).
`OtherOperation` is an operation of the account that is not a deposit.

`DepositPromise` is what all this amounts to for the holder of the XRP, without
scripts, rounds and receipts: a payment offers an operation (`Offer`), and an
operation that was offered is executed (`Fund`) at most once, before it expires,
with no other of the same account nonce executed before, for the intent nonce its
policy names.  `ImplementsDeposit` maps the ledgers of `MintDeposit` to it; the
scripts' own state does not appear.

`Rank` counts what is left of a script: the stages before its end and the polls
of the stage it is in.  `ScriptsAdvance` says that every step of a script lowers
it, the safety half of `ScriptsTerminate`: no script returns to its payment, and
no loop is longer than its bound.

### ExtensionSetup

`SendRegister` to `GrantReceipt` follow `SetupExtension`.  `Fail` is `CheckTx`
giving up after two minutes, a failing call or an interrupt; the transaction
stays pending and may be mined afterwards.  The registry is external: it hands
out identifiers in order and refuses a second extension for the same sender,
which is what the repository's integration tests expect of it.

### TeeRegistration

A run reads the node's identity (`ReadNode`) and the progress file (`LoadState`),
then goes through the steps `r`, `R`, `a` and `p`.  Each is skipped because the
file has it (`SkipCompleted`) or the command does not name it (`SkipUnasked`), or
it is sent, confirmed and saved (`Send`, `Receipt`, `SaveState`).  Writing and
removing the file may fail without stopping the run, as in the code; `Fail` is
any call that fails, a time-out or a kill, which during a write leaves a file
that does not parse.  A transaction stays pending when its run gives up and may
be mined later (`Mine`).  `PolicyOutOfSync` is the outcome of the comparison of
signing policies before the availability check, taken as a choice.  Runs start
one after the other: the file belongs to one operator's directory.

The machine registry is external and only as the code relies on it: a
pre-registration is for an unknown machine, a check uses up one live attestation
of its machine, and a promotion concerns the machine its proof is about.
`Redeploy` gives the proxy another machine at any moment.

### DeployChecks and Deployment

`DeployChecks` has one operator per check of `tools/pkg/validate/checks.go` and
says with which status it is reported; `Report` is the set of results of a step,
`Succeeds` the exit status of `verify-deploy`.  Its arguments are an invocation
(flags, environment, what the network answers), the file and the registry.  The
messages are left out, and the two checks that pass in every invocation are
constants.

`Deployment` has the state these are about: the registry (identifiers, senders,
grants, allowed versions, governed extensions, machines in the pool), the
pools of registries that were replaced, the instruction senders,
`config/extension.env`, the running node, the script in progress, the deployment
record and the latest evidence file.  One action per
step of `pre-build.sh`, `start-services.sh`, `post-build.sh`, `test.sh` (that is
`run-test`) and `pause-stale-fcc-tee.mjs`; `full-setup.sh` runs the first four in
order, with or without the last.  After any step the script may die, its effect
done (`Dead`) or, before it, not (`Fail`).  The rest is what happens around the
scripts: a node crash, another version of the code, an edited file, extensions of
other developers, a redeployed and therefore empty registry.  The replaced one
(`retired`) can still be reached: `pause-stale-fcc-tee.mjs` works on the manager
and the extension that the deployment record names, present or not (`PoolOf`), and
reads that one pool before and after the pause.

`start-services --local` keeps a process that is alive (`e2e.sh`); Docker Compose,
which the run is about, recreates a container whose environment or image changed
(`ContainerUpToDate`, external).

Abstractions: registering an extension and a machine are single steps here,
modelled in detail in `ExtensionSetup` and `TeeRegistration`; the progress file
of the latter is taken to be this node's, which the run `TeeRedeployed` is about.
Reading the node's `/info` and sending the transaction about it are one step.
`deployed-addresses.json` changes together with the registry.  The scripts of a
full setup that lives through a redeployment count as run one by one.  The
content of the evaluation, and of the governance policy, is left out.

### Operators that are not the code

Beside some definitions stands a variant of it that the code does not use
(`BaselineAlwaysNet`, `MayFundInsideWindow`, `NonceReadSwapped`, `LatestId`,
...).  Each is the mistake one of the properties guards against: putting it in
the place of the definition it accompanies must make TLC report that property
violated.  `mutants` in `PROJECT.json` lists the pairs.  (`MayFundInsideWindow`
and `MayCancelInsideWindow` are also the part of the guard that is not the
reentrancy guard.)

## 3. Runs

| run | what it shows | bounds |
|---|---|---|
| `RouterReentrancy` | no deposit pays for another, nothing is settled twice, accounts balance, settled is final, the abstract escrow is implemented | 2 owners, 2 tokens, deposits of 1 and 2 units expiring at 1 and 2, an adapter with liquidity for both, routes into the other and the same token |
| `RouterAuthority` | a committed execution was authorized by the storage its transaction started from; a fee token does not disturb a standard one, whose deposits can always be withdrawn; a nonce never names two intents | 2 admins, 2 keys, 1 owner with 2 nonces, one token of each kind, matching and mismatching action data, terms and routes the contract refuses, reverted executions |
| `KeeperRecords` | records are backed by executions, the adapter keeps no allowance and pays out no stray token, what commits is the swap that was signed | 2 keepers of either script, 1 owner and nonce, an adapter that holds a unit of each token, data with a path or a minimum other than the authorization's, a path that visits its tokens twice |
| `EvaluatorPolicy` | executions obey the committed policy, its expiry and risk unless the plaintext evaluator signed; signatures refer to deposits that were made | 2 evaluations, the plaintext evaluator with the same keys, 2 adapters of different risk, a policy that restricts the adapter and one that restricts the risk, policies about the expiry and nonce of their deposit and about others, right and wrong chain, deadlines within and past the expiry, 2 keys |
| `DepositNonces` | funded intents match their commitment, record files are right, the abstract deposit is implemented | 2 runs, 1 resume, 2 account nonces to use up |
| `DepositTermination` | scripts end, and every step of theirs brings them closer to it | 1 run, 1 resume, 3 confirmations, 2 polls |
| `ResumeRecovery` | *violated*: a run's payment cannot be resumed | 1 run, 1 resume |
| `SetupRegistration` | a returned identifier is usable | 3 setups, 2 senders |
| `SetupTwice` | *violated*: a second setup does not detect the first | 2 setups, 2 senders |
| `TeeProgress` | the progress file is truthful, challenges are fresh, a full run that resumed nothing promotes the machine it reports | 2 runs, 2 machines, 5 commands |
| `TeeRedeployed` | *violated*: the same, with a node redeployed before a resume | 2 runs, 2 machines, the 2 commands that do everything |
| `DeploymentLifecycle` | a complete setup serves, evidence is true of the manager it names, the report's verdict is right | 2 identifiers and senders, 2 starts of the node, 2 versions of its code, 1 redeployment, 9 invocations, Docker Compose |

Why the bounds are enough for what they show: solvency and accounting can only go
wrong between two deposits, so two owners with different amounts, tokens and
expiries are the smallest instance in which one deposit can pay for another;
single settlement and authority concern one intent and what changes around it;
nonces need an owner with two intents and a revert; a record is contested by two
keepers over one intent, and stray tokens are noticed one unit at a time; the
evaluator needs a second
evaluation only to sign something while the first is suspended; the deposit
scripts interfere pairwise over the account nonce, and a resume is a third actor;
a progress file carries something from one registration to the next, so two of
them, before and after a failure, for two machines, meet every case of it; a deployment
goes wrong when something of an earlier one is left, so two of everything suffice.

Deadlock is checked for the router and the evaluator, where the environment can
always move.  It is not for the scripts, setups, registrations and deployments, which are
meant to end.

Symmetry is used where no liveness is checked: over runs in `DepositNonces`, over
evaluations and keys in `EvaluatorPolicy`, over keepers in `KeeperRecords`, over
runs in `TeeProgress`.

Fairness.  Only `MintDeposit` has any: weak fairness of each script's next step
(Node resumes a script whose await has an answer and every RPC call is answered
or throws) and of the closing of XRP ledgers, on which the unbounded confirmation
wait depends.  Nothing is assumed of the data connector, of Flare mining a
transaction or of the operator.  The contracts state no liveness: every call is
somebody's choice; `FundsNeverTrapped` says by `ENABLED` what can be done.

## 4. Findings

* `resume-mint-deposit.mjs` recovers only payments of the first-generation
  commitment: it rebuilds the operation with the hash of a JSON text (line 38)
  and user-operation nonce 0 (line 43), while `run-mint-deposit.mjs` commits to a
  `PrivateIntentPolicy` and uses the current nonce.  `README.md:163` names it as
  the way to continue an interrupted run.  Run `ResumeRecovery`.
* `SetupExtension` does not detect an existing registration, which
  `fcc-scaffold/docs/testing.md:82` says the integration tests verify; the test
  (`registration_test.go:30`) expects the second run to fail.  A setup that failed
  between its grants therefore cannot be completed by running it again.  Run
  `SetupTwice`.
* A registration resumed after its node was redeployed with another key promotes
  the old machine and reports the new one: the progress file
  (`registration.go:66`) does not say which machine it is about, so every step
  but the promotion is skipped, the promotion and the check after it
  (`registration.go:385`) follow the machine of the saved proof, and
  `register-tee/main.go:72` prints the identifier of the new machine as
  registered.  Run `TeeRedeployed`; `FreshRunPromotesItsMachine`
  (run `TeeProgress`) is the part of the report that does hold.

* `UniswapV2RouteAdapter.execute` accepts a path on which a token repeats: it
  checks the length, the first token against the input and the last against the
  input and zero (lines 40-42), while `README.md:224` says "two to four unique
  tokens".  A path through token, output, token, output is among the signed data
  of the passing run `KeeperRecords`, accepted and swapped along; the signed
  minimum is enforced all the same, so `SwapAsSigned` does not depend on it.

Behaviours seen while modelling of which no text of the repository says
otherwise: the router compares no field of the policy but its hash, so that the
policy's own expiry binds only where the confidential evaluator signed;
`pause-stale-fcc-tee.mjs` pauses a machine of the manager in its record even if
that has been replaced; two runs that read the same account nonce both pay, and
only one payment can become a deposit; a payment whose operation has expired
before the proof arrives cannot become one either; a mint that reverts is
recorded like one that succeeded; the amount a keeper records as delivered is a difference of two reads and may differ
from what the execution paid; `start-services.sh --local` keeps a process that
is alive, whatever extension it was started for (with `LocalProcess = TRUE`
`CompleteSetupServes` does not hold); a report of the register step alone passes
over an instruction sender that is not well formed.

## 5. Proofs

The theorems hold for all values of the constants that satisfy the module's named
assumption: any number of owners, tokens, keys, intents, evaluations, keepers,
scripts, machines, extensions, and any bound.  Every property of a passing
run is proved but two: `FundsNeverTrapped`, of which `OwnersCanLeave` is the
part without `ENABLED`, and `ScriptsTerminate`, of which `ScriptsComeToAnEnd` is
the part without fairness.  Each proof has the same layout: an inductive invariant,
one lemma per action that it is preserved, the property as a consequence, and PTL
for the temporal steps.  TLC has checked each of the invariants on its run's
instance before it was proved; `IInv` and `HistoryInv` of the router still are
invariants of `RouterReentrancy`.

### The router

| theorem | states |
|---|---|
| `InductiveInvariant`, `TypeCorrect`, `RouterSolvent` | `IInv`, `TypeOK` (no token balance is ever negative), `Solvency` |
| `OwnersCanLeave` | the guard of `CancelIntent`, which is what `FundsNeverTrapped` says with `ENABLED` |
| `HistoryCorrect` | `HistoryInv` |
| `SettlesOnce`, `NoncesIdentify`, `OwnersAccounted` | `SingleSettlement`, `NonceIdentifiesIntent`, `OwnerAccounting` |
| `SettlementIsFinal`, `ExecutionIsAuthorized` | the action properties `SettledIsFinal`, `ExecutionsAuthorized` |
| `RouterImplementsEscrow` | `ImplementsEscrow`, that is `Spec => Escrow!Spec` |

Solvency is not inductive.  `RevertExecute` goes back to the checkpoint, so the
checkpoint has to be solvent; `LeaveExecute` pays out a balance difference, so
the window must not have changed which intents are funded, and the difference
must be taken from a balance that covered all of them.  `FrameInv` says this;
`CreatedInv` says that finitely many intents exist, so that their amounts have a
sum, and that their tokens are tokens; `IInv` is their conjunction with `TypeOK`
and `Solvency`.

The sum of the funded amounts is stated as the cardinality of a set of token
units (`Value`), because a recursive sum is beyond the provers; the lemmas
`UnitsOfOne`, `ValueAdd` and `ValueRemove` give it the properties of a sum.
`TransferMoves` says what a transfer does to balances.

The history of the intents needs more.  `StorageInv` says of a storage that its
events agree with the statuses (`EventsInv`), that nonces handed out lie below
the owner's counter (`NoncesInv`), and that the owners' accounts balance
(`Accounted`).  It is asserted twice: of the storage and of the checkpoint a
revert restores.  `WindowInv` ties the two: since the checkpoint the window has
at most created intents, paid no owner and emitted nothing, and what
`executeIntent` checked before its call still holds of the checkpoint.  That is
why the status may be written after the call.

`OwnerAccounting` is about `Owners`, the accounts that are not adapters: an owner
that is itself an allowlisted adapter pays the router and is paid by others
besides its intents, and its wallet says nothing of its deposits.

The refinement maps the router to the escrow at transaction boundaries
(`Committed`): while a window is open the escrow sees the checkpoint.  Entering
and reverting are stutters, what the window creates and `LeaveExecute` itself are
one step, an execution with some creations; every other action is the escrow's of
the same name or a stutter.

### The evaluators

The evaluators restrict what is handed to the router, so the proof goes in three
layers.  `EvaluatorInv` is about evaluations alone: what a request has been
checked for up to its stage, and what a signed authorization says, whatever the
router does (`EvaluatorTypeCorrect` follows: `EvaluatorTypeOK`).
`FlowImplementsRouter` shows `FlowSpec => Spec`: each step of the composition is
a step of the router or leaves it alone, so that `IInv` and `HistoryInv` hold of
the composition.  `FlowInv` then relates the two sides: an intent that was seen
funded stays funded or settled (`Held`), and only what was signed is in the
window.  `Held` survives a revert because of `WindowInv`: the window does not
fund.  `PoliciesHonoured` and `SignedStaysFunded` are its consequences; the
former has the exception of `PolicyHonoured` for what the plaintext evaluator
signed, without which it is false.
`FlowImplementsEscrow` adds that router and evaluators together implement the
abstract escrow (`ImplementsEscrow`).

`BestRouteIsChosen` is about the choice alone, for any number of routes: among
those the policy accepts, the one that `Best` names exists, gives at least the
minimum that will be signed, and is the first of those with the highest quote, as
the stable sort of `chooseRoute` has it.  It rests on the least member of a
non-empty set of numbers (`LeastNumber`) rather than on an induction over routes.

### Adapter and keepers

`KeeperSpec` is no refinement of the router's `Spec`: the exchange moves the
adapter's tokens, pays the router in parts, and owners spend.  `RouteInv` is
therefore the router's `IInv`, which these payments leave alone, the part of
`WindowInv` they leave (`WindowKept`), and `AdapterInv`: what the adapter holds
before, during and after the exchange's call, and that the allowance is zero
outside it.  The proofs reuse the router's lemmas action by action.
`KeepersInv` says what a keeper knows at each await of its transaction, and that
a transaction that succeeded has executed its intent as no other keeper's has.
`KeeperCorrect` is both; `AdapterIsStage` (`AdapterKeepsNothing`), `RecordsBacked`
(`RecordBacked`) and `SwapsAreAsSigned` (`SwapAsSigned`, an action property)
follow.

What the router promises is therefore proved of this composition anew, from the
effect each step has on statuses and events: `KeepersSolvent` (`Solvency`),
`KeepersSettleOnce` (`SingleSettlement`), `KeepersSettleFinally`
(`SettledIsFinal`) and `KeepersAreAuthorized` (`ExecutionsAuthorized`).  The last
carries what `executeIntent` checked from its entry to its commit, past the call
of the exchange (`Checked`).

### Scripts, tools and deployment

* `MintDepositProofs`: `DepositTypeCorrect` (`TypeOK`), `DepositsMatch`
  (`DepositMatchesCommitment`), `RecordsFunded` (`RecordedIntentFunded`).  The
  heart of the invariant is `Current`: an operation commits to the next intent
  nonce for as long as the account nonce it carries is the current one, so that
  whichever of two payments is executed, it is executed with the nonce it commits
  to.  It depends on the order of the two reads.
  `ScriptsImplementDeposit` is the refinement (`ImplementsDeposit`): a payment is
  an offer, a mint that succeeds is `Fund`, the rest is time or a stutter.  Beside
  the invariant it needs `SpentInv`: whatever was minted carried an account nonce
  below the current one, so that an operation that may still be executed carries
  another; and a run that has not reached its payment has none to overwrite.
  `ScriptsComeToAnEnd` (`ScriptsAdvance`) goes through the actions one by one: a
  stage is worth more than all polls of a later one.
* `ExtensionSetupProofs`: `SetupTypeCorrect` (`TypeOK`), `ReturnedIsUsable`
  (`ReturnedExtensionUsable`), from what each setup knows of its own transaction
  and that no sender has two extensions.
* `TeeRegistrationProofs`: `TeeTypeCorrect` (`TypeOK`), `ProgressIsTruthful`
  (`ProgressTruthful`), `ChallengeIsFresh` (`FreshChallenge`), `FreshRunPromotes`
  (`FreshRunPromotesItsMachine`).  The file, and what every run has loaded from
  it, claims no more than the chain bears out (`Truthful`), and the chain only
  grows (`Grows`).  A fresh run owns its attestation (`Own`): no pending check of
  another run refers to it.
* `DeploymentProofs`: `DeploymentTypeCorrect` (`TypeOK`), `EvidenceIsSound`
  (`EvidenceSound`), `ReportIsRight` (`ReportVerdict`) and, with `~LocalProcess`,
  `CompleteServes` (`CompleteSetupServes`).  The invariant says at which point of
  a full setup file, registry and node are known to agree (`PreBuildInv`,
  `FileInv`, `NodeInv`), and what a test knows of the machine it has addressed
  (`TestInv`).  Of a pause `EvidenceIsSound` says what the script has seen, for the
  manager and the extension of its record: that the stale machine is out of the
  pool and the current one in it, not that it is alone there.  Under
  `start-services --local` an old process is kept, and
  `CompleteSetupServes` is false: hence the hypothesis.  `ReportIsRight` rests on
  `VerdictOfReport`, which holds of every registry and file, not only of reachable
  ones: one lemma for each part of the report says when it has a `FAIL`.  Of the
  single steps, `AllIsEveryStep` says that `all` succeeds just if each of the six
  does, under every filter; `FilterOnlyHides` that a `--checks` filter makes
  nothing fail; and `VerdictOfRegister` what the success of the register step
  alone means: the extension and two of its grants, but nothing about a sender
  that is missing.

### Assumptions

All are about the form of the constants.  Beside sizes and types: accounts,
adapters and the zero address are distinct where the code tells them apart; the
V2 adapter owns no intent (`V2Adapter \notin Users`: its code creates none); the
terms a key may sign include those the evaluator and the keepers' decisions are
made of; at least one identifier exists (`MaxId >= FirstId`); and the values
that mean "none" (`NoSwap`, `NoRecord`, `NoFile`, `Absent`, `Malformed`) are
none of the things they stand beside.  TLC evaluates them in the runs.

### Only model-checked

* `FundsNeverTrapped` is stated with `ENABLED`, and `ScriptsTerminate` is a
  liveness property under fairness: both are out of the prover's reach.
  `OwnersCanLeave` proves the guard that the first one is about.
* The three violations are single behaviours that TLC exhibits.

## 6. Not modelled, and the plan

Modelled, in the order of importance: (1) the escrow and its abstract
specification, with proofs; (2) the evaluators composed with it; (3) the route
adapter inside its window; (4) the keeper scripts; (5) the deposit scripts;
(6) extension registration; (7) TEE machine registration; (8) the deployment
scripts, their tools and the validation report.

Proved: the safety of all of them, and their abstract specifications where they
have one (section 5).  What is left to TLC is out of the prover's reach: the
liveness of the deposit scripts, and `ENABLED`.

Not modelled, with the reason:

* The Python and TypeScript framework servers: scaffolds of an example extension
  in other languages, not part of the route evaluation.
* `prepare-mint-deposit.mjs`, the redemption scripts, `deploy-*.js`,
  `configure-fcc-coston2.mjs`, `check-fcc-live.mjs`: one transaction or none, and
  nothing kept.  The transactions are calls of the modelled contracts or of
  external ones.
* `audit-deploy`, `start-proxy`, `query-tee`, the web UI and the evidence
  endpoint: they print or serve what they read.
* The evaluation counter and `/state` of the extension, and static quotes.
* Waiting for ports, redis, proxies and containers in the shell scripts; wording,
  logging, encodings and hashes (taken as injective).
