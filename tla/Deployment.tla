------------------------------ MODULE Deployment ------------------------------
(***************************************************************************)
(* The life of a deployment of the extension, as its operator drives it    *)
(* with fcc-scaffold/scripts (pre-build, start-services, post-build, test, *)
(* full-setup, stop-services), scripts/pause-stale-fcc-tee.mjs and the Go  *)
(* tools these call.                                                       *)
(*                                                                         *)
(* One script runs at a time, step by step; at each step it may die, and a *)
(* transaction whose confirmation is not seen in time has its effect       *)
(* nevertheless.  Meanwhile the node may crash, other developers register  *)
(* extensions, and the FlareTeeManager diamond may be redeployed: the new  *)
(* one, which deployed-addresses.json then names, has an empty registry;   *)
(* the retired one stays where it was, for whoever still has its address.  *)
(*                                                                         *)
(* A node draws its key when it starts, so that a key stands for one       *)
(* process; so does an instruction sender for one run of pre-build.        *)
(* Register-tee is one step here, of the running node: TeeRegistration has *)
(* its steps, and the run TeeRedeployed what its progress file does when   *)
(* it was left by another node.  So is the answer of the extension, which  *)
(* RouteEvaluator models.                                                  *)
(***************************************************************************)
EXTENDS DeployChecks, Sequences

CONSTANTS
    LocalProcess,  \* start-services --local instead of Docker Compose
    MaxSender,     \* bound on the instruction senders deployed
    MaxId,         \* bound on the extensions registered
    MaxKey,        \* bound on the starts of the node
    MaxCode,       \* bound on the versions of the extension's image
    MaxWipe,       \* bound on the redeployments of the diamond
    Invocations,   \* invocations of verify-deploy
    None

Senders == 1..MaxSender
Foreign == 0                 \* an instruction sender of another developer
Ids == FirstId..MaxId
Keys == 1..MaxKey
Codes == 1..MaxCode
Grants == {"machineOwner", "projectOwner", "keyType"}

(* config/extension.env, whole, half-written or edited. *)
EnvFiles == [EXTENSION_ID : Ids \cup {Absent, Malformed},
             INSTRUCTION_SENDER : Senders \cup {Absent}]

Deployments == [teeId : Keys \cup {None}, previous : Seq(Keys),
                diamond : 0..MaxWipe, extension : Ids \cup {0}]

ScriptNames == {"idle", "pre-build", "start-services", "post-build", "test", "pause-stale"}
Stages == {"idle", "deploy", "register", "machineOwner", "projectOwner", "keyType", "write", "up",
           "allow", "govern", "setExtensionId", "encrypt", "send", "poll", "pause", "verify"}
Scripts == [name : ScriptNames, stage : Stages, sender : Senders \cup {0, Absent},
            id : Ids \cup {0}, key : Keys \cup {None}, target : Keys \cup {None},
            diamond : 0..MaxWipe, current : Keys \cup {None}, stale : Keys \cup {None}]

ASSUME DeploymentAssumption ==
    /\ LocalProcess \in BOOLEAN
    /\ MaxSender \in Nat /\ MaxId \in Nat /\ MaxKey \in Nat /\ MaxCode \in Nat \ {0}
    /\ MaxWipe \in Nat /\ MaxId >= FirstId
    /\ NoSender \notin Senders \cup {Foreign}
    /\ {Absent, Malformed} \cap (Ids \cup Senders) = {}
    /\ NoFile \notin EnvFiles
    /\ None \notin Keys

VARIABLES
    registry,      \* the FlareTeeManager diamond
    senders,       \* the instruction senders deployed
    extensionEnv,  \* config/extension.env
    code,          \* the version of the image that would be built now
    node,          \* the extension node behind the proxy, or None
    starts,        \* how often a node was started
    script,        \* the script in progress
    fullSetup,     \* the full-setup that runs it, or the one that completed last
    deployment,    \* deployments/coston2-fcc-extension.json
    evidence,      \* what the latest script has put on record, or None
    wipes,         \* how often the diamond was redeployed: the number of the present one
    retired        \* retired[d]: the pools of the diamond d that has been replaced

vars == <<registry, senders, extensionEnv, code, node, starts, script, fullSetup,
          deployment, evidence, wipes, retired>>

EmptyRegistry ==
    [nextId |-> FirstId,
     senderOf |-> [id \in Ids |-> NoSender],
     granted |-> [id \in Ids |-> {}],
     versions |-> [id \in Ids |-> {}],
     governed |-> {},
     pool |-> [id \in Ids |-> {}]]     \* getActiveTeeMachines

(* The registry accepts a contract of this diamond that has no extension. *)
OfThisDiamond(s) == s \in DOMAIN senders /\ senders[s].diamond = wipes

Idle == [name |-> "idle", stage |-> "idle", sender |-> 0, id |-> 0, key |-> None,
         target |-> None, diamond |-> 0, current |-> None, stale |-> None]

Init ==
    /\ registry = EmptyRegistry
    /\ senders = <<>>
    /\ extensionEnv = NoFile
    /\ code = 1
    /\ node = None
    /\ starts = 0
    /\ script = Idle
    /\ fullSetup = "none"
    /\ deployment = [teeId |-> None, previous |-> <<>>, diamond |-> 0, extension |-> 0]
    /\ evidence = None
    /\ wipes = 0
    /\ retired = [d \in 0..MaxWipe |-> EmptyRegistry.pool]

-----------------------------------------------------------------------------
(* A step of a script: it goes on to the next stage, or the script dies once *)
(* the step has had its effect.                                              *)
At(name, stage) == script.name = name /\ script.stage = stage
Dead == script' = Idle /\ fullSetup' = "none"
Continue(next) == script' = next /\ UNCHANGED fullSetup
Proceed(next) == Continue(next) \/ Dead

(* The scripts of full-setup follow one another; test is optional. *)
Following(name) == CASE name = "pre-build" -> {"start-services"}
                     [] name = "start-services" -> {"post-build"}
                     [] name = "post-build" -> {"test", "complete"}
                     [] name = "test" -> {"complete"}

FirstStage == [name \in {"pre-build", "start-services", "post-build", "test"} |->
    CASE name = "pre-build" -> "deploy" [] name = "start-services" -> "up"
      [] name = "post-build" -> "allow" [] name = "test" -> "setExtensionId"]

(* test.sh takes INSTRUCTION_SENDER from extension.env as it starts. *)
Started(name) == [Idle EXCEPT !.name = name, !.stage = FirstStage[name],
                              !.sender = IF name = "test"
                                         THEN Value(extensionEnv, "INSTRUCTION_SENDER") ELSE 0]

End ==
    IF fullSetup = "running"
    THEN \E next \in Following(script.name) :
           IF next = "complete" THEN script' = Idle /\ fullSetup' = "complete"
                                ELSE script' = Started(next) /\ UNCHANGED fullSetup
    ELSE script' = Idle /\ UNCHANGED fullSetup

(* start-services dies without an EXTENSION_ID, test without a sender or a   *)
(* proxy that answers.                                                       *)
CanRunAlways(name) == TRUE
CanRun(name) ==
    /\ name = "start-services" => Value(extensionEnv, "EXTENSION_ID") # Absent
    /\ name = "test" => Value(extensionEnv, "INSTRUCTION_SENDER") # Absent /\ node # None

(* The operator runs one script, or full-setup. *)
Run(name) ==
    /\ script = Idle
    /\ CanRun(name)
    /\ script' = Started(name)
    /\ fullSetup' \in IF name = "pre-build" THEN {"none", "running"} ELSE {"none"}
    /\ evidence' = None
    /\ UNCHANGED <<registry, senders, extensionEnv, code, node, starts, deployment,
                   wipes, retired>>

Fail ==
    /\ script # Idle
    /\ Dead
    /\ UNCHANGED <<registry, senders, extensionEnv, code, node, starts, deployment,
                   evidence, wipes, retired>>

-----------------------------------------------------------------------------
(* pre-build *)

DeployInstructionSender ==
    /\ At("pre-build", "deploy")
    /\ Len(senders) < MaxSender
    /\ senders' = Append(senders, [diamond |-> wipes, extensionId |-> 0])
    /\ Proceed([script EXCEPT !.stage = "register", !.sender = Len(senders')])
    /\ UNCHANGED <<registry, extensionEnv, code, node, starts, deployment, evidence,
                   wipes, retired>>

AfterRegister == [register |-> "machineOwner", machineOwner |-> "projectOwner",
                  projectOwner |-> "keyType", keyType |-> "write"]

RegisterExtension ==
    /\ At("pre-build", "register")
    /\ OfThisDiamond(script.sender)
    /\ registry.nextId \in Ids
    /\ registry' = [registry EXCEPT !.nextId = @ + 1,
                                    !.senderOf[registry.nextId] = script.sender]
    /\ Proceed([script EXCEPT !.stage = AfterRegister["register"],
                              !.id = registry.nextId])
    /\ UNCHANGED <<senders, extensionEnv, code, node, starts, deployment, evidence,
                   wipes, retired>>

(* A grant is refused unless the extension is the deployer's. *)
Grant ==
    /\ script.name = "pre-build" /\ script.stage \in Grants
    /\ registry.senderOf[script.id] \in Senders
    /\ registry' = [registry EXCEPT !.granted[script.id] = @ \cup {script.stage}]
    /\ Proceed([script EXCEPT !.stage = AfterRegister[script.stage]])
    /\ UNCHANGED <<senders, extensionEnv, code, node, starts, deployment, evidence,
                   wipes, retired>>

EnvFile(id, sender) == [EXTENSION_ID |-> id, INSTRUCTION_SENDER |-> sender]

(* The shell truncates the file and then writes it. *)
WriteConfig ==
    /\ At("pre-build", "write")
    /\ \/ extensionEnv' = EnvFile(script.id, script.sender) /\ End
       \/ extensionEnv' = EnvFile(Absent, Absent) /\ Dead
    /\ UNCHANGED <<registry, senders, code, node, starts, deployment, evidence, wipes, retired>>

-----------------------------------------------------------------------------
(* start-services, stop-services *)

Process(k, id, c) == [key |-> k, extension |-> id, code |-> c]

(* docker compose up recreates a container whose environment or image has    *)
(* changed since.                                                            *)
ContainerUpToDate == node.extension = extensionEnv.EXTENSION_ID /\ node.code = code

(* e2e.sh starts no second process while the first one lives. *)
UpToDateWhileRunning == node # None
UpToDate == node # None /\ (LocalProcess \/ ContainerUpToDate)

StartServices ==
    /\ At("start-services", "up")
    /\ IF UpToDate
       THEN UNCHANGED <<node, starts>>
       ELSE /\ starts < MaxKey
            /\ starts' = starts + 1
            /\ node' = Process(starts', Value(extensionEnv, "EXTENSION_ID"), code)
    /\ End \/ Dead
    /\ UNCHANGED <<registry, senders, extensionEnv, code, deployment, evidence, wipes,
                   retired>>

StopServices ==
    /\ script = Idle
    /\ node # None
    /\ node' = None
    /\ fullSetup' = "none"
    /\ UNCHANGED <<registry, senders, extensionEnv, code, starts, script, deployment,
                   evidence, wipes, retired>>

-----------------------------------------------------------------------------
(* post-build.  Its tools take the extension from the /info of the node. *)

Owned(id) == id \in Ids /\ registry.senderOf[id] \in Senders

AllowTeeVersion ==
    /\ At("post-build", "allow")
    /\ node # None /\ Owned(node.extension)
    /\ registry' = [registry EXCEPT !.versions[node.extension] = @ \cup {node.code}]
    /\ Proceed([script EXCEPT !.stage = "govern"])
    /\ UNCHANGED <<senders, extensionEnv, code, node, starts, deployment, evidence,
                   wipes, retired>>

SetGovernance ==
    /\ At("post-build", "govern")
    /\ node # None /\ Owned(node.extension)
    /\ registry' = [registry EXCEPT !.governed = @ \cup {node.extension}]
    /\ Proceed([script EXCEPT !.stage = "register"])
    /\ UNCHANGED <<senders, extensionEnv, code, node, starts, deployment, evidence,
                   wipes, retired>>

(* The registry registers a machine of an allowed version under a governed   *)
(* extension whose machine owner the deployer is.                            *)
Registrable(n) ==
    /\ n.extension \in Ids
    /\ n.code \in registry.versions[n.extension]
    /\ n.extension \in registry.governed
    /\ "machineOwner" \in registry.granted[n.extension]

RegisterTee ==
    /\ At("post-build", "register")
    /\ node # None /\ Registrable(node)
    /\ registry' = [registry EXCEPT !.pool[node.extension] = @ \cup {node.key}]
    /\ End \/ Dead
    /\ UNCHANGED <<senders, extensionEnv, code, node, starts, deployment, evidence,
                   wipes, retired>>

-----------------------------------------------------------------------------
(* test.sh, that is run-test *)

(* setExtensionId finds the first extension of the contract; that it is set *)
(* already is tolerated.                                                    *)
AnyExtension(s) == {id \in Ids : registry.senderOf[id] # NoSender}
ExtensionsOf(s) == {id \in Ids : registry.senderOf[id] = s}

SetExtensionId ==
    LET s == script.sender IN
    /\ At("test", "setExtensionId")
    /\ s \in DOMAIN senders
    /\ \/ senders[s].extensionId # 0 /\ UNCHANGED senders
       \/ /\ senders[s].extensionId = 0 /\ OfThisDiamond(s)
          /\ \E id \in ExtensionsOf(s) : /\ \A other \in ExtensionsOf(s) : id <= other
                                        /\ senders' = [senders EXCEPT ![s].extensionId = id]
    /\ Proceed([script EXCEPT !.stage = "encrypt"])
    /\ UNCHANGED <<registry, extensionEnv, code, node, starts, deployment, evidence,
                   wipes, retired>>

(* The request is encrypted for the key in the node's /info. *)
EncryptForTEE ==
    /\ At("test", "encrypt")
    /\ node # None
    /\ Continue([script EXCEPT !.stage = "send", !.key = node.key])
    /\ UNCHANGED <<registry, senders, extensionEnv, code, node, starts, deployment,
                   evidence, wipes, retired>>

(* sendEvaluation addresses one machine of the pool, picked at random. *)
SendEvaluation ==
    LET s == script.sender IN
    /\ At("test", "send")
    /\ OfThisDiamond(s) /\ senders[s].extensionId # 0
    /\ \E machine \in registry.pool[senders[s].extensionId] :
         Proceed([script EXCEPT !.stage = "poll", !.target = machine,
                                !.id = senders[s].extensionId, !.diamond = wipes])
    /\ UNCHANGED <<registry, senders, extensionEnv, code, node, starts, deployment,
                   evidence, wipes, retired>>

(* The proxy has results of its own node, which can only evaluate what is    *)
(* encrypted for it; any other status than 1 fails the test.                 *)
StatusOne(n) == n.key = script.key

ActionResult ==
    /\ At("test", "poll")
    /\ node # None /\ node.key = script.target
    /\ StatusOne(node)
    /\ evidence' = [file |-> "fcc-evaluation", diamond |-> script.diamond, signer |-> node.key,
                    encryptedFor |-> script.key, extension |-> script.id,
                    sender |-> script.sender]
    /\ End \/ Dead
    /\ UNCHANGED <<registry, senders, extensionEnv, code, node, starts, deployment,
                   wipes, retired>>

-----------------------------------------------------------------------------
(* pause-stale-fcc-tee.mjs.  It works on the manager and the extension that  *)
(* the deployment record names, though the diamond may have been redeployed  *)
(* since: it reads the pool and the two machines of the record at once,      *)
(* pauses the older one and reads the pool again.  That the deployer owns    *)
(* them and that they are in production is so of every machine in a pool.    *)

PoolOf(diamond, id) == IF diamond = wipes THEN registry.pool[id] ELSE retired[diamond][id]
StaleTee(d) == d.previous[Len(d.previous)]

RunPauseStale ==
    /\ script = Idle
    /\ deployment.previous # <<>>
    /\ {deployment.teeId, StaleTee(deployment)}
          \subseteq PoolOf(deployment.diamond, deployment.extension)
    /\ script' = [Idle EXCEPT !.name = "pause-stale", !.stage = "pause",
                              !.diamond = deployment.diamond, !.id = deployment.extension,
                              !.current = deployment.teeId, !.stale = StaleTee(deployment)]
    /\ fullSetup' = "none"
    /\ evidence' = None
    /\ UNCHANGED <<registry, senders, extensionEnv, code, node, starts, deployment, wipes,
                   retired>>

Without(pool, machine) == [id \in Ids |-> pool[id] \ {machine}]

Pause ==
    /\ At("pause-stale", "pause")
    /\ script.stale \in PoolOf(script.diamond, script.id)
    /\ IF script.diamond = wipes
       THEN /\ registry' = [registry EXCEPT !.pool = Without(@, script.stale)]
            /\ UNCHANGED retired
       ELSE /\ retired' = [retired EXCEPT ![script.diamond] = Without(@, script.stale)]
            /\ UNCHANGED registry
    /\ Proceed([script EXCEPT !.stage = "verify"])
    /\ UNCHANGED <<senders, extensionEnv, code, node, starts, deployment, evidence, wipes>>

VerifyPool ==
    LET pool == PoolOf(script.diamond, script.id) IN
    /\ At("pause-stale", "verify")
    /\ script.current \in pool /\ script.stale \notin pool
    /\ evidence' = [file |-> "fcc-stale-tee-pause", diamond |-> script.diamond,
                    extension |-> script.id, current |-> script.current,
                    stale |-> script.stale]
    /\ Dead
    /\ UNCHANGED <<registry, senders, extensionEnv, code, node, starts, deployment, wipes,
                   retired>>

-----------------------------------------------------------------------------
(* What the operator does by hand, and what happens around the scripts. *)

(* The deployment record is brought up to date with the running machine, its *)
(* extension and its manager; the machine it named joins the previous ones.  *)
RecordDeployment ==
    /\ script = Idle
    /\ node # None /\ node.extension \in Ids
    /\ node.key \in registry.pool[node.extension] /\ node.key # deployment.teeId
    /\ deployment' = [teeId |-> node.key,
                      previous |-> IF deployment.teeId = None THEN <<>>
                                   ELSE Append(deployment.previous, deployment.teeId),
                      diamond |-> wipes, extension |-> node.extension]
    /\ UNCHANGED <<registry, senders, extensionEnv, code, node, starts, script, fullSetup,
                   evidence, wipes, retired>>

ChangeExtension ==
    /\ code < MaxCode
    /\ code' = code + 1
    /\ UNCHANGED <<registry, senders, extensionEnv, node, starts, script, fullSetup,
                   deployment, evidence, wipes, retired>>

(* testing/shared/scenarios/edgecase-scenarios.md, S2-stale-extension-id. *)
EditConfig ==
    /\ script = Idle
    /\ extensionEnv # NoFile
    /\ \E id \in Ids \cup {Malformed} : extensionEnv' = [extensionEnv EXCEPT !.EXTENSION_ID = id]
    /\ fullSetup' = "none"
    /\ UNCHANGED <<registry, senders, code, node, starts, script, deployment, evidence,
                   wipes, retired>>

NodeCrash ==
    /\ node # None
    /\ node' = None
    /\ UNCHANGED <<registry, senders, extensionEnv, code, starts, script, fullSetup,
                   deployment, evidence, wipes, retired>>

OthersRegister ==
    /\ registry.nextId \in Ids
    /\ registry' = [registry EXCEPT !.nextId = @ + 1, !.senderOf[registry.nextId] = Foreign]
    /\ UNCHANGED <<senders, extensionEnv, code, node, starts, script, fullSetup,
                   deployment, evidence, wipes, retired>>

(* The scripts of a full-setup that lives through this count as run one by one. *)
RedeployDiamond ==
    /\ wipes < MaxWipe
    /\ wipes' = wipes + 1
    /\ registry' = EmptyRegistry
    /\ retired' = [retired EXCEPT ![wipes] = registry.pool]
    /\ fullSetup' = "none"
    /\ UNCHANGED <<senders, extensionEnv, code, node, starts, script, deployment, evidence>>

ScriptStep ==
    \/ \E name \in DOMAIN FirstStage : Run(name)
    \/ DeployInstructionSender \/ RegisterExtension \/ Grant \/ WriteConfig
    \/ StartServices
    \/ AllowTeeVersion \/ SetGovernance \/ RegisterTee
    \/ SetExtensionId \/ EncryptForTEE \/ SendEvaluation \/ ActionResult
    \/ RunPauseStale \/ Pause \/ VerifyPool
    \/ Fail

EnvironmentStep ==
    \/ StopServices \/ RecordDeployment \/ ChangeExtension \/ EditConfig
    \/ NodeCrash \/ OthersRegister \/ RedeployDiamond

Next == ScriptStep \/ EnvironmentStep

Spec == Init /\ [][Next]_vars

-----------------------------------------------------------------------------
(* The registry and the retired ones, the files, the node and the script     *)
(* hold values of their shapes.                                              *)
TypeOK ==
    /\ registry.nextId \in FirstId..(MaxId + 1)
    /\ registry.senderOf \in [Ids -> Senders \cup {Foreign, NoSender}]
    /\ registry.granted \in [Ids -> SUBSET Grants]
    /\ registry.versions \in [Ids -> SUBSET Codes]
    /\ registry.governed \subseteq Ids
    /\ registry.pool \in [Ids -> SUBSET Keys]
    /\ senders \in Seq([diamond : 0..MaxWipe, extensionId : Ids \cup {0}])
    /\ extensionEnv \in EnvFiles \cup {NoFile}
    /\ node # None => node \in [key : Keys, extension : Ids \cup {Malformed}, code : Codes]
    /\ starts \in 0..MaxKey /\ code \in Codes /\ wipes \in 0..MaxWipe
    /\ script \in Scripts /\ fullSetup \in {"none", "running", "complete"}
    /\ deployment \in Deployments
    /\ retired \in [0..MaxWipe -> [Ids -> SUBSET Keys]]

(* "Full setup complete" (full-setup.sh): the node, unless it has crashed    *)
(* since, is in the active pool of the extension that config/extension.env   *)
(* names, that extension is of the instruction sender named beside it and    *)
(* carries every grant, and the node's version is allowed.  post-build takes *)
(* the extension from the node, test the sender from the file: they agree    *)
(* only because start-services replaced a node of an earlier extension.      *)
CompleteSetupServes == fullSetup = "complete" =>
    LET id == extensionEnv.EXTENSION_ID IN
    /\ registry.senderOf[id] = extensionEnv.INSTRUCTION_SENDER
    /\ registry.granted[id] = Grants
    /\ node # None => /\ node.key \in registry.pool[id]
                      /\ node.code \in registry.versions[id]

(* What a script puts on record is so.  An evaluation, until the diamond is  *)
(* redeployed, was signed by a machine that could read the request and is    *)
(* active under the extension of the sender the instruction was sent through *)
(* though the steps of the test read the pool, the key and the answer at     *)
(* different times.  A pause has taken the stale machine out of the pool of  *)
(* the extension and manager in the deployment record and left the current   *)
(* one in it, whether or not that manager has been replaced meanwhile; other *)
(* machines may be in the pool too.                                          *)
EvidenceSound == evidence # None =>
    IF evidence.file = "fcc-evaluation"
    THEN evidence.diamond = wipes =>
           /\ evidence.signer = evidence.encryptedFor
           /\ evidence.signer \in registry.pool[evidence.extension]
           /\ registry.senderOf[evidence.extension] = evidence.sender
    ELSE /\ evidence.current \in PoolOf(evidence.diamond, evidence.extension)
         /\ evidence.stale \notin PoolOf(evidence.diamond, evidence.extension)

(* An "all" report of verify-deploy exits with 0 just when the extension of  *)
(* config/extension.env is registered to the instruction sender named beside *)
(* it, with its owner and its key type, the diamond is the one of the chain  *)
(* and the deployer can pay: a half-written or edited file, a half-finished  *)
(* registration and a wiped registry all show.  (The operator asks between   *)
(* scripts; one that dies leaves the file and the registry as they are.)     *)
ReportVerdict == script = Idle => \A e \in Invocations :
    Succeeds("all", {}, e, extensionEnv, registry) <=>
        /\ e.chainUp /\ e.answers /\ e.funded /\ e.manager = "diamond"
        /\ e.config => /\ extensionEnv # NoFile
                       /\ extensionEnv.EXTENSION_ID \in Ids
                       /\ extensionEnv.INSTRUCTION_SENDER \in Senders
                       /\ registry.senderOf[extensionEnv.EXTENSION_ID]
                            = extensionEnv.INSTRUCTION_SENDER
                       /\ {"machineOwner", "keyType"}
                            \subseteq registry.granted[extensionEnv.EXTENSION_ID]
=============================================================================
