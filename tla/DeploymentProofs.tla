--------------------------- MODULE DeploymentProofs ---------------------------
(***************************************************************************)
(* Proofs about Deployment for any number of extensions, instruction       *)
(* senders, starts of the node and redeployments of the diamond, and about *)
(* the report of DeployChecks for every invocation of verify-deploy.       *)
(***************************************************************************)
EXTENDS Deployment, TLAPS

Registries == [nextId : FirstId..(MaxId + 1), senderOf : [Ids -> Senders \cup {Foreign, NoSender}],
               granted : [Ids -> SUBSET Grants], versions : [Ids -> SUBSET Codes],
               governed : SUBSET Ids, pool : [Ids -> SUBSET Keys]]
Nodes == [key : Keys, extension : Ids \cup {Malformed}, code : Codes]
SenderStates == [diamond : 0..MaxWipe, extensionId : Ids \cup {0}]

Shapes ==
    /\ registry \in Registries
    /\ senders \in Seq(SenderStates) /\ Len(senders) <= MaxSender
    /\ extensionEnv \in EnvFiles \cup {NoFile}
    /\ node \in Nodes \cup {None}
    /\ starts \in 0..MaxKey /\ code \in Codes /\ wipes \in 0..MaxWipe
    /\ script \in Scripts
    /\ fullSetup \in {"none", "running", "complete"}
    /\ deployment \in Deployments /\ deployment.diamond <= wipes
    /\ script.name = "pause-stale" => script.diamond <= wipes
    /\ retired \in [0..MaxWipe -> [Ids -> SUBSET Keys]]

(* The registry numbers extensions one after the other. *)
RegistryInv == \A id \in Ids : id >= registry.nextId => registry.senderOf[id] = NoSender

(* The extension an instruction sender has been told is its own, unless the *)
(* diamond it was told by is gone.                                          *)
SendersInv == \A s \in DOMAIN senders :
    /\ senders[s].diamond <= wipes
    /\ senders[s].diamond = wipes /\ senders[s].extensionId # 0 =>
         registry.senderOf[senders[s].extensionId] = s

(* A full setup runs its scripts only. *)
PhaseInv ==
    /\ fullSetup = "running" =>
         script.name \in {"pre-build", "start-services", "post-build", "test"}
    /\ fullSetup = "complete" => script.name = "idle"

(* pre-build carries the sender and the extension it has registered. *)
GrantedBefore(stage) ==
    {g \in Grants : \/ stage = "write"
                    \/ stage = "projectOwner" /\ g = "machineOwner"
                    \/ stage = "keyType" /\ g # "keyType"}
PreBuildInv == script.name = "pre-build" =>
    /\ script.stage \in {"deploy", "register", "write"} \cup Grants
    /\ script.stage # "deploy" => script.sender \in DOMAIN senders
    /\ script.stage \in Grants \cup {"write"} =>
         /\ script.id \in Ids
         /\ fullSetup = "running" =>
              /\ registry.senderOf[script.id] = script.sender
              /\ GrantedBefore(script.stage) \subseteq registry.granted[script.id]

StartInv == script.name = "start-services" =>
    Value(extensionEnv, "EXTENSION_ID") \in Ids \cup {Malformed}

(* config/extension.env names an extension and its sender. *)
FileServes ==
    /\ extensionEnv.EXTENSION_ID \in Ids /\ extensionEnv.INSTRUCTION_SENDER \in Senders
    /\ registry.senderOf[extensionEnv.EXTENSION_ID] = extensionEnv.INSTRUCTION_SENDER
    /\ registry.granted[extensionEnv.EXTENSION_ID] = Grants
FileInv ==
    (\/ fullSetup = "running" /\ script.name \in {"start-services", "post-build", "test"}
     \/ fullSetup = "complete") => FileServes

(* From post-build on, a node in a container is one of that extension. *)
NodeInv == node # None /\ ~LocalProcess =>
    /\ (\/ fullSetup = "running" /\ script.name \in {"post-build", "test"}
        \/ fullSetup = "complete") => node.extension = extensionEnv.EXTENSION_ID
    /\ (\/ fullSetup = "running" /\ script.name = "post-build" /\ script.stage # "allow"
        \/ fullSetup = "running" /\ script.name = "test"
        \/ fullSetup = "complete") => node.code \in registry.versions[node.extension]
    /\ (\/ fullSetup = "running" /\ script.name = "test"
        \/ fullSetup = "complete") => node.key \in registry.pool[node.extension]

(* The machine a test has addressed. *)
TestInv == script.name = "test" /\ script.stage = "poll" =>
    /\ script.diamond <= wipes
    /\ script.diamond = wipes =>
         /\ script.id \in Ids /\ script.sender \in Senders
         /\ script.target \in registry.pool[script.id]
         /\ registry.senderOf[script.id] = script.sender

(* A record is the last thing a script does. *)
EvidenceInv == evidence # None =>
    /\ script.name = "idle" /\ evidence.diamond \in 0..wipes /\ EvidenceSound
    /\ evidence.file = "fcc-evaluation" /\ evidence.diamond = wipes =>
         evidence.extension \in Ids /\ evidence.sender \in Senders

IInv == /\ Shapes /\ RegistryInv /\ SendersInv /\ PhaseInv /\ PreBuildInv /\ StartInv
        /\ FileInv /\ NodeInv /\ TestInv /\ EvidenceInv

-----------------------------------------------------------------------------
(* Constants and values.                                                   *)

LEMMA Numbers ==
    /\ Senders \subseteq Nat /\ Ids \subseteq Nat /\ Keys \subseteq Nat /\ Codes \subseteq Nat
    /\ 0 \notin Ids /\ 0 \notin Senders /\ FirstId \in Ids
    /\ NoSender \notin Senders /\ NoSender # Foreign /\ Foreign \notin Senders
    /\ Absent \notin Ids /\ Malformed \notin Ids
    /\ Absent \notin Senders /\ Malformed \notin Senders
    /\ None \notin Keys /\ Absent # Malformed
BY DeploymentAssumption, DeployChecksAssumption DEF Senders, Ids, Keys, Codes, Foreign

LEMMA ScriptFields ==
    ASSUME NEW s \in Scripts
    PROVE  /\ s.name \in ScriptNames /\ s.stage \in Stages
           /\ s.sender \in Senders \cup {0, Absent} /\ s.id \in Ids \cup {0}
           /\ s.key \in Keys \cup {None} /\ s.target \in Keys \cup {None}
           /\ s.diamond \in 0..MaxWipe
           /\ s.current \in Keys \cup {None} /\ s.stale \in Keys \cup {None}
BY DEF Scripts

LEMMA IdleScript == Idle \in Scripts /\ Idle.name = "idle"
BY DeploymentAssumption DEF Idle, Scripts, ScriptNames, Stages

LEMMA FileValues ==
    ASSUME Shapes
    PROVE  /\ Value(extensionEnv, "EXTENSION_ID") \in Ids \cup {Absent, Malformed}
           /\ Value(extensionEnv, "INSTRUCTION_SENDER") \in Senders \cup {Absent}
BY DEF Shapes, EnvFiles, Value

LEMMA StartedScript ==
    ASSUME Shapes, NEW name \in {"pre-build", "start-services", "post-build", "test"}
    PROVE  /\ Started(name) \in Scripts /\ Started(name).name = name
           /\ Started(name).stage = FirstStage[name]
<1>1. /\ FirstStage["pre-build"] = "deploy" /\ FirstStage["start-services"] = "up"
      /\ FirstStage["post-build"] = "allow" /\ FirstStage["test"] = "setExtensionId"
    BY DEF FirstStage
<1>2. FirstStage[name] \in Stages
    BY <1>1 DEF Stages
<1>3. Value(extensionEnv, "INSTRUCTION_SENDER") \in Senders \cup {0, Absent}
    BY FileValues
<1>4. PICK s \in Senders \cup {0, Absent} :
        Started(name) = [Idle EXCEPT !.name = name, !.stage = FirstStage[name], !.sender = s]
    BY <1>3 DEF Started
<1>5. name \in ScriptNames
    BY DEF ScriptNames
<1>6. QED  BY <1>2, <1>4, <1>5, IdleScript DEF Scripts

LEMMA FirstStages ==
    /\ FirstStage["pre-build"] = "deploy" /\ FirstStage["start-services"] = "up"
    /\ FirstStage["post-build"] = "allow" /\ FirstStage["test"] = "setExtensionId"
    /\ DOMAIN FirstStage = {"pre-build", "start-services", "post-build", "test"}
BY DEF FirstStage

LEMMA SendersInRange ==
    ASSUME Shapes
    PROVE  /\ DOMAIN senders \subseteq Senders /\ DOMAIN senders = 1..Len(senders)
           /\ Len(senders) \in Nat
           /\ \A s \in DOMAIN senders : senders[s] \in SenderStates
BY DeploymentAssumption DEF Shapes, Senders

-----------------------------------------------------------------------------
(* Steps.                                                                  *)

(* Where the scripts of full-setup end. *)
LEMMA EndEffect ==
    ASSUME Shapes, PhaseInv, End,
           script.name \in {"pre-build", "start-services", "post-build", "test"}
    PROVE  \/ script' = Idle /\ fullSetup' = "none"
           \/ /\ fullSetup = "running" /\ fullSetup' = "running"
              /\ \/ script.name = "pre-build" /\ script' = Started("start-services")
                 \/ script.name = "start-services" /\ script' = Started("post-build")
                 \/ script.name = "post-build" /\ script' = Started("test")
           \/ /\ fullSetup = "running" /\ fullSetup' = "complete" /\ script' = Idle
              /\ script.name \in {"post-build", "test"}
<1>1. fullSetup \in {"none", "running"}
    BY DEF Shapes, PhaseInv
<1>2. CASE fullSetup = "none"
    BY <1>2 DEF End
<1>3. CASE fullSetup = "running"
  <2>1. PICK next \in Following(script.name) :
          IF next = "complete" THEN script' = Idle /\ fullSetup' = "complete"
                               ELSE script' = Started(next) /\ UNCHANGED fullSetup
      BY <1>3 DEF End
  <2>2. \/ script.name = "pre-build" /\ next = "start-services"
        \/ script.name = "start-services" /\ next = "post-build"
        \/ script.name = "post-build" /\ next \in {"test", "complete"}
        \/ script.name = "test" /\ next = "complete"
      BY DEF Following
  <2>3. QED  BY <1>3, <2>1, <2>2
<1>4. QED  BY <1>1, <1>2, <1>3

(* Between scripts, and outside a full setup, nothing is promised of them. *)
LEMMA IdleInv ==
    ASSUME Shapes', RegistryInv', SendersInv', EvidenceInv',
           script' = Idle, fullSetup' = "none"
    PROVE  IInv'
<1>1. script'.name = "idle"
    BY IdleScript
<1>2. PhaseInv' /\ PreBuildInv' /\ StartInv' /\ FileInv' /\ NodeInv' /\ TestInv'
    BY <1>1 DEF PhaseInv, PreBuildInv, StartInv, FileInv, NodeInv, TestInv
<1>3. QED  BY <1>2 DEF IInv

(* Registrations leave the extensions there are, and the pool, alone. *)
Grows == \A id \in Ids :
    /\ registry.senderOf[id] # NoSender => registry'.senderOf[id] = registry.senderOf[id]
    /\ registry.granted[id] \subseteq registry'.granted[id]
    /\ registry.versions[id] \subseteq registry'.versions[id]
    /\ registry.pool[id] \subseteq registry'.pool[id]

LEMMA GrowsKeepsSenders ==
    ASSUME Shapes, SendersInv, Grows, UNCHANGED <<senders, wipes>>
    PROVE  SendersInv'
<1> SUFFICES ASSUME NEW s \in DOMAIN senders, senders[s].diamond = wipes,
                    senders[s].extensionId # 0
             PROVE  registry'.senderOf[senders[s].extensionId] = s
    BY DEF SendersInv
<1>1. senders[s].extensionId \in Ids /\ registry.senderOf[senders[s].extensionId] = s
    BY SendersInRange DEF SendersInv, SenderStates
<1>2. s # NoSender
    BY SendersInRange, Numbers
<1>3. QED  BY <1>1, <1>2 DEF Grows

(* No record outlives the start of a script. *)
LEMMA NoEvidence ==
    ASSUME EvidenceInv, script.name # "idle", UNCHANGED evidence
    PROVE  EvidenceInv'
BY DEF EvidenceInv

-----------------------------------------------------------------------------
(* pre-build                                                               *)

LEMMA PreBuildGoesOn ==
    ASSUME IInv, Shapes', RegistryInv', SendersInv', EvidenceInv', PreBuildInv',
           script.name = "pre-build", script'.name = "pre-build", UNCHANGED fullSetup
    PROVE  IInv'
<1>1. fullSetup # "complete"
    BY DEF IInv, PhaseInv
<1>2. PhaseInv' /\ StartInv' /\ FileInv' /\ NodeInv' /\ TestInv'
    BY <1>1 DEF PhaseInv, StartInv, FileInv, NodeInv, TestInv
<1>3. QED  BY <1>2 DEF IInv

LEMMA DeployInstructionSenderInv ==
    ASSUME IInv, DeployInstructionSender
    PROVE  IInv'
<1> DEFINE new == [diamond |-> wipes, extensionId |-> 0]
           next == [script EXCEPT !.stage = "register", !.sender = Len(senders')]
<1>1. /\ script.name = "pre-build" /\ script.stage = "deploy"
      /\ Len(senders) < MaxSender /\ senders' = Append(senders, new)
      /\ Dead \/ Continue(next)
      /\ UNCHANGED <<registry, extensionEnv, code, node, starts, deployment, evidence,
                     wipes, retired>>
    BY DEF DeployInstructionSender, At, Proceed
<1>2. Shapes /\ script \in Scripts /\ wipes \in 0..MaxWipe /\ senders \in Seq(SenderStates)
    BY DEF IInv, Shapes
<1>3. new \in SenderStates
    BY <1>2 DEF SenderStates
<1>4. new.diamond = wipes /\ new.extensionId = 0
    OBVIOUS
<1> HIDE DEF new
<1>5. /\ senders' \in Seq(SenderStates) /\ Len(senders') = Len(senders) + 1
      /\ Len(senders) \in Nat /\ DOMAIN senders' = 1..Len(senders')
      /\ \A s \in DOMAIN senders' :
            senders'[s] = new \/ (s \in DOMAIN senders /\ senders'[s] = senders[s])
  <2>1. senders' \in Seq(SenderStates) /\ Len(senders') = Len(senders) + 1
      BY <1>1, <1>2, <1>3
  <2>2. Len(senders) \in Nat /\ DOMAIN senders = 1..Len(senders)
      BY <1>2
  <2>3. DOMAIN senders' = 1..Len(senders')
      BY <2>1
  <2>4. ASSUME NEW s \in DOMAIN senders'
        PROVE  senders'[s] = new \/ (s \in DOMAIN senders /\ senders'[s] = senders[s])
    <3>1. s \in 1..(Len(senders) + 1)
        BY <2>1, <2>3
    <3>2. CASE s = Len(senders) + 1
        BY <1>1, <1>2, <1>3, <3>2
    <3>3. CASE s # Len(senders) + 1
      <4>1. s \in 1..Len(senders)
          BY <2>2, <3>1, <3>3
      <4>2. QED  BY <1>1, <1>2, <1>3, <2>2, <4>1
    <3>4. QED  BY <3>2, <3>3
  <2>5. QED  BY <2>1, <2>2, <2>3, <2>4
<1>6. Len(senders') \in Senders /\ Len(senders') <= MaxSender /\ Len(senders') \in DOMAIN senders'
    BY <1>1, <1>5, DeploymentAssumption DEF Senders
<1>7. SendersInv'
  <2> SUFFICES ASSUME NEW s \in DOMAIN senders'
               PROVE  /\ senders'[s].diamond <= wipes
                      /\ senders'[s].diamond = wipes /\ senders'[s].extensionId # 0 =>
                           registry.senderOf[senders'[s].extensionId] = s
      BY <1>1 DEF SendersInv
  <2>1. CASE senders'[s] = new
      BY <1>2, <1>4, <2>1
  <2>2. CASE s \in DOMAIN senders /\ senders'[s] = senders[s]
      BY <2>2 DEF IInv, SendersInv
  <2>3. QED  BY <1>5, <2>1, <2>2
<1>8. RegistryInv' /\ EvidenceInv'
    BY <1>1, NoEvidence DEF IInv, RegistryInv
<1>9. CASE Dead
  <2>1. Shapes'
      BY <1>1, <1>2, <1>5, <1>6, <1>9, IdleScript DEF Shapes, Dead
  <2>2. QED  BY <1>7, <1>8, <1>9, <2>1, IdleInv DEF Dead
<1>10. CASE Continue(next)
  <2>1. /\ script' \in Scripts /\ script'.name = "pre-build" /\ script'.stage = "register"
        /\ script'.sender = Len(senders') /\ UNCHANGED fullSetup
      BY <1>1, <1>2, <1>6, <1>10 DEF Continue, Scripts, Stages
  <2>2. Shapes'
      BY <1>1, <1>2, <1>5, <1>6, <2>1 DEF Shapes
  <2>3. PreBuildInv'
      BY <1>6, <2>1 DEF PreBuildInv, Grants
  <2>4. QED  BY <1>1, <1>7, <1>8, <2>1, <2>2, <2>3, PreBuildGoesOn
<1>11. QED  BY <1>1, <1>9, <1>10

(* A registration, by the deployer or by another developer. *)
LEMMA RegistrationEffect ==
    ASSUME IInv, NEW id \in Ids, id = registry.nextId, NEW s \in Senders \cup {Foreign},
           registry' = [registry EXCEPT !.nextId = @ + 1, !.senderOf[registry.nextId] = s]
    PROVE  /\ registry' \in Registries /\ RegistryInv' /\ Grows
           /\ registry'.senderOf[id] = s
           /\ UNCHANGED <<registry.granted, registry.versions, registry.pool>>
<1>1. /\ registry \in Registries
      /\ \A i \in Ids : i >= registry.nextId => registry.senderOf[i] = NoSender
    BY DEF IInv, Shapes, RegistryInv
<1>2. registry.senderOf \in [Ids -> Senders \cup {Foreign, NoSender}]
    BY <1>1 DEF Registries
<1>3. /\ registry'.nextId = id + 1 /\ registry'.senderOf = [registry.senderOf EXCEPT ![id] = s]
      /\ registry' = [registry EXCEPT !.nextId = id + 1,
                                      !.senderOf = [registry.senderOf EXCEPT ![id] = s]]
      /\ UNCHANGED <<registry.granted, registry.versions, registry.pool>>
    BY <1>1 DEF Registries
<1>4. id + 1 \in FirstId..(MaxId + 1)
    BY DeploymentAssumption, DeployChecksAssumption DEF Ids
<1>5. [registry.senderOf EXCEPT ![id] = s] \in [Ids -> Senders \cup {Foreign, NoSender}]
    BY <1>2
<1>6. registry' \in Registries
    BY <1>1, <1>3, <1>4, <1>5 DEF Registries
<1>7. registry'.senderOf[id] = s
      /\ \A i \in Ids : i # id => registry'.senderOf[i] = registry.senderOf[i]
    BY <1>2, <1>3
<1>8. RegistryInv'
  <2> SUFFICES ASSUME NEW i \in Ids, i >= registry'.nextId PROVE registry'.senderOf[i] = NoSender
      BY DEF RegistryInv
  <2>1. i # id /\ i >= registry.nextId
      BY <1>3, Numbers
  <2>2. QED  BY <1>1, <1>7, <2>1
<1>9. registry.senderOf[id] = NoSender
    BY <1>1, Numbers
<1>10. Grows
    BY <1>3, <1>7, <1>9 DEF Grows
<1>11. QED  BY <1>3, <1>6, <1>7, <1>8, <1>10

LEMMA RegisterExtensionInv ==
    ASSUME IInv, RegisterExtension
    PROVE  IInv'
<1> DEFINE next == [script EXCEPT !.stage = AfterRegister["register"], !.id = registry.nextId]
<1>1. /\ script.name = "pre-build" /\ script.stage = "register"
      /\ script.sender \in DOMAIN senders /\ registry.nextId \in Ids
      /\ registry' = [registry EXCEPT !.nextId = @ + 1,
                                      !.senderOf[registry.nextId] = script.sender]
      /\ Dead \/ Continue(next)
      /\ UNCHANGED <<senders, extensionEnv, code, node, starts, deployment, evidence,
                     wipes, retired>>
    BY DEF RegisterExtension, At, Proceed, OfThisDiamond
<1>2. Shapes /\ script \in Scripts
    BY DEF IInv, Shapes
<1>3. PICK id \in Ids, s \in Senders \cup {Foreign} : id = registry.nextId /\ s = script.sender
    BY <1>1, <1>2, SendersInRange
<1>4. registry' \in Registries /\ RegistryInv' /\ Grows /\ registry'.senderOf[id] = s
    BY <1>1, <1>3, RegistrationEffect
<1>5. SendersInv' /\ EvidenceInv'
    BY <1>1, <1>2, <1>4, GrowsKeepsSenders, NoEvidence DEF IInv
<1>6. CASE Dead
  <2>1. Shapes'
      BY <1>1, <1>2, <1>4, <1>6, IdleScript DEF Shapes, Dead
  <2>2. QED  BY <1>4, <1>5, <1>6, <2>1, IdleInv DEF Dead
<1>7. CASE Continue(next)
  <2>1. AfterRegister["register"] = "machineOwner"
      BY DEF AfterRegister
  <2>2. /\ script' \in Scripts /\ script'.name = "pre-build" /\ script'.stage = "machineOwner"
        /\ script'.sender = s /\ script'.id = id /\ UNCHANGED fullSetup
      BY <1>1, <1>2, <1>3, <1>7, <2>1 DEF Continue, Scripts, Stages
  <2>3. Shapes'
      BY <1>1, <1>2, <1>4, <2>2 DEF Shapes
  <2>4. PreBuildInv'
    <3>1. GrantedBefore("machineOwner") = {}
        BY DEF GrantedBefore
    <3>2. GrantedBefore(script'.stage) = {}
        BY <2>2, <3>1
    <3>3. QED  BY <1>1, <1>3, <1>4, <2>2, <3>2 DEF PreBuildInv, Grants
  <2>5. QED  BY <1>1, <1>4, <1>5, <2>2, <2>3, <2>4, PreBuildGoesOn
<1>8. QED  BY <1>1, <1>6, <1>7

(* The deployer is granted, or allows, something under an extension. *)
LEMMA GrantEffect ==
    ASSUME IInv, NEW id \in Ids, NEW g \in Grants,
           registry' = [registry EXCEPT !.granted[id] = @ \cup {g}]
    PROVE  /\ registry' \in Registries /\ RegistryInv' /\ Grows
           /\ registry'.granted[id] = registry.granted[id] \cup {g}
           /\ UNCHANGED <<registry.senderOf, registry.nextId, registry.versions, registry.pool>>
<1>1. registry \in Registries /\ RegistryInv
    BY DEF IInv, Shapes
<1>2. registry.granted \in [Ids -> SUBSET Grants]
    BY <1>1 DEF Registries
<1> DEFINE granted == [registry.granted EXCEPT ![id] = registry.granted[id] \cup {g}]
<1>3. granted \in [Ids -> SUBSET Grants]
    BY <1>2
<1>4. registry' = [registry EXCEPT !.granted = granted]
    OBVIOUS
<1>5. /\ granted[id] = registry.granted[id] \cup {g}
      /\ \A i \in Ids : registry.granted[i] \subseteq granted[i]
    BY <1>2
<1> HIDE DEF granted
<1>6. /\ registry'.granted = granted
      /\ UNCHANGED <<registry.senderOf, registry.nextId, registry.versions, registry.pool>>
    BY <1>1, <1>4 DEF Registries
<1>7. registry' \in Registries
    BY <1>1, <1>3, <1>4 DEF Registries
<1>8. RegistryInv' /\ Grows
    BY <1>1, <1>5, <1>6 DEF RegistryInv, Grows
<1>9. QED  BY <1>5, <1>6, <1>7, <1>8

LEMMA GrantInv ==
    ASSUME IInv, Grant
    PROVE  IInv'
<1> DEFINE next == [script EXCEPT !.stage = AfterRegister[script.stage]]
<1>1. /\ script.name = "pre-build" /\ script.stage \in Grants
      /\ registry' = [registry EXCEPT !.granted[script.id] = @ \cup {script.stage}]
      /\ Dead \/ Continue(next)
      /\ UNCHANGED <<senders, extensionEnv, code, node, starts, deployment, evidence,
                     wipes, retired>>
    BY DEF Grant, Proceed
<1>2. Shapes /\ script \in Scripts
    BY DEF IInv, Shapes
<1>3. /\ script.id \in Ids /\ script.sender \in DOMAIN senders
      /\ fullSetup = "running" =>
           /\ registry.senderOf[script.id] = script.sender
           /\ GrantedBefore(script.stage) \subseteq registry.granted[script.id]
    BY <1>1 DEF IInv, PreBuildInv, Grants
<1>4. PICK id \in Ids, g \in Grants : id = script.id /\ g = script.stage
    BY <1>1, <1>3
<1>5. /\ registry' \in Registries /\ RegistryInv' /\ Grows
      /\ registry'.granted[id] = registry.granted[id] \cup {g}
      /\ UNCHANGED <<registry.senderOf, registry.nextId, registry.versions, registry.pool>>
    BY <1>1, <1>4, GrantEffect
<1>6. SendersInv' /\ EvidenceInv'
    BY <1>1, <1>2, <1>5, GrowsKeepsSenders, NoEvidence DEF IInv
<1>7. CASE Dead
  <2>1. Shapes'
      BY <1>1, <1>2, <1>5, <1>7, IdleScript DEF Shapes, Dead
  <2>2. QED  BY <1>5, <1>6, <1>7, <2>1, IdleInv DEF Dead
<1>8. CASE Continue(next)
  <2>1. PICK s \in {"projectOwner", "keyType", "write"} :
          /\ s = AfterRegister[g]
          /\ GrantedBefore(s) \subseteq GrantedBefore(g) \cup {g}
    <3>1. /\ AfterRegister["machineOwner"] = "projectOwner"
          /\ AfterRegister["projectOwner"] = "keyType" /\ AfterRegister["keyType"] = "write"
        BY DEF AfterRegister
    <3>2. /\ GrantedBefore("projectOwner") \subseteq {"machineOwner"}
          /\ GrantedBefore("keyType") \subseteq GrantedBefore("projectOwner") \cup {"projectOwner"}
          /\ GrantedBefore("write") \subseteq GrantedBefore("keyType") \cup {"keyType"}
        BY DEF GrantedBefore, Grants
    <3>3. QED  BY <3>1, <3>2 DEF Grants
  <2>2. /\ script' \in Scripts /\ script'.name = "pre-build" /\ script'.stage = s
        /\ script'.sender = script.sender /\ script'.id = id /\ UNCHANGED fullSetup
      BY <1>1, <1>2, <1>4, <1>8, <2>1 DEF Continue, Scripts, Stages
  <2>3. Shapes'
      BY <1>1, <1>2, <1>5, <2>2 DEF Shapes
  <2>4. fullSetup = "running" =>
          /\ registry'.senderOf[id] = script.sender
          /\ GrantedBefore(s) \subseteq registry'.granted[id]
      BY <1>3, <1>4, <1>5, <2>1
  <2>5. PreBuildInv'
    <3>1. GrantedBefore(script'.stage) = GrantedBefore(s)
        BY <2>2
    <3>2. s \in {"deploy", "register", "write"} \cup Grants
        BY DEF Grants
    <3>3. QED  BY <1>1, <1>3, <2>2, <2>4, <3>1, <3>2 DEF PreBuildInv
  <2>6. QED  BY <1>1, <1>5, <1>6, <2>2, <2>3, <2>5, PreBuildGoesOn
<1>9. QED  BY <1>1, <1>7, <1>8

LEMMA WriteConfigInv ==
    ASSUME IInv, WriteConfig
    PROVE  IInv'
<1>1. /\ script.name = "pre-build" /\ script.stage = "write"
      /\ \/ extensionEnv' = EnvFile(script.id, script.sender) /\ End
         \/ extensionEnv' = EnvFile(Absent, Absent) /\ Dead
      /\ UNCHANGED <<registry, senders, code, node, starts, deployment, evidence,
                     wipes, retired>>
    BY DEF WriteConfig, At
<1>2. Shapes /\ PhaseInv /\ RegistryInv /\ SendersInv
    BY DEF IInv
<1>3. /\ script.id \in Ids /\ script.sender \in Senders
      /\ fullSetup = "running" =>
           /\ registry.senderOf[script.id] = script.sender
           /\ Grants \subseteq registry.granted[script.id]
  <2>1. GrantedBefore("write") = Grants
      BY DEF GrantedBefore
  <2>2. GrantedBefore(script.stage) = Grants
      BY <1>1, <2>1
  <2>3. QED  BY <1>1, <1>2, <2>2, SendersInRange DEF IInv, PreBuildInv
<1>4. RegistryInv' /\ SendersInv' /\ EvidenceInv'
    BY <1>1, <1>2, NoEvidence DEF IInv, RegistryInv, SendersInv
<1>5. extensionEnv' \in EnvFiles
    BY <1>1, <1>3 DEF EnvFile, EnvFiles
<1>6. CASE script' = Idle /\ fullSetup' = "none"
  <2>1. Shapes'
      BY <1>1, <1>2, <1>5, <1>6, IdleScript DEF Shapes
  <2>2. QED  BY <1>4, <1>6, <2>1, IdleInv
<1>7. CASE End /\ ~(script' = Idle /\ fullSetup' = "none")
           /\ extensionEnv' = EnvFile(script.id, script.sender)
  <2>1. /\ fullSetup = "running" /\ fullSetup' = "running"
        /\ script' = Started("start-services")
      BY <1>1, <1>2, <1>7, EndEffect
  <2>2. /\ script' \in Scripts /\ script'.name = "start-services"
      BY <1>2, <2>1, StartedScript
  <2>3. Shapes'
      BY <1>1, <1>2, <1>5, <2>1, <2>2 DEF Shapes
  <2>4. /\ extensionEnv'.EXTENSION_ID = script.id
        /\ extensionEnv'.INSTRUCTION_SENDER = script.sender
      BY <1>7 DEF EnvFile
  <2>5. registry.granted[script.id] = Grants
      BY <1>2, <1>3, <2>1 DEF Shapes, Registries
  <2>6. FileServes'
      BY <1>1, <1>3, <2>1, <2>4, <2>5 DEF FileServes
  <2>7. StartInv'
    <3>1. extensionEnv' # NoFile
        BY <1>5, DeploymentAssumption
    <3>2. QED  BY <1>3, <2>4, <3>1 DEF StartInv, Value
  <2>8. PhaseInv' /\ PreBuildInv' /\ FileInv' /\ NodeInv' /\ TestInv'
      BY <2>1, <2>2, <2>6 DEF PhaseInv, PreBuildInv, FileInv, NodeInv, TestInv
  <2>9. QED  BY <1>4, <2>3, <2>7, <2>8 DEF IInv
<1>8. QED  BY <1>1, <1>6, <1>7 DEF Dead

-----------------------------------------------------------------------------
(* start-services and post-build                                           *)

LEMMA StartServicesInv ==
    ASSUME IInv, StartServices
    PROVE  IInv'
<1> DEFINE v == Value(extensionEnv, "EXTENSION_ID")
<1>1. /\ script.name = "start-services"
      /\ IF UpToDate
         THEN UNCHANGED <<node, starts>>
         ELSE starts < MaxKey /\ starts' = starts + 1 /\ node' = Process(starts', v, code)
      /\ End \/ Dead
      /\ UNCHANGED <<registry, senders, extensionEnv, code, deployment, evidence, wipes,
                     retired>>
    BY DEF StartServices, At
<1>2. Shapes /\ PhaseInv /\ RegistryInv /\ SendersInv
    BY DEF IInv
<1>3. v \in Ids \cup {Malformed} /\ v = extensionEnv.EXTENSION_ID
  <2>1. v \in Ids \cup {Malformed}
      BY <1>1 DEF IInv, StartInv
  <2>2. QED  BY <2>1, Numbers DEF Value
<1> HIDE DEF v
<1>4. /\ node' \in Nodes \cup {None} /\ starts' \in 0..MaxKey
      /\ node' # None /\ ~LocalProcess => node'.extension = extensionEnv.EXTENSION_ID
  <2>1. CASE UpToDate
      BY <1>1, <1>2, <2>1 DEF Shapes, UpToDate, ContainerUpToDate
  <2>2. CASE ~UpToDate
    <3>1. /\ starts' \in Keys /\ starts' \in 0..MaxKey /\ code \in Codes
          /\ node' = Process(starts', v, code)
        BY <1>1, <1>2, <2>2, DeploymentAssumption DEF Shapes, Keys
    <3>2. node' \in Nodes /\ node'.extension = v
        BY <1>3, <3>1 DEF Nodes, Process
    <3>3. QED  BY <1>3, <3>1, <3>2
  <2>3. QED  BY <2>1, <2>2
<1>5. RegistryInv' /\ SendersInv' /\ EvidenceInv'
    BY <1>1, <1>2, NoEvidence DEF IInv, RegistryInv, SendersInv
<1>6. CASE script' = Idle /\ fullSetup' = "none"
  <2>1. Shapes'
      BY <1>1, <1>2, <1>4, <1>6, IdleScript DEF Shapes
  <2>2. QED  BY <1>5, <1>6, <2>1, IdleInv
<1>7. CASE End /\ ~(script' = Idle /\ fullSetup' = "none")
  <2>1. /\ fullSetup = "running" /\ fullSetup' = "running"
        /\ script' = Started("post-build")
      BY <1>1, <1>2, <1>7, EndEffect
  <2>2. /\ script' \in Scripts /\ script'.name = "post-build" /\ script'.stage = "allow"
      BY <1>2, <2>1, StartedScript, FirstStages
  <2>3. Shapes'
      BY <1>1, <1>2, <1>4, <2>1, <2>2 DEF Shapes
  <2>4. FileInv'
      BY <1>1, <2>1 DEF IInv, FileInv, FileServes
  <2>5. NodeInv'
      BY <1>1, <1>4, <2>1, <2>2 DEF NodeInv
  <2>6. PhaseInv' /\ PreBuildInv' /\ StartInv' /\ TestInv'
      BY <2>1, <2>2 DEF PhaseInv, PreBuildInv, StartInv, TestInv
  <2>7. QED  BY <1>5, <2>3, <2>4, <2>5, <2>6 DEF IInv
<1>8. QED  BY <1>1, <1>6, <1>7 DEF Dead

(* A step of post-build changes nothing in the registry but what it grants.  *)
LEMMA PostBuildGoesOn ==
    ASSUME IInv, Shapes', RegistryInv', SendersInv', EvidenceInv', NodeInv',
           Grows, registry'.senderOf = registry.senderOf, registry'.granted = registry.granted,
           UNCHANGED extensionEnv,
           script.name = "post-build", script'.name = "post-build", UNCHANGED fullSetup
    PROVE  IInv'
<1>1. fullSetup # "complete"
    BY DEF IInv, PhaseInv
<1>2. PhaseInv' /\ PreBuildInv' /\ StartInv' /\ TestInv'
    BY <1>1 DEF PhaseInv, PreBuildInv, StartInv, TestInv
<1>3. FileInv'
    BY <1>1 DEF IInv, FileInv, FileServes
<1>4. QED  BY <1>2, <1>3 DEF IInv

LEMMA AllowTeeVersionInv ==
    ASSUME IInv, AllowTeeVersion
    PROVE  IInv'
<1> DEFINE next == [script EXCEPT !.stage = "govern"]
<1>1. /\ script.name = "post-build" /\ script.stage = "allow"
      /\ node # None /\ node.extension \in Ids
      /\ registry' = [registry EXCEPT !.versions[node.extension] = @ \cup {node.code}]
      /\ Dead \/ Continue(next)
      /\ UNCHANGED <<senders, extensionEnv, code, node, starts, deployment, evidence,
                     wipes, retired>>
    BY DEF AllowTeeVersion, At, Owned, Proceed
<1>2. Shapes /\ script \in Scripts /\ registry \in Registries /\ RegistryInv
    BY DEF IInv, Shapes
<1>3. PICK id \in Ids, c \in Codes : id = node.extension /\ c = node.code
    BY <1>1, <1>2 DEF Shapes, Nodes
<1>4. registry.versions \in [Ids -> SUBSET Codes]
    BY <1>2 DEF Registries
<1> DEFINE versions == [registry.versions EXCEPT ![id] = registry.versions[id] \cup {c}]
<1>5. /\ versions \in [Ids -> SUBSET Codes] /\ c \in versions[id]
      /\ \A i \in Ids : registry.versions[i] \subseteq versions[i]
    BY <1>4
<1>6. registry' = [registry EXCEPT !.versions = versions]
    BY <1>1, <1>3
<1> HIDE DEF versions
<1>7. /\ registry' \in Registries /\ registry'.versions = versions
      /\ registry'.senderOf = registry.senderOf /\ registry'.granted = registry.granted
      /\ registry'.nextId = registry.nextId /\ registry'.pool = registry.pool
    BY <1>2, <1>5, <1>6 DEF Registries
<1>8. Grows /\ RegistryInv'
    BY <1>2, <1>5, <1>7 DEF Grows, RegistryInv
<1>9. SendersInv' /\ EvidenceInv'
    BY <1>1, <1>2, <1>8, GrowsKeepsSenders, NoEvidence DEF IInv
<1>10. CASE Dead
  <2>1. Shapes'
      BY <1>1, <1>2, <1>7, <1>10, IdleScript DEF Shapes, Dead
  <2>2. QED  BY <1>8, <1>9, <1>10, <2>1, IdleInv DEF Dead
<1>11. CASE Continue(next)
  <2>1. /\ script' \in Scripts /\ script'.name = "post-build" /\ script'.stage = "govern"
        /\ UNCHANGED fullSetup
      BY <1>1, <1>2, <1>11 DEF Continue, Scripts, Stages
  <2>2. Shapes'
      BY <1>1, <1>2, <1>7, <2>1 DEF Shapes
  <2>3. fullSetup # "complete"
      BY <1>1 DEF IInv, PhaseInv
  <2>4. NodeInv'
      BY <1>1, <1>3, <1>5, <1>7, <2>1, <2>3 DEF IInv, NodeInv
  <2>5. QED  BY <1>1, <1>7, <1>8, <1>9, <2>1, <2>2, <2>4, PostBuildGoesOn
<1>12. QED  BY <1>1, <1>10, <1>11

LEMMA SetGovernanceInv ==
    ASSUME IInv, SetGovernance
    PROVE  IInv'
<1> DEFINE next == [script EXCEPT !.stage = "register"]
<1>1. /\ script.name = "post-build" /\ script.stage = "govern"
      /\ node # None /\ node.extension \in Ids
      /\ registry' = [registry EXCEPT !.governed = @ \cup {node.extension}]
      /\ Dead \/ Continue(next)
      /\ UNCHANGED <<senders, extensionEnv, code, node, starts, deployment, evidence,
                     wipes, retired>>
    BY DEF SetGovernance, At, Owned, Proceed
<1>2. Shapes /\ script \in Scripts /\ registry \in Registries /\ RegistryInv
    BY DEF IInv, Shapes
<1>3. /\ registry' \in Registries /\ registry'.versions = registry.versions
      /\ registry'.senderOf = registry.senderOf /\ registry'.granted = registry.granted
      /\ registry'.nextId = registry.nextId /\ registry'.pool = registry.pool
    BY <1>1, <1>2 DEF Registries
<1>4. Grows /\ RegistryInv'
    BY <1>2, <1>3 DEF Grows, RegistryInv
<1>5. SendersInv' /\ EvidenceInv'
    BY <1>1, <1>2, <1>4, GrowsKeepsSenders, NoEvidence DEF IInv
<1>6. CASE Dead
  <2>1. Shapes'
      BY <1>1, <1>2, <1>3, <1>6, IdleScript DEF Shapes, Dead
  <2>2. QED  BY <1>4, <1>5, <1>6, <2>1, IdleInv DEF Dead
<1>7. CASE Continue(next)
  <2>1. /\ script' \in Scripts /\ script'.name = "post-build" /\ script'.stage = "register"
        /\ UNCHANGED fullSetup
      BY <1>1, <1>2, <1>7 DEF Continue, Scripts, Stages
  <2>2. Shapes'
      BY <1>1, <1>2, <1>3, <2>1 DEF Shapes
  <2>3. NodeInv'
      BY <1>1, <1>3, <2>1 DEF IInv, NodeInv
  <2>4. QED  BY <1>1, <1>3, <1>4, <1>5, <2>1, <2>2, <2>3, PostBuildGoesOn
<1>8. QED  BY <1>1, <1>6, <1>7

LEMMA RegisterTeeInv ==
    ASSUME IInv, RegisterTee
    PROVE  IInv'
<1>1. /\ script.name = "post-build" /\ script.stage = "register"
      /\ node # None /\ node.extension \in Ids
      /\ registry' = [registry EXCEPT !.pool[node.extension] = @ \cup {node.key}]
      /\ End \/ Dead
      /\ UNCHANGED <<senders, extensionEnv, code, node, starts, deployment, evidence,
                     wipes, retired>>
    BY DEF RegisterTee, At, Registrable
<1>2. Shapes /\ PhaseInv /\ registry \in Registries /\ RegistryInv
    BY DEF IInv, Shapes
<1>3. PICK id \in Ids, k \in Keys : id = node.extension /\ k = node.key
    BY <1>1, <1>2 DEF Shapes, Nodes
<1>4. registry.pool \in [Ids -> SUBSET Keys]
    BY <1>2 DEF Registries
<1> DEFINE pool == [registry.pool EXCEPT ![id] = registry.pool[id] \cup {k}]
<1>5. /\ pool \in [Ids -> SUBSET Keys] /\ k \in pool[id]
      /\ \A i \in Ids : registry.pool[i] \subseteq pool[i]
    BY <1>4
<1>6. registry' = [registry EXCEPT !.pool = pool]
    BY <1>1, <1>3
<1> HIDE DEF pool
<1>7. /\ registry' \in Registries /\ registry'.versions = registry.versions
      /\ registry'.senderOf = registry.senderOf /\ registry'.granted = registry.granted
      /\ registry'.nextId = registry.nextId /\ registry'.pool = pool
    BY <1>2, <1>5, <1>6 DEF Registries
<1>8. Grows /\ RegistryInv'
    BY <1>2, <1>5, <1>7 DEF Grows, RegistryInv
<1>9. SendersInv' /\ EvidenceInv'
    BY <1>1, <1>2, <1>8, GrowsKeepsSenders, NoEvidence DEF IInv
<1>10. CASE script' = Idle /\ fullSetup' = "none"
  <2>1. Shapes'
      BY <1>1, <1>2, <1>7, <1>10, IdleScript DEF Shapes
  <2>2. QED  BY <1>8, <1>9, <1>10, <2>1, IdleInv
<1>11. CASE End /\ ~(script' = Idle /\ fullSetup' = "none")
  <2>1. /\ fullSetup = "running"
        /\ \/ fullSetup' = "running" /\ script' = Started("test")
           \/ fullSetup' = "complete" /\ script' = Idle
      BY <1>1, <1>2, <1>11, EndEffect
  <2>2. /\ script' \in Scripts
        /\ \/ fullSetup' = "running" /\ script'.name = "test" /\ script'.stage # "poll"
           \/ fullSetup' = "complete" /\ script'.name = "idle"
      BY <1>2, <2>1, StartedScript, IdleScript, FirstStages
  <2>3. Shapes'
      BY <1>1, <1>2, <1>7, <2>2 DEF Shapes
  <2>4. FileInv'
      BY <1>1, <1>7, <2>1 DEF IInv, FileInv, FileServes
  <2>5. ~LocalProcess => /\ node.extension = extensionEnv.EXTENSION_ID
                         /\ node.code \in registry.versions[node.extension]
      BY <1>1, <2>1 DEF IInv, NodeInv
  <2>6. NodeInv'
      BY <1>1, <1>3, <1>5, <1>7, <2>5 DEF NodeInv
  <2>7. PhaseInv' /\ PreBuildInv' /\ StartInv' /\ TestInv'
      BY <2>2 DEF PhaseInv, PreBuildInv, StartInv, TestInv
  <2>8. QED  BY <1>8, <1>9, <2>3, <2>4, <2>6, <2>7 DEF IInv
<1>12. QED  BY <1>1, <1>10, <1>11 DEF Dead

-----------------------------------------------------------------------------
(* test                                                                    *)

LEMMA TestGoesOn ==
    ASSUME IInv, Shapes', SendersInv', TestInv',
           UNCHANGED <<registry, extensionEnv, node, fullSetup, evidence>>,
           script.name = "test", script'.name = "test"
    PROVE  IInv'
<1>1. fullSetup # "complete"
    BY DEF IInv, PhaseInv
<1>2. PhaseInv' /\ PreBuildInv' /\ StartInv' /\ RegistryInv'
    BY <1>1 DEF IInv, PhaseInv, PreBuildInv, StartInv, RegistryInv
<1>3. FileInv' /\ NodeInv'
    BY <1>1 DEF IInv, FileInv, FileServes, NodeInv
<1>4. EvidenceInv'
    BY NoEvidence DEF IInv
<1>5. QED  BY <1>2, <1>3, <1>4 DEF IInv

LEMMA SetExtensionIdInv ==
    ASSUME IInv, SetExtensionId
    PROVE  IInv'
<1> DEFINE next == [script EXCEPT !.stage = "encrypt"]
           s == script.sender
<1>1. /\ script.name = "test" /\ s \in DOMAIN senders
      /\ \/ UNCHANGED senders
         \/ \E id \in Ids : /\ registry.senderOf[id] = s
                            /\ senders' = [senders EXCEPT ![s].extensionId = id]
      /\ Dead \/ Continue(next)
      /\ UNCHANGED <<registry, extensionEnv, code, node, starts, deployment, evidence,
                     wipes, retired>>
    BY DEF SetExtensionId, At, ExtensionsOf, Proceed
<1>2. Shapes /\ script \in Scripts /\ senders \in Seq(SenderStates)
      /\ Len(senders) <= MaxSender
    BY DEF IInv, Shapes
<1>3. RegistryInv' /\ EvidenceInv'
    BY <1>1, NoEvidence DEF IInv, RegistryInv
<1>4. /\ senders' \in Seq(SenderStates) /\ Len(senders') = Len(senders) /\ SendersInv'
  <2>1. CASE UNCHANGED senders
      BY <1>1, <1>2, <2>1 DEF IInv, SendersInv
  <2>2. ASSUME NEW id \in Ids, registry.senderOf[id] = s,
               senders' = [senders EXCEPT ![s].extensionId = id]
        PROVE  /\ senders' \in Seq(SenderStates) /\ Len(senders') = Len(senders) /\ SendersInv'
    <3> DEFINE new == [senders[s] EXCEPT !.extensionId = id]
    <3>1. senders[s] \in SenderStates
        BY <1>1, <1>2, SendersInRange
    <3>2. /\ new \in SenderStates /\ new.diamond = senders[s].diamond /\ new.extensionId = id
        BY <3>1 DEF SenderStates
    <3>3. senders' = [senders EXCEPT ![s] = new]
        BY <2>2
    <3> HIDE DEF new
    <3>4. senders' \in Seq(SenderStates) /\ Len(senders') = Len(senders)
        BY <1>1, <1>2, <3>2, <3>3
    <3>5. /\ DOMAIN senders' = DOMAIN senders /\ senders'[s] = new
          /\ \A i \in DOMAIN senders : i # s => senders'[i] = senders[i]
        BY <1>1, <1>2, <3>3
    <3>6. SendersInv'
        BY <1>1, <2>2, <3>2, <3>5 DEF IInv, SendersInv
    <3>7. QED  BY <3>4, <3>6
  <2>3. QED  BY <1>1, <2>1, <2>2
<1>5. CASE Dead
  <2>1. Shapes'
      BY <1>1, <1>2, <1>4, <1>5, IdleScript DEF Shapes, Dead
  <2>2. QED  BY <1>3, <1>4, <1>5, <2>1, IdleInv DEF Dead
<1>6. CASE Continue(next)
  <2>1. /\ script' \in Scripts /\ script'.name = "test" /\ script'.stage = "encrypt"
        /\ UNCHANGED fullSetup
      BY <1>1, <1>2, <1>6 DEF Continue, Scripts, Stages
  <2>2. Shapes'
      BY <1>1, <1>2, <1>4, <2>1 DEF Shapes
  <2>3. TestInv'
      BY <2>1 DEF TestInv
  <2>4. QED  BY <1>1, <1>4, <2>1, <2>2, <2>3, TestGoesOn
<1>7. QED  BY <1>1, <1>5, <1>6

LEMMA EncryptForTEEInv ==
    ASSUME IInv, EncryptForTEE
    PROVE  IInv'
<1>1. /\ script.name = "test" /\ node # None
      /\ script' = [script EXCEPT !.stage = "send", !.key = node.key]
      /\ UNCHANGED <<registry, senders, extensionEnv, code, node, starts, deployment,
                     evidence, wipes, retired, fullSetup>>
    BY DEF EncryptForTEE, At, Continue
<1>2. Shapes /\ script \in Scripts /\ SendersInv /\ node.key \in Keys
    BY <1>1 DEF IInv, Shapes, Nodes
<1>3. /\ script' \in Scripts /\ script'.name = "test" /\ script'.stage = "send"
    BY <1>1, <1>2 DEF Scripts, Stages
<1>4. Shapes'
    BY <1>1, <1>2, <1>3 DEF Shapes
<1>5. SendersInv' /\ TestInv'
    BY <1>1, <1>2, <1>3 DEF SendersInv, TestInv
<1>6. QED  BY <1>1, <1>3, <1>4, <1>5, TestGoesOn

LEMMA SendEvaluationInv ==
    ASSUME IInv, SendEvaluation
    PROVE  IInv'
<1> DEFINE s == script.sender
           id == senders[s].extensionId
<1>1. /\ script.name = "test" /\ s \in DOMAIN senders /\ senders[s].diamond = wipes /\ id # 0
      /\ UNCHANGED <<registry, senders, extensionEnv, code, node, starts, deployment,
                     evidence, wipes, retired>>
    BY DEF SendEvaluation, At, OfThisDiamond
<1>2. PICK machine \in registry.pool[id] :
        Proceed([script EXCEPT !.stage = "poll", !.target = machine, !.id = id,
                               !.diamond = wipes])
    BY DEF SendEvaluation
<1>3. Shapes /\ script \in Scripts /\ SendersInv /\ RegistryInv /\ wipes \in 0..MaxWipe
    BY DEF IInv, Shapes
<1>4. /\ id \in Ids /\ s \in Senders /\ registry.senderOf[id] = s
    BY <1>1, <1>3, SendersInRange DEF SendersInv, SenderStates
<1>5. machine \in Keys
    BY <1>3, <1>4 DEF Shapes, Registries
<1>6. SendersInv' /\ RegistryInv' /\ EvidenceInv'
    BY <1>1, <1>3, NoEvidence DEF IInv, SendersInv, RegistryInv
<1>7. CASE Dead
  <2>1. Shapes'
      BY <1>1, <1>3, <1>7, IdleScript DEF Shapes, Dead
  <2>2. QED  BY <1>6, <1>7, <2>1, IdleInv DEF Dead
<1>8. CASE Continue([script EXCEPT !.stage = "poll", !.target = machine, !.id = id,
                                   !.diamond = wipes])
  <2>1. /\ script' \in Scripts /\ script'.name = "test" /\ script'.target = machine
        /\ script'.id = id /\ script'.sender = s /\ script'.diamond = wipes
        /\ UNCHANGED fullSetup
      BY <1>1, <1>3, <1>4, <1>5, <1>8 DEF Continue, Scripts, Stages
  <2>2. Shapes'
      BY <1>1, <1>3, <2>1 DEF Shapes
  <2>3. TestInv'
      BY <1>1, <1>2, <1>3, <1>4, <2>1 DEF TestInv
  <2>4. QED  BY <1>1, <1>6, <2>1, <2>2, <2>3, TestGoesOn
<1>9. QED  BY <1>2, <1>7, <1>8 DEF Proceed

LEMMA ActionResultInv ==
    ASSUME IInv, ActionResult
    PROVE  IInv'
<1>1. /\ script.name = "test" /\ script.stage = "poll"
      /\ node # None /\ node.key = script.target /\ node.key = script.key
      /\ evidence' = [file |-> "fcc-evaluation", diamond |-> script.diamond,
                      signer |-> node.key, encryptedFor |-> script.key,
                      extension |-> script.id, sender |-> script.sender]
      /\ End \/ Dead
      /\ UNCHANGED <<registry, senders, extensionEnv, code, node, starts, deployment,
                     wipes, retired>>
    BY DEF ActionResult, At, StatusOne
<1>2. Shapes /\ PhaseInv /\ script \in Scripts /\ wipes \in 0..MaxWipe
    BY DEF IInv, Shapes
<1>3. RegistryInv' /\ SendersInv'
    BY <1>1 DEF IInv, RegistryInv, SendersInv
<1>4. \/ script' = Idle /\ fullSetup' = "none"
      \/ script' = Idle /\ fullSetup = "running" /\ fullSetup' = "complete"
    BY <1>1, <1>2, EndEffect DEF Dead
<1>5. script'.name = "idle" /\ script' \in Scripts
    BY <1>4, IdleScript
<1>6. EvidenceInv'
  <2>1. /\ script.diamond \in 0..MaxWipe /\ script.diamond <= wipes
        /\ script.diamond = wipes =>
             /\ script.id \in Ids /\ script.sender \in Senders
             /\ script.target \in registry.pool[script.id]
             /\ registry.senderOf[script.id] = script.sender
      BY <1>1, <1>2 DEF IInv, TestInv, Scripts
  <2>2. script.diamond \in 0..wipes
      BY <1>2, <2>1
  <2>3. /\ evidence'.file = "fcc-evaluation" /\ evidence'.diamond = script.diamond
        /\ evidence'.signer = node.key /\ evidence'.encryptedFor = script.key
        /\ evidence'.extension = script.id /\ evidence'.sender = script.sender
      BY <1>1
  <2>4. EvidenceSound'
      BY <1>1, <2>1, <2>3 DEF EvidenceSound
  <2>5. QED  BY <1>1, <1>5, <2>1, <2>2, <2>3, <2>4 DEF EvidenceInv
<1>7. Shapes'
    BY <1>1, <1>2, <1>4, <1>5 DEF Shapes
<1>8. CASE fullSetup' = "none"
    BY <1>3, <1>4, <1>6, <1>7, <1>8, IdleInv
<1>9. CASE fullSetup = "running" /\ fullSetup' = "complete"
  <2>1. FileInv' /\ NodeInv'
      BY <1>1, <1>9 DEF IInv, FileInv, FileServes, NodeInv
  <2>2. PhaseInv' /\ PreBuildInv' /\ StartInv' /\ TestInv'
      BY <1>5, <1>9 DEF PhaseInv, PreBuildInv, StartInv, TestInv
  <2>3. QED  BY <1>3, <1>6, <1>7, <2>1, <2>2 DEF IInv
<1>10. QED  BY <1>4, <1>8, <1>9

-----------------------------------------------------------------------------
(* pause-stale, and the start and the death of scripts                     *)

LEMMA RunInv ==
    ASSUME IInv, NEW name \in DOMAIN FirstStage, Run(name)
    PROVE  IInv'
<1>1. /\ name \in {"pre-build", "start-services", "post-build", "test"}
      /\ script' = Started(name) /\ evidence' = None
      /\ name = "start-services" => Value(extensionEnv, "EXTENSION_ID") # Absent
      /\ fullSetup' \in {"none", "running"} /\ (fullSetup' = "running" => name = "pre-build")
      /\ UNCHANGED <<registry, senders, extensionEnv, code, node, starts, deployment,
                     wipes, retired>>
    BY FirstStages DEF Run, CanRun
<1>2. Shapes
    BY DEF IInv
<1>3. /\ script' \in Scripts /\ script'.name = name /\ script'.stage = FirstStage[name]
    BY <1>1, <1>2, StartedScript
<1>4. /\ name = "pre-build" => script'.stage = "deploy"
      /\ name = "test" => script'.stage = "setExtensionId"
    BY <1>1, <1>3, FirstStages
<1>5. Shapes'
    BY <1>1, <1>2, <1>3 DEF Shapes
<1>6. RegistryInv' /\ SendersInv' /\ EvidenceInv'
    BY <1>1 DEF IInv, RegistryInv, SendersInv, EvidenceInv
<1>7. PhaseInv' /\ TestInv' /\ FileInv' /\ NodeInv'
    BY <1>1, <1>3, <1>4 DEF PhaseInv, TestInv, FileInv, NodeInv
<1>8. PreBuildInv'
    BY <1>3, <1>4 DEF PreBuildInv, Grants
<1>9. StartInv'
    BY <1>1, <1>2, <1>3, FileValues DEF StartInv
<1>10. QED  BY <1>5, <1>6, <1>7, <1>8, <1>9 DEF IInv

LEMMA FailInv ==
    ASSUME IInv, Fail
    PROVE  IInv'
<1>1. /\ script' = Idle /\ fullSetup' = "none"
      /\ UNCHANGED <<registry, senders, extensionEnv, code, node, starts, deployment,
                     evidence, wipes, retired>>
    BY DEF Fail, Dead
<1>2. Shapes'
    BY <1>1, IdleScript DEF IInv, Shapes
<1>3. RegistryInv' /\ SendersInv'
    BY <1>1 DEF IInv, RegistryInv, SendersInv
<1>4. EvidenceInv'
    BY <1>1, IdleScript DEF IInv, EvidenceInv, EvidenceSound, PoolOf
<1>5. QED  BY <1>1, <1>2, <1>3, <1>4, IdleInv

(* Whatever a pause-stale does, no full setup is in progress. *)
LEMMA PauseGoesOn ==
    ASSUME Shapes', RegistryInv', SendersInv', EvidenceInv',
           script'.name = "pause-stale", fullSetup' = "none"
    PROVE  IInv'
BY DEF IInv, PhaseInv, PreBuildInv, StartInv, FileInv, NodeInv, TestInv

LEMMA RunPauseStaleInv ==
    ASSUME IInv, RunPauseStale
    PROVE  IInv'
<1> DEFINE d == deployment.diamond
           id == deployment.extension
<1>1. /\ fullSetup' = "none" /\ evidence' = None
      /\ deployment.teeId \in PoolOf(d, id) /\ StaleTee(deployment) \in PoolOf(d, id)
      /\ script' = [Idle EXCEPT !.name = "pause-stale", !.stage = "pause",
                                !.diamond = d, !.id = id,
                                !.current = deployment.teeId, !.stale = StaleTee(deployment)]
      /\ UNCHANGED <<registry, senders, extensionEnv, code, node, starts, deployment, wipes,
                     retired>>
    BY DEF RunPauseStale
<1>2. Shapes /\ deployment \in Deployments /\ d <= wipes
    BY DEF IInv, Shapes
<1>3. /\ d \in 0..MaxWipe /\ id \in Ids \cup {0} /\ deployment.teeId \in Keys \cup {None}
      /\ StaleTee(deployment) \in Keys
  <2>1. deployment.previous \in Seq(Keys) /\ deployment.previous # <<>>
      BY <1>2 DEF RunPauseStale, Deployments
  <2>2. StaleTee(deployment) \in Keys
      BY <2>1 DEF StaleTee
  <2>3. QED  BY <1>2, <2>2 DEF Deployments
<1> HIDE DEF d, id
<1>4. PICK c \in Keys \cup {None}, k \in Keys : c = deployment.teeId /\ k = StaleTee(deployment)
    BY <1>3
<1>5. /\ script' \in Scripts /\ script'.name = "pause-stale" /\ script'.diamond = d
    BY <1>1, <1>3, <1>4, IdleScript DEF Scripts, ScriptNames, Stages
<1>6. Shapes'
    BY <1>1, <1>2, <1>5 DEF Shapes
<1>7. RegistryInv' /\ SendersInv' /\ EvidenceInv'
    BY <1>1 DEF IInv, RegistryInv, SendersInv, EvidenceInv
<1>8. QED  BY <1>1, <1>5, <1>6, <1>7, PauseGoesOn

LEMMA PauseInv ==
    ASSUME IInv, Pause
    PROVE  IInv'
<1> DEFINE next == [script EXCEPT !.stage = "verify"]
           d == script.diamond
<1>1. /\ script.name = "pause-stale"
      /\ \/ /\ registry' = [registry EXCEPT !.pool = Without(registry.pool, script.stale)]
            /\ UNCHANGED retired
         \/ /\ retired' = [retired EXCEPT ![d] = Without(retired[d], script.stale)]
            /\ UNCHANGED registry
      /\ Dead \/ Continue(next)
      /\ UNCHANGED <<senders, extensionEnv, code, node, starts, deployment, evidence, wipes>>
    BY DEF Pause, At, Proceed
<1>2. /\ Shapes /\ registry \in Registries /\ script \in Scripts
      /\ retired \in [0..MaxWipe -> [Ids -> SUBSET Keys]]
    BY DEF IInv, Shapes
<1>3. \A pool \in [Ids -> SUBSET Keys] : Without(pool, script.stale) \in [Ids -> SUBSET Keys]
    BY DEF Without
<1>4. d \in 0..MaxWipe /\ registry.pool \in [Ids -> SUBSET Keys]
    BY <1>2 DEF Scripts, Registries
<1>5. PICK pool, past \in [Ids -> SUBSET Keys] :
        pool = Without(registry.pool, script.stale) /\ past = Without(retired[d], script.stale)
    BY <1>2, <1>3, <1>4
<1>6. /\ registry' \in Registries
      /\ UNCHANGED <<registry.senderOf, registry.nextId, registry.versions, registry.granted>>
    BY <1>1, <1>2, <1>5 DEF Registries
<1>7. retired' \in [0..MaxWipe -> [Ids -> SUBSET Keys]]
    BY <1>1, <1>2, <1>5
<1>8. RegistryInv' /\ SendersInv' /\ EvidenceInv'
    BY <1>1, <1>6, NoEvidence DEF IInv, RegistryInv, SendersInv
<1>9. fullSetup = "none"
    BY <1>1, <1>2 DEF IInv, PhaseInv, Shapes
<1>10. CASE Dead
  <2>1. Shapes'
      BY <1>1, <1>2, <1>6, <1>7, <1>10, IdleScript DEF Shapes, Dead
  <2>2. QED  BY <1>8, <1>10, <2>1, IdleInv DEF Dead
<1>11. CASE Continue(next)
  <2>1. /\ script' \in Scripts /\ script'.name = "pause-stale" /\ fullSetup' = "none"
        /\ script'.diamond = script.diamond
      BY <1>1, <1>2, <1>9, <1>11 DEF Continue, Scripts, Stages
  <2>2. Shapes'
      BY <1>1, <1>2, <1>6, <1>7, <2>1 DEF Shapes
  <2>3. QED  BY <1>8, <2>1, <2>2, PauseGoesOn
<1>12. QED  BY <1>1, <1>10, <1>11

LEMMA VerifyPoolInv ==
    ASSUME IInv, VerifyPool
    PROVE  IInv'
<1> DEFINE d == script.diamond
           id == script.id
<1>1. /\ script.name = "pause-stale"
      /\ script.current \in PoolOf(d, id) /\ script.stale \notin PoolOf(d, id)
      /\ evidence' = [file |-> "fcc-stale-tee-pause", diamond |-> d, extension |-> id,
                      current |-> script.current, stale |-> script.stale]
      /\ script' = Idle /\ fullSetup' = "none"
      /\ UNCHANGED <<registry, senders, extensionEnv, code, node, starts, deployment, wipes,
                     retired>>
    BY DEF VerifyPool, Dead, At
<1>2. Shapes' /\ d \in 0..wipes
  <2>1. Shapes'
      BY <1>1, IdleScript DEF IInv, Shapes
  <2>2. d \in 0..MaxWipe /\ d <= wipes /\ wipes \in 0..MaxWipe
      BY <1>1, ScriptFields DEF IInv, Shapes
  <2>3. QED  BY <2>1, <2>2, DeploymentAssumption
<1>3. RegistryInv' /\ SendersInv'
    BY <1>1 DEF IInv, RegistryInv, SendersInv
<1>4. EvidenceInv'
  <2>1. /\ evidence'.file = "fcc-stale-tee-pause" /\ evidence'.diamond = d
        /\ evidence'.extension = id
        /\ evidence'.current = script.current /\ evidence'.stale = script.stale
      BY <1>1
  <2>2. EvidenceSound'
      BY <1>1, <2>1 DEF EvidenceSound, PoolOf
  <2>3. QED  BY <1>1, <1>2, <2>1, <2>2, IdleScript DEF EvidenceInv
<1>5. QED  BY <1>1, <1>2, <1>3, <1>4, IdleInv

-----------------------------------------------------------------------------
(* What happens around the scripts.                                        *)

LEMMA StopServicesInv ==
    ASSUME IInv, StopServices
    PROVE  IInv'
<1>1. /\ script = Idle /\ script' = Idle /\ node' = None /\ fullSetup' = "none"
      /\ UNCHANGED <<registry, senders, extensionEnv, code, starts, deployment, evidence,
                     wipes, retired>>
    BY DEF StopServices
<1>2. Shapes'
    BY <1>1, IdleScript DEF IInv, Shapes
<1>3. RegistryInv' /\ SendersInv'
    BY <1>1 DEF IInv, RegistryInv, SendersInv
<1>4. EvidenceInv'
    BY <1>1 DEF IInv, EvidenceInv, EvidenceSound, PoolOf
<1>5. QED  BY <1>1, <1>2, <1>3, <1>4, IdleInv

LEMMA EditConfigInv ==
    ASSUME IInv, EditConfig
    PROVE  IInv'
<1>1. /\ script = Idle /\ script' = Idle /\ fullSetup' = "none" /\ extensionEnv # NoFile
      /\ UNCHANGED <<registry, senders, code, node, starts, deployment, evidence,
                     wipes, retired>>
    BY DEF EditConfig
<1>2. PICK id \in Ids \cup {Malformed} : extensionEnv' = [extensionEnv EXCEPT !.EXTENSION_ID = id]
    BY DEF EditConfig
<1>3. extensionEnv' \in EnvFiles
    BY <1>1, <1>2 DEF IInv, Shapes, EnvFiles
<1>4. Shapes'
    BY <1>1, <1>3, IdleScript DEF IInv, Shapes
<1>5. RegistryInv' /\ SendersInv'
    BY <1>1 DEF IInv, RegistryInv, SendersInv
<1>6. EvidenceInv'
    BY <1>1 DEF IInv, EvidenceInv, EvidenceSound, PoolOf
<1>7. QED  BY <1>1, <1>4, <1>5, <1>6, IdleInv

(* A new record of the deployment, a new version of the image and the end of *)
(* the node concern no script.                                               *)
LEMMA AsideInv ==
    ASSUME IInv, UNCHANGED <<registry, senders, extensionEnv, starts, script, fullSetup,
                             evidence, wipes, retired>>,
           Shapes', node' \in {node, None}
    PROVE  IInv'
<1>1. /\ RegistryInv' /\ SendersInv' /\ PhaseInv' /\ PreBuildInv' /\ StartInv'
      /\ FileInv' /\ TestInv'
    BY DEF IInv, RegistryInv, SendersInv, PhaseInv, PreBuildInv, StartInv, FileInv, FileServes,
           TestInv
<1>2. NodeInv'
    BY DEF IInv, NodeInv
<1>3. EvidenceInv'
    BY DEF IInv, EvidenceInv, EvidenceSound, PoolOf
<1>4. QED  BY <1>1, <1>2, <1>3 DEF IInv

LEMMA RecordDeploymentInv ==
    ASSUME IInv, RecordDeployment
    PROVE  IInv'
<1>1. /\ node # None /\ node.extension \in Ids
      /\ deployment' = [teeId |-> node.key,
                        previous |-> IF deployment.teeId = None THEN <<>>
                                     ELSE Append(deployment.previous, deployment.teeId),
                        diamond |-> wipes, extension |-> node.extension]
      /\ UNCHANGED <<registry, senders, extensionEnv, code, node, starts, script, fullSetup,
                     evidence, wipes, retired>>
    BY DEF RecordDeployment
<1>2. /\ Shapes /\ node.key \in Keys /\ deployment.teeId \in Keys \cup {None}
      /\ deployment.previous \in Seq(Keys) /\ wipes \in 0..MaxWipe
    BY <1>1 DEF IInv, Shapes, Nodes, Deployments
<1>3. PICK d \in Seq(Keys) : d = IF deployment.teeId = None THEN <<>>
                                 ELSE Append(deployment.previous, deployment.teeId)
  <2>1. <<>> \in Seq(Keys)
      OBVIOUS
  <2>2. deployment.teeId # None => Append(deployment.previous, deployment.teeId) \in Seq(Keys)
      BY <1>2
  <2>3. QED  BY <2>1, <2>2
<1>4. deployment' \in Deployments /\ deployment'.diamond = wipes
    BY <1>1, <1>2, <1>3 DEF Deployments
<1>5. wipes <= wipes
    BY <1>2
<1>6. Shapes'
    BY <1>1, <1>2, <1>4, <1>5 DEF Shapes
<1>7. QED  BY <1>1, <1>6, AsideInv

LEMMA ChangeOrCrashInv ==
    ASSUME IInv, ChangeExtension \/ NodeCrash
    PROVE  IInv'
<1>1. CASE ChangeExtension
  <2>1. code' \in Codes
      BY <1>1, DeploymentAssumption DEF IInv, Shapes, ChangeExtension, Codes
  <2>2. Shapes' /\ UNCHANGED node
      BY <1>1, <2>1 DEF IInv, Shapes, ChangeExtension
  <2>3. QED  BY <1>1, <2>2, AsideInv DEF ChangeExtension
<1>2. CASE NodeCrash
  <2>1. Shapes' /\ node' = None
      BY <1>2 DEF IInv, Shapes, NodeCrash
  <2>2. QED  BY <1>2, <2>1, AsideInv DEF NodeCrash
<1>3. QED  BY <1>1, <1>2

LEMMA OthersRegisterInv ==
    ASSUME IInv, OthersRegister
    PROVE  IInv'
<1>1. /\ registry.nextId \in Ids
      /\ registry' = [registry EXCEPT !.nextId = @ + 1, !.senderOf[registry.nextId] = Foreign]
      /\ UNCHANGED <<senders, extensionEnv, code, node, starts, script, fullSetup,
                     deployment, evidence, wipes, retired>>
    BY DEF OthersRegister
<1>2. PICK id \in Ids, s \in Senders \cup {Foreign} : id = registry.nextId /\ s = Foreign
    BY <1>1
<1>3. /\ registry' \in Registries /\ RegistryInv' /\ Grows
      /\ UNCHANGED <<registry.granted, registry.versions, registry.pool>>
    BY <1>1, <1>2, RegistrationEffect
<1>4. Shapes
    BY DEF IInv
<1>5. SendersInv' /\ Shapes'
    BY <1>1, <1>3, <1>4, GrowsKeepsSenders DEF IInv, Shapes
<1>6. \A i \in Ids : registry.senderOf[i] \in Senders => registry'.senderOf[i] = registry.senderOf[i]
    BY <1>3, Numbers DEF Grows
<1>7. PhaseInv' /\ StartInv' /\ NodeInv'
    BY <1>1, <1>3 DEF IInv, PhaseInv, StartInv, NodeInv
<1>8. PreBuildInv'
    BY <1>1, <1>3, <1>4, <1>6, SendersInRange DEF IInv, PreBuildInv, Grants
<1>9. FileInv'
    BY <1>1, <1>3, <1>6 DEF IInv, FileInv, FileServes
<1>10. TestInv'
    BY <1>1, <1>3, <1>6 DEF IInv, TestInv
<1>11. EvidenceInv'
    BY <1>1, <1>3, <1>6 DEF IInv, EvidenceInv, EvidenceSound, PoolOf
<1>12. QED  BY <1>3, <1>5, <1>7, <1>8, <1>9, <1>10, <1>11 DEF IInv

LEMMA RedeployDiamondInv ==
    ASSUME IInv, RedeployDiamond
    PROVE  IInv'
<1>1. /\ wipes < MaxWipe /\ wipes' = wipes + 1 /\ registry' = EmptyRegistry /\ fullSetup' = "none"
      /\ retired' = [retired EXCEPT ![wipes] = registry.pool]
      /\ UNCHANGED <<senders, extensionEnv, code, node, starts, script, deployment, evidence>>
    BY DEF RedeployDiamond
<1>2. /\ Shapes /\ wipes \in 0..MaxWipe /\ script \in Scripts
      /\ retired \in [0..MaxWipe -> [Ids -> SUBSET Keys]]
      /\ registry.pool \in [Ids -> SUBSET Keys]
    BY DEF IInv, Shapes, Registries
<1>3. wipes' \in 0..MaxWipe /\ wipes < wipes' /\ \A n \in 0..wipes : n \in 0..wipes' /\ n # wipes'
    BY <1>1, <1>2, DeploymentAssumption
<1>4. EmptyRegistry \in Registries /\ \A id \in Ids : EmptyRegistry.senderOf[id] = NoSender
    BY DeploymentAssumption, DeployChecksAssumption DEF EmptyRegistry, Registries
<1>5. Shapes' /\ RegistryInv'
  <2>1. retired' \in [0..MaxWipe -> [Ids -> SUBSET Keys]]
      BY <1>1, <1>2
  <2>2. /\ deployment.diamond <= wipes'
        /\ script.name = "pause-stale" => script.diamond <= wipes'
    <3>1. deployment.diamond \in 0..MaxWipe /\ script.diamond \in 0..MaxWipe
        BY <1>2, ScriptFields DEF Shapes, Deployments
    <3>2. QED  BY <1>2, <1>3, <3>1, DeploymentAssumption DEF Shapes
  <2>3. QED  BY <1>1, <1>2, <1>3, <1>4, <2>1, <2>2 DEF Shapes, RegistryInv
<1>6. SendersInv'
  <2> SUFFICES ASSUME NEW s \in DOMAIN senders
               PROVE  senders[s].diamond <= wipes' /\ senders[s].diamond # wipes'
      BY <1>1 DEF SendersInv
  <2>1. senders[s].diamond \in 0..MaxWipe /\ senders[s].diamond <= wipes
      BY <1>2, SendersInRange DEF IInv, SendersInv, SenderStates
  <2>2. QED  BY <1>2, <1>3, <2>1, DeploymentAssumption
<1>7. PhaseInv' /\ PreBuildInv' /\ StartInv' /\ FileInv' /\ NodeInv'
    BY <1>1 DEF IInv, PhaseInv, PreBuildInv, StartInv, FileInv, NodeInv
<1>8. TestInv'
  <2> SUFFICES ASSUME script.name = "test", script.stage = "poll"
               PROVE  script.diamond <= wipes' /\ script.diamond # wipes'
      BY <1>1 DEF TestInv
  <2>1. script.diamond \in 0..MaxWipe /\ script.diamond <= wipes
      BY <1>2, ScriptFields DEF IInv, TestInv
  <2>2. QED  BY <1>2, <1>3, <2>1, DeploymentAssumption
<1>9. EvidenceInv'
  <2> SUFFICES ASSUME evidence # None
               PROVE  EvidenceInv'
      BY <1>1 DEF EvidenceInv
  <2> DEFINE d == evidence.diamond
             id == evidence.extension
  <2>1. d \in 0..wipes' /\ d # wipes' /\ d \in 0..wipes
      BY <1>3 DEF IInv, EvidenceInv
  <2>2. PoolOf(d, id)' = PoolOf(d, id)
    <3>1. PoolOf(d, id)' = retired'[d][id]
        BY <1>1, <2>1 DEF PoolOf
    <3>2. retired'[d] = IF d = wipes THEN registry.pool ELSE retired[d]
        BY <1>1, <1>2, <2>1, DeploymentAssumption
    <3>3. QED  BY <3>1, <3>2 DEF PoolOf
  <2>3. EvidenceSound'
      BY <1>1, <2>1, <2>2 DEF IInv, EvidenceInv, EvidenceSound
  <2>4. QED  BY <1>1, <2>1, <2>3 DEF IInv, EvidenceInv
<1>10. QED  BY <1>5, <1>6, <1>7, <1>8, <1>9 DEF IInv

LEMMA InitIInv == Init => IInv
<1> SUFFICES ASSUME Init PROVE IInv
    OBVIOUS
<1>1. /\ registry = EmptyRegistry /\ senders = <<>> /\ extensionEnv = NoFile /\ code = 1
      /\ node = None /\ starts = 0 /\ script = Idle /\ fullSetup = "none" /\ wipes = 0
      /\ deployment = [teeId |-> None, previous |-> <<>>, diamond |-> 0, extension |-> 0]
      /\ evidence = None /\ retired = [d \in 0..MaxWipe |-> EmptyRegistry.pool]
    BY DEF Init
<1>2. EmptyRegistry \in Registries /\ \A id \in Ids : EmptyRegistry.senderOf[id] = NoSender
    BY DeploymentAssumption, DeployChecksAssumption DEF EmptyRegistry, Registries
<1>3. /\ senders \in Seq(SenderStates) /\ Len(senders) <= MaxSender /\ DOMAIN senders = {}
      /\ deployment \in Deployments /\ deployment.diamond = 0
      /\ retired \in [0..MaxWipe -> [Ids -> SUBSET Keys]]
  <2>1. 0 \in 0..MaxWipe
      BY DeploymentAssumption
  <2>2. deployment \in Deployments /\ deployment.diamond = 0
    <3>1. <<>> \in Seq(Keys)
        OBVIOUS
    <3>2. QED  BY <1>1, <2>1, <3>1 DEF Deployments
  <2>3. EmptyRegistry.pool \in [Ids -> SUBSET Keys]
      BY <1>2 DEF Registries
  <2>4. QED  BY <1>1, <2>2, <2>3, DeploymentAssumption
<1>4. Shapes
    BY <1>1, <1>2, <1>3, IdleScript, DeploymentAssumption DEF Shapes, Codes
<1>5. RegistryInv /\ SendersInv /\ EvidenceInv
    BY <1>1, <1>2, <1>3 DEF RegistryInv, SendersInv, EvidenceInv
<1>6. PhaseInv /\ PreBuildInv /\ StartInv /\ FileInv /\ NodeInv /\ TestInv
    BY <1>1, IdleScript DEF PhaseInv, PreBuildInv, StartInv, FileInv, NodeInv, TestInv
<1>7. QED  BY <1>4, <1>5, <1>6 DEF IInv

LEMMA NextIInv == IInv /\ [Next]_vars => IInv'
<1> SUFFICES ASSUME IInv, [Next]_vars PROVE IInv'
    OBVIOUS
<1>1. CASE ScriptStep
    BY <1>1, RunInv, DeployInstructionSenderInv, RegisterExtensionInv, GrantInv, WriteConfigInv,
       StartServicesInv, AllowTeeVersionInv, SetGovernanceInv, RegisterTeeInv, SetExtensionIdInv,
       EncryptForTEEInv, SendEvaluationInv, ActionResultInv, RunPauseStaleInv, PauseInv,
       VerifyPoolInv, FailInv DEF ScriptStep
<1>2. CASE EnvironmentStep
    BY <1>2, StopServicesInv, RecordDeploymentInv, ChangeOrCrashInv, EditConfigInv,
       OthersRegisterInv, RedeployDiamondInv DEF EnvironmentStep
<1>3. CASE UNCHANGED vars
  <2>1. /\ UNCHANGED <<registry, senders, extensionEnv, starts, script, fullSetup,
                       evidence, wipes, retired>>
        /\ UNCHANGED <<code, node, deployment>>
      BY <1>3 DEF vars
  <2>2. Shapes'
      BY <2>1 DEF IInv, Shapes
  <2>3. QED  BY <2>1, <2>2, AsideInv
<1>4. QED  BY <1>1, <1>2, <1>3 DEF Next

-----------------------------------------------------------------------------
(* The invariant of the operator's scripts, their files and the registry.   *)
THEOREM DeploymentInvariant == Spec => []IInv
BY InitIInv, NextIInv, PTL DEF Spec

(* Registry, files, node and counters keep their shapes. *)
THEOREM DeploymentTypeCorrect == Spec => []TypeOK
<1>1. IInv => TypeOK
    BY DEF IInv, Shapes, TypeOK, Registries, Nodes, SenderStates
<1>2. QED  BY <1>1, DeploymentInvariant, PTL

(* "Full setup complete" of full-setup.sh, with Docker Compose: the node, if *)
(* it still runs, serves the extension that config/extension.env names.      *)
THEOREM CompleteServes == ~LocalProcess => (Spec => []CompleteSetupServes)
<1> SUFFICES ASSUME ~LocalProcess PROVE Spec => []CompleteSetupServes
    OBVIOUS
<1>1. IInv => CompleteSetupServes
    BY DEF IInv, FileInv, FileServes, NodeInv, CompleteSetupServes
<1>2. QED  BY <1>1, DeploymentInvariant, PTL

(* What run-test and pause-stale-fcc-tee.mjs put on record is so. *)
THEOREM EvidenceIsSound == Spec => []EvidenceSound
<1>1. IInv => EvidenceSound
    BY DEF IInv, EvidenceInv, EvidenceSound
<1>2. QED  BY <1>1, DeploymentInvariant, PTL

-----------------------------------------------------------------------------
(* The report of verify-deploy.                                            *)

LEMMA StatusOfResult ==
    \A step, id, name, status : CheckResult(step, id, name, status).status = status
BY DEF CheckResult

LEMMA NoServiceFails ==
    ASSUME NEW step, NEW id, NEW url
    PROVE  Reachable(step, id, url).status # "FAIL"
<1>1. (IF url = "unset" THEN "SKIP" ELSE Advised(url = "up")) # "FAIL"
    BY DEF Advised
<1>2. QED  BY <1>1, StatusOfResult DEF Reachable

LEMMA FailuresOfParts ==
    ASSUME NEW A, NEW B
    PROVE  HasFailures(A \cup B) <=> HasFailures(A) \/ HasFailures(B)
BY DEF HasFailures

(* Each part of the report fails for what a FAIL result of it says. *)
LEMMA DeployFailures ==
    ASSUME NEW e, NEW f
    PROVE  HasFailures(RegisterDeployChecks(e, f)) <=>
             \/ ~(e.answers /\ e.funded /\ e.manager = "diamond")
             \/ e.config /\ f # NoFile /\ ~(WellFormed(f["EXTENSION_ID"])
                                            /\ WellFormed(f["INSTRUCTION_SENDER"]))
<1> DEFINE D3 == CheckResult("deploy", "D3", "not zero", Required(AddressNotZero(e)))
           D5 == CheckResult("deploy", "D5", "funds", Required(KeyHasFunds(e)))
           D6 == CheckResult("deploy", "D6", "chain ID", Required(e.answers))
           D1 == CheckResult("deploy", "D1", "code", Required(AddressHasCode(e)))
           fixed == {D3, CheckDeployerKeySource(e), D5, D6}
           coded == IF AddressNotZero(e) THEN {D1} ELSE {}
           file == IF e.config THEN CheckExtensionEnvFormat(f) ELSE {}
<1>1. /\ D3.status = "FAIL" <=> e.manager = "zero"
      /\ D5.status = "FAIL" <=> ~(e.answers /\ e.funded)
      /\ D6.status = "FAIL" <=> ~e.answers
      /\ D1.status = "FAIL" <=> ~(e.answers /\ e.manager = "diamond")
    BY DEF CheckResult, Required, AddressNotZero, KeyHasFunds, AddressHasCode
<1>2. CheckDeployerKeySource(e).status # "FAIL"
    BY DEF CheckDeployerKeySource, CheckResult, Advised
<1> HIDE DEF D1, D3, D5, D6
<1>3. HasFailures(fixed) <=> e.manager = "zero" \/ ~(e.answers /\ e.funded)
    BY <1>1, <1>2 DEF HasFailures
<1>4. HasFailures(coded) <=> e.manager # "zero" /\ ~(e.answers /\ e.manager = "diamond")
    BY <1>1 DEF HasFailures, AddressNotZero
<1>5. HasFailures(CheckExtensionEnvFormat(f)) <=>
        f # NoFile /\ ~(WellFormed(f["EXTENSION_ID"]) /\ WellFormed(f["INSTRUCTION_SENDER"]))
  <2>1. CASE f = NoFile
      BY <2>1, StatusOfResult DEF HasFailures, CheckExtensionEnvFormat
  <2>2. CASE f # NoFile
    <3>1. \A v \in {"EXTENSION_ID", "INSTRUCTION_SENDER"} :
            CheckResult("deploy", "D7", v, Required(WellFormed(f[v]))).status = "FAIL"
              <=> ~WellFormed(f[v])
        BY StatusOfResult DEF Required
    <3>2. QED  BY <2>2, <3>1 DEF HasFailures, CheckExtensionEnvFormat
  <2>3. QED  BY <2>1, <2>2
<1>6. HasFailures(file) <=>
        /\ e.config /\ f # NoFile
        /\ ~(WellFormed(f["EXTENSION_ID"]) /\ WellFormed(f["INSTRUCTION_SENDER"]))
    BY <1>5 DEF HasFailures
<1>7. HasFailures(RegisterDeployChecks(e, f)) <=>
        HasFailures(fixed) \/ HasFailures(coded) \/ HasFailures(file)
  <2>1. RegisterDeployChecks(e, f) = (fixed \cup coded) \cup file
      BY DEF RegisterDeployChecks, D1, D3, D5, D6
  <2> HIDE DEF fixed, coded, file
  <2>2. QED  BY <2>1, FailuresOfParts
<1> HIDE DEF fixed, coded, file
<1>8. QED  BY <1>3, <1>4, <1>6, <1>7

LEMMA RegistrationFailures ==
    ASSUME NEW e, NEW f, NEW r
    PROVE  LET id == Value(f, "EXTENSION_ID")
               sender == Value(f, "INSTRUCTION_SENDER")
           IN  HasFailures(RegisterRegistrationChecks(e, f, r)) <=>
                 /\ e.config /\ ~(id = Absent /\ sender = Absent)
                 /\ \/ ~AddressHasCode(e) \/ ~WellFormed(id)
                    \/ ~Granted(r, f.EXTENSION_ID, "machineOwner")
                    \/ ~Granted(r, f.EXTENSION_ID, "keyType")
                    \/ /\ WellFormed(sender)
                       /\ ~SenderMatches(r, f.EXTENSION_ID, f.INSTRUCTION_SENDER)
<1> DEFINE id == Value(f, "EXTENSION_ID")
           sender == Value(f, "INSTRUCTION_SENDER")
           format == CheckResult("register", "R2", "format", "FAIL")
           skipped == CheckResult("register", "R1-R7", "registration", "SKIP")
<1>1. /\ R3Owner(e, f, r).status = "FAIL" <=>
           ~(AddressHasCode(e) /\ Granted(r, f.EXTENSION_ID, "machineOwner"))
      /\ R4KeyType(e, f, r).status = "FAIL" <=>
           ~(AddressHasCode(e) /\ Granted(r, f.EXTENSION_ID, "keyType"))
      /\ format.status = "FAIL" /\ skipped.status = "SKIP"
    BY DEF R3Owner, R4KeyType, CheckResult, Required
<1>2. R1Counter(e, r).status = "FAIL" <=> ~AddressHasCode(e)
    BY DEF R1Counter, CheckResult, Advised
<1>3. HasFailures(R2Sender(e, f, r)) <=>
        /\ WellFormed(sender)
        /\ ~(AddressHasCode(e) /\ SenderMatches(r, f.EXTENSION_ID, f.INSTRUCTION_SENDER))
    BY StatusOfResult DEF R2Sender, HasFailures, Required
<1>4. ~HasFailures(R7Unique(e, f, r))
  <2> DEFINE unique == Cardinality({i \in FirstId..(r.nextId - 1) :
                                      r.senderOf[i] = f.INSTRUCTION_SENDER}) <= 1
             advice == CheckResult("register", "R7", "unique", Advised(unique))
  <2>1. R7Unique(e, f, r) \in {{}, {advice}}
      BY DEF R7Unique
  <2> HIDE DEF unique
  <2>2. advice.status # "FAIL"
      BY DEF CheckResult, Advised
  <2>3. QED  BY <2>1, <2>2 DEF HasFailures
<1> HIDE DEF format, skipped, id, sender
<1>5. CASE ~e.config \/ (id = Absent /\ sender = Absent)
  <2>1. RegisterRegistrationChecks(e, f, r) = {skipped}
      BY <1>5 DEF RegisterRegistrationChecks, skipped, id, sender
  <2>2. ~HasFailures({skipped})
      BY <1>1 DEF HasFailures
  <2>3. QED  BY <1>5, <2>1, <2>2 DEF id, sender
<1>6. CASE ~(~e.config \/ (id = Absent /\ sender = Absent)) /\ ~WellFormed(id)
  <2>1. RegisterRegistrationChecks(e, f, r) = {R1Counter(e, r)} \cup {format}
      BY <1>6 DEF RegisterRegistrationChecks, format, id, sender
  <2>2. HasFailures({R1Counter(e, r)} \cup {format})
      BY <1>1 DEF HasFailures
  <2>3. QED  BY <1>6, <2>1, <2>2 DEF id, sender
<1>7. CASE ~(~e.config \/ (id = Absent /\ sender = Absent)) /\ WellFormed(id)
  <2> DEFINE grants == {R3Owner(e, f, r), R4KeyType(e, f, r)}
  <2>1. RegisterRegistrationChecks(e, f, r) =
          {R1Counter(e, r)} \cup ((grants \cup R2Sender(e, f, r)) \cup R7Unique(e, f, r))
      BY <1>7 DEF RegisterRegistrationChecks, id, sender
  <2>2. HasFailures({R1Counter(e, r)}) <=> ~AddressHasCode(e)
      BY <1>2 DEF HasFailures
  <2>3. HasFailures(grants) <=>
          \/ ~AddressHasCode(e)
          \/ ~Granted(r, f.EXTENSION_ID, "machineOwner")
          \/ ~Granted(r, f.EXTENSION_ID, "keyType")
      BY <1>1 DEF HasFailures
  <2> HIDE DEF grants
  <2>4. HasFailures(RegisterRegistrationChecks(e, f, r)) <=>
          \/ HasFailures({R1Counter(e, r)}) \/ HasFailures(grants)
          \/ HasFailures(R2Sender(e, f, r)) \/ HasFailures(R7Unique(e, f, r))
    <3>1. HasFailures(grants \cup R2Sender(e, f, r)) <=>
            HasFailures(grants) \/ HasFailures(R2Sender(e, f, r))
        BY FailuresOfParts
    <3>2. HasFailures((grants \cup R2Sender(e, f, r)) \cup R7Unique(e, f, r)) <=>
            \/ HasFailures(grants \cup R2Sender(e, f, r)) \/ HasFailures(R7Unique(e, f, r))
        BY FailuresOfParts
    <3>3. QED  BY <2>1, <3>1, <3>2, FailuresOfParts
  <2>5. QED  BY <1>3, <1>4, <1>7, <2>2, <2>3, <2>4 DEF id, sender
<1>8. QED  BY <1>5, <1>6, <1>7

LEMMA ServicesFailures ==
    ASSUME NEW e, NEW f
    PROVE  HasFailures(RegisterServicesChecks(e, f)) <=>
             e.config /\ ~WellFormed(Value(f, "EXTENSION_ID"))
<1> DEFINE S2 == CheckResult("services", "S2", "EXTENSION_ID",
                   IF ~e.config THEN "SKIP" ELSE Required(WellFormed(Value(f, "EXTENSION_ID"))))
           S5 == CheckResult("services", "S5", "port free", Advised(~e.portInUse))
           S7 == CheckResult("services", "S7", "ports", "PASS")
           S9 == Reachable("services", "S9", e.extProxy)
           S10 == CheckResult("services", "S10", "proxy key", Advised(LocalMode(e) \/ e.proxyKey))
<1>1. S2.status = "FAIL" <=> e.config /\ ~WellFormed(Value(f, "EXTENSION_ID"))
    BY DEF CheckResult, Required
<1>2. S5.status # "FAIL" /\ S7.status # "FAIL" /\ S10.status # "FAIL"
    BY DEF CheckResult, Advised
<1>3. S9.status # "FAIL"
    BY NoServiceFails
<1>4. RegisterServicesChecks(e, f) = {S2, S5, S7, S9, S10}
    BY DEF RegisterServicesChecks
<1> HIDE DEF S2, S5, S7, S9, S10
<1>5. QED  BY <1>1, <1>2, <1>3, <1>4 DEF HasFailures

LEMMA TeeFailures ==
    ASSUME NEW e, NEW f
    PROVE  /\ HasFailures(RegisterTeeVersionChecks(e, f)) <=>
                e.config /\ f # NoFile /\ ~WellFormed(f.EXTENSION_ID)
           /\ ~HasFailures(RegisterTeeMachineChecks(e))
<1> DEFINE V2 == CheckResult("tee-version", "V2", "owner key",
                   Advised(e.ownerKey \/ e.deploymentKey \/ LocalMode(e)))
           V4 == CheckResult("tee-version", "V4", "EXTENSION_ID",
                   IF ~e.config \/ f = NoFile THEN "SKIP"
                   ELSE Required(WellFormed(f.EXTENSION_ID)))
           V6 == Reachable("tee-version", "V6", e.extProxy)
           T1 == CheckResult("tee-machine", "T1", "attestation",
                   Advised(~(e.simulated /\ e.localMode = "false")))
           T5 == Reachable("tee-machine", "T5", e.normalProxy)
           T10 == Reachable("tee-machine", "T10", e.extProxy)
<1>1. V4.status = "FAIL" <=> e.config /\ f # NoFile /\ ~WellFormed(f.EXTENSION_ID)
    BY DEF CheckResult, Required
<1>2. V2.status # "FAIL" /\ T1.status # "FAIL"
    BY DEF CheckResult, Advised
<1>3. V6.status # "FAIL" /\ T5.status # "FAIL" /\ T10.status # "FAIL"
    BY NoServiceFails
<1>4. /\ RegisterTeeVersionChecks(e, f) = {V2, V4, V6}
      /\ RegisterTeeMachineChecks(e) = {T1, T5, T10}
    BY DEF RegisterTeeVersionChecks, RegisterTeeMachineChecks
<1> HIDE DEF V2, V4, V6, T1, T5, T10
<1>5. QED  BY <1>1, <1>2, <1>3, <1>4 DEF HasFailures

LEMMA TestFailures ==
    ASSUME NEW e, NEW f
    PROVE  HasFailures(RegisterTestChecks(e, f)) <=>
             e.config /\ f # NoFile /\ ~WellFormed(f.INSTRUCTION_SENDER)
<1> DEFINE E1 == CheckResult("test", "E1", "INSTRUCTION_SENDER",
                   IF ~e.config \/ f = NoFile THEN "SKIP"
                   ELSE Required(WellFormed(f.INSTRUCTION_SENDER)))
           E3 == Reachable("test", "E3", e.extProxy)
           E6 == CheckResult("test", "E6", "op types", "PASS")
<1>1. E1.status = "FAIL" <=> e.config /\ f # NoFile /\ ~WellFormed(f.INSTRUCTION_SENDER)
    BY DEF CheckResult, Required
<1>2. E3.status # "FAIL" /\ E6.status # "FAIL"
    BY NoServiceFails DEF CheckResult
<1>3. RegisterTestChecks(e, f) = {E1, E3, E6}
    BY DEF RegisterTestChecks
<1> HIDE DEF E1, E3, E6
<1>4. QED  BY <1>1, <1>2, <1>3 DEF HasFailures

(* The exit status of verify-deploy --step all, whatever it is asked with. *)
LEMMA VerdictOfReport ==
    ASSUME NEW e, NEW f \in EnvFiles \cup {NoFile}, NEW r \in Registries
    PROVE  Succeeds("all", {}, e, f, r) <=>
             /\ e.chainUp /\ e.answers /\ e.funded /\ e.manager = "diamond"
             /\ e.config => /\ f # NoFile
                            /\ f.EXTENSION_ID \in Ids /\ f.INSTRUCTION_SENDER \in Senders
                            /\ r.senderOf[f.EXTENSION_ID] = f.INSTRUCTION_SENDER
                            /\ {"machineOwner", "keyType"} \subseteq r.granted[f.EXTENSION_ID]
<1> DEFINE deploy == RegisterDeployChecks(e, f)
           register == RegisterRegistrationChecks(e, f, r)
           services == RegisterServicesChecks(e, f)
           version == RegisterTeeVersionChecks(e, f)
           machine == RegisterTeeMachineChecks(e)
           test == RegisterTestChecks(e, f)
           report == ((((deploy \cup register) \cup services) \cup version) \cup machine) \cup test
<1>1. Succeeds("all", {}, e, f, r) <=> e.chainUp /\ ~HasFailures(report)
  <2>1. Report("all", e, f, r) = report
      BY DEF Report
  <2>2. Shown(Report("all", e, f, r), {}) = report
      BY <2>1 DEF Shown
  <2> HIDE DEF report
  <2>3. QED  BY <2>2 DEF Succeeds, VerifySteps, StepsNeedingChain
<1> HIDE DEF deploy, register, services, version, machine, test
<1>2. HasFailures(report) <=>
        \/ HasFailures(deploy) \/ HasFailures(register) \/ HasFailures(services)
        \/ HasFailures(version) \/ HasFailures(machine) \/ HasFailures(test)
    BY DEF HasFailures
<1> HIDE DEF report
<1> USE DEF deploy, register, services, version, machine, test
<1>3. CASE ~e.config
  <2>1. ~HasFailures(register)
      BY <1>3, RegistrationFailures
  <2>2. QED  BY <1>1, <1>2, <1>3, <2>1, DeployFailures, ServicesFailures, TeeFailures, TestFailures
<1>4. CASE e.config /\ f = NoFile
  <2>1. ~WellFormed(Value(f, "EXTENSION_ID"))
      BY <1>4 DEF Value, WellFormed
  <2>2. QED  BY <1>1, <1>2, <1>4, <2>1, ServicesFailures
<1>5. CASE e.config /\ f # NoFile
  <2>1. /\ Value(f, "EXTENSION_ID") = f.EXTENSION_ID
        /\ Value(f, "INSTRUCTION_SENDER") = f.INSTRUCTION_SENDER
      BY <1>5 DEF Value
  <2>2. /\ WellFormed(f.EXTENSION_ID) <=> f.EXTENSION_ID \in Ids
        /\ WellFormed(f.INSTRUCTION_SENDER) <=> f.INSTRUCTION_SENDER \in Senders
      BY <1>5, Numbers DEF EnvFiles, WellFormed
  <2>3. /\ DOMAIN r.senderOf = Ids /\ DOMAIN r.granted = Ids
      BY DEF Registries
  <2>4. HasFailures(deploy) <=>
          \/ ~(e.answers /\ e.funded /\ e.manager = "diamond")
          \/ ~(f.EXTENSION_ID \in Ids /\ f.INSTRUCTION_SENDER \in Senders)
      BY <1>5, <2>2, DeployFailures
  <2>5. CASE f.EXTENSION_ID \in Ids /\ f.INSTRUCTION_SENDER \in Senders
    <3>1. ~HasFailures(services) /\ ~HasFailures(version) /\ ~HasFailures(machine)
          /\ ~HasFailures(test)
        BY <2>1, <2>2, <2>5, ServicesFailures, TeeFailures, TestFailures
    <3>2. /\ Granted(r, f.EXTENSION_ID, "machineOwner") <=>
               "machineOwner" \in r.granted[f.EXTENSION_ID]
          /\ Granted(r, f.EXTENSION_ID, "keyType") <=> "keyType" \in r.granted[f.EXTENSION_ID]
          /\ SenderMatches(r, f.EXTENSION_ID, f.INSTRUCTION_SENDER) <=>
               r.senderOf[f.EXTENSION_ID] = f.INSTRUCTION_SENDER
        BY <2>3, <2>5 DEF Granted, SenderMatches
    <3>3. HasFailures(register) <=>
            \/ ~AddressHasCode(e)
            \/ "machineOwner" \notin r.granted[f.EXTENSION_ID]
            \/ "keyType" \notin r.granted[f.EXTENSION_ID]
            \/ r.senderOf[f.EXTENSION_ID] # f.INSTRUCTION_SENDER
        BY <1>5, <2>1, <2>2, <2>5, <3>2, RegistrationFailures, Numbers
    <3>4. AddressHasCode(e) <=> e.answers /\ e.manager = "diamond"
        BY DEF AddressHasCode
    <3>5. QED  BY <1>1, <1>2, <1>5, <2>4, <2>5, <3>1, <3>3, <3>4
  <2>6. CASE ~(f.EXTENSION_ID \in Ids /\ f.INSTRUCTION_SENDER \in Senders)
      BY <1>1, <1>2, <1>5, <2>4, <2>6
  <2>7. QED  BY <2>5, <2>6
<1>6. QED  BY <1>3, <1>4, <1>5

(* verify-deploy exits with 0 just for a deployment that is registered. *)
THEOREM ReportIsRight == Spec => []ReportVerdict
<1>1. IInv => ReportVerdict
  <2> SUFFICES ASSUME IInv PROVE ReportVerdict
      OBVIOUS
  <2>1. registry \in Registries /\ extensionEnv \in EnvFiles \cup {NoFile}
      BY DEF IInv, Shapes
  <2>2. QED  BY <2>1, VerdictOfReport DEF ReportVerdict
<1>2. QED  BY <1>1, DeploymentInvariant, PTL

-----------------------------------------------------------------------------
(* The single steps of verify-deploy, and its --checks filter.             *)

LEMMA ReportOfStep ==
    ASSUME NEW e, NEW f, NEW r
    PROVE  /\ Report("deploy", e, f, r) = RegisterDeployChecks(e, f)
           /\ Report("register", e, f, r) = RegisterRegistrationChecks(e, f, r)
           /\ Report("services", e, f, r) = RegisterServicesChecks(e, f)
           /\ Report("tee-version", e, f, r) = RegisterTeeVersionChecks(e, f)
           /\ Report("tee-machine", e, f, r) = RegisterTeeMachineChecks(e)
           /\ Report("test", e, f, r) = RegisterTestChecks(e, f)
<1>1. Report("deploy", e, f, r) = RegisterDeployChecks(e, f)
    BY DEF Report
<1>2. Report("register", e, f, r) = RegisterRegistrationChecks(e, f, r)
    BY DEF Report
<1>3. Report("services", e, f, r) = RegisterServicesChecks(e, f)
    BY DEF Report
<1>4. Report("tee-version", e, f, r) = RegisterTeeVersionChecks(e, f)
    BY DEF Report
<1>5. Report("tee-machine", e, f, r) = RegisterTeeMachineChecks(e)
    BY DEF Report
<1>6. Report("test", e, f, r) = RegisterTestChecks(e, f)
    BY DEF Report
<1>7. QED  BY <1>1, <1>2, <1>3, <1>4, <1>5, <1>6

(* A part of a report fails, under a filter, as a part of the whole. *)
LEMMA ShownOfParts ==
    ASSUME NEW A, NEW B, NEW checks
    PROVE  HasFailures(Shown(A \cup B, checks)) <=>
             HasFailures(Shown(A, checks)) \/ HasFailures(Shown(B, checks))
BY DEF HasFailures, Shown

(* `--step all`, the default of verify-deploy, says what its six single     *)
(* steps say one by one, under every --checks filter: nothing is checked    *)
(* by one and not by the other.                                             *)
THEOREM AllIsEveryStep ==
    ASSUME NEW checks, NEW e, NEW f, NEW r
    PROVE  Succeeds("all", checks, e, f, r) <=>
             \A step \in VerifySteps \ {"all"} : Succeeds(step, checks, e, f, r)
<1> DEFINE Fails(results) == HasFailures(Shown(results, checks))
           deploy == RegisterDeployChecks(e, f)
           register == RegisterRegistrationChecks(e, f, r)
           services == RegisterServicesChecks(e, f)
           version == RegisterTeeVersionChecks(e, f)
           machine == RegisterTeeMachineChecks(e)
           test == RegisterTestChecks(e, f)
<1>1. Report("all", e, f, r) =
        ((((deploy \cup register) \cup services) \cup version) \cup machine) \cup test
    BY DEF Report
<1>2. /\ Report("deploy", e, f, r) = deploy /\ Report("register", e, f, r) = register
      /\ Report("services", e, f, r) = services /\ Report("tee-version", e, f, r) = version
      /\ Report("tee-machine", e, f, r) = machine /\ Report("test", e, f, r) = test
    BY ReportOfStep
<1> HIDE DEF deploy, register, services, version, machine, test
<1>3. Fails(Report("all", e, f, r)) <=>
        \/ Fails(deploy) \/ Fails(register) \/ Fails(services)
        \/ Fails(version) \/ Fails(machine) \/ Fails(test)
  <2> DEFINE first == deploy \cup register
             second == first \cup services
             third == second \cup version
             fourth == third \cup machine
  <2>1. Fails(first) <=> Fails(deploy) \/ Fails(register)
      BY ShownOfParts
  <2>2. Fails(second) <=> Fails(first) \/ Fails(services)
      BY ShownOfParts
  <2>3. Fails(third) <=> Fails(second) \/ Fails(version)
      BY ShownOfParts
  <2>4. Fails(fourth) <=> Fails(third) \/ Fails(machine)
      BY ShownOfParts
  <2>5. Fails(fourth \cup test) <=> Fails(fourth) \/ Fails(test)
      BY ShownOfParts
  <2>6. Report("all", e, f, r) = fourth \cup test
      BY <1>1
  <2> HIDE DEF Fails, first, second, third, fourth
  <2>7. QED  BY <2>1, <2>2, <2>3, <2>4, <2>5, <2>6
<1>4. Succeeds("all", checks, e, f, r) <=> e.chainUp /\ ~Fails(Report("all", e, f, r))
    BY DEF Succeeds, VerifySteps, StepsNeedingChain
<1>5. /\ Succeeds("deploy", checks, e, f, r) <=> e.chainUp /\ ~Fails(deploy)
      /\ Succeeds("register", checks, e, f, r) <=> e.chainUp /\ ~Fails(register)
      /\ Succeeds("services", checks, e, f, r) <=> ~Fails(services)
      /\ Succeeds("tee-version", checks, e, f, r) <=> ~Fails(version)
      /\ Succeeds("tee-machine", checks, e, f, r) <=> ~Fails(machine)
      /\ Succeeds("test", checks, e, f, r) <=> ~Fails(test)
    BY <1>2 DEF Succeeds, VerifySteps, StepsNeedingChain
<1> HIDE DEF Fails
<1>6. VerifySteps \ {"all"} =
        {"deploy", "register", "services", "tee-version", "tee-machine", "test"}
    BY DEF VerifySteps, StepsNeedingChain
<1>7. QED  BY <1>3, <1>4, <1>5, <1>6

(* A --checks filter hides failures and makes none: what succeeds in full   *)
(* succeeds under every filter.  The converse is what ReportVerdict has to  *)
(* leave out.                                                               *)
THEOREM FilterOnlyHides ==
    ASSUME NEW step, NEW checks, NEW e, NEW f, NEW r,
           Succeeds(step, {}, e, f, r)
    PROVE  Succeeds(step, checks, e, f, r)
BY DEF Succeeds, Shown, HasFailures

(* The verdict of `--step register --config`, for every file and registry.  *)
(* Unlike that of `all` it holds of a deployment whose file names no        *)
(* instruction sender, or no extension and no sender at all: R2 and R7      *)
(* are only made for a sender that is well formed.                          *)
THEOREM VerdictOfRegister ==
    ASSUME NEW e, NEW f \in EnvFiles \cup {NoFile}, NEW r \in Registries, e.config
    PROVE  Succeeds("register", {}, e, f, r) <=>
             /\ e.chainUp
             /\ \/ f = NoFile
                \/ f.EXTENSION_ID = Absent /\ f.INSTRUCTION_SENDER = Absent
                \/ /\ e.answers /\ e.manager = "diamond"
                   /\ f.EXTENSION_ID \in Ids
                   /\ {"machineOwner", "keyType"} \subseteq r.granted[f.EXTENSION_ID]
                   /\ \/ f.INSTRUCTION_SENDER = Absent
                      \/ r.senderOf[f.EXTENSION_ID] = f.INSTRUCTION_SENDER
<1> DEFINE register == RegisterRegistrationChecks(e, f, r)
<1>1. Succeeds("register", {}, e, f, r) <=> e.chainUp /\ ~HasFailures(register)
  <2>1. Report("register", e, f, r) = register
      BY ReportOfStep
  <2> HIDE DEF register
  <2>2. Shown(Report("register", e, f, r), {}) = register
      BY <2>1 DEF Shown
  <2>3. QED  BY <2>2 DEF Succeeds, VerifySteps, StepsNeedingChain
<1>2. CASE f = NoFile
  <2>1. Value(f, "EXTENSION_ID") = Absent /\ Value(f, "INSTRUCTION_SENDER") = Absent
      BY <1>2 DEF Value
  <2>2. ~HasFailures(register)
      BY <2>1, RegistrationFailures
  <2> HIDE DEF register
  <2>3. QED  BY <1>1, <1>2, <2>2
<1>3. CASE f # NoFile
  <2>1. /\ Value(f, "EXTENSION_ID") = f.EXTENSION_ID
        /\ Value(f, "INSTRUCTION_SENDER") = f.INSTRUCTION_SENDER
      BY <1>3 DEF Value
  <2>2. /\ WellFormed(f.EXTENSION_ID) <=> f.EXTENSION_ID \in Ids
        /\ WellFormed(f.INSTRUCTION_SENDER) <=> f.INSTRUCTION_SENDER # Absent
      BY <1>3, Numbers DEF EnvFiles, WellFormed
  <2>3. f.INSTRUCTION_SENDER \in Senders \cup {Absent}
      BY <1>3 DEF EnvFiles
  <2>4. DOMAIN r.senderOf = Ids /\ DOMAIN r.granted = Ids
      BY DEF Registries
  <2>5. HasFailures(register) <=>
          /\ ~(f.EXTENSION_ID = Absent /\ f.INSTRUCTION_SENDER = Absent)
          /\ \/ ~AddressHasCode(e) \/ f.EXTENSION_ID \notin Ids
             \/ ~Granted(r, f.EXTENSION_ID, "machineOwner")
             \/ ~Granted(r, f.EXTENSION_ID, "keyType")
             \/ /\ f.INSTRUCTION_SENDER # Absent
                /\ ~SenderMatches(r, f.EXTENSION_ID, f.INSTRUCTION_SENDER)
      BY <2>1, <2>2, RegistrationFailures
  <2> HIDE DEF register
  <2>6. AddressHasCode(e) <=> e.answers /\ e.manager = "diamond"
      BY DEF AddressHasCode
  <2>7. CASE f.EXTENSION_ID \in Ids
    <3>1. /\ Granted(r, f.EXTENSION_ID, "machineOwner") <=>
               "machineOwner" \in r.granted[f.EXTENSION_ID]
          /\ Granted(r, f.EXTENSION_ID, "keyType") <=> "keyType" \in r.granted[f.EXTENSION_ID]
          /\ SenderMatches(r, f.EXTENSION_ID, f.INSTRUCTION_SENDER) <=>
               r.senderOf[f.EXTENSION_ID] = f.INSTRUCTION_SENDER
        BY <2>4, <2>7 DEF Granted, SenderMatches
    <3>2. f.EXTENSION_ID # Absent
        BY <2>7, Numbers
    <3>3. QED  BY <1>1, <1>3, <2>5, <2>6, <2>7, <3>1, <3>2
  <2>8. CASE f.EXTENSION_ID \notin Ids
      BY <1>1, <1>3, <2>5, <2>8
  <2>9. QED  BY <2>7, <2>8
<1>4. QED  BY <1>2, <1>3
=============================================================================
