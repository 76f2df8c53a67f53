----------------------------- MODULE DeployChecks -----------------------------
(***************************************************************************)
(* The read-only report of fcc-scaffold/tools/cmd/verify-deploy: the       *)
(* checks of tools/pkg/validate/checks.go and the tally of report.go.      *)
(*                                                                         *)
(* A report is the set of its results; wording and layout are left out.    *)
(* e is the invocation: its flags, its environment variables and what the  *)
(* network answers it.  f is config/extension.env, a record of its two     *)
(* values or NoFile.  r is the extension registry.                         *)
(***************************************************************************)
EXTENDS Integers, FiniteSets

CONSTANTS
    FirstId,    \* FIRST_PUBLIC_EXTENSION_ID of the registry
    Absent,     \* the variable is not in the file
    Malformed,  \* its value does not match addressRegex or extensionIDRegex
    NoFile,
    NoSender    \* getTeeExtensionInstructionsSender of an unknown identifier

ASSUME DeployChecksAssumption == FirstId \in Nat \ {0} /\ Absent # Malformed

ReportStatuses == {"PASS", "WARN", "FAIL", "SKIP"}
CheckResult(step, id, name, status) ==
    [step |-> step, id |-> id, name |-> name, status |-> status]

Required(ok) == IF ok THEN "PASS" ELSE "FAIL"
Advised(ok) == IF ok THEN "PASS" ELSE "WARN"

HasFailures(results) == \E r \in results : r.status = "FAIL"
Summary(results) ==
    [s \in ReportStatuses |-> Cardinality({r \in results : r.status = s})]

(* parseExtensionEnv: a missing file reads as two empty values. *)
Value(f, variable) == IF f = NoFile THEN Absent ELSE f[variable]
WellFormed(v) == v \notin {Absent, Malformed}

LocalMode(e) == e.localMode \in {"true", "unset"}

AddressNotZero(e) == e.manager # "zero"
AddressHasCode(e) == e.answers /\ e.manager = "diamond"
KeyHasFunds(e) == e.answers /\ e.funded

(* An HTTP service asked for its /info. *)
Reachable(step, id, url) ==
    CheckResult(step, id, "reachable",
                IF url = "unset" THEN "SKIP" ELSE Advised(url = "up"))

-----------------------------------------------------------------------------
CheckDeployerKeySource(e) ==
    CheckResult("deploy", "D5", "key source", Advised(e.deploymentKey \/ LocalMode(e)))

CheckExtensionEnvFormat(f) ==
    IF f = NoFile
    THEN {CheckResult("deploy", "D7", "exists", "SKIP")}
    ELSE {CheckResult("deploy", "D7", v, Required(WellFormed(f[v]))) :
            v \in {"EXTENSION_ID", "INSTRUCTION_SENDER"}}

RegisterDeployChecks(e, f) ==
    {CheckResult("deploy", "D3", "not zero", Required(AddressNotZero(e))),
     CheckDeployerKeySource(e),
     CheckResult("deploy", "D5", "funds", Required(KeyHasFunds(e))),
     CheckResult("deploy", "D6", "chain ID", Required(e.answers))}
    \cup (IF AddressNotZero(e)
          THEN {CheckResult("deploy", "D1", "code", Required(AddressHasCode(e)))} ELSE {})
    \cup (IF e.config THEN CheckExtensionEnvFormat(f) ELSE {})

-----------------------------------------------------------------------------
(* The checks against the registry, of an identifier that is well formed.  A *)
(* sender that is not is passed over.                                        *)
SenderOfAnyId(r, id, sender) == \E i \in DOMAIN r.senderOf : r.senderOf[i] = sender
SenderMatches(r, id, sender) == id \in DOMAIN r.senderOf /\ r.senderOf[id] = sender
Granted(r, id, grant) == id \in DOMAIN r.granted /\ grant \in r.granted[id]

R2Sender(e, f, r) ==
    IF WellFormed(Value(f, "INSTRUCTION_SENDER"))
    THEN {CheckResult("register", "R2", "sender", Required(
            AddressHasCode(e) /\ SenderMatches(r, f.EXTENSION_ID, f.INSTRUCTION_SENDER)))}
    ELSE {}

R3Owner(e, f, r) == CheckResult("register", "R3", "machine owner", Required(
    AddressHasCode(e) /\ Granted(r, f.EXTENSION_ID, "machineOwner")))

R4KeyType(e, f, r) == CheckResult("register", "R4", "EVM key type", Required(
    AddressHasCode(e) /\ Granted(r, f.EXTENSION_ID, "keyType")))

(* The identifiers below FirstId, which the loop asks for too, have no sender. *)
R7Unique(e, f, r) ==
    IF AddressHasCode(e) /\ r.nextId > 0 /\ WellFormed(Value(f, "INSTRUCTION_SENDER"))
    THEN {CheckResult("register", "R7", "unique", Advised(
            Cardinality({i \in FirstId..(r.nextId - 1) :
                           r.senderOf[i] = f.INSTRUCTION_SENDER}) <= 1))}
    ELSE {}

R1Counter(e, r) == CheckResult("register", "R1", "next id",
    IF AddressHasCode(e) THEN Advised(r.nextId # 0) ELSE "FAIL")

RegisterRegistrationChecks(e, f, r) ==
    LET id == Value(f, "EXTENSION_ID")
        sender == Value(f, "INSTRUCTION_SENDER")
    IN  IF ~e.config \/ (id = Absent /\ sender = Absent)
        THEN {CheckResult("register", "R1-R7", "registration", "SKIP")}
        ELSE {R1Counter(e, r)} \cup
             (IF WellFormed(id)
              THEN {R3Owner(e, f, r), R4KeyType(e, f, r)}
                     \cup R2Sender(e, f, r) \cup R7Unique(e, f, r)
              ELSE {CheckResult("register", "R2", "format", "FAIL")})

-----------------------------------------------------------------------------
RegisterServicesChecks(e, f) ==
    {CheckResult("services", "S2", "EXTENSION_ID",
       IF ~e.config THEN "SKIP" ELSE Required(WellFormed(Value(f, "EXTENSION_ID")))),
     CheckResult("services", "S5", "port free", Advised(~e.portInUse)),
     CheckResult("services", "S7", "ports", "PASS"),
     Reachable("services", "S9", e.extProxy),
     CheckResult("services", "S10", "proxy key",
       Advised(LocalMode(e) \/ e.proxyKey))}

RegisterTeeVersionChecks(e, f) ==
    {CheckResult("tee-version", "V2", "owner key",
       Advised(e.ownerKey \/ e.deploymentKey \/ LocalMode(e))),
     CheckResult("tee-version", "V4", "EXTENSION_ID",
       IF ~e.config \/ f = NoFile THEN "SKIP"
       ELSE Required(WellFormed(f.EXTENSION_ID))),
     Reachable("tee-version", "V6", e.extProxy)}

RegisterTeeMachineChecks(e) ==
    {CheckResult("tee-machine", "T1", "attestation",
       Advised(~(e.simulated /\ e.localMode = "false"))),
     Reachable("tee-machine", "T5", e.normalProxy),
     Reachable("tee-machine", "T10", e.extProxy)}

RegisterTestChecks(e, f) ==
    {CheckResult("test", "E1", "INSTRUCTION_SENDER",
       IF ~e.config \/ f = NoFile THEN "SKIP"
       ELSE Required(WellFormed(f.INSTRUCTION_SENDER))),
     Reachable("test", "E3", e.extProxy),
     CheckResult("test", "E6", "op types", "PASS")}

-----------------------------------------------------------------------------
(* main of verify-deploy: the report of a step, and the exit status.  The    *)
(* --checks filter hides results before the exit status is taken from them.  *)
StepsNeedingChain == {"deploy", "register", "all"}
VerifySteps == StepsNeedingChain \cup {"services", "tee-version", "tee-machine", "test"}

Report(step, e, f, r) ==
    LET Of(s, results) == IF step \in {s, "all"} THEN results ELSE {}
    IN  Of("deploy", RegisterDeployChecks(e, f))
          \cup Of("register", RegisterRegistrationChecks(e, f, r))
          \cup Of("services", RegisterServicesChecks(e, f))
          \cup Of("tee-version", RegisterTeeVersionChecks(e, f))
          \cup Of("tee-machine", RegisterTeeMachineChecks(e))
          \cup Of("test", RegisterTestChecks(e, f))

Shown(results, checks) == IF checks = {} THEN results ELSE {r \in results : r.id \in checks}

Succeeds(step, checks, e, f, r) ==
    /\ step \in VerifySteps
    /\ step \in StepsNeedingChain => e.chainUp
    /\ ~HasFailures(Shown(Report(step, e, f, r), checks))
=============================================================================
