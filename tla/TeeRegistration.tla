---------------------------- MODULE TeeRegistration ----------------------------
(***************************************************************************)
(* The registration of a TEE machine: register-tee and RegisterNode of     *)
(* fcc-scaffold/tools/pkg/fccutils/registration.go.                        *)
(*                                                                         *)
(* A run goes through the steps r (pre-registration), R (a fresh           *)
(* attestation), a (availability check) and p (promotion to production),   *)
(* those of them its command names.  After r, R and a it writes a progress *)
(* file, which a run started with --resume skips by.  A run may stop       *)
(* anywhere: a call fails, CheckTx gives up on a transaction that is mined *)
(* later, a write of the file is cut short.  Writing and removing the file *)
(* may also fail without stopping the run.  The operator starts one run at *)
(* a time.                                                                 *)
(*                                                                         *)
(* External: the machine registry, which knows a machine, accepts for an   *)
(* availability check one live attestation of that machine once, and       *)
(* promotes the machine a proof is about; the data providers, who prove a  *)
(* check or do not; and the node behind the proxy, which is another        *)
(* machine after it has been redeployed.                                   *)
(***************************************************************************)
EXTENDS Integers, Sequences

CONSTANTS
    Runs,       \* invocations of register-tee
    Machines,
    Commands,   \* -command: the steps operators ask for
    NoFile, Corrupt

Steps == {"r", "R", "a", "p"}

ASSUME TeeRegistrationAssumption ==
    /\ \A c \in Commands : c \subseteq Steps
    /\ NoFile # Corrupt

VARIABLES
    node,          \* the machine behind the extension proxy
    machine,       \* machine[m]: what the registry knows of m
    instructions,  \* the instructions sent, by identifier
    file,          \* the progress file
    at, step,      \* where each run is
    local,         \* its variables
    tx             \* its latest transaction

chain == <<machine, instructions>>
vars == <<node, chain, file, at, step, local, tx>>

(* registrationState *)
NoState == [steps |-> {}, attestation |-> 0, instruction |-> 0]
NoTx == [call |-> "none", tee |-> node, ref |-> 0, status |-> "none", id |-> 0]

Init ==
    /\ node \in Machines
    /\ machine = [m \in Machines |-> "unknown"]
    /\ instructions = <<>>
    /\ file = NoFile
    /\ at = [u \in Runs |-> "idle"]
    /\ step = [u \in Runs |-> "r"]
    /\ local = [u \in Runs |-> [tee |-> node, command |-> {}, arg |-> 0, resuming |-> FALSE,
                                state |-> NoState, attestation |-> 0, instruction |-> 0]]
    /\ tx = [u \in Runs |-> NoTx]

Goto(u, place) == at' = [at EXCEPT ![u] = place]
Ended == {"done", "refused", "stopped"}

-----------------------------------------------------------------------------
(* Without --resume the file is removed; a failure to is logged. *)
Launch(u, resume, command, arg) ==
    /\ at[u] = "idle"
    /\ \A v \in Runs : at[v] \in Ended \cup {"idle"}
    /\ file' \in IF resume THEN {file} ELSE {file, NoFile}
    /\ local' = [local EXCEPT ![u].command = command, ![u].arg = arg]
    /\ Goto(u, "info")
    /\ UNCHANGED <<node, chain, step, tx>>

ReadNode(u) ==
    /\ at[u] = "info"
    /\ local' = [local EXCEPT ![u].tee = node]
    /\ Goto(u, "load")
    /\ UNCHANGED <<node, chain, file, step, tx>>

LoadState(u) ==
    /\ at[u] = "load"
    /\ IF file = Corrupt
       THEN Goto(u, "stopped") /\ UNCHANGED local
       ELSE /\ local' = [local EXCEPT ![u].state = IF file = NoFile THEN NoState ELSE file,
                                      ![u].resuming = file # NoFile]
            /\ Goto(u, "step")
    /\ UNCHANGED <<node, chain, file, step, tx>>

AfterTooFar == [r |-> "R", R |-> "a", a |-> "p", p |-> "q"]
After == [r |-> "R", R |-> "a", a |-> "p", p |-> "end"]

Known(m) == machine[m] # "unknown"

CompletedOrKnown(l, s) == s \in l.state.steps \/ (s = "r" /\ Known(l.tee))
Completed(l, s) == s \in l.state.steps

(* A step that was completed before leaves what the file says of it. *)
SkipCompleted(u) ==
    LET l == local[u] IN
    /\ at[u] = "step" /\ step[u] \in l.command /\ Completed(l, step[u])
    /\ local' = [local EXCEPT ![u] =
         IF step[u] = "a" THEN [l EXCEPT !.instruction = l.state.instruction]
                          ELSE [l EXCEPT !.attestation = l.state.attestation]]
    /\ step' = [step EXCEPT ![u] = After[@]]
    /\ UNCHANGED <<node, chain, file, at, tx>>

(* A step the command does not name; the check is then the one given by -i. *)
SkipUnasked(u) ==
    /\ at[u] = "step" /\ step[u] \in Steps \ local[u].command
    /\ local' = IF step[u] = "a" THEN [local EXCEPT ![u].instruction = local[u].arg]
                                 ELSE local
    /\ step' = [step EXCEPT ![u] = After[@]]
    /\ UNCHANGED <<node, chain, file, at, tx>>

IsAttestation(i, m) ==
    /\ i \in DOMAIN instructions
    /\ instructions[i].kind = "attestation" /\ instructions[i].tee = m
IsCheck(i) == i \in DOMAIN instructions /\ instructions[i].kind = "check"
Proved(i) == IsCheck(i) /\ instructions[i].state = "proved"

(* The transaction of a step; the machine of p is the one the proof names. *)
Transaction(u) ==
    LET l == local[u]
        Call(call, tee, ref) ==
            [call |-> call, tee |-> tee, ref |-> ref, status |-> "pending", id |-> 0]
    IN  CASE step[u] = "r" -> IF Known(l.tee) THEN Call("requestAttestation", l.tee, 0)
                                              ELSE Call("register", l.tee, 0)
          [] step[u] = "R" -> Call("requestAttestation", l.tee, 0)
          [] step[u] = "a" -> Call("requestCheck", l.tee, l.attestation)
          [] step[u] = "p" -> Call("toProduction", instructions[l.instruction].tee,
                                   l.instruction)

(* The registry would accept the transaction. *)
Accepted(t) ==
    CASE t.call = "register" -> ~Known(t.tee)
      [] t.call = "requestAttestation" -> Known(t.tee)
      [] t.call = "requestCheck" -> /\ IsAttestation(t.ref, t.tee)
                                    /\ instructions[t.ref].state = "live"
      [] t.call = "toProduction" -> Proved(t.ref)

Due(u) == /\ at[u] = "step" /\ step[u] \in local[u].command
          /\ ~Completed(local[u], step[u])

(* The data providers' signing policy is seen not to be that of the chain, *)
(* nor the next one: a lookup that fails does not stop the run.            *)
PolicyOutOfSync(u) ==
    /\ Due(u) /\ step[u] = "a"
    /\ Goto(u, "stopped")
    /\ UNCHANGED <<node, chain, file, step, local, tx>>

(* The step is due: its transaction is sent, unless the estimate of its gas *)
(* reverts.  Before p the proof is polled for.                              *)
Send(u) ==
    /\ Due(u)
    /\ step[u] = "p" => Proved(local[u].instruction)
    /\ IF Accepted(Transaction(u))
       THEN tx' = [tx EXCEPT ![u] = Transaction(u)] /\ Goto(u, "wait")
       ELSE Goto(u, "refused") /\ UNCHANGED tx
    /\ UNCHANGED <<node, chain, file, step, local>>

ConfirmedWhenSent(t) == t.status \in {"pending", "mined"}
Confirmed(t) == t.status = "mined"

(* What the run remembers of a confirmed step. *)
Remember(l, s, id) ==
    IF s = "a"
    THEN [l EXCEPT !.instruction = id,
                   !.state = [l.state EXCEPT !.steps = @ \cup {s}, !.instruction = id]]
    ELSE [l EXCEPT !.attestation = id,
                   !.state = [l.state EXCEPT !.steps = @ \cup {s}, !.attestation = id]]

Receipt(u) ==
    /\ at[u] = "wait"
    /\ \/ /\ Confirmed(tx[u])
          /\ IF step[u] = "p"
             THEN step' = [step EXCEPT ![u] = After[@]] /\ Goto(u, "step") /\ UNCHANGED local
             ELSE /\ local' = [local EXCEPT ![u] = Remember(@, step[u], tx[u].id)]
                  /\ Goto(u, "save")
                  /\ UNCHANGED step
       \/ tx[u].status = "reverted" /\ Goto(u, "refused") /\ UNCHANGED <<step, local>>
    /\ UNCHANGED <<node, chain, file, tx>>

(* A failure to write the file is logged. *)
SaveState(u) ==
    /\ at[u] = "save"
    /\ file' \in {file, local[u].state}
    /\ step' = [step EXCEPT ![u] = After[@]]
    /\ Goto(u, "step")
    /\ UNCHANGED <<node, chain, local, tx>>

(* The file is removed after whatever steps the command named; a failure to *)
(* remove it is ignored.                                                    *)
Finish(u) ==
    /\ at[u] = "step" /\ step[u] = "end"
    /\ file' \in {file, NoFile}
    /\ Goto(u, "done")
    /\ UNCHANGED <<node, chain, step, local, tx>>

(* A call fails, CheckTx or the polling times out, or the run is killed, in  *)
(* the middle of a write perhaps.                                            *)
Fail(u) ==
    /\ at[u] \notin Ended \cup {"idle"}
    /\ file' \in IF at[u] = "save" THEN {file, Corrupt} ELSE {file}
    /\ Goto(u, "stopped")
    /\ UNCHANGED <<node, chain, step, local, tx>>

-----------------------------------------------------------------------------
(* Environment. *)

Instruction(kind, m, state) == [kind |-> kind, tee |-> m, state |-> state]

(* The instructions after an accepted transaction, which uses up the         *)
(* attestation it names.                                                     *)
InstructionsAfter(t) ==
    CASE t.call \in {"register", "requestAttestation"} ->
           Append(instructions, Instruction("attestation", t.tee, "live"))
      [] t.call = "requestCheck" ->
           Append([instructions EXCEPT ![t.ref].state = "used"],
                  Instruction("check", t.tee, "open"))
      [] t.call = "toProduction" -> instructions

Mine(u) ==
    /\ tx[u].status = "pending"
    /\ IF Accepted(tx[u])
       THEN /\ instructions' = InstructionsAfter(tx[u])
            /\ machine' = [machine EXCEPT ![tx[u].tee] =
                 IF tx[u].call = "toProduction" THEN "production"
                 ELSE IF @ = "unknown" THEN "registered" ELSE @]
            /\ tx' = [tx EXCEPT ![u].status = "mined", ![u].id = Len(instructions')]
       ELSE tx' = [tx EXCEPT ![u].status = "reverted"] /\ UNCHANGED chain
    /\ UNCHANGED <<node, file, at, step, local>>

(* An attestation expires, or a check is proved. *)
InstructionMoves(i) ==
    /\ \E next \in {<<"live", "expired">>, <<"open", "proved">>} :
         /\ instructions[i].state = next[1]
         /\ instructions' = [instructions EXCEPT ![i].state = next[2]]
    /\ UNCHANGED <<node, machine, file, at, step, local, tx>>

(* The node is redeployed and comes back with another key. *)
Redeploy(m) ==
    /\ m # node
    /\ node' = m
    /\ UNCHANGED <<chain, file, at, step, local, tx>>

RunStep(u) ==
    \/ \E resume \in BOOLEAN, command \in Commands, arg \in {0} \cup DOMAIN instructions :
         Launch(u, resume, command, arg)
    \/ ReadNode(u) \/ LoadState(u) \/ SkipCompleted(u) \/ SkipUnasked(u)
    \/ PolicyOutOfSync(u) \/ Send(u) \/ Receipt(u) \/ SaveState(u) \/ Finish(u) \/ Fail(u)

Next ==
    \/ \E u \in Runs : RunStep(u) \/ Mine(u)
    \/ \E i \in DOMAIN instructions : InstructionMoves(i)
    \/ \E m \in Machines : Redeploy(m)

Spec == Init /\ [][Next]_vars

-----------------------------------------------------------------------------
(* The registry, the file and the runs hold values of their shapes. *)
TypeOK ==
    /\ node \in Machines
    /\ machine \in [Machines -> {"unknown", "registered", "production"}]
    /\ \A i \in DOMAIN instructions :
         /\ instructions[i].tee \in Machines
         /\ instructions[i].state \in IF instructions[i].kind = "check"
                                      THEN {"open", "proved"} ELSE {"live", "used", "expired"}
    /\ file \in {NoFile, Corrupt} \/ (file.steps \subseteq {"r", "R", "a"} /\ file.steps # {})
    /\ at \in [Runs -> {"idle", "info", "load", "step", "wait", "save"} \cup Ended]
    /\ step \in [Runs -> Steps \cup {"end"}]
    /\ \A u \in Runs : tx[u].status = "mined" /\ tx[u].call # "toProduction" =>
         tx[u].id \in DOMAIN instructions

(* "Saved to a state file after each step so registration can resume after  *)
(* failures" (registration.go:26): the file never claims what the chain     *)
(* does not bear out.  The attestation it names was requested for a machine *)
(* the registry knows, the check it names was requested; this holds of      *)
(* transactions mined after their run gave up, of redeployed nodes and of   *)
(* runs with other commands.                                                *)
ProgressTruthful == file \notin {NoFile, Corrupt} =>
    /\ file.steps \cap {"r", "R"} # {} =>
         /\ file.attestation \in DOMAIN instructions
         /\ IsAttestation(file.attestation, instructions[file.attestation].tee)
         /\ Known(instructions[file.attestation].tee)
    /\ "a" \in file.steps => IsCheck(file.instruction)

(* "the original attestation challenge is one-shot and may have expired, so  *)
(* request a FRESH attestation to get a valid challenge" (registration.go:85)*)
(* a run that does not resume has its availability check refused only if the *)
(* attestation expired under it, never because an earlier run has used it,   *)
(* or had requested it for another machine.                                  *)
FreshChallenge == \A u \in Runs :
    /\ at[u] = "refused" /\ step[u] = "a"
    /\ ~local[u].resuming
    /\ local[u].command \cap {"r", "R"} # {}
    => /\ IsAttestation(local[u].attestation, local[u].tee)
       /\ instructions[local[u].attestation].state = "expired"

(* A run that starts afresh, requests its own check and ends has put the     *)
(* machine it names in production, redeployments and other runs or not.      *)
FreshRunPromotesItsMachine == \A u \in Runs :
    /\ at[u] = "done" /\ ~local[u].resuming
    /\ {"a", "p"} \subseteq local[u].command
    => machine[local[u].tee] = "production"

(* A run that reports "Registered TEE node with id" (register-tee/main.go:72)*)
(* after the promotion step has put the machine of that identifier into      *)
(* production.                                                               *)
ReportedMachineInProduction == \A u \in Runs :
    at[u] = "done" /\ "p" \in local[u].command => machine[local[u].tee] = "production"
=============================================================================
