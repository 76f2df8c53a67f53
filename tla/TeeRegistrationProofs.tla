----------------------- MODULE TeeRegistrationProofs -----------------------
(***************************************************************************)
(* Proofs about TeeRegistration, for any number of runs and machines and   *)
(* every choice of commands.                                               *)
(***************************************************************************)
EXTENDS TeeRegistration, SequenceTheorems, TLAPS

-----------------------------------------------------------------------------
(* Shapes, in more detail than TypeOK gives them.                          *)

Instructions ==
    [kind : {"attestation"}, tee : Machines, state : {"live", "used", "expired"}]
      \cup [kind : {"check"}, tee : Machines, state : {"open", "proved"}]
States == [steps : SUBSET {"r", "R", "a"}, attestation : Nat, instruction : Nat]
Locals == [tee : Machines, command : SUBSET Steps, arg : Nat, resuming : BOOLEAN,
           state : States, attestation : Nat, instruction : Nat]
Transactions ==
    [call : {"none", "register", "requestAttestation", "requestCheck", "toProduction"},
     tee : Machines, ref : Nat, status : {"none", "pending", "mined", "reverted"}, id : Nat]
Places == {"idle", "info", "load", "step", "wait", "save"} \cup Ended

Shapes ==
    /\ node \in Machines
    /\ machine \in [Machines -> {"unknown", "registered", "production"}]
    /\ instructions \in Seq(Instructions)
    /\ file \in States \cup {NoFile, Corrupt}
    /\ at \in [Runs -> Places]
    /\ step \in [Runs -> Steps \cup {"end"}]
    /\ local \in [Runs -> Locals]
    /\ tx \in [Runs -> Transactions]

-----------------------------------------------------------------------------
(* The inductive invariant.                                                *)

(* The chain bears out what a progress state claims. *)
Truthful(s) ==
    /\ s.steps \cap {"r", "R"} # {} =>
         /\ s.attestation \in DOMAIN instructions
         /\ IsAttestation(s.attestation, instructions[s.attestation].tee)
         /\ Known(instructions[s.attestation].tee)
    /\ "a" \in s.steps => IsCheck(s.instruction)

(* What a mined transaction has left on the chain. *)
Effect(t) ==
    /\ t.call \in {"register", "requestAttestation"} =>
         IsAttestation(t.id, t.tee) /\ Known(t.tee)
    /\ t.call = "requestCheck" => IsCheck(t.id) /\ instructions[t.id].tee = t.tee
    /\ t.call = "toProduction" => machine[t.tee] = "production"

TxInv(u) ==
    /\ tx[u].status = "none" <=> tx[u].call = "none"
    /\ tx[u].status = "pending" => at[u] \in {"wait"} \cup Ended
    /\ tx[u].status = "mined" => Effect(tx[u])
    /\ tx[u].call = "requestCheck" => tx[u].ref \in DOMAIN instructions

(* The transaction a waiting run waits for is the one of its step. *)
WaitsFor(u) ==
    LET l == local[u] IN
    /\ step[u] \in Steps /\ tx[u].status # "none"
    /\ step[u] \in {"r", "R"} =>
         tx[u].call \in {"register", "requestAttestation"} /\ tx[u].tee = l.tee
    /\ step[u] = "a" =>
         tx[u].call = "requestCheck" /\ tx[u].tee = l.tee /\ tx[u].ref = l.attestation
    /\ step[u] = "p" =>
         /\ tx[u].call = "toProduction"
         /\ l.instruction \in DOMAIN instructions
         /\ tx[u].tee = instructions[l.instruction].tee

StageInv(u) ==
    /\ at[u] \in {"idle", "info", "load"} => step[u] = "r" /\ ~local[u].resuming
    /\ at[u] = "wait" => WaitsFor(u)
    /\ at[u] = "save" => step[u] \in {"r", "R", "a"} /\ local[u].state.steps # {}

(* Attestation k is that of run u, and no check but u's own may use it up. *)
Own(u, k) ==
    /\ IsAttestation(k, local[u].tee)
    /\ instructions[k].state \in {"live", "expired"}
    /\ \A v \in Runs : v # u /\ tx[v].status = "pending" /\ tx[v].call = "requestCheck" =>
         tx[v].ref # k

Expired(u) ==
    /\ IsAttestation(local[u].attestation, local[u].tee)
    /\ instructions[local[u].attestation].state = "expired"

Before == [r |-> {}, R |-> {"r"}, a |-> {"r", "R"}, p |-> {"r", "R", "a"},
           end |-> {"r", "R", "a"}]

(* A run that starts afresh has completed only steps of its own. *)
FreshSteps(u) ==
    /\ at[u] \in {"step", "wait"} => local[u].state.steps \subseteq Before[step[u]]
    /\ at[u] = "save" => local[u].state.steps \subseteq Before[step[u]] \cup {step[u]}

(* From the time it has requested an attestation to its check. *)
FreshAttestation(u) ==
    LET l == local[u] IN
    /\ at[u] = "step" /\ (step[u] = "a" \/ (step[u] = "R" /\ "r" \in l.command)) =>
         Own(u, l.attestation)
    /\ at[u] = "save" /\ step[u] \in {"r", "R"} => Own(u, l.attestation)
    /\ at[u] = "wait" /\ step[u] \in {"r", "R"} /\ tx[u].status = "mined" => Own(u, tx[u].id)
    /\ at[u] = "wait" /\ step[u] = "a" /\ tx[u].status = "pending" => Own(u, l.attestation)
    /\ at[u] = "wait" /\ step[u] = "a" /\ tx[u].status = "reverted" => Expired(u)
    /\ at[u] = "refused" /\ step[u] = "a" => Expired(u)

(* From its check to the promotion of the machine the check is about. *)
FreshCheck(u) ==
    LET l == local[u] IN
    /\ (at[u] = "save" /\ step[u] = "a") \/ (at[u] \in {"step", "wait"} /\ step[u] = "p") =>
         IsCheck(l.instruction) /\ instructions[l.instruction].tee = l.tee
    /\ at[u] = "done" \/ (at[u] = "step" /\ step[u] = "end") => machine[l.tee] = "production"

FreshInv(u) == ~local[u].resuming /\ at[u] \notin {"idle", "info", "load"} =>
    /\ FreshSteps(u)
    /\ local[u].command \cap {"r", "R"} # {} => FreshAttestation(u)
    /\ {"a", "p"} \subseteq local[u].command => FreshCheck(u)

RunInv(u) == TxInv(u) /\ Truthful(local[u].state) /\ StageInv(u) /\ FreshInv(u)

Active(u) == at[u] \notin Ended \cup {"idle"}

FileInv == file \notin {NoFile, Corrupt} => file.steps # {} /\ Truthful(file)

IInv ==
    /\ Shapes
    /\ FileInv
    /\ \A u, v \in Runs : Active(u) /\ Active(v) => u = v
    /\ \A u \in Runs : RunInv(u)

-----------------------------------------------------------------------------
(* Steps of a run: the chain stays as it is.                               *)

RunVarsKept(v) == /\ at'[v] = at[v] /\ step'[v] = step[v]
                  /\ local'[v] = local[v] /\ tx'[v] = tx[v]

(* A run's own step concerns the other runs only through the attestations    *)
(* they count on, and none of them counts on one while another run is active.*)
LEMMA OtherRuns ==
    ASSUME IInv, NEW u \in Runs, UNCHANGED chain,
           \A v \in Runs : v # u => RunVarsKept(v),
           UNCHANGED tx \/ Active(u)
    PROVE  \A v \in Runs : v # u => RunInv(v)'
<1> SUFFICES ASSUME NEW v \in Runs, v # u PROVE RunInv(v)'
    OBVIOUS
<1>1. /\ at'[v] = at[v] /\ step'[v] = step[v] /\ local'[v] = local[v] /\ tx'[v] = tx[v]
      /\ machine' = machine /\ instructions' = instructions
    BY DEF RunVarsKept, chain
<1>2. RunInv(v)
    BY DEF IInv
<1>3. TxInv(v)'
    BY <1>1, <1>2 DEF RunInv, TxInv, Effect, IsAttestation, IsCheck, Known
<1>4. (Truthful(local[v].state))'
    BY <1>1, <1>2 DEF RunInv, Truthful, IsAttestation, IsCheck, Known
<1>5. StageInv(v)'
    BY <1>1, <1>2 DEF RunInv, StageInv, WaitsFor
<1>6. FreshInv(v)'
  <2>1. CASE UNCHANGED tx
      BY <1>1, <1>2, <2>1 DEF RunInv, FreshInv, FreshSteps, FreshAttestation, FreshCheck, Own,
                              Expired, IsAttestation, IsCheck
  <2>2. CASE Active(u)
    <3>1. at[v] \in Ended \cup {"idle"}
        BY <2>2 DEF IInv, Active
    <3>2. QED  BY <1>1, <1>2, <3>1 DEF RunInv, FreshInv, FreshSteps, FreshAttestation,
                                       FreshCheck, Expired, IsAttestation, Ended
  <2>3. QED  BY <2>1, <2>2
<1>7. QED  BY <1>3, <1>4, <1>5, <1>6 DEF RunInv

LEMMA RunStepIInv ==
    ASSUME IInv, NEW u \in Runs, UNCHANGED chain,
           \A v \in Runs : v # u => RunVarsKept(v),
           UNCHANGED tx \/ Active(u),
           Active(u) \/ \A v \in Runs : ~Active(v),
           Shapes', FileInv', RunInv(u)'
    PROVE  IInv'
<1>1. \A v \in Runs : v # u => RunInv(v)'
    BY OtherRuns
<1>2. ASSUME NEW v \in Runs, NEW w \in Runs, Active(v)', Active(w)'
      PROVE  v = w
    BY <1>2 DEF IInv, Active, RunVarsKept
<1>3. QED  BY <1>1, <1>2 DEF IInv

(* A file that is kept, removed or corrupted claims nothing new. *)
LEMMA FileKept ==
    ASSUME IInv, UNCHANGED chain, file' \in {file, NoFile, Corrupt}
    PROVE  FileInv' /\ file' \in States \cup {NoFile, Corrupt}
BY DEF IInv, Shapes, FileInv, Truthful, IsAttestation, IsCheck, Known, chain

LEMMA LaunchIInv ==
    ASSUME IInv, NEW u \in Runs, NEW resume \in BOOLEAN, NEW command \in Commands,
           NEW arg \in {0} \cup DOMAIN instructions, Launch(u, resume, command, arg)
    PROVE  IInv'
<1>1. /\ at[u] = "idle" /\ \A v \in Runs : ~Active(v)
      /\ file' \in {file, NoFile, Corrupt}
      /\ local' = [local EXCEPT ![u].command = command, ![u].arg = arg]
      /\ at' = [at EXCEPT ![u] = "info"]
      /\ UNCHANGED <<node, chain, step, tx>>
    BY DEF Launch, Goto, Active
<1>2. command \subseteq Steps /\ arg \in Nat
    BY TeeRegistrationAssumption DEF IInv, Shapes
<1>3. Shapes'
    BY <1>1, <1>2, FileKept DEF IInv, Shapes, Locals, Places, chain
<1>4. RunInv(u)
    BY DEF IInv
<1>5. /\ at'[u] = "info" /\ step'[u] = step[u] /\ tx'[u] = tx[u]
      /\ local'[u].state = local[u].state /\ local'[u].resuming = local[u].resuming
      /\ UNCHANGED <<machine, instructions>>
    BY <1>1 DEF IInv, Shapes, Locals, chain
<1>6. RunInv(u)'
  <2>1. TxInv(u)'
      BY <1>1, <1>4, <1>5 DEF RunInv, TxInv, Effect, IsAttestation, IsCheck, Known, Ended
  <2>2. (Truthful(local[u].state))'
      BY <1>4, <1>5 DEF RunInv, Truthful, IsAttestation, IsCheck, Known
  <2>3. StageInv(u)' /\ FreshInv(u)'
      BY <1>1, <1>4, <1>5 DEF RunInv, StageInv, FreshInv
  <2>4. QED  BY <2>1, <2>2, <2>3 DEF RunInv
<1>7. \A v \in Runs : v # u => RunVarsKept(v)
    BY <1>1 DEF RunVarsKept, IInv, Shapes
<1>8. QED  BY <1>1, <1>3, <1>6, <1>7, RunStepIInv, FileKept

LEMMA ReadNodeIInv ==
    ASSUME IInv, NEW u \in Runs, ReadNode(u)
    PROVE  IInv'
<1>1. /\ at[u] = "info" /\ local' = [local EXCEPT ![u].tee = node]
      /\ at' = [at EXCEPT ![u] = "load"]
      /\ UNCHANGED <<node, chain, file, step, tx>>
    BY DEF ReadNode, Goto
<1>2. Shapes'
    BY <1>1 DEF IInv, Shapes, Locals, Places, chain
<1>3. RunInv(u)
    BY DEF IInv
<1>4. /\ at'[u] = "load" /\ step'[u] = step[u] /\ tx'[u] = tx[u]
      /\ local'[u].state = local[u].state /\ local'[u].resuming = local[u].resuming
      /\ UNCHANGED <<machine, instructions>>
    BY <1>1 DEF IInv, Shapes, Locals, chain
<1>5. RunInv(u)'
  <2>1. TxInv(u)'
      BY <1>1, <1>3, <1>4 DEF RunInv, TxInv, Effect, IsAttestation, IsCheck, Known, Ended
  <2>2. (Truthful(local[u].state))'
      BY <1>3, <1>4 DEF RunInv, Truthful, IsAttestation, IsCheck, Known
  <2>3. StageInv(u)' /\ FreshInv(u)'
      BY <1>1, <1>3, <1>4 DEF RunInv, StageInv, FreshInv
  <2>4. QED  BY <2>1, <2>2, <2>3 DEF RunInv
<1>6. \A v \in Runs : v # u => RunVarsKept(v)
    BY <1>1 DEF RunVarsKept, IInv, Shapes
<1>7. Active(u)
    BY <1>1 DEF Active, Ended
<1>8. QED  BY <1>1, <1>2, <1>5, <1>6, <1>7, RunStepIInv, FileKept

(* A run ends where its invariant makes no claim. *)
LEMMA StopsIInv ==
    ASSUME IInv, NEW u \in Runs, Active(u), at' = [at EXCEPT ![u] = "stopped"],
           file' \in {file, NoFile, Corrupt}, UNCHANGED <<node, chain, step, local, tx>>
    PROVE  IInv'
<1>1. Shapes'
    BY FileKept DEF IInv, Shapes, Places, Ended, chain
<1>2. RunInv(u)
    BY DEF IInv
<1>3. /\ at'[u] = "stopped" /\ step'[u] = step[u] /\ tx'[u] = tx[u]
      /\ local'[u] = local[u]
      /\ UNCHANGED <<machine, instructions>>
    BY DEF IInv, Shapes, chain
<1>4. RunInv(u)'
  <2>1. TxInv(u)'
      BY <1>2, <1>3 DEF RunInv, TxInv, Effect, IsAttestation, IsCheck, Known, Ended
  <2>2. (Truthful(local[u].state))'
      BY <1>2, <1>3 DEF RunInv, Truthful, IsAttestation, IsCheck, Known
  <2>3. StageInv(u)'
      BY <1>2, <1>3 DEF RunInv, StageInv
  <2>4. FreshInv(u)'
      BY <1>3 DEF FreshInv, FreshSteps, FreshAttestation, FreshCheck
  <2>5. QED  BY <2>1, <2>2, <2>3, <2>4 DEF RunInv
<1>5. \A v \in Runs : v # u => RunVarsKept(v)
    BY DEF RunVarsKept, IInv, Shapes
<1>6. QED  BY <1>1, <1>4, <1>5, RunStepIInv, FileKept

(* From here on a run that found no file is fresh: it remembers no step. *)
LEMMA LoadStateIInv ==
    ASSUME IInv, NEW u \in Runs, LoadState(u)
    PROVE  IInv'
<1>1. at[u] = "load" /\ Active(u) /\ UNCHANGED <<node, chain, file, step, tx>>
    BY DEF LoadState, Active, Ended
<1>2. CASE file = Corrupt
  <2>1. at' = [at EXCEPT ![u] = "stopped"] /\ UNCHANGED local
      BY <1>2 DEF LoadState, Goto
  <2>2. QED  BY <1>1, <2>1, StopsIInv
<1>3. CASE file # Corrupt
  <2> DEFINE state == IF file = NoFile THEN NoState ELSE file
  <2>1. /\ local' = [local EXCEPT ![u].state = state, ![u].resuming = file # NoFile]
        /\ at' = [at EXCEPT ![u] = "step"]
      BY <1>3 DEF LoadState, Goto
  <2>2. state \in States /\ Truthful(state)
      BY <1>3 DEF IInv, Shapes, FileInv, NoState, States, Truthful
  <2>3. RunInv(u)
      BY DEF IInv
  <2>4. /\ at'[u] = "step" /\ step'[u] = step[u] /\ step[u] = "r" /\ tx'[u] = tx[u]
        /\ local'[u].state = state /\ (~local'[u].resuming => state.steps = {})
        /\ UNCHANGED <<machine, instructions>>
      BY <1>1, <2>1, <2>3 DEF IInv, Shapes, Locals, chain, NoState, RunInv, StageInv
  <2> HIDE DEF state
  <2>5. Shapes'
    <3>1. local' \in [Runs -> Locals]
      <4> DEFINE l == [local[u] EXCEPT !.state = state, !.resuming = file # NoFile]
      <4>1. (file # NoFile) \in BOOLEAN
          OBVIOUS
      <4>2. l \in Locals
          BY <2>2, <4>1 DEF IInv, Shapes, Locals
      <4>3. local' = [local EXCEPT ![u] = l]
          BY <2>1 DEF IInv, Shapes, Locals
      <4>4. QED  BY <4>2, <4>3 DEF IInv, Shapes
    <3>2. QED  BY <1>1, <2>1, <3>1 DEF IInv, Shapes, Places, chain
  <2>6. RunInv(u)'
    <3>1. TxInv(u)'
        BY <1>1, <2>3, <2>4 DEF RunInv, TxInv, Effect, IsAttestation, IsCheck, Known, Ended
    <3>2. (Truthful(local[u].state))'
        BY <2>2, <2>4 DEF Truthful, IsAttestation, IsCheck, Known
    <3>3. StageInv(u)'
        BY <2>4 DEF StageInv
    <3>4. FreshInv(u)'
        BY <2>4 DEF FreshInv, FreshSteps, FreshAttestation, FreshCheck
    <3>5. QED  BY <3>1, <3>2, <3>3, <3>4 DEF RunInv
  <2>7. \A v \in Runs : v # u => RunVarsKept(v)
      BY <1>1, <2>1 DEF RunVarsKept, IInv, Shapes
  <2>8. QED  BY <1>1, <2>5, <2>6, <2>7, RunStepIInv, FileKept
<1>4. QED  BY <1>2, <1>3

(* Only a resumed run meets a step that its progress state calls completed. *)
LEMMA SkipCompletedIInv ==
    ASSUME IInv, NEW u \in Runs, SkipCompleted(u)
    PROVE  IInv'
<1> DEFINE l == local[u]
           m == IF step[u] = "a" THEN [l EXCEPT !.instruction = l.state.instruction]
                                 ELSE [l EXCEPT !.attestation = l.state.attestation]
<1>1. /\ at[u] = "step" /\ step[u] \in l.state.steps
      /\ local' = [local EXCEPT ![u] = m]
      /\ step' = [step EXCEPT ![u] = After[@]]
      /\ UNCHANGED <<node, chain, file, at, tx>>
    BY DEF SkipCompleted, Completed
<1>2. l \in Locals /\ step[u] \in {"r", "R", "a"} /\ Active(u)
    BY <1>1 DEF IInv, Shapes, Locals, States, Active, Ended
<1>3. m \in Locals /\ m.state = l.state /\ m.resuming = l.resuming
    BY <1>2 DEF Locals, States
<1>4. RunInv(u)
    BY DEF IInv
<1>5. l.resuming
    BY <1>1, <1>2, <1>4 DEF RunInv, FreshInv, FreshSteps, Before
<1> HIDE DEF m
<1>6. local' \in [Runs -> Locals] /\ local'[u] = m /\ step'[u] \in Steps
    BY <1>1, <1>2, <1>3 DEF IInv, Shapes, After, Steps
<1>7. Shapes'
    BY <1>1, <1>6 DEF IInv, Shapes, chain
<1>8. RunInv(u)'
  <2>1. UNCHANGED <<machine, instructions, at, tx>>
      BY <1>1 DEF chain
  <2>2. TxInv(u)'
      BY <1>4, <2>1 DEF RunInv, TxInv, Effect, IsAttestation, IsCheck, Known
  <2>3. (Truthful(local[u].state))'
      BY <1>3, <1>4, <1>6, <2>1 DEF RunInv, Truthful, IsAttestation, IsCheck, Known
  <2>4. StageInv(u)' /\ FreshInv(u)'
      BY <1>1, <1>3, <1>5, <1>6, <2>1 DEF StageInv, FreshInv
  <2>5. QED  BY <2>2, <2>3, <2>4 DEF RunInv
<1>9. \A v \in Runs : v # u => RunVarsKept(v)
    BY <1>1 DEF RunVarsKept, IInv, Shapes
<1>10. QED  BY <1>1, <1>2, <1>7, <1>8, <1>9, RunStepIInv, FileKept

LEMMA SkipUnaskedIInv ==
    ASSUME IInv, NEW u \in Runs, SkipUnasked(u)
    PROVE  IInv'
<1> DEFINE l == local[u]
<1>1. /\ at[u] = "step" /\ step[u] \in Steps /\ step[u] \notin l.command
      /\ local' = IF step[u] = "a" THEN [local EXCEPT ![u].instruction = local[u].arg]
                                   ELSE local
      /\ step' = [step EXCEPT ![u] = After[@]]
      /\ UNCHANGED <<node, chain, file, at, tx>>
    BY DEF SkipUnasked
<1>2. l \in Locals /\ Active(u)
    BY <1>1 DEF IInv, Shapes, Active, Ended
<1>3. /\ local' \in [Runs -> Locals] /\ local'[u].state = l.state
      /\ local'[u].resuming = l.resuming /\ local'[u].command = l.command
      /\ local'[u].tee = l.tee /\ local'[u].attestation = l.attestation
    BY <1>1, <1>2 DEF IInv, Shapes, Locals
<1>4. RunInv(u)
    BY DEF IInv
<1>5. step'[u] = After[step[u]] /\ step'[u] \in Steps \cup {"end"}
    BY <1>1 DEF IInv, Shapes, After, Steps
<1>6. Shapes'
    BY <1>1, <1>3, <1>5 DEF IInv, Shapes, chain
<1>7. UNCHANGED <<machine, instructions, at, tx>>
    BY <1>1 DEF chain
<1>8. RunInv(u)'
  <2>1. TxInv(u)'
      BY <1>4, <1>7 DEF RunInv, TxInv, Effect, IsAttestation, IsCheck, Known
  <2>2. (Truthful(local[u].state))'
      BY <1>3, <1>4, <1>7 DEF RunInv, Truthful, IsAttestation, IsCheck, Known
  <2>3. StageInv(u)'
      BY <1>1, <1>7 DEF StageInv
  <2>4. ASSUME ~local[u].resuming
        PROVE  /\ FreshSteps(u)'
               /\ l.command \cap {"r", "R"} # {} => FreshAttestation(u)'
               /\ {"a", "p"} \subseteq l.command => FreshCheck(u)'
    <3>1. /\ FreshSteps(u)
          /\ l.command \cap {"r", "R"} # {} => FreshAttestation(u)
          /\ {"a", "p"} \subseteq l.command => FreshCheck(u)
        BY <1>1, <1>4, <2>4 DEF RunInv, FreshInv
    <3>2. FreshSteps(u)'
        BY <1>1, <1>3, <1>5, <1>7, <3>1 DEF FreshSteps, Before, After, Steps
    <3>3. ASSUME l.command \cap {"r", "R"} # {}
          PROVE  FreshAttestation(u)'
      <4>1. /\ step[u] = "R" => "r" \in l.command
            /\ step'[u] = "R" => "r" \notin l.command
            /\ step'[u] = "a" => step[u] = "R"
          BY <1>1, <1>5, <3>3 DEF After, Steps
      <4>2. step'[u] = "a" => Own(u, l.attestation)
          BY <1>1, <3>1, <3>3, <4>1 DEF FreshAttestation
      <4>3. QED  BY <1>1, <1>3, <1>7, <4>1, <4>2 DEF FreshAttestation, Own, IsAttestation
    <3>4. ASSUME {"a", "p"} \subseteq l.command
          PROVE  FreshCheck(u)'
      <4>1. step[u] \in {"r", "R"}
          BY <1>1, <3>4 DEF Steps
      <4>2. QED  BY <1>1, <1>5, <1>7, <4>1 DEF FreshCheck, After
    <3>5. QED  BY <3>2, <3>3, <3>4
  <2>5. FreshInv(u)'
      BY <1>3, <2>4 DEF FreshInv
  <2>6. QED  BY <2>1, <2>2, <2>3, <2>5 DEF RunInv
<1>9. \A v \in Runs : v # u => RunVarsKept(v)
    BY <1>1 DEF RunVarsKept, IInv, Shapes
<1>10. QED  BY <1>1, <1>2, <1>6, <1>8, <1>9, RunStepIInv, FileKept

(* The transaction a due step sends. *)
LEMMA TransactionFields ==
    ASSUME IInv, NEW u \in Runs, Due(u), step[u] = "p" => Proved(local[u].instruction)
    PROVE  LET l == local[u]
               t == Transaction(u)
           IN  /\ t \in Transactions /\ t.status = "pending" /\ t.call # "none"
               /\ step[u] \in {"r", "R"} =>
                    t.call \in {"register", "requestAttestation"} /\ t.tee = l.tee
               /\ step[u] = "a" =>
                    t.call = "requestCheck" /\ t.tee = l.tee /\ t.ref = l.attestation
               /\ step[u] = "p" =>
                    /\ t.call = "toProduction"
                    /\ l.instruction \in DOMAIN instructions
                    /\ t.tee = instructions[l.instruction].tee
<1> DEFINE l == local[u]
<1>1. l \in Locals /\ step[u] \in Steps
    BY DEF IInv, Shapes, Locals, Due
<1>2. CASE step[u] = "r"
    BY <1>1, <1>2 DEF Transaction, Transactions, Locals
<1>3. CASE step[u] = "R"
    BY <1>1, <1>3 DEF Transaction, Transactions, Locals
<1>4. CASE step[u] = "a"
    BY <1>1, <1>4 DEF Transaction, Transactions, Locals
<1>5. CASE step[u] = "p"
  <2>1. l.instruction \in DOMAIN instructions /\ instructions[l.instruction].tee \in Machines
    <3>1. l.instruction \in DOMAIN instructions
        BY <1>5 DEF Proved, IsCheck
    <3>2. instructions[l.instruction] \in Instructions
        BY <3>1, ElementOfSeq DEF IInv, Shapes
    <3>3. QED  BY <3>1, <3>2 DEF Instructions
  <2>2. QED  BY <1>1, <1>5, <2>1 DEF Transaction, Transactions, Locals
<1>6. QED  BY <1>1, <1>2, <1>3, <1>4, <1>5 DEF Steps

LEMMA SendIInv ==
    ASSUME IInv, NEW u \in Runs, Send(u)
    PROVE  IInv'
<1> DEFINE l == local[u]
           t == Transaction(u)
<1>1. /\ Due(u) /\ (step[u] = "p" => Proved(l.instruction))
      /\ at[u] = "step" /\ Active(u)
      /\ UNCHANGED <<node, chain, file, step, local>>
    BY DEF Send, Due, Active, Ended
<1>2. RunInv(u)
    BY DEF IInv
<1>3. UNCHANGED <<machine, instructions, step, local>>
    BY <1>1 DEF chain
<1>4. (Truthful(local[u].state))'
    BY <1>2, <1>3 DEF RunInv, Truthful, IsAttestation, IsCheck, Known
<1>5. ~l.resuming => /\ FreshSteps(u)
                     /\ l.command \cap {"r", "R"} # {} => FreshAttestation(u)
                     /\ {"a", "p"} \subseteq l.command => FreshCheck(u)
    BY <1>1, <1>2 DEF RunInv, FreshInv
<1>6. CASE Accepted(t)
  <2>1. tx' = [tx EXCEPT ![u] = t] /\ at' = [at EXCEPT ![u] = "wait"]
      BY <1>6 DEF Send, Goto
  <2>2. /\ t \in Transactions /\ t.status = "pending" /\ t.call # "none"
        /\ step[u] \in {"r", "R"} =>
             t.call \in {"register", "requestAttestation"} /\ t.tee = l.tee
        /\ step[u] = "a" =>
             t.call = "requestCheck" /\ t.tee = l.tee /\ t.ref = l.attestation
        /\ step[u] = "p" =>
             /\ t.call = "toProduction"
             /\ l.instruction \in DOMAIN instructions
             /\ t.tee = instructions[l.instruction].tee
      BY <1>1, TransactionFields
  <2>3. t.call = "requestCheck" => t.ref \in DOMAIN instructions
      BY <1>6 DEF Accepted, IsAttestation
  <2> HIDE DEF t
  <2>4. tx'[u] = t /\ at'[u] = "wait" /\ step[u] \in Steps
      BY <1>1, <2>1 DEF IInv, Shapes, Due, Locals
  <2>5. Shapes'
      BY <1>1, <2>1, <2>2 DEF IInv, Shapes, Places, chain
  <2>6. TxInv(u)'
      BY <1>3, <2>2, <2>3, <2>4 DEF TxInv
  <2>7. StageInv(u)'
      BY <1>3, <2>2, <2>4 DEF StageInv, WaitsFor
  <2>8. FreshInv(u)'
    <3>1. \A v \in Runs : v # u => tx'[v] = tx[v]
        BY <2>1
    <3>2. Own(u, l.attestation) => Own(u, l.attestation)'
        BY <1>3, <3>1 DEF Own, IsAttestation
    <3>3. QED
        BY <1>1, <1>3, <1>5, <2>2, <2>4, <3>2
           DEF FreshInv, FreshSteps, FreshAttestation, FreshCheck, IsCheck
  <2>9. RunInv(u)'
      BY <1>4, <2>6, <2>7, <2>8 DEF RunInv
  <2>10. \A v \in Runs : v # u => RunVarsKept(v)
      BY <1>1, <2>1 DEF RunVarsKept, IInv, Shapes
  <2>11. QED  BY <1>1, <2>5, <2>9, <2>10, RunStepIInv, FileKept
<1>7. CASE ~Accepted(t)
  <2>1. at' = [at EXCEPT ![u] = "refused"] /\ UNCHANGED tx
      BY <1>7 DEF Send, Goto
  <2>2. at'[u] = "refused"
      BY <2>1 DEF IInv, Shapes
  <2>3. Shapes'
      BY <1>1, <2>1 DEF IInv, Shapes, Places, Ended, chain
  <2>4. TxInv(u)'
      BY <1>2, <1>3, <2>1, <2>2
         DEF RunInv, TxInv, Effect, IsAttestation, IsCheck, Known, Ended
  <2>5. StageInv(u)'
      BY <2>2 DEF StageInv
  <2>6. step[u] = "a" /\ Own(u, l.attestation) => Expired(u)
    <3> SUFFICES ASSUME step[u] = "a", Own(u, l.attestation) PROVE Expired(u)
        OBVIOUS
    <3>1. t.call = "requestCheck" /\ t.tee = l.tee /\ t.ref = l.attestation
        BY <1>1, TransactionFields
    <3>2. instructions[l.attestation].state # "live"
        BY <1>7, <3>1 DEF Accepted, Own
    <3>3. QED  BY <3>2 DEF Own, Expired
  <2>7. FreshInv(u)'
      BY <1>1, <1>3, <1>5, <2>2, <2>6
         DEF FreshInv, FreshSteps, FreshAttestation, FreshCheck, Expired, IsAttestation
  <2>8. RunInv(u)'
      BY <1>4, <2>4, <2>5, <2>7 DEF RunInv
  <2>9. \A v \in Runs : v # u => RunVarsKept(v)
      BY <1>1, <2>1 DEF RunVarsKept, IInv, Shapes
  <2>10. QED  BY <1>1, <2>1, <2>3, <2>8, <2>9, RunStepIInv, FileKept
<1>8. QED  BY <1>6, <1>7

(* What a confirmed step s adds to the progress state of l, giving m. *)
Remembers(l, s, id, m) ==
    /\ m \in Locals /\ m.resuming = l.resuming /\ m.command = l.command
    /\ m.tee = l.tee /\ m.state.steps = l.state.steps \cup {s}
    /\ s = "a" => /\ m.instruction = id /\ m.state.instruction = id
                  /\ m.state.attestation = l.state.attestation
    /\ s # "a" => /\ m.attestation = id /\ m.state.attestation = id
                  /\ m.state.instruction = l.state.instruction

LEMMA RememberFields ==
    \A l \in Locals, s \in {"r", "R", "a"}, id \in Nat : Remembers(l, s, id, Remember(l, s, id))
<1> SUFFICES ASSUME NEW l \in Locals, NEW s \in {"r", "R", "a"}, NEW id \in Nat,
                    NEW m, m = Remember(l, s, id)
             PROVE  Remembers(l, s, id, m)
    OBVIOUS
<1>1. l.state \in States
    BY DEF Locals
<1>2. CASE s = "a"
  <2> DEFINE st == [l.state EXCEPT !.steps = @ \cup {s}, !.instruction = id]
  <2>1. st \in States /\ st.steps = l.state.steps \cup {s} /\ st.instruction = id
        /\ st.attestation = l.state.attestation
      BY <1>1 DEF States
  <2> HIDE DEF st
  <2>2. m = [l EXCEPT !.instruction = id, !.state = st]
      BY <1>2 DEF Remember, st
  <2>3. QED  BY <1>2, <2>1, <2>2 DEF Locals, Remembers
<1>3. CASE s # "a"
  <2> DEFINE st == [l.state EXCEPT !.steps = @ \cup {s}, !.attestation = id]
  <2>1. st \in States /\ st.steps = l.state.steps \cup {s} /\ st.attestation = id
        /\ st.instruction = l.state.instruction
      BY <1>1 DEF States
  <2> HIDE DEF st
  <2>2. m = [l EXCEPT !.attestation = id, !.state = st]
      BY <1>3 DEF Remember, st
  <2>3. QED  BY <1>3, <2>1, <2>2 DEF Locals, Remembers
<1>4. QED  BY <1>2, <1>3

LEMMA ReceiptIInv ==
    ASSUME IInv, NEW u \in Runs, Receipt(u)
    PROVE  IInv'
<1> DEFINE l == local[u]
<1>1. at[u] = "wait" /\ Active(u) /\ UNCHANGED <<node, machine, instructions, file, tx>>
    BY DEF Receipt, Active, Ended, chain
<1>2. l \in Locals /\ tx[u] \in Transactions
    BY DEF IInv, Shapes
<1>3. RunInv(u) /\ WaitsFor(u)
    BY <1>1 DEF IInv, RunInv, StageInv
<1>4. ~l.resuming => /\ FreshSteps(u)
                     /\ l.command \cap {"r", "R"} # {} => FreshAttestation(u)
                     /\ {"a", "p"} \subseteq l.command => FreshCheck(u)
    BY <1>1, <1>3 DEF RunInv, FreshInv
<1>5. CASE Confirmed(tx[u]) /\ step[u] = "p"
  <2>1. /\ step' = [step EXCEPT ![u] = After[@]] /\ at' = [at EXCEPT ![u] = "step"]
        /\ UNCHANGED local
      BY <1>5 DEF Receipt, Goto, Confirmed
  <2>2. step'[u] = "end" /\ at'[u] = "step"
      BY <1>5, <2>1 DEF IInv, Shapes, After
  <2>3. Shapes'
      BY <1>1, <1>5, <2>1 DEF IInv, Shapes, Places, After
  <2>4. TxInv(u)'
      BY <1>1, <1>3, <1>5
         DEF RunInv, TxInv, Effect, IsAttestation, IsCheck, Known, Confirmed
  <2>5. (Truthful(local[u].state))' /\ StageInv(u)'
      BY <1>1, <1>3, <2>1, <2>2
         DEF RunInv, Truthful, IsAttestation, IsCheck, Known, StageInv
  <2>6. FreshInv(u)'
    <3>1. Effect(tx[u])
        BY <1>3, <1>5 DEF RunInv, TxInv, Confirmed
    <3>2. {"a", "p"} \subseteq l.command /\ ~l.resuming => machine[l.tee] = "production"
        BY <1>1, <1>3, <1>4, <1>5, <3>1 DEF Effect, WaitsFor, FreshCheck
    <3>3. QED  BY <1>1, <1>4, <1>5, <2>1, <2>2, <3>2
               DEF FreshInv, FreshSteps, FreshAttestation, FreshCheck, Before
  <2>7. \A v \in Runs : v # u => RunVarsKept(v)
      BY <1>1, <2>1 DEF RunVarsKept, IInv, Shapes
  <2>8. RunInv(u)'
      BY <2>4, <2>5, <2>6 DEF RunInv
  <2>9. QED  BY <1>1, <2>3, <2>7, <2>8, RunStepIInv, FileKept DEF chain
<1>6. CASE Confirmed(tx[u]) /\ step[u] # "p"
  <2> DEFINE m == Remember(l, step[u], tx[u].id)
  <2>1. /\ local' = [local EXCEPT ![u] = m] /\ at' = [at EXCEPT ![u] = "save"]
        /\ UNCHANGED step
      BY <1>6 DEF Receipt, Goto, Confirmed
  <2>2. step[u] \in {"r", "R", "a"} /\ tx[u].id \in Nat
      BY <1>2, <1>3, <1>6 DEF WaitsFor, Steps, Transactions
  <2>3. /\ m \in Locals /\ m.resuming = l.resuming /\ m.command = l.command
        /\ m.tee = l.tee /\ m.state.steps = l.state.steps \cup {step[u]}
        /\ step[u] = "a" => /\ m.instruction = tx[u].id /\ m.state.instruction = tx[u].id
                            /\ m.state.attestation = l.state.attestation
        /\ step[u] # "a" => /\ m.attestation = tx[u].id /\ m.state.attestation = tx[u].id
                            /\ m.state.instruction = l.state.instruction
    <3>1. Remembers(l, step[u], tx[u].id, m)
        BY <1>2, <2>2, RememberFields
    <3>2. QED  BY <3>1 DEF Remembers
  <2> HIDE DEF m
  <2>4. at'[u] = "save" /\ local'[u] = m /\ step' = step /\ tx' = tx
      BY <1>1, <2>1 DEF IInv, Shapes
  <2>5. Shapes'
      BY <1>1, <2>1, <2>3 DEF IInv, Shapes, Places
  <2>6. Effect(tx[u]) /\ tx[u].status = "mined"
      BY <1>3, <1>6 DEF RunInv, TxInv, Confirmed
  <2>7. TxInv(u)'
      BY <1>1, <1>3, <2>6
         DEF RunInv, TxInv, Effect, IsAttestation, IsCheck, Known
  <2>8. Truthful(m.state)
    <3>1. CASE step[u] = "a"
        BY <1>3, <2>3, <2>6, <3>1 DEF RunInv, Truthful, Effect, WaitsFor
    <3>2. CASE step[u] # "a"
      <4>1. IsAttestation(tx[u].id, tx[u].tee) /\ Known(tx[u].tee)
          BY <1>3, <2>2, <2>6, <3>2 DEF Effect, WaitsFor
      <4>2. "a" \in m.state.steps => IsCheck(m.state.instruction)
          BY <1>3, <2>2, <2>3, <3>2 DEF RunInv, Truthful
      <4>3. QED  BY <2>3, <3>2, <4>1, <4>2 DEF Truthful, IsAttestation
    <3>3. QED  BY <3>1, <3>2
  <2>9. (Truthful(local[u].state))'
      BY <1>1, <2>4, <2>8 DEF Truthful, IsAttestation, IsCheck, Known
  <2>10. StageInv(u)'
      BY <2>2, <2>3, <2>4 DEF StageInv
  <2>11. FreshInv(u)'
    <3>1. ~l.resuming => FreshSteps(u)'
        BY <1>1, <1>4, <2>3, <2>4 DEF FreshSteps
    <3>2. ASSUME ~l.resuming, l.command \cap {"r", "R"} # {}
          PROVE  FreshAttestation(u)'
      <4>1. step[u] # "a" => Own(u, tx[u].id)
          BY <1>1, <1>4, <2>2, <2>6, <3>2 DEF FreshAttestation
      <4>2. step[u] # "a" => Own(u, tx[u].id)'
          BY <1>1, <2>3, <2>4, <4>1 DEF Own, IsAttestation
      <4>3. QED  BY <1>1, <2>2, <2>3, <2>4, <4>2 DEF FreshAttestation, Own, IsAttestation
    <3>3. ASSUME ~l.resuming, {"a", "p"} \subseteq l.command
          PROVE  FreshCheck(u)'
      <4>1. step[u] = "a" => IsCheck(tx[u].id) /\ instructions[tx[u].id].tee = l.tee
          BY <1>3, <2>6 DEF Effect, WaitsFor
      <4>2. QED  BY <1>1, <2>2, <2>3, <2>4, <4>1 DEF FreshCheck, IsCheck
    <3>4. QED  BY <2>3, <2>4, <3>1, <3>2, <3>3 DEF FreshInv
  <2>12. \A v \in Runs : v # u => RunVarsKept(v)
      BY <1>1, <2>1 DEF RunVarsKept, IInv, Shapes
  <2>13. RunInv(u)'
      BY <2>7, <2>9, <2>10, <2>11 DEF RunInv
  <2>14. QED  BY <1>1, <2>5, <2>12, <2>13, RunStepIInv, FileKept DEF chain
<1>7. CASE tx[u].status = "reverted" /\ at' = [at EXCEPT ![u] = "refused"]
           /\ UNCHANGED <<step, local>>
  <2>1. at'[u] = "refused"
      BY <1>7 DEF IInv, Shapes
  <2>2. Shapes'
      BY <1>1, <1>7 DEF IInv, Shapes, Places, Ended
  <2>3. TxInv(u)'
      BY <1>1, <1>3, <1>7, <2>1
         DEF RunInv, TxInv, Effect, IsAttestation, IsCheck, Known, Ended
  <2>4. (Truthful(local[u].state))' /\ StageInv(u)'
      BY <1>1, <1>3, <1>7, <2>1
         DEF RunInv, Truthful, IsAttestation, IsCheck, Known, StageInv
  <2>5. FreshInv(u)'
      BY <1>1, <1>4, <1>7, <2>1
         DEF FreshInv, FreshSteps, FreshAttestation, FreshCheck, Expired, IsAttestation
  <2>6. RunInv(u)'
      BY <2>3, <2>4, <2>5 DEF RunInv
  <2>7. \A v \in Runs : v # u => RunVarsKept(v)
      BY <1>1, <1>7 DEF RunVarsKept, IInv, Shapes
  <2>8. QED  BY <1>1, <2>2, <2>6, <2>7, RunStepIInv, FileKept DEF chain
<1>8. QED  BY <1>5, <1>6, <1>7 DEF Receipt, Goto

LEMMA SaveStateIInv ==
    ASSUME IInv, NEW u \in Runs, SaveState(u)
    PROVE  IInv'
<1> DEFINE l == local[u]
<1>1. /\ at[u] = "save" /\ Active(u) /\ file' \in {file, l.state}
      /\ step' = [step EXCEPT ![u] = After[@]] /\ at' = [at EXCEPT ![u] = "step"]
      /\ UNCHANGED <<node, machine, instructions, local, tx>>
    BY DEF SaveState, Goto, Active, Ended, chain
<1>2. RunInv(u) /\ l \in Locals /\ step[u] \in {"r", "R", "a"} /\ l.state.steps # {}
    BY <1>1 DEF IInv, Shapes, RunInv, StageInv
<1>3. step'[u] = After[step[u]] /\ step'[u] \in Steps /\ at'[u] = "step"
    BY <1>1, <1>2 DEF IInv, Shapes, After, Steps
<1>4. Shapes'
    BY <1>1, <1>2, <1>3 DEF IInv, Shapes, Places, Locals
<1>5. FileInv'
    BY <1>1, <1>2 DEF IInv, FileInv, RunInv, Truthful, IsAttestation, IsCheck, Known
<1>6. TxInv(u)'
    BY <1>1, <1>2 DEF RunInv, TxInv, Effect, IsAttestation, IsCheck, Known, Ended
<1>7. (Truthful(local[u].state))' /\ StageInv(u)'
    BY <1>1, <1>2, <1>3 DEF RunInv, Truthful, IsAttestation, IsCheck, Known, StageInv
<1>8. FreshInv(u)'
  <2> SUFFICES ASSUME ~l.resuming
               PROVE  /\ FreshSteps(u)'
                      /\ l.command \cap {"r", "R"} # {} => FreshAttestation(u)'
                      /\ {"a", "p"} \subseteq l.command => FreshCheck(u)'
      BY <1>1 DEF FreshInv
  <2>1. /\ FreshSteps(u)
        /\ l.command \cap {"r", "R"} # {} => FreshAttestation(u)
        /\ {"a", "p"} \subseteq l.command => FreshCheck(u)
      BY <1>1, <1>2 DEF RunInv, FreshInv
  <2>2. FreshSteps(u)'
      BY <1>1, <1>2, <1>3, <2>1 DEF FreshSteps, After, Before
  <2>3. ASSUME FreshAttestation(u)
        PROVE  FreshAttestation(u)'
    <3>1. step[u] # "a" => Own(u, l.attestation)'
        BY <1>1, <1>2, <2>3 DEF FreshAttestation, Own, IsAttestation
    <3>2. step[u] = "a" => step'[u] = "p"
        BY <1>3 DEF After
    <3>3. QED  BY <1>1, <1>3, <3>1, <3>2 DEF FreshAttestation
  <2>4. ASSUME FreshCheck(u)
        PROVE  FreshCheck(u)'
    <3>1. step'[u] = "p" => step[u] = "a"
        BY <1>2, <1>3 DEF After
    <3>2. step'[u] # "end"
        BY <1>3 DEF Steps
    <3>3. QED  BY <1>1, <1>3, <2>4, <3>1, <3>2 DEF FreshCheck, IsCheck
  <2>5. QED  BY <2>1, <2>2, <2>3, <2>4
<1>9. RunInv(u)'
    BY <1>6, <1>7, <1>8 DEF RunInv
<1>10. \A v \in Runs : v # u => RunVarsKept(v)
    BY <1>1 DEF RunVarsKept, IInv, Shapes
<1>11. QED  BY <1>1, <1>4, <1>5, <1>9, <1>10, RunStepIInv DEF chain

LEMMA FinishIInv ==
    ASSUME IInv, NEW u \in Runs, Finish(u)
    PROVE  IInv'
<1>1. /\ at[u] = "step" /\ step[u] = "end" /\ Active(u) /\ file' \in {file, NoFile, Corrupt}
      /\ at' = [at EXCEPT ![u] = "done"]
      /\ UNCHANGED <<node, machine, instructions, step, local, tx>>
    BY DEF Finish, Goto, Active, Ended, chain
<1>2. RunInv(u) /\ at'[u] = "done"
    BY <1>1 DEF IInv, Shapes
<1>3. Shapes'
    BY <1>1, FileKept DEF IInv, Shapes, Places, Ended, chain
<1>4. TxInv(u)'
    BY <1>1, <1>2 DEF RunInv, TxInv, Effect, IsAttestation, IsCheck, Known, Ended
<1>5. (Truthful(local[u].state))' /\ StageInv(u)'
    BY <1>1, <1>2 DEF RunInv, Truthful, IsAttestation, IsCheck, Known, StageInv
<1>6. FreshInv(u)'
    BY <1>1, <1>2 DEF RunInv, FreshInv, FreshSteps, FreshAttestation, FreshCheck
<1>7. RunInv(u)'
    BY <1>4, <1>5, <1>6 DEF RunInv
<1>8. \A v \in Runs : v # u => RunVarsKept(v)
    BY <1>1 DEF RunVarsKept, IInv, Shapes
<1>9. QED  BY <1>1, <1>3, <1>7, <1>8, RunStepIInv, FileKept DEF chain
-----------------------------------------------------------------------------
(* Steps of the environment: the chain only grows.                         *)

Grows ==
    /\ DOMAIN instructions \subseteq DOMAIN instructions'
    /\ \A i \in DOMAIN instructions :
         /\ instructions'[i].kind = instructions[i].kind
         /\ instructions'[i].tee = instructions[i].tee
         /\ instructions[i].state = "expired" => instructions'[i].state = "expired"
    /\ \A m \in Machines : /\ machine[m] # "unknown" => machine'[m] # "unknown"
                           /\ machine[m] = "production" => machine'[m] = "production"

(* What was said of the chain stays true when it grows. *)
LEMMA GrowsTruthful ==
    ASSUME Shapes, Grows, NEW s, Truthful(s)
    PROVE  Truthful(s)'
<1>1. \A i \in DOMAIN instructions : instructions[i].tee \in Machines
    BY ElementOfSeq DEF Shapes, Instructions
<1>2. QED  BY <1>1 DEF Grows, Truthful, IsAttestation, IsCheck, Known

(* A run that does not move keeps its invariant, if the attestation it counts *)
(* on is left to it.                                                          *)
LEMMA GrowsRunInv ==
    ASSUME IInv, Grows, NEW u \in Runs, RunVarsKept(u),
           \A k \in Nat : Own(u, k) => Own(u, k)'
    PROVE  RunInv(u)'
<1>1. at'[u] = at[u] /\ step'[u] = step[u] /\ local'[u] = local[u] /\ tx'[u] = tx[u]
    BY DEF RunVarsKept
<1>2. RunInv(u) /\ local[u] \in Locals /\ tx[u] \in Transactions
    BY DEF IInv, Shapes
<1>3. local[u].attestation \in Nat /\ tx[u].id \in Nat /\ local[u].tee \in Machines
      /\ tx[u].tee \in Machines
    BY <1>2 DEF Locals, Transactions
<1>4. TxInv(u)'
    BY <1>1, <1>2, <1>3 DEF RunInv, TxInv, Effect, IsAttestation, IsCheck, Known, Grows
<1>5. (Truthful(local[u].state))'
  <2>1. PICK s : s = local[u].state
      OBVIOUS
  <2>2. Truthful(s)'
      BY <1>2, <2>1, GrowsTruthful DEF IInv, RunInv
  <2>3. QED  BY <1>1, <2>1, <2>2 DEF Truthful
<1>6. StageInv(u)'
    BY <1>1, <1>2 DEF RunInv, StageInv, WaitsFor, Grows
<1>7. FreshInv(u)'
  <2> SUFFICES ASSUME ~local[u].resuming, at[u] \notin {"idle", "info", "load"}
               PROVE  /\ FreshSteps(u)'
                      /\ local[u].command \cap {"r", "R"} # {} => FreshAttestation(u)'
                      /\ {"a", "p"} \subseteq local[u].command => FreshCheck(u)'
      BY <1>1 DEF FreshInv
  <2>1. /\ FreshSteps(u)
        /\ local[u].command \cap {"r", "R"} # {} => FreshAttestation(u)
        /\ {"a", "p"} \subseteq local[u].command => FreshCheck(u)
      BY <1>2 DEF RunInv, FreshInv
  <2>2. FreshSteps(u)'
      BY <1>1, <2>1 DEF FreshSteps
  <2>3. ASSUME FreshAttestation(u) PROVE FreshAttestation(u)'
    <3>1. /\ Own(u, local[u].attestation) => Own(u, local[u].attestation)'
          /\ Own(u, tx[u].id) => Own(u, tx[u].id)'
      <4>1. PICK k \in Nat, i \in Nat : k = local[u].attestation /\ i = tx[u].id
          BY <1>3
      <4>2. (Own(u, k) => Own(u, k)') /\ (Own(u, i) => Own(u, i)')
          OBVIOUS
      <4>3. QED  BY <1>1, <4>1, <4>2 DEF Own, IsAttestation
    <3>2. Expired(u) => Expired(u)'
        BY <1>1 DEF Expired, IsAttestation, Grows
    <3>3. QED  BY <1>1, <2>3, <3>1, <3>2 DEF FreshAttestation
  <2>4. ASSUME FreshCheck(u) PROVE FreshCheck(u)'
      BY <1>1, <1>3, <2>4 DEF FreshCheck, IsCheck, Grows
  <2>5. QED  BY <2>1, <2>2, <2>3, <2>4
<1>8. QED  BY <1>4, <1>5, <1>6, <1>7 DEF RunInv

LEMMA FileGrows ==
    ASSUME IInv, Grows, UNCHANGED file
    PROVE  FileInv'
<1> SUFFICES ASSUME file \notin {NoFile, Corrupt} PROVE file.steps # {} /\ Truthful(file)'
    BY DEF FileInv, Truthful
<1>1. PICK s : s = file
    OBVIOUS
<1>2. s.steps # {} /\ Truthful(s)
    BY <1>1 DEF IInv, FileInv, Truthful
<1>3. Truthful(s)'
    BY <1>2, GrowsTruthful DEF IInv
<1>4. QED  BY <1>1, <1>2, <1>3 DEF Truthful

(* When all that happens is that the chain grows, or nothing at all. *)
LEMMA GrowsIInv ==
    ASSUME IInv, Grows, UNCHANGED <<file, at, step, local, tx>>, Shapes',
           \A u \in Runs : \A k \in Nat : Own(u, k) => Own(u, k)'
    PROVE  IInv'
<1>1. \A u \in Runs : RunInv(u)'
    BY GrowsRunInv DEF RunVarsKept
<1>2. QED  BY <1>1, FileGrows DEF IInv, Active

LEMMA InstructionMovesIInv ==
    ASSUME IInv, NEW i \in DOMAIN instructions, InstructionMoves(i)
    PROVE  IInv'
<1>1. UNCHANGED <<node, machine, file, at, step, local, tx>>
    BY DEF InstructionMoves
<1>2. \E a, b : /\ (a = "live" /\ b = "expired") \/ (a = "open" /\ b = "proved")
                /\ instructions[i].state = a
                /\ instructions' = [instructions EXCEPT ![i].state = b]
  <2>1. PICK next \in {<<"live", "expired">>, <<"open", "proved">>} :
          /\ instructions[i].state = next[1]
          /\ instructions' = [instructions EXCEPT ![i].state = next[2]]
      BY DEF InstructionMoves
  <2>2. (next[1] = "live" /\ next[2] = "expired") \/ (next[1] = "open" /\ next[2] = "proved")
      OBVIOUS
  <2>3. QED  BY <2>1, <2>2
<1> PICK a, b : /\ (a = "live" /\ b = "expired") \/ (a = "open" /\ b = "proved")
                /\ instructions[i].state = a
                /\ instructions' = [instructions EXCEPT ![i].state = b]
    BY <1>2
<1>3. instructions \in Seq(Instructions) /\ instructions[i] \in Instructions
    BY ElementOfSeq DEF IInv, Shapes
<1>4. [instructions[i] EXCEPT !.state = b] \in Instructions
    BY <1>2, <1>3 DEF Instructions
<1>5. instructions' \in Seq(Instructions)
    BY <1>2, <1>3, <1>4, ExceptSeq
<1>6. /\ DOMAIN instructions' = DOMAIN instructions
      /\ \A j \in DOMAIN instructions :
           /\ instructions'[j].kind = instructions[j].kind
           /\ instructions'[j].tee = instructions[j].tee
           /\ \/ instructions'[j].state = instructions[j].state
              \/ instructions[j].state = "live" /\ instructions'[j].state = "expired"
              \/ instructions[j].state = "open"
    BY <1>2, <1>3, ElementOfSeq DEF IInv, Shapes, Instructions
<1>7. Grows
    BY <1>1, <1>6 DEF Grows
<1>8. \A u \in Runs : \A k \in Nat : Own(u, k) => Own(u, k)'
    BY <1>1, <1>6 DEF Own, IsAttestation
<1>9. Shapes'
    BY <1>1, <1>5 DEF IInv, Shapes
<1>10. QED  BY <1>1, <1>7, <1>8, <1>9, GrowsIInv

LEMMA RedeployIInv ==
    ASSUME IInv, NEW m \in Machines, Redeploy(m)
    PROVE  IInv'
<1>1. node' = m /\ UNCHANGED <<machine, instructions, file, at, step, local, tx>>
    BY DEF Redeploy, chain
<1>2. Shapes' /\ Grows
    BY <1>1 DEF IInv, Shapes, Grows
<1>3. \A u \in Runs : \A k \in Nat : Own(u, k) => Own(u, k)'
    BY <1>1 DEF Own, IsAttestation
<1>4. QED  BY <1>1, <1>2, <1>3, GrowsIInv

-----------------------------------------------------------------------------
(* A transaction is mined, or reverts.                                     *)

(* A transaction that reverts leaves the chain as it is; a check of a fresh  *)
(* run reverts only because the attestation has expired.                     *)
LEMMA RevertIInv ==
    ASSUME IInv, NEW u \in Runs, tx[u].status = "pending", ~Accepted(tx[u]),
           tx' = [tx EXCEPT ![u].status = "reverted"],
           UNCHANGED <<node, machine, instructions, file, at, step, local>>
    PROVE  IInv'
<1>1. RunInv(u) /\ tx[u] \in Transactions /\ local[u] \in Locals
    BY DEF IInv, Shapes
<1>2. /\ tx' \in [Runs -> Transactions] /\ tx'[u].status = "reverted"
      /\ tx'[u].call = tx[u].call /\ tx'[u].tee = tx[u].tee /\ tx'[u].ref = tx[u].ref
      /\ \A v \in Runs : v # u => tx'[v] = tx[v]
    BY <1>1 DEF IInv, Shapes, Transactions
<1>3. Shapes'
    BY <1>2 DEF IInv, Shapes
<1>4. Grows
    BY DEF Grows
<1>5. \A v \in Runs : \A k \in Nat : Own(v, k) => Own(v, k)'
    BY <1>2 DEF Own, IsAttestation
<1>6. \A v \in Runs : v # u => RunInv(v)'
    BY <1>2, <1>4, <1>5, GrowsRunInv DEF RunVarsKept
<1>7. TxInv(u)'
    BY <1>1, <1>2 DEF RunInv, TxInv
<1>8. (Truthful(local[u].state))' /\ StageInv(u)'
    BY <1>1, <1>2 DEF RunInv, Truthful, IsAttestation, IsCheck, Known, StageInv, WaitsFor
<1>9. FreshInv(u)'
  <2> SUFFICES ASSUME ~local[u].resuming, at[u] \notin {"idle", "info", "load"}
               PROVE  /\ FreshSteps(u)'
                      /\ local[u].command \cap {"r", "R"} # {} => FreshAttestation(u)'
                      /\ {"a", "p"} \subseteq local[u].command => FreshCheck(u)'
      BY DEF FreshInv
  <2>1. /\ FreshSteps(u)
        /\ local[u].command \cap {"r", "R"} # {} => FreshAttestation(u)
        /\ {"a", "p"} \subseteq local[u].command => FreshCheck(u)
      BY <1>1 DEF RunInv, FreshInv
  <2>2. at[u] \in {"wait"} \cup Ended
      BY <1>1 DEF RunInv, TxInv
  <2>3. FreshSteps(u)' /\ (FreshCheck(u) => FreshCheck(u)')
      BY <2>1 DEF FreshSteps, FreshCheck, IsCheck
  <2>4. ASSUME FreshAttestation(u) PROVE FreshAttestation(u)'
    <3>1. at[u] = "wait" /\ step[u] = "a" => Expired(u)
      <4> SUFFICES ASSUME at[u] = "wait", step[u] = "a" PROVE Expired(u)
          OBVIOUS
      <4>1. /\ tx[u].call = "requestCheck" /\ tx[u].tee = local[u].tee
            /\ tx[u].ref = local[u].attestation
          BY <1>1 DEF RunInv, StageInv, WaitsFor
      <4>2. Own(u, local[u].attestation)
          BY <2>4 DEF FreshAttestation
      <4>3. QED  BY <4>1, <4>2 DEF Own, Accepted, Expired
    <3>2. Expired(u) => Expired(u)'
        BY DEF Expired, IsAttestation
    <3>3. QED  BY <1>2, <2>2, <2>4, <3>1, <3>2 DEF FreshAttestation, Ended
  <2>5. QED  BY <2>1, <2>3, <2>4
<1>10. FileInv'
    BY <1>4, FileGrows
<1>11. \A v \in Runs : RunInv(v)'
    BY <1>6, <1>7, <1>8, <1>9 DEF RunInv
<1>12. QED  BY <1>3, <1>10, <1>11 DEF IInv, Active

(* What an accepted transaction t does to the chain; k is the instruction it  *)
(* has sent.                                                                  *)
ChainAfter(t, k) ==
    /\ instructions' \in Seq(Instructions) /\ Grows
    /\ machine' \in [Machines -> {"unknown", "registered", "production"}]
    /\ \A i \in DOMAIN instructions :
         \/ instructions'[i].state = instructions[i].state
         \/ t.call = "requestCheck" /\ i = t.ref
    /\ machine'[t.tee] # "unknown"
    /\ t.call = "toProduction" => machine'[t.tee] = "production"
    /\ t.call # "toProduction" =>
         /\ k \in DOMAIN instructions' /\ k \notin DOMAIN instructions
         /\ instructions'[k].tee = t.tee
    /\ t.call \in {"register", "requestAttestation"} =>
         instructions'[k].kind = "attestation" /\ instructions'[k].state = "live"
    /\ t.call = "requestCheck" => instructions'[k].kind = "check"

LEMMA AcceptedChain ==
    ASSUME IInv, NEW u \in Runs, tx[u].status = "pending", Accepted(tx[u]),
           instructions' = InstructionsAfter(tx[u]),
           machine' = [machine EXCEPT ![tx[u].tee] =
             IF tx[u].call = "toProduction" THEN "production"
             ELSE IF @ = "unknown" THEN "registered" ELSE @]
    PROVE  ChainAfter(tx[u], Len(instructions'))
<1> DEFINE t == tx[u]
           k == Len(instructions')
<1>1. t \in Transactions /\ t.call # "none"
    BY DEF IInv, Shapes, RunInv, TxInv
<1>2. instructions \in Seq(Instructions) /\ Len(instructions) \in Nat
      /\ DOMAIN instructions = 1 .. Len(instructions)
      /\ \A i \in DOMAIN instructions : instructions[i] \in Instructions
    BY ElementOfSeq, LenProperties DEF IInv, Shapes
<1>3. /\ machine' \in [Machines -> {"unknown", "registered", "production"}]
      /\ machine'[t.tee] # "unknown"
      /\ t.call = "toProduction" => machine'[t.tee] = "production"
      /\ \A m \in Machines : /\ machine[m] # "unknown" => machine'[m] # "unknown"
                             /\ machine[m] = "production" => machine'[m] = "production"
    BY <1>1 DEF IInv, Shapes, Transactions
<1>4. CASE t.call \in {"register", "requestAttestation"}
  <2> DEFINE new == Instruction("attestation", t.tee, "live")
  <2>1. instructions' = Append(instructions, new)
      BY <1>4 DEF InstructionsAfter
  <2>2. new \in Instructions /\ new.kind = "attestation" /\ new.tee = t.tee /\ new.state = "live"
      BY <1>1 DEF Instruction, Instructions, Transactions
  <2> HIDE DEF new
  <2>3. /\ instructions' \in Seq(Instructions) /\ k = Len(instructions) + 1
        /\ \A i \in 1 .. Len(instructions) : instructions'[i] = instructions[i]
        /\ instructions'[k] = new
      BY <1>2, <2>1, <2>2, AppendProperties
  <2>4. DOMAIN instructions' = 1 .. k
      BY <2>3, LenProperties
  <2>5. QED  BY <1>2, <1>3, <1>4, <2>2, <2>3, <2>4 DEF Grows, ChainAfter
<1>5. CASE t.call = "requestCheck"
  <2> DEFINE new == Instruction("check", t.tee, "open")
             before == [instructions EXCEPT ![t.ref].state = "used"]
             used == [instructions[t.ref] EXCEPT !.state = "used"]
  <2>1. instructions' = Append(before, new)
      BY <1>5 DEF InstructionsAfter
  <2>2. new \in Instructions /\ new.kind = "check" /\ new.tee = t.tee
      BY <1>1 DEF Instruction, Instructions, Transactions
  <2>3. t.ref \in 1 .. Len(instructions) /\ instructions[t.ref].kind = "attestation"
        /\ instructions[t.ref].state = "live"
      BY <1>2, <1>5 DEF Accepted, IsAttestation
  <2>4. used \in Instructions /\ used.kind = "attestation"
        /\ used.tee = instructions[t.ref].tee
      BY <1>2, <2>3 DEF Instructions
  <2>5. before = [instructions EXCEPT ![t.ref] = used]
      OBVIOUS
  <2> HIDE DEF new, used, before
  <2>6. /\ before \in Seq(Instructions) /\ Len(before) = Len(instructions)
        /\ \A i \in 1 .. Len(instructions) :
             before[i] = IF i = t.ref THEN used ELSE instructions[i]
      BY <1>2, <2>3, <2>4, <2>5, ExceptSeq
  <2>7. /\ instructions' \in Seq(Instructions) /\ k = Len(instructions) + 1
        /\ \A i \in 1 .. Len(instructions) : instructions'[i] = before[i]
        /\ instructions'[k] = new
      BY <2>1, <2>2, <2>6, AppendProperties
  <2>8. DOMAIN instructions' = 1 .. k
      BY <2>7, LenProperties
  <2>9. Grows
      BY <1>2, <1>3, <2>3, <2>4, <2>6, <2>7, <2>8 DEF Grows
  <2>10. QED  BY <1>2, <1>3, <1>5, <2>2, <2>6, <2>7, <2>8, <2>9 DEF ChainAfter
<1>6. CASE t.call = "toProduction"
  <2>1. instructions' = instructions
      BY <1>6 DEF InstructionsAfter
  <2>2. QED  BY <1>2, <1>3, <1>6, <2>1 DEF Grows, ChainAfter
<1>7. QED  BY <1>1, <1>4, <1>5, <1>6 DEF Transactions

(* A mined request gives its run an attestation of its own: no transaction   *)
(* sent before names it.  A mined check uses up its own run's attestation.   *)
LEMMA MinedIInv ==
    ASSUME IInv, NEW u \in Runs, tx[u].status = "pending", Accepted(tx[u]),
           instructions' = InstructionsAfter(tx[u]),
           machine' = [machine EXCEPT ![tx[u].tee] =
             IF tx[u].call = "toProduction" THEN "production"
             ELSE IF @ = "unknown" THEN "registered" ELSE @],
           tx' = [tx EXCEPT ![u].status = "mined", ![u].id = Len(instructions')],
           UNCHANGED <<node, file, at, step, local>>
    PROVE  IInv'
<1>1. PICK k \in Nat : k = Len(instructions') /\ ChainAfter(tx[u], k)
    BY AcceptedChain, LenProperties DEF ChainAfter
<1>2. RunInv(u) /\ tx[u] \in Transactions /\ local[u] \in Locals /\ tx[u].call # "none"
    BY DEF IInv, Shapes, RunInv, TxInv
<1>3. Grows
    BY <1>1 DEF ChainAfter
<1>4. /\ tx' \in [Runs -> Transactions] /\ tx'[u].status = "mined" /\ tx'[u].id = k
      /\ tx'[u].call = tx[u].call /\ tx'[u].tee = tx[u].tee /\ tx'[u].ref = tx[u].ref
      /\ \A v \in Runs : v # u => tx'[v] = tx[v]
    BY <1>1, <1>2 DEF IInv, Shapes, Transactions
<1>5. Shapes'
    BY <1>1, <1>4 DEF IInv, Shapes, ChainAfter
<1>6. ASSUME NEW v \in Runs, v # u
      PROVE  RunInv(v)'
  <2>1. ASSUME NEW i \in Nat, Own(v, i)
        PROVE  Own(v, i)'
    <3>1. i \in DOMAIN instructions /\ IsAttestation(i, local[v].tee)'
        BY <1>3, <2>1 DEF Own, IsAttestation, Grows
    <3>2. tx[u].call = "requestCheck" => tx[u].ref # i
        BY <1>6, <2>1 DEF Own
    <3>3. instructions'[i].state = instructions[i].state
        BY <1>1, <3>1, <3>2 DEF ChainAfter
    <3>4. \A w \in Runs : tx'[w].status = "pending" => tx'[w] = tx[w]
        BY <1>4
    <3>5. QED  BY <2>1, <3>1, <3>3, <3>4 DEF Own
  <2>2. RunVarsKept(v)
      BY <1>4, <1>6 DEF RunVarsKept
  <2>3. QED  BY <1>3, <2>1, <2>2, GrowsRunInv
<1>7. TxInv(u)'
  <2>1. DOMAIN instructions \subseteq DOMAIN instructions'
      BY <1>3 DEF Grows
  <2>2. Effect(tx[u])'
      BY <1>1, <1>4 DEF ChainAfter, Effect, IsAttestation, IsCheck, Known
  <2>3. QED  BY <1>2, <1>4, <2>1, <2>2 DEF RunInv, TxInv
<1>8. (Truthful(local[u].state))'
  <2>1. PICK s : s = local[u].state
      OBVIOUS
  <2>2. Truthful(s)'
      BY <1>2, <1>3, <2>1, GrowsTruthful DEF IInv, RunInv
  <2>3. QED  BY <2>1, <2>2 DEF Truthful
<1>9. StageInv(u)'
    BY <1>2, <1>3, <1>4 DEF RunInv, StageInv, WaitsFor, Grows
<1>10. FreshInv(u)'
  <2> SUFFICES ASSUME ~local[u].resuming, at[u] \notin {"idle", "info", "load"}
               PROVE  /\ FreshSteps(u)'
                      /\ local[u].command \cap {"r", "R"} # {} => FreshAttestation(u)'
                      /\ {"a", "p"} \subseteq local[u].command => FreshCheck(u)'
      BY DEF FreshInv
  <2>1. /\ FreshSteps(u)
        /\ local[u].command \cap {"r", "R"} # {} => FreshAttestation(u)
        /\ {"a", "p"} \subseteq local[u].command => FreshCheck(u)
      BY <1>2 DEF RunInv, FreshInv
  <2>2. at[u] \in {"wait"} \cup Ended
      BY <1>2 DEF RunInv, TxInv
  <2>3. FreshSteps(u)'
      BY <2>1 DEF FreshSteps
  <2>4. ASSUME FreshCheck(u) PROVE FreshCheck(u)'
    <3>1. local[u].tee \in Machines
        BY <1>2 DEF Locals
    <3>2. QED  BY <1>3, <2>4, <3>1 DEF FreshCheck, IsCheck, Grows
  <2>5. ASSUME FreshAttestation(u) PROVE FreshAttestation(u)'
    <3>1. Expired(u) => Expired(u)'
        BY <1>3 DEF Expired, IsAttestation, Grows
    <3>2. at[u] = "wait" /\ step[u] \in {"r", "R"} => Own(u, tx[u].id)'
      <4> SUFFICES ASSUME at[u] = "wait", step[u] \in {"r", "R"} PROVE Own(u, tx[u].id)'
          OBVIOUS
      <4>1. /\ tx[u].call \in {"register", "requestAttestation"} /\ tx[u].tee = local[u].tee
          BY <1>2 DEF RunInv, StageInv, WaitsFor
      <4>2. \A w \in Runs : tx[w].call = "requestCheck" => tx[w].ref \in DOMAIN instructions
          BY DEF IInv, RunInv, TxInv
      <4>3. /\ k \in DOMAIN instructions' /\ k \notin DOMAIN instructions
            /\ instructions'[k].kind = "attestation" /\ instructions'[k].state = "live"
            /\ instructions'[k].tee = tx[u].tee
          BY <1>1, <4>1 DEF ChainAfter
      <4>4. \A w \in Runs : tx'[w].status = "pending" /\ tx'[w].call = "requestCheck" =>
              tx'[w].ref # k
          BY <1>4, <4>2, <4>3
      <4>5. QED  BY <1>4, <4>1, <4>3, <4>4 DEF Own, IsAttestation
    <3>3. QED  BY <1>4, <2>2, <2>5, <3>1, <3>2 DEF FreshAttestation, Ended
  <2>6. QED  BY <2>1, <2>3, <2>4, <2>5
<1>11. FileInv'
    BY <1>3, FileGrows
<1>12. \A v \in Runs : RunInv(v)'
    BY <1>6, <1>7, <1>8, <1>9, <1>10 DEF RunInv
<1>13. QED  BY <1>5, <1>11, <1>12 DEF IInv, Active

LEMMA MineIInv ==
    ASSUME IInv, NEW u \in Runs, Mine(u)
    PROVE  IInv'
<1>1. CASE Accepted(tx[u])
    BY <1>1, MinedIInv DEF Mine
<1>2. CASE ~Accepted(tx[u])
    BY <1>2, RevertIInv DEF Mine, chain
<1>3. QED  BY <1>1, <1>2

-----------------------------------------------------------------------------
(* The theorems.                                                           *)

LEMMA InitIInv == Init => IInv
<1> SUFFICES ASSUME Init PROVE IInv
    OBVIOUS
<1>1. NoState \in States /\ NoState.steps = {}
    BY DEF NoState, States
<1>2. Shapes
    BY <1>1, EmptySeq DEF Init, Shapes, Places, Locals, Transactions, NoTx, Steps
<1>3. \A u \in Runs : at[u] = "idle" /\ step[u] = "r" /\ ~local[u].resuming
        /\ local[u].state = NoState /\ tx[u].status = "none" /\ tx[u].call = "none"
    BY DEF Init, NoTx
<1>4. \A u \in Runs : RunInv(u)
    BY <1>1, <1>3 DEF RunInv, TxInv, Truthful, StageInv, FreshInv
<1>5. QED  BY <1>2, <1>3, <1>4 DEF Init, IInv, FileInv, Active

LEMMA NextIInv == IInv /\ [Next]_vars => IInv'
<1> SUFFICES ASSUME IInv, [Next]_vars PROVE IInv'
    OBVIOUS
<1>1. ASSUME NEW u \in Runs, RunStep(u)
      PROVE  IInv'
  <2>1. ASSUME PolicyOutOfSync(u) \/ Fail(u)
        PROVE  IInv'
    <3>1. /\ Active(u) /\ at' = [at EXCEPT ![u] = "stopped"] /\ file' \in {file, NoFile, Corrupt}
          /\ UNCHANGED <<node, chain, step, local, tx>>
        BY <2>1 DEF PolicyOutOfSync, Due, Fail, Goto, Active, Ended
    <3>2. QED  BY <3>1, StopsIInv
  <2>2. QED
      BY <1>1, <2>1, LaunchIInv, ReadNodeIInv, LoadStateIInv, SkipCompletedIInv,
         SkipUnaskedIInv, SendIInv, ReceiptIInv, SaveStateIInv, FinishIInv DEF RunStep
<1>2. CASE UNCHANGED vars
  <2>1. UNCHANGED <<node, machine, instructions, file, at, step, local, tx>>
      BY <1>2 DEF vars, chain
  <2>2. Shapes' /\ Grows
      BY <2>1 DEF IInv, Shapes, Grows
  <2>3. \A u \in Runs : \A k \in Nat : Own(u, k) => Own(u, k)'
      BY <2>1 DEF Own, IsAttestation
  <2>4. QED  BY <2>1, <2>2, <2>3, GrowsIInv
<1>3. QED  BY <1>1, <1>2, MineIInv, InstructionMovesIInv, RedeployIInv DEF Next

(* The invariant of register-tee: what the progress file and every run's       *)
(* memory claim, the chain bears out, and a fresh run's attestation is its own.*)
THEOREM TeeInvariant == Spec => []IInv
BY InitIInv, NextIInv, PTL DEF Spec

(* The registry, the file and the runs hold values of their shapes. *)
THEOREM TeeTypeCorrect == Spec => []TypeOK
<1>1. IInv => TypeOK
  <2> SUFFICES ASSUME IInv PROVE TypeOK
      OBVIOUS
  <2>1. \A i \in DOMAIN instructions : instructions[i] \in Instructions
      BY ElementOfSeq DEF IInv, Shapes
  <2>2. file \in {NoFile, Corrupt} \/ (file.steps \subseteq {"r", "R", "a"} /\ file.steps # {})
      BY DEF IInv, Shapes, FileInv, States
  <2>3. \A u \in Runs : tx[u].status = "mined" /\ tx[u].call # "toProduction" =>
          tx[u].id \in DOMAIN instructions
      BY DEF IInv, Shapes, Transactions, RunInv, TxInv, Effect, IsAttestation, IsCheck
  <2>4. QED  BY <2>1, <2>2, <2>3 DEF IInv, Shapes, Places, TypeOK, Instructions
<1>2. QED  BY <1>1, TeeInvariant, PTL

(* The progress file never claims what the chain does not bear out. *)
THEOREM ProgressIsTruthful == Spec => []ProgressTruthful
<1>1. IInv => ProgressTruthful
    BY DEF IInv, FileInv, Truthful, ProgressTruthful
<1>2. QED  BY <1>1, TeeInvariant, PTL

(* The check of a run that does not resume is refused only if its attestation *)
(* has expired: no other run can have used it up.                             *)
THEOREM ChallengeIsFresh == Spec => []FreshChallenge
<1>1. IInv => FreshChallenge
    BY DEF IInv, RunInv, FreshInv, FreshAttestation, Expired, FreshChallenge
<1>2. QED  BY <1>1, TeeInvariant, PTL

(* A run that starts afresh and requests its own check puts the machine it     *)
(* names in production.                                                        *)
THEOREM FreshRunPromotes == Spec => []FreshRunPromotesItsMachine
<1>1. IInv => FreshRunPromotesItsMachine
    BY DEF IInv, RunInv, FreshInv, FreshCheck, FreshRunPromotesItsMachine
<1>2. QED  BY <1>1, TeeInvariant, PTL
=============================================================================
