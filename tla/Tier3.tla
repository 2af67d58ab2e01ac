------------------------------- MODULE Tier3 -------------------------------
(***************************************************************************)
(* Collaborative proving: the drivers prove_tier3 (one validity chunk) and  *)
(* prove_tier3_full (the whole relation), and the co-circom processes they  *)
(* start in a work directory whose file names never change.                 *)
(*                                                                          *)
(* An attempt goes through the stages of its mode.  In each it writes a     *)
(* provider's file itself or starts one process, or one per party, and      *)
(* waits for all of them.  A process reads its inputs when it starts, the   *)
(* parties of a stage compute together (Join), and each writes its outputs  *)
(* one after the other.  A process may fail, and a driver may be killed,    *)
(* with its processes or without them: those that survive go on reading and *)
(* writing in the directory of the next attempt.                            *)
(*                                                                          *)
(* co-circom is not part of the sources: its processes are known by their   *)
(* arguments, and by what the repository records of version 0.10.0          *)
(* (TIER3_DESIGN.md:42-57, TIER3_STATUS.md:80-84, zk/tier3.rs:512-516): it  *)
(* cannot extend the witness of the full relation in MPC.  Optimised, the   *)
(* witness it makes does not satisfy the circuit, and nobody notices before *)
(* the proof fails to verify; otherwise its parties panic or hang.          *)
(*                                                                          *)
(* The content of a file is the set of its origins: the instances whose     *)
(* data went into it, whether the present attempt put them there, and       *)
(* whether it was in mode "full", where the witness is a wrong one.  Only   *)
(* data of one instance, and of another mode, make a proof that verifies.   *)
(***************************************************************************)
EXTENDS ProviderInputs, FiniteSets

CONSTANTS
  Party,        \* the parties of the computation
  Instance,     \* what is proved: [board, counts]
  NoInstance,   \* the origin of a file cut off in the middle
  Width, Chunk, \* the chunk prove_tier3 proves, and its number of slots
  Slots,        \* nb, the slots of the circuit of prove_tier3_full
  MaxFaults,    \* bound: drivers killed, and processes that fail for no visible reason
  MaxSwitches   \* bound: attempts at another instance than the one before

ASSUME Tier3Bounds ==
  /\ Width \in Nat \ {0} /\ Chunk \in Nat /\ Slots \in Nat
  /\ MaxFaults \in Nat /\ MaxSwitches \in Nat
  /\ NoInstance \notin Instance
  /\ \A inst \in Instance : inst.board \in Seq(Nat)

ASSUME PartiesAssumption ==
  IsFiniteSet(Party) /\ Party # {} /\ Party = 0..(Cardinality(Party) - 1)

VARIABLES
  mode,      \* how the present attempt proves: a chunk, or the full relation with its
             \* witness extended in MPC (full-mpc) or centrally (proving-mpc)
  files,     \* the work directory
  procs,     \* co-circom (and node) processes that run
  attempt,   \* the present attempt, or the last one when it has ended
  faults,
  switches

vars == <<mode, files, procs, attempt, faults, switches>>

Mode == {"chunk", "full", "collaborative"}

Provider == {"opening", "authority_a", "authority_b"}

File ==
  {<<p>> : p \in Provider \cup {"merged_input", "wtns", "proof", "public"}}
    \cup ((Provider \cup {"input", "witness", "wtns"}) \X Party)

Origin == [inst : Instance \cup {NoInstance}, fresh : BOOLEAN, full : BOOLEAN]

CutOff == {[inst |-> NoInstance, fresh |-> FALSE, full |-> FALSE]}

\* The stages: commands [what, role, reads, writes] that run side by side.
\* The driver writes the files of a stage that reads nothing.
Command(what, role, reads, writes) ==
  [what |-> what, role |-> role, reads |-> reads, writes |-> writes]

Write(fs) == {Command("write", 0, {}, << {<<f>> : f \in fs} >>)}

Split(f) == {Command("split", 0, {<<f>>}, << {<<f, i>> : i \in Party} >>)}

Merge(i) == {Command("merge", i, {<<f, i>> : f \in Provider}, << {<<"input", i>>} >>)}

GenerateWitness ==
  {Command("witness", i, {<<"input", i>>}, << {<<"witness", i>>} >>) : i \in Party}

\* A faulty variant: nobody is told to write the public inputs.
GenerateProofAlone(f) ==
  {Command("prove", i, {<<f, i>>}, IF i = 0 THEN << {<<"proof">>} >> ELSE << {} >>) : i \in Party}

\* Every party writes a proof of its own, but only that of party 0, which also
\* writes the public inputs, is ever read.
GenerateProof(f) ==
  {Command("prove", i, {<<f, i>>}, IF i = 0 THEN << {<<"proof">>}, {<<"public">>} >> ELSE << {} >>)
     : i \in Party}

ProveChunk ==
  <<Write(Provider), Split("opening"), Split("authority_a"), Split("authority_b")>>
  \o [k \in 1..Cardinality(Party) |-> Merge(k - 1)]
  \o <<GenerateWitness, GenerateProof("witness")>>

CentralWitness == {Command("central", 0, {<<"merged_input">>}, << {<<"wtns">>} >>)}

ProveCollaborative ==
  <<Write({"merged_input"}), CentralWitness, Split("wtns"), GenerateProof("wtns")>>

Stages == IF mode = "collaborative" THEN ProveCollaborative ELSE ProveChunk

Idle ==
  [ phase |-> "none", inst |-> NoInstance, at |-> 0, failed |-> FALSE,
    disturbed |-> FALSE, verified |-> {} ]

Init ==
  /\ mode \in Mode
  /\ files = [f \in File |-> {}]
  /\ procs = {}
  /\ attempt = Idle
  /\ faults = 0 /\ switches = 0

Orphans == {pr \in procs : ~pr.own}

-----------------------------------------------------------------------------
(* The driver.                                                              *)

Ended == attempt.phase \in {"none", "unbuilt", "failed", "killed", "refused", "accepted"}

Providable(m, inst) ==
  IF m = "chunk" THEN ChunkProvidable(inst.board, Width, Chunk)
                 ELSE FullProvidable(inst.board, Slots)

Aged(origins) == {[o EXCEPT !.fresh = FALSE] : o \in origins}

\* The modes of one driver, whose attempts share a work directory.
ModesOf(m) == IF m = "chunk" THEN {"chunk"} ELSE {"full", "collaborative"}

\* The first attempt that goes anywhere, or the same one again.
Again(m, inst) ==
  attempt.phase \in {"none", "unbuilt"} \/ (m = mode /\ inst = attempt.inst)

\* What the driver advises after a failure in mode "full": "Re-run with
\* `--mode proving-mpc`".
Advised(m, inst) == mode = "full" /\ m = "collaborative" /\ inst = attempt.inst

Allowed(m, inst) == Again(m, inst) \/ Advised(m, inst) \/ switches < MaxSwitches

\* A new run of the driver, in a mode of its own choice.  It goes no further when
\* a provider's input cannot be built.
StartAttempt(m, inst) ==
  /\ Ended
  /\ m \in ModesOf(mode) /\ Allowed(m, inst)
  /\ switches' = IF Again(m, inst) \/ switches = MaxSwitches THEN switches ELSE switches + 1
  /\ mode' = m
  /\ attempt' = [Idle EXCEPT !.phase = IF Providable(m, inst) THEN "stage" ELSE "unbuilt",
                             !.inst = inst, !.at = 1, !.disturbed = Orphans # {}]
  /\ files' = [f \in File |-> Aged(files[f])]
  /\ procs' = {[pr EXCEPT !.got = Aged(pr.got)] : pr \in procs}
  /\ UNCHANGED faults

Mine == [inst |-> attempt.inst, fresh |-> TRUE, full |-> mode = "full"]

\* A process alone computes on what it reads; a party waits for the others.
Alone(c) == c.what \notin {"witness", "prove"}

Process(c) ==
  [ what |-> c.what, role |-> c.role, todo |-> c.writes, own |-> TRUE,
    phase |-> IF Alone(c) THEN "computed" ELSE "waiting",
    got |-> UNION {IF files[f] = {} THEN CutOff ELSE files[f] : f \in c.reads} ]

\* The next stage: the driver writes, or starts its processes and waits.
BeginStage ==
  /\ attempt.phase = "stage"
  /\ attempt.at <= Len(Stages)
  /\ LET stage == Stages[attempt.at]
         written == UNION {c.writes[1] : c \in {d \in stage : d.reads = {}}}
     IN  /\ files' = [f \in File |-> IF f \in written THEN {Mine} ELSE files[f]]
         /\ procs' = procs \cup {Process(c) : c \in {d \in stage : d.reads # {}}}
  /\ attempt' = [attempt EXCEPT !.phase = "waiting"]
  /\ UNCHANGED <<mode, faults, switches>>

\* A faulty variant: the driver goes on whether or not its processes failed.
AnyStageIsGood == TRUE

StageIsGood == ~attempt.failed

\* A faulty variant: one stage too many.
StageBeforeLast == attempt.at <= Len(Stages)

MoreStages == attempt.at < Len(Stages)

\* run and parallel_parties: all processes have ended, and all have succeeded.
EndStage ==
  /\ attempt.phase = "waiting"
  /\ \A pr \in procs : ~pr.own
  /\ attempt' = IF ~StageIsGood THEN [Idle EXCEPT !.phase = "failed", !.inst = attempt.inst]
                ELSE IF MoreStages THEN [attempt EXCEPT !.phase = "stage", !.at = @ + 1]
                ELSE [attempt EXCEPT !.phase = "verify"]
  /\ UNCHANGED <<mode, files, procs, faults, switches>>

OfOneInstance(origins) ==
  \E i \in Instance : origins # {} /\ \A o \in origins : o.inst = i

\* co-circom verify.  Shares of two sharings of one instance may or may not
\* fit together, and so may the public inputs of a wrong witness, but no proof
\* from a wrong witness ever verifies.
MayVerify ==
  /\ OfOneInstance(files[<<"proof">>] \cup files[<<"public">>])
  /\ \A o \in files[<<"proof">>] : ~o.full

MustVerify ==
  mode # "full" /\ files[<<"proof">>] = {Mine} /\ files[<<"public">>] = {Mine}

Verify ==
  /\ attempt.phase = "verify"
  /\ \/ /\ MayVerify
        /\ attempt' = [attempt EXCEPT !.phase = "compare", !.verified = files[<<"public">>]]
     \/ /\ ~MustVerify
        /\ attempt' = [attempt EXCEPT !.phase = "refused"]
  /\ UNCHANGED <<mode, files, procs, faults, switches>>

\* What a driver compares of the public inputs: all of them, or the counts.
Compared(inst) == IF mode = "chunk" \/ inst = NoInstance THEN inst ELSE inst.counts

\* A faulty variant: the public inputs of the proof are not looked at.
NothingToMatch(origins) == TRUE

MayMatch(origins) ==
  origins # {} /\ \A o \in origins : Compared(o.inst) = Compared(attempt.inst)

\* The public inputs, read once more, are the expected ones.
Compare ==
  /\ attempt.phase = "compare"
  /\ LET public == files[<<"public">>]
     IN  \/ /\ MayMatch(public)
            /\ attempt' = [attempt EXCEPT !.phase = "accepted"]
         \/ /\ public # {Mine}
            /\ attempt' = [attempt EXCEPT !.phase = "refused"]
  /\ UNCHANGED <<mode, files, procs, faults, switches>>

-----------------------------------------------------------------------------
(* The processes.                                                           *)

\* One party of every role, of this attempt or left over from another, have met.
Met(session) ==
  /\ \A pr \in session : pr.phase = "waiting"
  /\ \A pr, qr \in session : pr.what = qr.what /\ (pr.role = qr.role => pr = qr)
  /\ {pr.role : pr \in session} = Party

\* Each computes on what all of them have read.
Join(session) ==
  /\ Met(session)
  /\ LET all == UNION {pr.got : pr \in session}
     IN  procs' = (procs \ session) \cup
                    {[pr EXCEPT !.phase = "computed", !.got = all] : pr \in session}
  /\ UNCHANGED <<mode, files, attempt, faults, switches>>

\* Parties that extend the full relation without optimisation break down: some
\* hang, the others panic.
BreakDown(session) ==
  /\ Met(session)
  /\ mode # "chunk" /\ \A pr \in session : pr.what = "witness"
  /\ \E hung \in SUBSET session :
       /\ procs' = (procs \ session) \cup {[pr EXCEPT !.phase = "hung"] : pr \in hung}
       /\ attempt' = [attempt EXCEPT !.failed = @ \/ \E pr \in session \ hung : pr.own]
  /\ UNCHANGED <<mode, files, faults, switches>>

\* The process writes its next output; when it has written everything it ends.
WriteOutput(pr) ==
  /\ pr.phase = "computed"
  /\ files' = [f \in File |-> IF f \in pr.todo[1] THEN pr.got ELSE files[f]]
  /\ procs' = (procs \ {pr}) \cup
       (IF Len(pr.todo) = 1 THEN {} ELSE {[pr EXCEPT !.todo = Tail(@)]})
  /\ UNCHANGED <<mode, attempt, faults, switches>>

\* The parties a process still waits for are not all there.
Deserted(pr) ==
  /\ pr.phase = "waiting"
  /\ \E i \in Party : \A qr \in procs :
       ~(qr.what = pr.what /\ qr.role = i /\ qr.phase = "waiting")

\* A process gives up: its input is cut off, its peers are gone, or a party
\* left over from a killed attempt holds its port.
GiveUp(pr) ==
  /\ \/ CutOff \subseteq pr.got
     \/ Deserted(pr)
     \/ pr.own /\ pr.phase = "waiting" /\ \E qr \in Orphans : ~Alone(qr)
  /\ procs' = procs \ {pr}
  /\ attempt' = [attempt EXCEPT !.failed = @ \/ pr.own]
  /\ UNCHANGED <<mode, files, faults, switches>>

\* Nothing ends a process that hangs but somebody who kills it.
KillHung(pr) ==
  /\ pr.phase = "hung"
  /\ procs' = procs \ {pr}
  /\ attempt' = [attempt EXCEPT !.failed = @ \/ pr.own]
  /\ UNCHANGED <<mode, files, faults, switches>>

\* A process fails for no visible reason, and what it was about to write may
\* be cut off.
Fail(pr) ==
  /\ faults < MaxFaults /\ faults' = faults + 1
  /\ procs' = procs \ {pr}
  /\ \/ UNCHANGED files
     \/ files' = [f \in File |-> IF f \in pr.todo[1] THEN CutOff ELSE files[f]]
  /\ attempt' = [attempt EXCEPT !.failed = @ \/ pr.own]
  /\ UNCHANGED <<mode, switches>>

\* The driver dies, and its processes with it or on their own from now on.
Kill ==
  /\ ~Ended
  /\ faults < MaxFaults /\ faults' = faults + 1
  /\ attempt' = [Idle EXCEPT !.phase = "killed", !.inst = attempt.inst]
  /\ \/ /\ procs' = {[pr EXCEPT !.own = FALSE] : pr \in procs}
        /\ UNCHANGED files
     \/ /\ procs' = Orphans
        /\ \E cut \in SUBSET (procs \ Orphans) :
             files' = [f \in File |-> IF \E pr \in cut : f \in pr.todo[1] THEN CutOff
                                      ELSE files[f]]
  /\ UNCHANGED <<mode, switches>>

-----------------------------------------------------------------------------

DriverNext ==
  \/ \E m \in Mode, inst \in Instance : StartAttempt(m, inst)
  \/ BeginStage
  \/ EndStage
  \/ Verify
  \/ Compare
  \/ Kill

ProcessNext ==
  \/ \E pr \in procs : WriteOutput(pr) \/ GiveUp(pr) \/ KillHung(pr) \/ Fail(pr)
  \/ \E session \in SUBSET {pr \in procs : pr.phase = "waiting"} :
       Join(session) \/ BreakDown(session)

Next == DriverNext \/ ProcessNext

Spec == Init /\ [][Next]_vars

\* What is running ends, survivors of a killed attempt included: by itself, or by
\* being killed when it hangs.  And the operator tries again, in a mode that is not
\* known to fail, with an instance whose inputs can be built.  co-circom is taken
\* to give up when its peers are gone.
Steps(running) ==
  \/ \E pr \in running : WriteOutput(pr) \/ GiveUp(pr) \/ KillHung(pr)
  \/ \E session \in SUBSET {pr \in procs : pr.phase = "waiting"} :
       session \cap running # {} /\ (Join(session) \/ BreakDown(session))

Progress == BeginStage \/ EndStage \/ Verify \/ Compare \/ Steps(procs \ Orphans)

WorkingMode == Mode \ {"full"}

Retry ==
  \E m \in WorkingMode, inst \in Instance : Providable(m, inst) /\ StartAttempt(m, inst)

CanRetry ==
  /\ Ended
  /\ \E m \in ModesOf(mode) \cap WorkingMode, inst \in Instance :
       Providable(m, inst) /\ Allowed(m, inst)

\* Weak fairness of Progress and Steps(Orphans), and strong fairness of Retry, with
\* what enables them spelled out: an attempt that has not ended can always go on,
\* since a process that waits either meets its peers or is deserted, and so can a
\* survivor; and the operator does not repeat the failing mode for ever.
FairSpec ==
  /\ Spec
  /\ []<>Ended \/ []<><<Progress>>_vars
  /\ []<>(Orphans = {}) \/ []<><<Steps(Orphans)>>_vars
  /\ <>[]~CanRetry \/ []<><<Retry>>_vars

-----------------------------------------------------------------------------

TypeOK ==
  /\ mode \in Mode
  /\ files \in [File -> SUBSET Origin]
  /\ \A pr \in procs :
       /\ pr.role \in Party /\ pr.own \in BOOLEAN
       /\ pr.phase \in {"waiting", "computed", "hung"}
       /\ pr.todo \in Seq(SUBSET File) /\ pr.got \subseteq Origin
  /\ attempt.inst \in Instance \cup {NoInstance}
  /\ attempt.at \in 0..Len(Stages) /\ attempt.verified \subseteq Origin
  /\ faults \in 0..MaxFaults
  /\ switches \in 0..MaxSwitches

\* "Bind the MPC proof to the same statement as the Tier-1 pipeline"
\* (prove_tier3.rs:168) and "must equal the expected tally"
\* (prove_tier3_full.rs:192-194): the pair of files that was VERIFIED, before
\* the public inputs were read again, is about what the driver expects, though
\* processes of a killed attempt may rewrite both files at any moment.  It takes
\* the survivors of two attempts to get past both tests.
AcceptedIsExpected ==
  attempt.phase = "accepted" /\ faults <= 1 =>
    /\ attempt.verified # {}
    /\ \A o \in attempt.verified : Compared(o.inst) = Compared(attempt.inst)

\* The work directory is never cleaned and its file names never change, yet
\* what failed or killed attempts left in it decides nothing: only if a process
\* of a killed attempt was still running is a finished proof refused, in a mode
\* that works, or one accepted in mode "full", which "reports this precisely
\* rather than faking success" (TIER3_DESIGN.md:33-34).
OnlyOrphansSpoil ==
  /\ attempt.phase = "refused" /\ mode # "full" => attempt.disturbed
  /\ attempt.phase = "accepted" /\ mode = "full" => attempt.disturbed

\* tier3.rs:72-76 "so the MPC computes exactly the same witness": in every
\* slot, padding and identities of nobody included, the circuit combines the
\* R_EA the single prover's witness has.
SameNonces ==
  attempt.phase \notin {"none", "unbuilt"} =>
    LET board  == attempt.inst.board
        shares == IF mode = "chunk" THEN ChunkShares(board, Width, Chunk)
                                    ELSE FullShares(board, Slots)
    IN  \A j \in DOMAIN shares : Combine(shares[j]) = WitnessNonce(board, j)

\* Whatever fails, hangs or is killed, an operator who tries again in a mode that
\* is not known to fail, and after a failure in mode "full" that is the one its
\* driver advises, gets a proof accepted.
AlwaysProvedAgain == []<>(attempt.phase = "accepted")

\* tier3.rs:72-74 "For inactive / out-of-range / padding slots the shares are
\* (0, 0), matching the Tier-1 witness's r_ea = 0 for those slots": the inputs
\* of every chunk of an honest board can be built.
HonestChunkIsProvable == attempt.phase # "unbuilt"
=============================================================================
