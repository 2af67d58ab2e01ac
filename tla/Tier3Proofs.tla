---------------------------- MODULE Tier3Proofs ----------------------------
(***************************************************************************)
(* Collaborative proving for any number of parties, instances, slots,       *)
(* faults and attempts: the driver and its processes keep their shape; only *)
(* a survivor of a killed attempt can have a finished proof refused, or one *)
(* accepted in the mode whose witness is wrong; and what is accepted is     *)
(* about what the driver expects, unless the survivors of two killed        *)
(* attempts meet in its directory.  And the circuit combines, in every      *)
(* slot, the nonce of the single prover's witness.                          *)
(***************************************************************************)
EXTENDS Tier3, FiniteSetTheorems, SequenceTheorems, TLAPS

-----------------------------------------------------------------------------
(* The stages: each reads what earlier ones write.                          *)

What == {"split", "merge", "central", "witness", "prove"}

Outputs(c) == UNION {c.writes[n] : n \in DOMAIN c.writes}

\* A command of a stage, the driver's own writing included.
IsCommand(c) ==
  /\ c.role \in Party /\ c.reads \subseteq File
  /\ c.writes \in Seq(SUBSET File) /\ c.writes # <<>>
  /\ c.reads # {} => c.what \in What
  /\ c.reads = {} => Outputs(c) = c.writes[1]

\* A command that writes one set of files.
LEMMA OneOutput ==
  ASSUME NEW what, NEW role \in Party, NEW reads \in SUBSET File, NEW fs \in SUBSET File,
         reads # {} => what \in What
  PROVE  /\ IsCommand(Command(what, role, reads, <<fs>>))
         /\ Command(what, role, reads, <<fs>>).reads = reads
         /\ Outputs(Command(what, role, reads, <<fs>>)) = fs
  <1> DEFINE c == Command(what, role, reads, <<fs>>)
  <1>1. c.role = role /\ c.reads = reads /\ c.what = what /\ c.writes = <<fs>>
    BY DEF Command
  <1>2. <<fs>> \in Seq(SUBSET File) /\ <<fs>> # <<>> /\ DOMAIN <<fs>> = {1} /\ <<fs>>[1] = fs
    OBVIOUS
  <1>3. Outputs(c) = fs
    BY <1>1, <1>2 DEF Outputs
  <1> HIDE DEF c
  <1> QED BY <1>1, <1>2, <1>3 DEF IsCommand, c

\* The files are those of the providers, of the parties, and the others.
LEMMA FilesOf ==
  /\ \A p \in Provider : <<p>> \in File /\ \A i \in Party : <<p, i>> \in File
  /\ \A i \in Party : <<"input", i>> \in File /\ <<"witness", i>> \in File
                      /\ <<"wtns", i>> \in File
  /\ <<"merged_input">> \in File /\ <<"wtns">> \in File
  /\ <<"proof">> \in File /\ <<"public">> \in File
  BY DEF File

\* Party 0 is one of the parties.
LEMMA FirstParty ==
  /\ Cardinality(Party) \in Nat \ {0} /\ 0 \in Party
  /\ \A k \in 1..Cardinality(Party) : k - 1 \in Party
  /\ \A i \in Party : i \in Int /\ i + 1 \in 1..Cardinality(Party)
  <1>1. Cardinality(Party) \in Nat /\ Cardinality(Party) # 0
    BY PartiesAssumption, FS_CardinalityType, FS_EmptySet
  <1> QED BY <1>1, PartiesAssumption

\* The driver writes files.
LEMMA WriteStage ==
  ASSUME NEW fs, \A f \in fs : <<f>> \in File, NEW c \in Write(fs)
  PROVE  IsCommand(c) /\ c.reads = {} /\ Outputs(c) = {<<f>> : f \in fs}
  <1> DEFINE out == {<<f>> : f \in fs}
  <1>1. out \in SUBSET File /\ {} \in SUBSET File
    OBVIOUS
  <1>2. c = Command("write", 0, {}, <<out>>)
    BY DEF Write
  <1> HIDE DEF out
  <1>3. IsCommand(c) /\ c.reads = {} /\ Outputs(c) = out
    BY <1>1, <1>2, FirstParty, OneOutput
  <1> QED BY <1>3 DEF out

\* A process splits one file among the parties.
LEMMA SplitStage ==
  ASSUME NEW f, <<f>> \in File, \A i \in Party : <<f, i>> \in File, NEW c \in Split(f)
  PROVE  IsCommand(c) /\ c.reads = {<<f>>} /\ Outputs(c) = {<<f, i>> : i \in Party}
  <1>1. {<<f, i>> : i \in Party} \in SUBSET File /\ {<<f>>} \in SUBSET File
    OBVIOUS
  <1>2. c = Command("split", 0, {<<f>>}, << {<<f, i>> : i \in Party} >>) /\ "split" \in What
    BY DEF Split, What
  <1> QED BY <1>1, <1>2, FirstParty, OneOutput

\* A process merges what a party holds of every provider.
LEMMA MergeStage ==
  ASSUME NEW i \in Party, NEW c \in Merge(i)
  PROVE  IsCommand(c) /\ c.reads = {<<f, i>> : f \in Provider} /\ Outputs(c) = {<<"input", i>>}
  <1>1. {<<f, i>> : f \in Provider} \in SUBSET File /\ {<<"input", i>>} \in SUBSET File
    BY FilesOf
  <1>2. c = Command("merge", i, {<<f, i>> : f \in Provider}, << {<<"input", i>>} >>)
        /\ "merge" \in What
    BY DEF Merge, What
  <1> QED BY <1>1, <1>2, OneOutput

\* The witness is computed centrally.
LEMMA CentralStage ==
  ASSUME NEW c \in CentralWitness
  PROVE  IsCommand(c) /\ c.reads = {<<"merged_input">>} /\ Outputs(c) = {<<"wtns">>}
  <1>1. {<<"merged_input">>} \in SUBSET File /\ {<<"wtns">>} \in SUBSET File
    BY FilesOf
  <1>2. c = Command("central", 0, {<<"merged_input">>}, << {<<"wtns">>} >>) /\ "central" \in What
    BY DEF CentralWitness, What
  <1> QED BY <1>1, <1>2, FirstParty, OneOutput

\* Every party extends its witness.
LEMMA WitnessStage ==
  ASSUME NEW c \in GenerateWitness
  PROVE  /\ IsCommand(c) /\ c.role \in Party
         /\ c.reads = {<<"input", c.role>>} /\ Outputs(c) = {<<"witness", c.role>>}
  <1>1. PICK i \in Party :
          c = Command("witness", i, {<<"input", i>>}, << {<<"witness", i>>} >>)
    BY DEF GenerateWitness
  <1>2. {<<"input", i>>} \in SUBSET File /\ {<<"witness", i>>} \in SUBSET File
        /\ "witness" \in What
    BY FilesOf DEF What
  <1>3. c.role = i
    BY <1>1 DEF Command
  <1>4. IsCommand(c) /\ c.reads = {<<"input", i>>} /\ Outputs(c) = {<<"witness", i>>}
    BY <1>1, <1>2, OneOutput
  <1> QED BY <1>3, <1>4

\* Every party proves, and party 0 writes the proof and the public inputs.
LEMMA ProofStage ==
  ASSUME NEW f, \A i \in Party : <<f, i>> \in File
  PROVE  /\ \A c \in GenerateProof(f) : IsCommand(c) /\ c.reads = {<<f, c.role>>}
         /\ \E c \in GenerateProof(f) : {<<"proof">>, <<"public">>} \subseteq Outputs(c)
  <1> DEFINE ws(i) == IF i = 0 THEN << {<<"proof">>}, {<<"public">>} >> ELSE << {} >>
             c1(i) == Command("prove", i, {<<f, i>>}, ws(i))
  <1>1. ASSUME NEW i \in Party
        PROVE  IsCommand(c1(i)) /\ c1(i).reads = {<<f, i>>} /\ c1(i).role = i
    <2>1. ws(i) \in Seq(SUBSET File) /\ ws(i) # <<>>
      <3>1. {<<"proof">>} \in SUBSET File /\ {<<"public">>} \in SUBSET File /\ {} \in SUBSET File
        BY FilesOf
      <3>2. /\ << {<<"proof">>}, {<<"public">>} >> \in Seq(SUBSET File)
            /\ << {} >> \in Seq(SUBSET File)
        BY <3>1
      <3> QED BY <3>2
    <2>2. c1(i).role = i /\ c1(i).reads = {<<f, i>>} /\ c1(i).what = "prove" /\ c1(i).writes = ws(i)
      BY DEF Command
    <2> HIDE DEF c1, ws
    <2> QED BY <2>1, <2>2 DEF IsCommand, What
  <1>2. GenerateProof(f) = {c1(i) : i \in Party}
    BY DEF GenerateProof
  <1>3. {<<"proof">>, <<"public">>} \subseteq Outputs(c1(0))
    <2>1. c1(0).writes = << {<<"proof">>}, {<<"public">>} >>
      BY DEF Command
    <2> HIDE DEF c1
    <2>2. \A a, b : DOMAIN <<a, b>> = {1, 2} /\ <<a, b>>[1] = a /\ <<a, b>>[2] = b
      OBVIOUS
    <2>3. /\ 1 \in DOMAIN c1(0).writes /\ 2 \in DOMAIN c1(0).writes
          /\ c1(0).writes[1] = {<<"proof">>} /\ c1(0).writes[2] = {<<"public">>}
      BY <2>1, <2>2
    <2> QED BY <2>3 DEF Outputs
  <1> HIDE DEF c1
  <1>4. \A c \in GenerateProof(f) : IsCommand(c) /\ c.reads = {<<f, c.role>>}
    <2> SUFFICES ASSUME NEW i \in Party
                 PROVE  IsCommand(c1(i)) /\ c1(i).reads = {<<f, c1(i).role>>}
      BY <1>2
    <2> QED BY <1>1
  <1>5. c1(0) \in GenerateProof(f)
    BY <1>2, FirstParty
  <1> QED BY <1>3, <1>4, <1>5

\* A function on 1..n is a sequence of length n.
LEMMA FunctionIsSequence ==
  ASSUME NEW S, NEW n \in Nat, NEW f \in [1..n -> S]
  PROVE  f \in Seq(S) /\ Len(f) = n
  OBVIOUS

\* The parts of a concatenation.
LEMMA ConcatParts ==
  ASSUME NEW S, NEW a \in Seq(S), NEW e \in Seq(S)
  PROVE  /\ a \o e \in Seq(S) /\ Len(a \o e) = Len(a) + Len(e)
         /\ DOMAIN (a \o e) = 1..(Len(a) + Len(e))
         /\ \A i \in 1..Len(a) : (a \o e)[i] = a[i]
         /\ \A i \in 1..Len(e) : (a \o e)[Len(a) + i] = e[i]
  BY LenProperties, ConcatProperties

\* The stages of the two ways to prove.
LEMMA StageList ==
  ASSUME NEW n, n = Cardinality(Party)
  PROVE  /\ Len(ProveChunk) = n + 6 /\ DOMAIN ProveChunk = 1..(n + 6)
         /\ ProveChunk[1] = Write(Provider)
         /\ ProveChunk[2] = Split("opening")
         /\ ProveChunk[3] = Split("authority_a")
         /\ ProveChunk[4] = Split("authority_b")
         /\ \A k \in 1..n : ProveChunk[4 + k] = Merge(k - 1)
         /\ ProveChunk[n + 5] = GenerateWitness
         /\ ProveChunk[n + 6] = GenerateProof("witness")
         /\ Len(ProveCollaborative) = 4 /\ DOMAIN ProveCollaborative = 1..4
         /\ ProveCollaborative[1] = Write({"merged_input"})
         /\ ProveCollaborative[2] = CentralWitness
         /\ ProveCollaborative[3] = Split("wtns")
         /\ ProveCollaborative[4] = GenerateProof("wtns")
  <1>1. n \in Nat \ {0}
    BY FirstParty
  <1> DEFINE first == <<Write(Provider), Split("opening"), Split("authority_a"),
                        Split("authority_b")>>
             merges == [k \in 1..Cardinality(Party) |-> Merge(k - 1)]
             last == <<GenerateWitness, GenerateProof("witness")>>
             T == {first[1], first[2], first[3], first[4], last[1], last[2]}
                    \cup {Merge(k - 1) : k \in 1..n}
  <1>2. /\ Len(first) = 4 /\ first[1] = Write(Provider) /\ first[2] = Split("opening")
        /\ first[3] = Split("authority_a") /\ first[4] = Split("authority_b")
        /\ first \in [1..4 -> T]
    OBVIOUS
  <1>3. /\ Len(last) = 2 /\ last[1] = GenerateWitness /\ last[2] = GenerateProof("witness")
        /\ last \in [1..2 -> T]
    OBVIOUS
  <1>4. merges \in [1..n -> T] /\ \A k \in 1..n : merges[k] = Merge(k - 1)
    OBVIOUS
  <1>5. ProveChunk = first \o merges \o last
    BY DEF ProveChunk
  <1>6. /\ Len(ProveCollaborative) = 4 /\ DOMAIN ProveCollaborative = 1..4
        /\ ProveCollaborative[1] = Write({"merged_input"})
        /\ ProveCollaborative[2] = CentralWitness
        /\ ProveCollaborative[3] = Split("wtns")
        /\ ProveCollaborative[4] = GenerateProof("wtns")
    BY DEF ProveCollaborative
  <1> HIDE DEF first, merges, last, T
  <1>7. /\ first \in Seq(T) /\ last \in Seq(T) /\ merges \in Seq(T)
        /\ Len(merges) = n
    BY ONLY <1>1, <1>2, <1>3, <1>4, FunctionIsSequence
  <1> DEFINE most == first \o merges
  <1>8. /\ most \in Seq(T) /\ Len(most) = n + 4
        /\ \A i \in 1..4 : most[i] = first[i]
        /\ \A k \in 1..n : most[4 + k] = merges[k]
    <2>1. /\ most \in Seq(T) /\ Len(most) = Len(first) + Len(merges)
          /\ \A i \in 1..Len(first) : most[i] = first[i]
          /\ \A i \in 1..Len(merges) : most[Len(first) + i] = merges[i]
      BY ONLY <1>7, ConcatParts
    <2> HIDE DEF most
    <2> QED BY <1>1, <1>2, <1>7, <2>1
  <1> HIDE DEF most
  <1> DEFINE all == most \o last
  <1>9. /\ all \in Seq(T) /\ Len(all) = n + 6 /\ DOMAIN all = 1..(n + 6)
        /\ \A i \in 1..(n + 4) : all[i] = most[i]
        /\ all[n + 5] = last[1] /\ all[n + 6] = last[2]
    <2>1. /\ all \in Seq(T) /\ Len(all) = Len(most) + Len(last)
          /\ DOMAIN all = 1..(Len(most) + Len(last))
          /\ \A i \in 1..Len(most) : all[i] = most[i]
          /\ \A i \in 1..Len(last) : all[Len(most) + i] = last[i]
      <3>1. most \in Seq(T) /\ last \in Seq(T)
        BY <1>7, <1>8
      <3> QED BY ONLY <3>1, ConcatParts
    <2> HIDE DEF all
    <2>2. (n + 4) + 1 = n + 5 /\ (n + 4) + 2 = n + 6
      BY <1>1
    <2>3. all[(n + 4) + 1] = last[1] /\ all[(n + 4) + 2] = last[2]
      BY <1>1, <1>3, <1>8, <2>1
    <2> QED BY <1>1, <1>3, <1>8, <2>1, <2>2, <2>3
  <1>10. ProveChunk = all
    BY <1>5 DEF most
  <1> HIDE DEF all
  <1>11. /\ all[1] = Write(Provider) /\ all[2] = Split("opening")
         /\ all[3] = Split("authority_a") /\ all[4] = Split("authority_b")
    BY <1>1, <1>2, <1>8, <1>9
  <1>12. \A k \in 1..n : all[4 + k] = Merge(k - 1)
    <2> SUFFICES ASSUME NEW k \in 1..n PROVE all[4 + k] = Merge(k - 1)
      OBVIOUS
    <2>1. 4 + k \in 1..(n + 4)
      BY <1>1
    <2>2. all[4 + k] = most[4 + k] /\ most[4 + k] = merges[k] /\ merges[k] = Merge(k - 1)
      BY <1>4, <1>8, <1>9, <2>1
    <2> QED BY <2>2
  <1> QED BY <1>3, <1>6, <1>9, <1>10, <1>11, <1>12

\* What the commands of a stage write.
WrittenBy(stage) == UNION {Outputs(c) : c \in stage}

\* Good stages: of commands, that read what the files before contain.
Fits(stage, before) == \A c \in stage : IsCommand(c) /\ c.reads \subseteq before

\* What the stages before the k-th of a list write.
WrittenUpTo(stages, k) == UNION {WrittenBy(stages[l]) : l \in 1..(k - 1)}

\* A file that an earlier stage writes is there.
LEMMA WrittenBefore ==
  ASSUME NEW stages, NEW k \in Nat, NEW l \in 1..(k - 1), NEW c \in stages[l], NEW f \in Outputs(c)
  PROVE  f \in WrittenUpTo(stages, k)
  BY DEF WrittenUpTo, WrittenBy

\* Proving a chunk, or the full relation, in MPC reads what was written before.
LEMMA ChunkStagesFit ==
  /\ \A k \in DOMAIN ProveChunk : Fits(ProveChunk[k], WrittenUpTo(ProveChunk, k))
  /\ {<<"proof">>, <<"public">>} \subseteq WrittenBy(ProveChunk[Len(ProveChunk)])
  <1> DEFINE n == Cardinality(Party)
  <1>1. n \in Nat \ {0} /\ 0 \in Party /\ (\A k \in 1..n : k - 1 \in Party)
        /\ \A i \in Party : i \in Int /\ i + 1 \in 1..n
    BY FirstParty
  <1> DEFINE S == ProveChunk
  <1>2. /\ Len(S) = n + 6 /\ DOMAIN S = 1..(n + 6)
        /\ S[1] = Write(Provider)
        /\ S[2] = Split("opening") /\ S[3] = Split("authority_a") /\ S[4] = Split("authority_b")
        /\ \A k \in 1..n : S[4 + k] = Merge(k - 1)
        /\ S[n + 5] = GenerateWitness /\ S[n + 6] = GenerateProof("witness")
    BY StageList
  <1> HIDE DEF n, S
  <1>3. Fits(S[1], WrittenUpTo(S, 1))
    BY <1>2, FilesOf, WriteStage DEF Fits
  <1>4. ASSUME NEW p \in Provider
        PROVE  /\ Fits(Split(p), {<<p>>})
               /\ \A k \in Nat : 1 < k => <<p>> \in WrittenUpTo(S, k)
    <2>1. Fits(Split(p), {<<p>>})
      BY FilesOf, SplitStage DEF Fits
    <2>2. ASSUME NEW k \in Nat, 1 < k
          PROVE  <<p>> \in WrittenUpTo(S, k)
      <3>1. \A f \in Provider : <<f>> \in File
        BY FilesOf
      <3>2. PICK c : c \in Write(Provider)
        BY DEF Write
      <3>3. Outputs(c) = {<<f>> : f \in Provider}
        BY <3>1, <3>2, WriteStage
      <3>4. <<p>> \in Outputs(c) /\ c \in S[1] /\ 1 \in 1..(k - 1)
        BY <1>2, <2>2, <3>2, <3>3
      <3> QED BY <3>4, WrittenBefore
    <2> QED BY <2>1, <2>2
  <1>5. /\ Fits(S[2], WrittenUpTo(S, 2))
        /\ Fits(S[3], WrittenUpTo(S, 3))
        /\ Fits(S[4], WrittenUpTo(S, 4))
    <2>1. "opening" \in Provider /\ "authority_a" \in Provider /\ "authority_b" \in Provider
      BY DEF Provider
    <2>2. ASSUME NEW p \in Provider, NEW k \in Nat, 1 < k, S[k] = Split(p)
          PROVE  Fits(S[k], WrittenUpTo(S, k))
      <3>1. Fits(Split(p), {<<p>>}) /\ <<p>> \in WrittenUpTo(S, k)
        BY <1>4, <2>2
      <3> QED BY ONLY <2>2, <3>1 DEF Fits
    <2> QED BY <1>2, <2>1, <2>2
  <1>6. ASSUME NEW p \in Provider, NEW i \in Party, NEW k \in Nat, 4 < k
        PROVE  <<p, i>> \in WrittenUpTo(S, k)
    <2>1. PICK l \in 2..4 : S[l] = Split(p)
      BY <1>2 DEF Provider
    <2>2. PICK c : c \in Split(p)
      BY DEF Split
    <2>3. Outputs(c) = {<<p, h>> : h \in Party}
      BY <2>2, FilesOf, SplitStage
    <2>4. <<p, i>> \in Outputs(c) /\ c \in S[l] /\ l \in 1..(k - 1)
      BY <1>6, <2>1, <2>2, <2>3
    <2> QED BY <2>4, WrittenBefore
  <1>7. ASSUME NEW h \in 1..n
        PROVE  Fits(S[4 + h], WrittenUpTo(S, 4 + h))
    <2>1. S[4 + h] = Merge(h - 1) /\ h - 1 \in Party /\ 4 + h \in Nat /\ 4 < 4 + h
      BY <1>1, <1>2
    <2> SUFFICES ASSUME NEW c \in Merge(h - 1)
                 PROVE  IsCommand(c) /\ c.reads \subseteq WrittenUpTo(S, 4 + h)
      BY <2>1 DEF Fits
    <2>2. IsCommand(c) /\ c.reads = {<<f, h - 1>> : f \in Provider}
      BY <2>1, MergeStage
    <2>3. \A f \in Provider : <<f, h - 1>> \in WrittenUpTo(S, 4 + h)
      BY <1>6, <2>1
    <2> QED BY <2>2, <2>3
  <1>8. Fits(S[n + 5], WrittenUpTo(S, n + 5))
    <2> SUFFICES ASSUME NEW c \in GenerateWitness
                 PROVE  IsCommand(c) /\ c.reads \subseteq WrittenUpTo(S, n + 5)
      BY <1>2 DEF Fits
    <2>1. IsCommand(c) /\ c.role \in Party /\ c.reads = {<<"input", c.role>>}
      BY WitnessStage
    <2> DEFINE l == c.role + 1
    <2>2. l \in 1..n /\ S[4 + l] = Merge(l - 1) /\ l - 1 = c.role
      BY <1>1, <1>2, <2>1
    <2>3. PICK d : d \in Merge(c.role)
      BY DEF Merge
    <2>4. Outputs(d) = {<<"input", c.role>>}
      BY <2>1, <2>3, MergeStage
    <2>5. 4 + l \in 1..(n + 5 - 1) /\ n + 5 \in Nat /\ d \in S[4 + l]
      BY <1>1, <2>2, <2>3
    <2>6. <<"input", c.role>> \in WrittenUpTo(S, n + 5)
      <3> DEFINE k == n + 5
                 m == 4 + l
      <3>1. k \in Nat /\ m \in 1..(k - 1) /\ d \in S[m]
        BY <1>1, <2>5
      <3>2. <<"input", c.role>> \in Outputs(d)
        BY <2>4
      <3> HIDE DEF k, m
      <3>3. <<"input", c.role>> \in WrittenUpTo(S, k)
        BY ONLY <3>1, <3>2, WrittenBefore
      <3> QED BY <3>3 DEF k
    <2> QED BY <2>1, <2>6
  <1>9. ASSUME NEW i \in Party
        PROVE  <<"witness", i>> \in WrittenUpTo(S, n + 6)
    <2> DEFINE c == Command("witness", i, {<<"input", i>>}, << {<<"witness", i>>} >>)
    <2>1. c \in GenerateWitness /\ c.role = i
      BY DEF GenerateWitness, Command
    <2> HIDE DEF c
    <2>2. Outputs(c) = {<<"witness", i>>}
      BY <2>1, WitnessStage
    <2>3. n + 5 \in 1..(n + 6 - 1) /\ n + 6 \in Nat /\ c \in S[n + 5]
      BY <1>1, <1>2, <2>1
    <2> DEFINE k == n + 6
               m == n + 5
    <2>4. k \in Nat /\ m \in 1..(k - 1) /\ c \in S[m]
      BY <1>1, <2>3
    <2>5. <<"witness", i>> \in Outputs(c)
      BY <2>2
    <2> HIDE DEF k, m
    <2>6. <<"witness", i>> \in WrittenUpTo(S, k)
      BY ONLY <2>4, <2>5, WrittenBefore
    <2> QED BY <2>6 DEF k
  <1>10. Fits(S[n + 6], WrittenUpTo(S, n + 6))
    <2> SUFFICES ASSUME NEW c \in GenerateProof("witness")
                 PROVE  IsCommand(c) /\ c.reads \subseteq WrittenUpTo(S, n + 6)
      BY <1>2 DEF Fits
    <2>1. IsCommand(c) /\ c.reads = {<<"witness", c.role>>}
      BY FilesOf, ProofStage
    <2>2. c.role \in Party
      BY <2>1 DEF IsCommand
    <2> QED BY <1>9, <2>1, <2>2
  <1>11. {<<"proof">>, <<"public">>} \subseteq WrittenBy(S[n + 6])
    <2>1. PICK c \in GenerateProof("witness") : {<<"proof">>, <<"public">>} \subseteq Outputs(c)
      BY FilesOf, ProofStage
    <2> QED BY <1>2, <2>1 DEF WrittenBy
  <1>12. ASSUME NEW k \in 1..(n + 6)
         PROVE  Fits(S[k], WrittenUpTo(S, k))
    <2>1. CASE k <= 4
      <3>1. k = 1 \/ k = 2 \/ k = 3 \/ k = 4
        BY <2>1
      <3> QED BY <1>3, <1>5, <3>1
    <2>2. CASE 4 < k /\ k <= n + 4
      <3>1. k - 4 \in 1..n /\ k = 4 + (k - 4)
        BY <1>1, <2>2
      <3> QED BY <1>7, <3>1
    <2>3. CASE n + 4 < k
      <3>1. k = n + 5 \/ k = n + 6
        BY <1>1, <2>3
      <3> QED BY <1>8, <1>10, <3>1
    <2> QED BY <1>1, <2>1, <2>2, <2>3
  <1> QED BY <1>2, <1>11, <1>12 DEF S

\* So does proving with a central witness.
LEMMA CollaborativeStagesFit ==
  /\ \A k \in DOMAIN ProveCollaborative :
       Fits(ProveCollaborative[k], WrittenUpTo(ProveCollaborative, k))
  /\ {<<"proof">>, <<"public">>} \subseteq WrittenBy(ProveCollaborative[Len(ProveCollaborative)])
  <1> DEFINE S == ProveCollaborative
  <1>1. /\ Len(S) = 4 /\ DOMAIN S = 1..4
        /\ S[1] = Write({"merged_input"}) /\ S[2] = CentralWitness
        /\ S[3] = Split("wtns") /\ S[4] = GenerateProof("wtns")
    BY StageList
  <1> HIDE DEF S
  <1>2. Fits(S[1], WrittenUpTo(S, 1))
    BY <1>1, FilesOf, WriteStage DEF Fits
  <1>3. Fits(S[2], WrittenUpTo(S, 2))
    <2>1. PICK c : c \in Write({"merged_input"})
      BY DEF Write
    <2>2. Outputs(c) = {<<f>> : f \in {"merged_input"}}
      BY <2>1, FilesOf, WriteStage
    <2>3. <<"merged_input">> \in WrittenUpTo(S, 2)
      BY <1>1, <2>1, <2>2, WrittenBefore
    <2> QED BY <1>1, <2>3, CentralStage DEF Fits
  <1>4. Fits(S[3], WrittenUpTo(S, 3))
    <2>1. PICK c : c \in CentralWitness
      BY DEF CentralWitness
    <2>2. <<"wtns">> \in Outputs(c)
      BY <2>1, CentralStage
    <2>3. <<"wtns">> \in WrittenUpTo(S, 3)
      BY <1>1, <2>1, <2>2, WrittenBefore
    <2>4. <<"wtns">> \in File /\ \A i \in Party : <<"wtns", i>> \in File
      BY FilesOf
    <2>5. \A c1 \in Split("wtns") : IsCommand(c1) /\ c1.reads = {<<"wtns">>}
      BY ONLY <2>4, SplitStage
    <2> QED BY <1>1, <2>3, <2>5 DEF Fits
  <1>5. Fits(S[4], WrittenUpTo(S, 4))
    <2>1. PICK c : c \in Split("wtns")
      BY DEF Split
    <2>2. Outputs(c) = {<<"wtns", i>> : i \in Party}
      BY <2>1, FilesOf, SplitStage
    <2>3. \A i \in Party : <<"wtns", i>> \in WrittenUpTo(S, 4)
      BY <1>1, <2>1, <2>2, WrittenBefore
    <2>4. \A c1 \in GenerateProof("wtns") : IsCommand(c1) /\ c1.reads = {<<"wtns", c1.role>>}
      BY FilesOf, ProofStage
    <2> QED BY <1>1, <2>3, <2>4 DEF Fits, IsCommand
  <1>6. {<<"proof">>, <<"public">>} \subseteq WrittenBy(S[4])
    <2>1. PICK c \in GenerateProof("wtns") : {<<"proof">>, <<"public">>} \subseteq Outputs(c)
      BY FilesOf, ProofStage
    <2> QED BY <1>1, <2>1 DEF WrittenBy
  <1> QED BY <1>1, <1>2, <1>3, <1>4, <1>5, <1>6 DEF S

\* The stages of the present mode.
LEMMA StagesFit ==
  ASSUME mode \in Mode
  PROVE  /\ Len(Stages) \in Nat \ {0} /\ DOMAIN Stages = 1..Len(Stages)
         /\ \A k \in 1..Len(Stages) : Fits(Stages[k], WrittenUpTo(Stages, k))
         /\ {<<"proof">>, <<"public">>} \subseteq WrittenBy(Stages[Len(Stages)])
         /\ \A k \in 1..Len(Stages) :
              WrittenUpTo(Stages, k + 1) = WrittenUpTo(Stages, k) \cup WrittenBy(Stages[k])
         /\ WrittenUpTo(Stages, 1) = {}
  <1>1. /\ Len(Stages) \in Nat \ {0} /\ DOMAIN Stages = 1..Len(Stages)
        /\ \A k \in 1..Len(Stages) : Fits(Stages[k], WrittenUpTo(Stages, k))
        /\ {<<"proof">>, <<"public">>} \subseteq WrittenBy(Stages[Len(Stages)])
    <2> DEFINE n == Cardinality(Party)
    <2>1. n \in Nat \ {0}
      BY FirstParty
    <2>2. /\ Len(ProveChunk) = n + 6 /\ DOMAIN ProveChunk = 1..(n + 6)
          /\ Len(ProveCollaborative) = 4 /\ DOMAIN ProveCollaborative = 1..4
      BY StageList
    <2> HIDE DEF n
    <2>3. CASE mode = "collaborative"
      <3>1. Stages = ProveCollaborative
        BY <2>3 DEF Stages
      <3>2. Len(Stages) = 4 /\ DOMAIN Stages = 1..4 /\ 4 \in Nat \ {0}
        BY <2>2, <3>1
      <3>3. /\ \A k \in 1..4 : Fits(Stages[k], WrittenUpTo(Stages, k))
            /\ {<<"proof">>, <<"public">>} \subseteq WrittenBy(Stages[Len(Stages)])
        BY ONLY <2>2, <3>1, CollaborativeStagesFit
      <3> QED BY ONLY <3>2, <3>3
    <2>4. CASE mode # "collaborative"
      <3>1. Stages = ProveChunk
        BY <2>4 DEF Stages
      <3> QED BY <2>1, <2>2, <3>1, ChunkStagesFit
    <2> QED BY <2>3, <2>4
  <1>2. ASSUME NEW k \in 1..Len(Stages)
        PROVE  WrittenUpTo(Stages, k + 1) = WrittenUpTo(Stages, k) \cup WrittenBy(Stages[k])
    <2>1. 1..(k + 1 - 1) = 1..(k - 1) \cup {k}
      BY <1>1
    <2> QED BY <2>1 DEF WrittenUpTo
  <1>3. WrittenUpTo(Stages, 1) = {}
    BY DEF WrittenUpTo
  <1> QED BY <1>1, <1>2, <1>3

-----------------------------------------------------------------------------
(* The shape of an attempt.                                                 *)

Phase ==
  {"none", "unbuilt", "stage", "waiting", "verify", "compare", "failed", "killed",
   "refused", "accepted"}

Attempt ==
  [ phase : Phase, inst : Instance \cup {NoInstance}, at : Nat, failed : BOOLEAN,
    disturbed : BOOLEAN, verified : SUBSET Origin ]

Running ==
  [ what : What, role : Party, todo : Seq(SUBSET File) \ {<<>>}, own : BOOLEAN,
    phase : {"waiting", "computed", "hung"}, got : SUBSET Origin ]

\* Where an attempt stands among the stages, and that only a stage has
\* processes.
Staged ==
  /\ attempt.phase \in {"stage", "waiting"} => attempt.at \in 1..Len(Stages)
  /\ attempt.phase \in {"verify", "compare"} => attempt.at = Len(Stages)
  /\ attempt.phase \in {"stage", "verify", "compare"} => ~attempt.failed
  /\ attempt.phase # "waiting" => \A pr \in procs : ~pr.own
  /\ ~Ended => attempt.inst \in Instance

Typed ==
  /\ TypeOK /\ attempt \in Attempt /\ procs \subseteq Running
  /\ Staged

\* A process that a command starts.
LEMMA StartedRuns ==
  ASSUME Typed, NEW c, IsCommand(c), c.reads # {}
  PROVE  Process(c) \in Running /\ Process(c).own /\ Process(c).todo = c.writes
  <1>1. CutOff \subseteq Origin /\ \A f \in c.reads : files[f] \subseteq Origin
    BY DEF CutOff, Origin, Typed, TypeOK, IsCommand
  <1>2. Process(c).got \subseteq Origin
    BY <1>1 DEF Process
  <1>3. /\ Process(c).what = c.what /\ Process(c).role = c.role /\ Process(c).todo = c.writes
        /\ Process(c).own /\ Process(c).phase \in {"waiting", "computed"}
    BY DEF Process
  <1> QED BY <1>2, <1>3 DEF Process, Running, IsCommand

\* Before the first attempt nothing is staged, written or running.
LEMMA InitTyped ==
  ASSUME Init
  PROVE  Typed
  <1>1. mode \in Mode /\ files = [f \in File |-> {}] /\ procs = {} /\ attempt = Idle
        /\ faults = 0 /\ switches = 0
    BY DEF Init
  <1>2. Idle \in Attempt /\ Idle.phase = "none" /\ Idle.inst = NoInstance /\ Idle.at = 0
        /\ Idle.verified = {}
    BY DEF Idle, Attempt, Phase
  <1>3. 0 \in 0..Len(Stages) /\ 0 \in 0..MaxFaults /\ 0 \in 0..MaxSwitches
    BY <1>1, StagesFit, Tier3Bounds
  <1>4. TypeOK
    BY <1>1, <1>2, <1>3 DEF TypeOK
  <1> QED BY <1>1, <1>2, <1>4 DEF Typed, Staged, Ended

\* What is to be shown of a step.
LEMMA TypedFrom ==
  ASSUME mode' \in Mode, files' \in [File -> SUBSET Origin], attempt' \in Attempt,
         procs' \subseteq Running, faults' \in 0..MaxFaults, switches' \in 0..MaxSwitches,
         attempt'.at \in 0..Len(Stages)', Staged'
  PROVE  Typed'
  <1>1. \A pr \in procs' :
          /\ pr.role \in Party /\ pr.own \in BOOLEAN
          /\ pr.phase \in {"waiting", "computed", "hung"}
          /\ pr.todo \in Seq(SUBSET File) /\ pr.got \subseteq Origin
    BY DEF Running
  <1>2. attempt'.inst \in Instance \cup {NoInstance} /\ attempt'.verified \subseteq Origin
    BY DEF Attempt
  <1> QED BY <1>1, <1>2 DEF Typed, TypeOK

\* The fields of an attempt and of a process.
LEMMA Fields ==
  ASSUME Typed
  PROVE  /\ attempt.phase \in Phase /\ attempt.inst \in Instance \cup {NoInstance}
         /\ attempt.at \in Nat /\ attempt.failed \in BOOLEAN /\ attempt.disturbed \in BOOLEAN
         /\ attempt.verified \subseteq Origin
         /\ attempt.at \in 0..Len(Stages)
         /\ attempt = [phase |-> attempt.phase, inst |-> attempt.inst, at |-> attempt.at,
                       failed |-> attempt.failed, disturbed |-> attempt.disturbed,
                       verified |-> attempt.verified]
         /\ \A pr \in procs :
              /\ pr.what \in What /\ pr.role \in Party /\ pr.own \in BOOLEAN
              /\ pr.phase \in {"waiting", "computed", "hung"} /\ pr.got \subseteq Origin
              /\ pr.todo \in Seq(SUBSET File) /\ pr.todo # <<>>
  BY DEF Typed, TypeOK, Attempt, Running

\* An attempt that begins anew, or ends without a result.
LEMMA IdleExcept ==
  ASSUME NEW ph \in Phase, NEW inst \in Instance \cup {NoInstance}
  PROVE  LET a == [Idle EXCEPT !.phase = ph, !.inst = inst]
         IN  a \in Attempt /\ a.phase = ph /\ a.inst = inst /\ a.at = 0 /\ ~a.failed
  BY DEF Idle, Attempt

\* A driver starts over.
LEMMA StartTyped ==
  ASSUME Typed, NEW m \in Mode, NEW inst \in Instance, StartAttempt(m, inst)
  PROVE  /\ Typed'
         /\ procs' = {[pr EXCEPT !.got = Aged(pr.got)] : pr \in procs}
         /\ \A pr \in procs : ~pr.own
         /\ \A pr \in procs' : ~pr.own
         /\ attempt'.inst = inst /\ attempt'.at = 1
         /\ attempt'.phase \in {"stage", "unbuilt"}
         /\ ~attempt'.disturbed => procs' = {}
  <1>1. /\ Ended /\ mode' = m /\ faults' = faults
        /\ files' = [f \in File |-> Aged(files[f])]
        /\ procs' = {[pr EXCEPT !.got = Aged(pr.got)] : pr \in procs}
        /\ attempt' = [Idle EXCEPT !.phase = IF Providable(m, inst) THEN "stage" ELSE "unbuilt",
                                   !.inst = inst, !.at = 1, !.disturbed = Orphans # {}]
    BY DEF StartAttempt
  <1>2. switches' \in 0..MaxSwitches
    <2>1. /\ switches \in 0..MaxSwitches /\ MaxSwitches \in Nat
          /\ switches' = switches \/ (switches # MaxSwitches /\ switches' = switches + 1)
      BY Tier3Bounds DEF StartAttempt, Typed, TypeOK
    <2> QED BY <2>1
  <1>3. \A o \in SUBSET Origin : Aged(o) \subseteq Origin
    BY DEF Aged, Origin
  <1>4. \A pr \in procs : ~pr.own
    BY <1>1 DEF Typed, Staged, Ended
  <1>5. ASSUME NEW pr \in procs
        PROVE  [pr EXCEPT !.got = Aged(pr.got)] \in Running
               /\ ~[pr EXCEPT !.got = Aged(pr.got)].own
    BY <1>3, <1>4 DEF Typed, Running
  <1>6. procs' \subseteq Running /\ \A pr \in procs' : ~pr.own
    BY <1>1, <1>5
  <1>7. files' \in [File -> SUBSET Origin]
    BY <1>1, <1>3 DEF Typed, TypeOK
  <1>8. /\ attempt' \in Attempt /\ attempt'.inst = inst /\ attempt'.at = 1 /\ ~attempt'.failed
        /\ attempt'.phase \in {"stage", "unbuilt"} /\ attempt'.disturbed = (Orphans # {})
    BY <1>1 DEF Idle, Attempt, Phase
  <1>9. Len(Stages)' \in Nat \ {0}
    <2>1. mode \in Mode => Len(Stages) \in Nat \ {0}
      BY StagesFit
    <2>2. mode' \in Mode => Len(Stages)' \in Nat \ {0}
      <3> SUFFICES ASSUME mode' \in Mode PROVE Len(Stages)' \in Nat \ {0}
        OBVIOUS
      <3>1. Stages' = IF mode' = "collaborative" THEN ProveCollaborative ELSE ProveChunk
        BY DEF Stages
      <3>2. Len(ProveCollaborative) = 4 /\ Len(ProveChunk) = Cardinality(Party) + 6
        BY StageList
      <3>3. Cardinality(Party) + 6 \in Nat \ {0}
        BY FirstParty
      <3>4. CASE mode' = "collaborative"
        <4>1. Len(Stages)' = 4 /\ 4 \in Nat \ {0}
          BY <3>1, <3>2, <3>4
        <4> QED BY ONLY <4>1
      <3>5. CASE mode' # "collaborative"
        BY <3>1, <3>2, <3>3, <3>5
      <3> QED BY <3>4, <3>5
    <2> QED BY <1>1, <2>2
  <1>10. Staged'
    BY <1>6, <1>8, <1>9 DEF Staged, Ended
  <1>11. ~attempt'.disturbed => procs' = {}
    BY <1>1, <1>4, <1>8 DEF Orphans
  <1>12. Typed'
    BY <1>1, <1>2, <1>6, <1>7, <1>8, <1>9, <1>10, TypedFrom DEF Typed, TypeOK
  <1> QED BY <1>1, <1>4, <1>6, <1>8, <1>11, <1>12

\* A stage begins.
LEMMA BeginTyped ==
  ASSUME Typed, BeginStage
  PROVE  Typed'
  <1> DEFINE stage == Stages[attempt.at]
  <1>1. /\ attempt.phase = "stage" /\ attempt' = [attempt EXCEPT !.phase = "waiting"]
        /\ UNCHANGED <<mode, faults, switches>>
        /\ procs' = procs \cup {Process(c) : c \in {d \in stage : d.reads # {}}}
    BY DEF BeginStage
  <1>2. attempt.at \in 1..Len(Stages)
    BY <1>1 DEF Typed, Staged
  <1>3. \A c \in stage : IsCommand(c)
    BY <1>2, StagesFit DEF Typed, TypeOK, Fits
  <1>4. procs' \subseteq Running
    BY <1>1, <1>3, StartedRuns DEF Typed
  <1>5. files' \in [File -> SUBSET Origin]
    <2>1. {Mine} \subseteq Origin
      BY <1>1 DEF Mine, Origin, Typed, TypeOK
    <2> QED BY <2>1 DEF BeginStage, Typed, TypeOK
  <1>6. /\ attempt' \in Attempt /\ attempt'.phase = "waiting" /\ attempt'.at = attempt.at
        /\ attempt'.inst = attempt.inst
    BY <1>1, Fields DEF Attempt, Phase
  <1>7. Stages' = Stages
    BY <1>1 DEF Stages
  <1>8. Staged'
    BY <1>1, <1>2, <1>6, <1>7 DEF Typed, Staged, Ended
  <1> QED BY <1>1, <1>4, <1>5, <1>6, <1>7, <1>8, Fields, TypedFrom DEF Typed, TypeOK

\* A stage ends, or the result is looked at.
LEMMA DriverTyped ==
  ASSUME Typed, EndStage \/ Verify \/ Compare
  PROVE  Typed'
  <1>1. UNCHANGED <<mode, files, procs, faults, switches>> /\ Stages' = Stages
    BY DEF EndStage, Verify, Compare, Stages
  <1>2. attempt' \in Attempt /\ attempt'.at \in 0..Len(Stages) /\ Staged'
    <2>1. CASE EndStage
      <3>1. /\ attempt.phase = "waiting" /\ \A pr \in procs : ~pr.own
            /\ attempt.at \in 1..Len(Stages) /\ attempt.inst \in Instance
            /\ Len(Stages) \in Nat
        BY <2>1, StagesFit DEF EndStage, Typed, TypeOK, Staged, Ended
      <3>2. CASE attempt.failed
        <4>1. attempt' = [Idle EXCEPT !.phase = "failed", !.inst = attempt.inst]
          BY <2>1, <3>2 DEF EndStage, StageIsGood
        <4>2. attempt' \in Attempt /\ attempt'.phase = "failed" /\ attempt'.at = 0
          BY <3>1, <4>1, IdleExcept DEF Phase
        <4> QED BY <1>1, <3>1, <4>2 DEF Staged, Ended
      <3>3. CASE ~attempt.failed /\ attempt.at < Len(Stages)
        <4>1. attempt' = [attempt EXCEPT !.phase = "stage", !.at = @ + 1]
          BY <2>1, <3>3 DEF EndStage, StageIsGood, MoreStages
        <4>2. attempt.at + 1 \in Nat /\ attempt' = [attempt EXCEPT !.phase = "stage",
                                                                !.at = attempt.at + 1]
          BY <3>1, <4>1
        <4> DEFINE next == attempt.at + 1
        <4>3. next = attempt.at + 1
          OBVIOUS
        <4> HIDE DEF next
        <4>4. /\ attempt' \in Attempt /\ attempt'.phase = "stage" /\ ~attempt'.failed
              /\ attempt'.at = next /\ attempt'.inst = attempt.inst
          BY <3>3, <4>2, <4>3, Fields DEF Attempt, Phase
        <4> QED BY <1>1, <3>1, <3>3, <4>3, <4>4 DEF Staged, Ended
      <3>4. CASE ~attempt.failed /\ ~(attempt.at < Len(Stages))
        <4>1. attempt' = [attempt EXCEPT !.phase = "verify"]
          BY <2>1, <3>4 DEF EndStage, StageIsGood, MoreStages
        <4>2. /\ attempt' \in Attempt /\ attempt'.phase = "verify" /\ ~attempt'.failed
              /\ attempt'.at = attempt.at /\ attempt'.inst = attempt.inst
          BY <3>4, <4>1, Fields DEF Attempt, Phase
        <4> QED BY <1>1, <3>1, <3>4, <4>2 DEF Staged, Ended
      <3> QED BY <3>2, <3>3, <3>4
    <2>2. CASE Verify \/ Compare
      <3>1. /\ attempt.phase \in {"verify", "compare"} /\ attempt.inst \in Instance
            /\ attempt.at = Len(Stages) /\ ~attempt.failed /\ \A pr \in procs : ~pr.own
        BY <2>2 DEF Verify, Compare, Typed, Staged, Ended
      <3>2. \E ph \in {"compare", "refused", "accepted"}, v \in SUBSET Origin :
              attempt' = [attempt EXCEPT !.phase = ph, !.verified = v]
        <4>1. CASE attempt' = [attempt EXCEPT !.phase = "compare", !.verified = files[<<"public">>]]
          <5>1. files[<<"public">>] \in SUBSET Origin
            BY FilesOf DEF Typed, TypeOK
          <5> QED BY <4>1, <5>1
        <4>2. ASSUME NEW ph \in {"refused", "accepted"}, attempt' = [attempt EXCEPT !.phase = ph]
              PROVE  attempt' = [attempt EXCEPT !.phase = ph, !.verified = attempt.verified]
          BY <4>2, Fields
        <4> QED BY <2>2, <4>1, <4>2, Fields DEF Verify, Compare
      <3>3. PICK ph \in {"compare", "refused", "accepted"}, v \in SUBSET Origin :
              attempt' = [attempt EXCEPT !.phase = ph, !.verified = v]
        BY <3>2
      <3>4. /\ attempt' \in Attempt /\ attempt'.phase = ph /\ ~attempt'.failed
            /\ attempt'.at = attempt.at /\ attempt'.inst = attempt.inst
        BY <3>1, <3>3, Fields DEF Attempt, Phase
      <3> QED BY <1>1, <3>1, <3>4, Fields DEF Staged, Ended
    <2> QED BY <2>1, <2>2
  <1> QED BY <1>1, <1>2, TypedFrom DEF Typed, TypeOK

\* A driver is killed.
LEMMA KillTyped ==
  ASSUME Typed, Kill
  PROVE  Typed'
  <1>1. /\ ~Ended /\ faults < MaxFaults /\ faults' = faults + 1
        /\ attempt' = [Idle EXCEPT !.phase = "killed", !.inst = attempt.inst]
        /\ UNCHANGED <<mode, switches>>
    BY DEF Kill
  <1>2. /\ attempt' \in Attempt /\ attempt'.phase = "killed" /\ attempt'.at = 0
    BY <1>1, Fields, IdleExcept DEF Phase
  <1>3. \A pr \in procs : [pr EXCEPT !.own = FALSE] \in Running /\ ~[pr EXCEPT !.own = FALSE].own
    BY DEF Typed, Running
  <1>4. /\ procs' \subseteq Running /\ \A pr \in procs' : ~pr.own
        /\ files' \in [File -> SUBSET Origin]
    <2>1. CASE procs' = {[pr EXCEPT !.own = FALSE] : pr \in procs} /\ UNCHANGED files
      BY <1>3, <2>1 DEF Typed, TypeOK
    <2>2. CASE /\ procs' = Orphans
               /\ \E cut \in SUBSET (procs \ Orphans) :
                    files' = [f \in File |-> IF \E pr \in cut : f \in pr.todo[1] THEN CutOff
                                             ELSE files[f]]
      <3>1. CutOff \subseteq Origin
        BY DEF CutOff, Origin
      <3>2. files' \in [File -> SUBSET Origin]
        BY <2>2, <3>1 DEF Typed, TypeOK
      <3> QED BY <2>2, <3>2 DEF Orphans, Typed
    <2> QED BY <2>1, <2>2 DEF Kill
  <1>5. Staged'
    BY <1>2, <1>4 DEF Staged, Ended
  <1>6. attempt'.at \in 0..Len(Stages)' /\ faults' \in 0..MaxFaults
    <2>1. Stages' = Stages
      BY <1>1 DEF Stages
    <2> QED BY <1>1, <1>2, <2>1, StagesFit, Tier3Bounds DEF Typed, TypeOK
  <1> QED BY <1>1, <1>2, <1>4, <1>5, <1>6, TypedFrom DEF Typed, TypeOK

\* A process that is done with one output.
LEMMA RestRuns ==
  ASSUME Typed, NEW pr \in procs, Len(pr.todo) # 1
  PROVE  LET rest == [pr EXCEPT !.todo = Tail(@)]
         IN  /\ rest \in Running /\ rest.own = pr.own /\ rest.got = pr.got
             /\ rest.todo = Tail(pr.todo)
             /\ \A n \in DOMAIN pr.todo :
                  n # 1 => /\ n - 1 \in DOMAIN Tail(pr.todo)
                           /\ Tail(pr.todo)[n - 1] = pr.todo[n]
  <1>1. pr \in Running
    BY DEF Typed
  <1>2. pr.todo \in Seq(SUBSET File) /\ pr.todo # <<>>
    BY <1>1 DEF Running
  <1>3. Len(pr.todo) \in Nat /\ Len(pr.todo) > 1
    <2>1. Len(pr.todo) \in Nat \ {0} /\ Len(pr.todo) # 1
      BY <1>2, EmptySeq
    <2> DEFINE n == Len(pr.todo)
    <2>2. n \in Nat \ {0} /\ n # 1
      BY <2>1
    <2> HIDE DEF n
    <2>3. n \in Nat /\ n > 1
      BY <2>2
    <2> QED BY <2>3 DEF n
  <1>4. /\ Tail(pr.todo) \in Seq(SUBSET File) /\ Len(Tail(pr.todo)) = Len(pr.todo) - 1
        /\ DOMAIN Tail(pr.todo) = 1..(Len(pr.todo) - 1)
        /\ \A n \in 1..(Len(pr.todo) - 1) : Tail(pr.todo)[n] = pr.todo[n + 1]
    BY <1>2, HeadTailProperties, LenProperties
  <1>5. Tail(pr.todo) # <<>>
    <2>1. Len(Tail(pr.todo)) # 0
      BY <1>3, <1>4
    <2>2. Len(<<>>) = 0
      BY EmptySeq
    <2> QED BY ONLY <2>1, <2>2
  <1>6. ASSUME NEW n \in DOMAIN pr.todo, n # 1
        PROVE  n - 1 \in DOMAIN Tail(pr.todo) /\ Tail(pr.todo)[n - 1] = pr.todo[n]
    <2>1. n \in 1..Len(pr.todo)
      BY <1>2, LenProperties
    <2>2. n - 1 \in 1..(Len(pr.todo) - 1) /\ (n - 1) + 1 = n
      BY <1>3, <1>6, <2>1
    <2> QED BY <1>4, <2>2

  <1>7. [pr EXCEPT !.todo = Tail(@)] \in Running
    BY <1>1, <1>4, <1>5 DEF Running
  <1>8. /\ [pr EXCEPT !.todo = Tail(@)].own = pr.own /\ [pr EXCEPT !.todo = Tail(@)].got = pr.got
        /\ [pr EXCEPT !.todo = Tail(@)].todo = Tail(pr.todo)
    BY <1>1 DEF Running
  <1> QED BY <1>6, <1>7, <1>8

\* A process goes on or ends: what its driver knows of it, at most, is that it
\* has failed.
LEMMA ProcessTyped ==
  ASSUME Typed, UNCHANGED <<mode, switches>>, faults' \in 0..MaxFaults,
         procs' \subseteq Running, files' \in [File -> SUBSET Origin],
         NEW b \in BOOLEAN, attempt' = [attempt EXCEPT !.failed = @ \/ b],
         attempt.phase # "waiting" => ~b /\ \A pr \in procs' : ~pr.own
  PROVE  Typed'
  <1>1. /\ attempt' \in Attempt /\ attempt'.phase = attempt.phase /\ attempt'.at = attempt.at
        /\ attempt'.inst = attempt.inst /\ attempt'.failed = (attempt.failed \/ b)
    BY Fields DEF Attempt
  <1>2. Stages' = Stages
    BY DEF Stages
  <1>3. Staged'
    BY <1>1, <1>2, Fields DEF Typed, Staged, Ended
  <1> QED BY <1>1, <1>2, <1>3, Fields, TypedFrom DEF Typed, TypeOK

\* The attempt of a step that no process of it fails in.
LEMMA SameAttempt ==
  ASSUME Typed, attempt' = attempt
  PROVE  FALSE \in BOOLEAN /\ attempt' = [attempt EXCEPT !.failed = @ \/ FALSE]
  BY Fields

\* A process writes.
LEMMA WriteTyped ==
  ASSUME Typed, NEW pr \in procs, WriteOutput(pr)
  PROVE  Typed'
  <1>1. /\ UNCHANGED <<mode, attempt, faults, switches>>
        /\ files' = [f \in File |-> IF f \in pr.todo[1] THEN pr.got ELSE files[f]]
        /\ procs' = (procs \ {pr}) \cup
             (IF Len(pr.todo) = 1 THEN {} ELSE {[pr EXCEPT !.todo = Tail(@)]})
    BY DEF WriteOutput
  <1>2. procs' \subseteq Running
    <2>1. CASE Len(pr.todo) = 1
      BY <1>1, <2>1 DEF Typed
    <2>2. CASE Len(pr.todo) # 1
      <3>1. [pr EXCEPT !.todo = Tail(@)] \in Running
        BY <2>2, RestRuns
      <3> QED BY <1>1, <2>2, <3>1 DEF Typed
    <2> QED BY <2>1, <2>2
  <1>3. files' \in [File -> SUBSET Origin]
    BY <1>1, Fields DEF Typed, TypeOK
  <1>4. ASSUME attempt.phase # "waiting"
        PROVE  \A qr \in procs' : ~qr.own
    <2>1. \A qr \in procs : ~qr.own
      BY <1>4 DEF Typed, Staged
    <2>2. CASE Len(pr.todo) = 1
      BY <1>1, <2>1, <2>2
    <2>3. CASE Len(pr.todo) # 1
      <3>1. ~[pr EXCEPT !.todo = Tail(@)].own
        BY <2>1, <2>3, RestRuns
      <3> QED BY <1>1, <2>1, <2>3, <3>1
    <2> QED BY <2>2, <2>3
  <1>5. faults' \in 0..MaxFaults
    BY <1>1 DEF Typed, TypeOK
  <1> QED BY <1>1, <1>2, <1>3, <1>4, <1>5, SameAttempt, ProcessTyped

\* The parties of a session.
LEMMA JoinedRun ==
  ASSUME Typed, NEW session \in SUBSET {pr \in procs : pr.phase = "waiting"}, Join(session)
  PROVE  LET all == UNION {pr.got : pr \in session}
             Joined(pr) == [pr EXCEPT !.phase = "computed", !.got = all]
         IN  /\ UNCHANGED <<mode, files, attempt, faults, switches>>
             /\ session \subseteq procs /\ session # {}
             /\ procs' = (procs \ session) \cup {Joined(pr) : pr \in session}
             /\ \A pr \in session :
                  /\ Joined(pr) \in Running /\ Joined(pr).own = pr.own
                  /\ Joined(pr).todo = pr.todo /\ Joined(pr).got = all
  <1> DEFINE all == UNION {pr.got : pr \in session}
             Joined(pr) == [pr EXCEPT !.phase = "computed", !.got = all]
  <1>1. all \in SUBSET Origin
    BY Fields
  <1>2. {pr.role : pr \in session} = Party
    BY DEF Join, Met
  <1>3. session # {}
    BY <1>2, FirstParty
  <1>4. procs' = (procs \ session) \cup {Joined(pr) : pr \in session}
    BY DEF Join
  <1> HIDE DEF all
  <1>5. ASSUME NEW pr \in session
        PROVE  /\ Joined(pr) \in Running /\ Joined(pr).own = pr.own
               /\ Joined(pr).todo = pr.todo /\ Joined(pr).got = all
    <2>1. pr \in Running
      BY DEF Typed
    <2> QED BY <1>1, <2>1 DEF Running
  <1> QED BY <1>3, <1>4, <1>5 DEF all, Join

\* The parties of a stage meet.
LEMMA JoinTyped ==
  ASSUME Typed, NEW session \in SUBSET {pr \in procs : pr.phase = "waiting"}, Join(session)
  PROVE  Typed'
  <1> DEFINE all == UNION {pr.got : pr \in session}
             Joined(pr) == [pr EXCEPT !.phase = "computed", !.got = all]
  <1>1. /\ UNCHANGED <<mode, files, attempt, faults, switches>>
        /\ session \subseteq procs
        /\ procs' = (procs \ session) \cup {Joined(pr) : pr \in session}
        /\ \A pr \in session : Joined(pr) \in Running /\ Joined(pr).own = pr.own
    BY JoinedRun
  <1> HIDE DEF Joined
  <1>2. procs' \subseteq Running
    BY <1>1 DEF Typed
  <1>3. ASSUME attempt.phase # "waiting"
        PROVE  \A qr \in procs' : ~qr.own
    BY <1>1, <1>3 DEF Typed, Staged
  <1>4. faults' \in 0..MaxFaults /\ files' \in [File -> SUBSET Origin]
    BY <1>1 DEF Typed, TypeOK
  <1> QED BY <1>1, <1>2, <1>3, <1>4, SameAttempt, ProcessTyped

\* Those of a session that hang.
LEMMA HungRun ==
  ASSUME Typed, NEW session \in SUBSET {pr \in procs : pr.phase = "waiting"}, BreakDown(session)
  PROVE  LET Hanging(pr) == [pr EXCEPT !.phase = "hung"]
         IN  /\ UNCHANGED <<mode, files, faults, switches>>
             /\ session \subseteq procs
             /\ \E hung \in SUBSET session :
                  /\ procs' = (procs \ session) \cup {Hanging(pr) : pr \in hung}
                  /\ attempt' = [attempt EXCEPT !.failed =
                                   @ \/ \E pr \in session \ hung : pr.own]
             /\ \A pr \in session :
                  /\ Hanging(pr) \in Running /\ Hanging(pr).own = pr.own
                  /\ Hanging(pr).todo = pr.todo /\ Hanging(pr).got = pr.got
  <1> DEFINE Hanging(pr) == [pr EXCEPT !.phase = "hung"]
  <1>1. \E hung \in SUBSET session :
          /\ procs' = (procs \ session) \cup {Hanging(pr) : pr \in hung}
          /\ attempt' = [attempt EXCEPT !.failed = @ \/ \E pr \in session \ hung : pr.own]
    BY DEF BreakDown
  <1>2. ASSUME NEW pr \in session
        PROVE  /\ Hanging(pr) \in Running /\ Hanging(pr).own = pr.own
               /\ Hanging(pr).todo = pr.todo /\ Hanging(pr).got = pr.got
    <2>1. pr \in Running
      BY DEF Typed
    <2> QED BY <2>1 DEF Running
  <1> QED BY <1>1, <1>2 DEF BreakDown

\* The parties of a stage break down.
LEMMA BreakTyped ==
  ASSUME Typed, NEW session \in SUBSET {pr \in procs : pr.phase = "waiting"}, BreakDown(session)
  PROVE  Typed'
  <1> DEFINE Hanging(pr) == [pr EXCEPT !.phase = "hung"]
  <1>1. /\ UNCHANGED <<mode, files, faults, switches>>
        /\ session \subseteq procs
        /\ \A pr \in session : Hanging(pr) \in Running /\ Hanging(pr).own = pr.own
    BY HungRun
  <1>2. PICK hung \in SUBSET session :
          /\ procs' = (procs \ session) \cup {Hanging(pr) : pr \in hung}
          /\ attempt' = [attempt EXCEPT !.failed = @ \/ \E pr \in session \ hung : pr.own]
    BY HungRun
  <1> HIDE DEF Hanging
  <1>3. procs' \subseteq Running
    BY <1>1, <1>2 DEF Typed
  <1> DEFINE panics == \E pr \in session \ hung : pr.own
  <1>4. ASSUME attempt.phase # "waiting"
        PROVE  ~panics /\ \A qr \in procs' : ~qr.own
    BY <1>1, <1>2, <1>4 DEF Typed, Staged
  <1>5. faults' \in 0..MaxFaults /\ files' \in [File -> SUBSET Origin]
    BY <1>1 DEF Typed, TypeOK
  <1>6. panics \in BOOLEAN /\ attempt' = [attempt EXCEPT !.failed = @ \/ panics]
    BY <1>2
  <1> HIDE DEF panics
  <1> QED BY <1>1, <1>3, <1>4, <1>5, <1>6, ProcessTyped

\* A process ends before it has written everything.
LEMMA EndTyped ==
  ASSUME Typed, NEW pr \in procs, GiveUp(pr) \/ KillHung(pr) \/ Fail(pr)
  PROVE  Typed'
  <1>1. /\ UNCHANGED <<mode, switches>> /\ procs' = procs \ {pr}
        /\ attempt' = [attempt EXCEPT !.failed = @ \/ pr.own]
    BY DEF GiveUp, KillHung, Fail
  <1>2. faults' \in 0..MaxFaults
    <2>1. faults' = faults \/ (faults < MaxFaults /\ faults' = faults + 1)
      BY DEF GiveUp, KillHung, Fail
    <2> QED BY <2>1, Tier3Bounds DEF Typed, TypeOK
  <1>3. files' \in [File -> SUBSET Origin]
    <2>1. CutOff \subseteq Origin
      BY DEF CutOff, Origin
    <2>2. \/ UNCHANGED files
          \/ files' = [f \in File |-> IF f \in pr.todo[1] THEN CutOff ELSE files[f]]
      BY DEF GiveUp, KillHung, Fail
    <2> QED BY <2>1, <2>2 DEF Typed, TypeOK
  <1>4. attempt.phase # "waiting" => \A qr \in procs : ~qr.own
    BY DEF Typed, Staged
  <1>5. pr.own \in BOOLEAN /\ procs' \subseteq Running
    BY <1>1, Fields DEF Typed
  <1> QED BY <1>1, <1>2, <1>3, <1>4, <1>5, ProcessTyped

\* Nothing happens.
LEMMA StutterTyped ==
  ASSUME Typed, UNCHANGED vars
  PROVE  Typed'
  <1>1. UNCHANGED <<mode, files, procs, attempt, faults, switches>> /\ Stages' = Stages
    BY DEF vars, Stages
  <1>2. (Ended' <=> Ended) /\ Len(Stages)' = Len(Stages)
    BY <1>1 DEF Ended
  <1> QED BY <1>1, <1>2 DEF Typed, TypeOK, Staged

\* Every step keeps the shape.
LEMMA NextTyped ==
  ASSUME Typed, [Next]_vars
  PROVE  Typed'
  <1>1. ASSUME NEW m \in Mode, NEW inst \in Instance, StartAttempt(m, inst)
        PROVE  Typed'
    BY <1>1, StartTyped
  <1>2. CASE BeginStage
    BY <1>2, BeginTyped
  <1>3. CASE EndStage \/ Verify \/ Compare
    BY <1>3, DriverTyped
  <1>4. CASE Kill
    BY <1>4, KillTyped
  <1>5. ASSUME NEW pr \in procs, WriteOutput(pr) \/ GiveUp(pr) \/ KillHung(pr) \/ Fail(pr)
        PROVE  Typed'
    BY <1>5, WriteTyped, EndTyped
  <1>6. ASSUME NEW session \in SUBSET {pr \in procs : pr.phase = "waiting"},
               Join(session) \/ BreakDown(session)
        PROVE  Typed'
    BY <1>6, JoinTyped, BreakTyped
  <1>7. CASE UNCHANGED vars
    BY <1>7, StutterTyped
  <1> QED BY <1>1, <1>2, <1>3, <1>4, <1>5, <1>6, <1>7 DEF Next, DriverNext, ProcessNext

\* The driver, its files and its processes keep their shape.
LEMMA TypedInvariant == Spec => []Typed
  <1>1. Init => Typed
    BY InitTyped
  <1>2. Typed /\ [Next]_vars => Typed'
    BY NextTyped
  <1> QED BY <1>1, <1>2, PTL DEF Spec

\* The driver, its processes and the files keep their shape, for any number of
\* parties, instances, slots and faults.
THEOREM Tier3TypeOK == Spec => []TypeOK
  <1>1. Typed => TypeOK
    BY DEF Typed
  <1> QED BY <1>1, TypedInvariant, PTL

-----------------------------------------------------------------------------
(* Good data flows from stage to stage.                                     *)

Pending(pr) == UNION {pr.todo[n] : n \in DOMAIN pr.todo}

Live == attempt.phase \in {"stage", "waiting", "verify", "compare"}

\* What the stages that have ended were to write.
Written ==
  WrittenUpTo(Stages, IF attempt.phase \in {"verify", "compare"} THEN attempt.at + 1
                                                                 ELSE attempt.at)

\* Every file that a past stage was to write holds one of the contents good, and
\* what the present stage has not yet written one of its processes will write.
Flows(good) ==
  Live /\ ~attempt.failed =>
    /\ \A f \in Written : files[f] \in good
    /\ attempt.phase = "waiting" =>
         \A f \in WrittenBy(Stages[attempt.at]) :
           files[f] \in good \/ \E pr \in procs : pr.own /\ f \in Pending(pr)

\* Processes have read good contents only, and a union of them is good.
Good(good) ==
  /\ {} \notin good
  /\ \A some \in SUBSET good : some # {} => UNION some \in good
  /\ \A pr \in procs : pr.got \in good

\* What commands write are files of the work directory.
LEMMA WrittenIsFile ==
  ASSUME mode \in Mode
  PROVE  /\ \A k \in 1..Len(Stages) : WrittenBy(Stages[k]) \subseteq File
         /\ \A k \in 1..(Len(Stages) + 1) : WrittenUpTo(Stages, k) \subseteq File
  <1>1. Len(Stages) \in Nat
    BY StagesFit
  <1>2. ASSUME NEW k \in 1..Len(Stages), NEW c \in Stages[k]
        PROVE  Outputs(c) \subseteq File
    <2>1. c.writes \in Seq(SUBSET File)
      BY <1>2, StagesFit DEF Fits, IsCommand
    <2>2. \A n \in DOMAIN c.writes : c.writes[n] \subseteq File
      BY <2>1, LenProperties
    <2> QED BY <2>2 DEF Outputs
  <1>3. ASSUME NEW k \in 1..Len(Stages)
        PROVE  WrittenBy(Stages[k]) \subseteq File
    BY <1>2 DEF WrittenBy
  <1>4. ASSUME NEW k \in 1..(Len(Stages) + 1)
        PROVE  WrittenUpTo(Stages, k) \subseteq File
    <2>1. \A l \in 1..(k - 1) : l \in 1..Len(Stages)
      BY <1>1
    <2> QED BY <1>3, <2>1 DEF WrittenUpTo
  <1> QED BY <1>3, <1>4

\* What a process of a stage reads is good.
LEMMA ReadsGood ==
  ASSUME Typed, attempt.phase = "stage", NEW good, {} \notin good,
         \A some \in SUBSET good : some # {} => UNION some \in good,
         Flows(good), NEW c \in Stages[attempt.at], c.reads # {}
  PROVE  Process(c).got \in good
  <1> DEFINE some == {IF files[f] = {} THEN CutOff ELSE files[f] : f \in c.reads}
  <1>1. attempt.at \in 1..Len(Stages) /\ ~attempt.failed
    BY DEF Typed, Staged
  <1>2. c.reads \subseteq Written
    BY <1>1, StagesFit DEF Typed, TypeOK, Fits, Written
  <1>3. \A f \in c.reads : files[f] \in good /\ files[f] # {}
    BY <1>1, <1>2 DEF Flows, Live
  <1>4. some \in SUBSET good /\ some # {}
    BY <1>3
  <1>5. Process(c).got = UNION some
    BY DEF Process
  <1> HIDE DEF some
  <1> QED BY <1>4, <1>5

\* The next stage goes on with good data.
LEMMA FlowsOnBegin ==
  ASSUME Typed, BeginStage, NEW good, {Mine} \in good, Good(good), Flows(good)
  PROVE  Flows(good)' /\ Good(good)'
  <1> DEFINE stage == Stages[attempt.at]
             new == {Process(c) : c \in {d \in stage : d.reads # {}}}
             written == UNION {c.writes[1] : c \in {d \in stage : d.reads = {}}}
  <1>1. /\ attempt.phase = "stage" /\ attempt' = [attempt EXCEPT !.phase = "waiting"]
        /\ mode' = mode
        /\ files' = [f \in File |-> IF f \in written THEN {Mine} ELSE files[f]]
        /\ procs' = procs \cup new
    BY DEF BeginStage
  <1>2. attempt.at \in 1..Len(Stages) /\ ~attempt.failed
    BY <1>1 DEF Typed, Staged
  <1>3. /\ attempt'.phase = "waiting" /\ attempt'.at = attempt.at
        /\ Stages' = Stages
    BY <1>1, Fields DEF Stages
  <1>4. \A c \in stage : IsCommand(c) /\ c.reads \subseteq File
    BY <1>2, StagesFit DEF Typed, TypeOK, Fits, IsCommand
  <1>5. \A c \in stage : c.reads # {} => Process(c).got \in good
    BY <1>1, ReadsGood DEF Good
  <1>6. \A pr \in procs' : pr.got \in good
    BY <1>1, <1>5 DEF Good
  <1>7. Written' = Written
    BY <1>1, <1>3 DEF Written
  <1>8. ASSUME NEW f \in Written
        PROVE  files'[f] \in good
    <2>1. files[f] \in good
      BY <1>1, <1>2, <1>8 DEF Flows, Live
    <2>2. f \in File
      BY <1>1, <1>2, <1>8, WrittenIsFile, StagesFit DEF Written, Typed, TypeOK
    <2> QED BY <1>1, <2>1, <2>2
  <1>9. ASSUME NEW f \in WrittenBy(stage)
        PROVE  files'[f] \in good \/ \E pr \in procs' : pr.own /\ f \in Pending(pr)
    <2>1. PICK c \in stage : f \in Outputs(c)
      BY <1>9 DEF WrittenBy
    <2>2. CASE c.reads = {}
      <3>1. f \in written
        BY <1>4, <2>1, <2>2 DEF IsCommand
      <3>2. f \in File
        BY <1>2, <1>9, WrittenIsFile DEF Typed, TypeOK
      <3> QED BY <1>1, <3>1, <3>2
    <2>3. CASE c.reads # {}
      <3>1. Process(c) \in procs' /\ Process(c).own /\ Process(c).todo = c.writes
        BY <1>1, <1>4, <2>1, <2>3, StartedRuns
      <3>2. f \in Pending(Process(c))
        BY <2>1, <3>1 DEF Pending, Outputs
      <3> QED BY <3>1, <3>2
    <2> QED BY <2>2, <2>3
  <1> HIDE DEF new, written
  <1>10. Flows(good)'
    BY <1>3, <1>7, <1>8, <1>9 DEF Flows
  <1> QED BY <1>6, <1>10 DEF Good

\* A process writes good data.
LEMMA FlowsOnWrite ==
  ASSUME Typed, NEW pr \in procs, WriteOutput(pr), NEW good, Good(good), Flows(good)
  PROVE  Flows(good)' /\ Good(good)' /\ \A f \in File : files'[f] \in {files[f], pr.got}
  <1> DEFINE rest == [pr EXCEPT !.todo = Tail(@)]
  <1>1. /\ UNCHANGED <<mode, attempt>>
        /\ files' = [f \in File |-> IF f \in pr.todo[1] THEN pr.got ELSE files[f]]
        /\ procs' = (procs \ {pr}) \cup (IF Len(pr.todo) = 1 THEN {} ELSE {rest})
    BY DEF WriteOutput
  <1>2. pr.got \in good
    BY DEF Good
  <1>3. Len(pr.todo) # 1 =>
          /\ rest.own = pr.own /\ rest.got = pr.got /\ rest.todo = Tail(pr.todo)
          /\ \A n \in DOMAIN pr.todo :
               n # 1 => n - 1 \in DOMAIN Tail(pr.todo) /\ Tail(pr.todo)[n - 1] = pr.todo[n]
    BY RestRuns
  <1> HIDE DEF rest
  <1>4. \A qr \in procs' : qr.got \in good
    BY <1>1, <1>2, <1>3 DEF Good
  <1>5. Written' = Written /\ (Live' <=> Live) /\ Stages' = Stages
    BY <1>1 DEF Written, Live, Stages
  <1>6. \A f \in File : files'[f] \in {files[f], pr.got}
    BY <1>1
  <1>7. ASSUME Live, ~attempt.failed
        PROVE  Written \subseteq File
               /\ (attempt.phase = "waiting" => WrittenBy(Stages[attempt.at]) \subseteq File)
    <2>1. mode \in Mode /\ Len(Stages) \in Nat \ {0}
      BY StagesFit DEF Typed, TypeOK
    <2>2. CASE attempt.phase \in {"stage", "waiting"}
      <3>1. attempt.at \in 1..Len(Stages) /\ attempt.at \in 1..(Len(Stages) + 1)
        BY <2>1, <2>2 DEF Typed, Staged
      <3> QED BY <2>1, <2>2, <3>1, WrittenIsFile DEF Written
    <2>3. CASE attempt.phase \in {"verify", "compare"}
      <3>1. attempt.at = Len(Stages) /\ attempt.at + 1 \in 1..(Len(Stages) + 1)
        BY <2>1, <2>3 DEF Typed, Staged
      <3> QED BY <2>1, <2>3, <3>1, WrittenIsFile DEF Written
    <2> QED BY <1>7, <2>2, <2>3 DEF Live
  <1>8. ASSUME Live, ~attempt.failed, NEW f \in Written
        PROVE  files'[f] \in good
    BY <1>2, <1>6, <1>7, <1>8 DEF Flows
  <1>9. ASSUME Live, ~attempt.failed, attempt.phase = "waiting",
               NEW f \in WrittenBy(Stages[attempt.at])
        PROVE  files'[f] \in good \/ \E qr \in procs' : qr.own /\ f \in Pending(qr)
    <2>1. f \in File
      BY <1>7, <1>9
    <2>2. CASE files[f] \in good
      BY <1>2, <1>6, <2>1, <2>2
    <2>3. ASSUME NEW qr \in procs, qr # pr, qr.own, f \in Pending(qr)
          PROVE  \E r \in procs' : r.own /\ f \in Pending(r)
      BY <1>1, <2>3
    <2>4. ASSUME pr.own, f \in Pending(pr)
          PROVE  files'[f] \in good \/ \E qr \in procs' : qr.own /\ f \in Pending(qr)
      <3>1. PICK n \in DOMAIN pr.todo : f \in pr.todo[n]
        BY <2>4 DEF Pending
      <3>2. CASE n = 1
        BY <1>1, <1>2, <2>1, <3>1, <3>2
      <3>3. CASE n # 1 /\ Len(pr.todo) = 1
        <4>1. DOMAIN pr.todo = 1..Len(pr.todo)
          BY Fields, LenProperties
        <4> QED BY <3>1, <3>3, <4>1
      <3>4. CASE n # 1 /\ Len(pr.todo) # 1
        <4>1. n - 1 \in DOMAIN rest.todo /\ f \in rest.todo[n - 1]
          BY <1>3, <3>1, <3>4
        <4>2. f \in Pending(rest) /\ rest.own /\ rest \in procs'
          BY <1>1, <1>3, <2>4, <3>4, <4>1 DEF Pending
        <4> QED BY <4>2
      <3> QED BY <3>2, <3>3, <3>4
    <2> QED BY <1>9, <2>2, <2>3, <2>4 DEF Flows
  <1>10. Flows(good)'
    BY <1>1, <1>5, <1>8, <1>9 DEF Flows
  <1> QED BY <1>4, <1>6, <1>10 DEF Good

\* Parties that meet compute good data.
LEMMA FlowsOnJoin ==
  ASSUME Typed, NEW session \in SUBSET {pr \in procs : pr.phase = "waiting"}, Join(session),
         NEW good, Good(good), Flows(good)
  PROVE  Flows(good)' /\ Good(good)'
  <1> DEFINE all == UNION {pr.got : pr \in session}
             Joined(pr) == [pr EXCEPT !.phase = "computed", !.got = all]
  <1>1. /\ UNCHANGED <<mode, files, attempt, faults, switches>>
        /\ session \subseteq procs /\ session # {}
        /\ procs' = (procs \ session) \cup {Joined(pr) : pr \in session}
        /\ \A pr \in session : /\ Joined(pr).own = pr.own
                               /\ Joined(pr).todo = pr.todo /\ Joined(pr).got = all
    BY JoinedRun
  <1>2. all \in good
    <2> DEFINE some == {pr.got : pr \in session}
    <2>1. \A pr \in session : pr.got \in good
      BY DEF Good
    <2>2. session # {}
      BY <1>1
    <2>3. some \in SUBSET good /\ some # {}
      BY <2>1, <2>2
    <2>4. all = UNION some
      OBVIOUS
    <2> HIDE DEF some, all
    <2> QED BY <2>3, <2>4 DEF Good
  <1> HIDE DEF all, Joined
  <1>3. \A qr \in procs' : qr.got \in good
    BY <1>1, <1>2 DEF Good
  <1>4. Written' = Written /\ (Live' <=> Live) /\ Stages' = Stages
    BY <1>1 DEF Written, Live, Stages
  <1>5. ASSUME NEW qr \in procs, qr.own, NEW f \in Pending(qr)
        PROVE  \E r \in procs' : r.own /\ f \in Pending(r)
    <2>1. CASE qr \in session
      <3>1. Joined(qr) \in procs' /\ Joined(qr).own /\ Joined(qr).todo = qr.todo
        BY <1>1, <1>5, <2>1
      <3>2. f \in Pending(Joined(qr))
        BY <1>5, <3>1 DEF Pending
      <3> QED BY <3>1, <3>2
    <2>2. CASE qr \notin session
      BY <1>1, <1>5, <2>2
    <2> QED BY <2>1, <2>2
  <1>6. Flows(good)'
    BY <1>1, <1>4, <1>5 DEF Flows
  <1> QED BY <1>3, <1>6 DEF Good

\* Parties that break down write nothing, and those that panic fail their attempt.
LEMMA FlowsOnBreak ==
  ASSUME Typed, NEW session \in SUBSET {pr \in procs : pr.phase = "waiting"}, BreakDown(session),
         NEW good, Good(good), Flows(good)
  PROVE  Flows(good)' /\ Good(good)'
  <1> DEFINE Hanging(pr) == [pr EXCEPT !.phase = "hung"]
  <1>1. /\ UNCHANGED <<mode, files, faults, switches>> /\ session \subseteq procs
        /\ \A pr \in session : /\ Hanging(pr).own = pr.own
                               /\ Hanging(pr).todo = pr.todo /\ Hanging(pr).got = pr.got
    BY HungRun
  <1>2. PICK hung \in SUBSET session :
          /\ procs' = (procs \ session) \cup {Hanging(pr) : pr \in hung}
          /\ attempt' = [attempt EXCEPT !.failed = @ \/ \E pr \in session \ hung : pr.own]
    BY HungRun
  <1> HIDE DEF Hanging
  <1>3. \A qr \in procs' : qr.got \in good
    BY <1>1, <1>2 DEF Good
  <1>4. /\ attempt'.phase = attempt.phase /\ attempt'.at = attempt.at
        /\ attempt'.failed = (attempt.failed \/ \E pr \in session \ hung : pr.own)
    BY <1>2, Fields
  <1>5. Written' = Written /\ (Live' <=> Live) /\ Stages' = Stages
    BY <1>1, <1>4 DEF Written, Live, Stages
  <1>6. CASE \E pr \in session \ hung : pr.own
    <2>1. attempt'.failed
      BY <1>4, <1>6
    <2> QED BY <1>3, <2>1 DEF Flows, Good
  <1>7. CASE \A pr \in session \ hung : ~pr.own
    <2>1. ASSUME NEW qr \in procs, qr.own, NEW f \in Pending(qr)
          PROVE  \E r \in procs' : r.own /\ f \in Pending(r)
      <3>1. CASE qr \in session
        <4>1. Hanging(qr) \in procs' /\ Hanging(qr).own /\ Hanging(qr).todo = qr.todo
          BY <1>1, <1>2, <1>7, <2>1, <3>1
        <4>2. f \in Pending(Hanging(qr))
          BY <2>1, <4>1 DEF Pending
        <4> QED BY <4>1, <4>2
      <3>2. CASE qr \notin session
        BY <1>2, <2>1, <3>2
      <3> QED BY <3>1, <3>2
    <2>2. attempt'.failed = attempt.failed
      BY <1>4, <1>7, Fields
    <2>3. Flows(good)'
      BY <1>1, <1>4, <1>5, <2>1, <2>2 DEF Flows
    <2> QED BY <1>3, <2>3 DEF Good
  <1> QED BY <1>6, <1>7

\* A process that ends early fails its attempt, unless it is a survivor, which
\* had nothing to write for it.
LEMMA FlowsOnEnd ==
  ASSUME Typed, NEW pr \in procs, GiveUp(pr) \/ KillHung(pr) \/ (Fail(pr) /\ pr.own),
         NEW good, Good(good), Flows(good)
  PROVE  Flows(good)' /\ Good(good)'
  <1>1. /\ UNCHANGED mode /\ procs' = procs \ {pr}
        /\ attempt' = [attempt EXCEPT !.failed = @ \/ pr.own]
    BY DEF GiveUp, KillHung, Fail
  <1>2. Good(good)'
    BY <1>1 DEF Good
  <1>3. /\ attempt'.phase = attempt.phase /\ attempt'.at = attempt.at
        /\ attempt'.failed = (attempt.failed \/ pr.own)
    BY <1>1, Fields
  <1>4. CASE pr.own
    <2>1. attempt'.failed
      BY <1>3, <1>4
    <2> QED BY <1>2, <2>1 DEF Flows
  <1>5. CASE ~pr.own
    <2>1. files' = files
      BY <1>5 DEF GiveUp, KillHung
    <2>2. Written' = Written /\ (Live' <=> Live) /\ Stages' = Stages
      BY <1>1, <1>3 DEF Written, Live, Stages
    <2>3. \A qr \in procs : qr.own => qr \in procs'
      BY <1>1, <1>5
    <2>4. attempt'.failed = attempt.failed
      BY <1>3, <1>5, Fields
    <2>5. Flows(good)'
      BY <1>3, <2>1, <2>2, <2>3, <2>4 DEF Flows
    <2> QED BY <1>2, <2>5
  <1> QED BY <1>2, <1>4, <1>5

\* A stage that has ended has written good data.
LEMMA FlowsOnStageEnd ==
  ASSUME Typed, EndStage, NEW good, Good(good), Flows(good)
  PROVE  Flows(good)' /\ Good(good)'
  <1>1. /\ attempt.phase = "waiting" /\ \A pr \in procs : ~pr.own
        /\ UNCHANGED <<mode, files, procs>>
    BY DEF EndStage
  <1>2. Good(good)' /\ Stages' = Stages
    BY <1>1 DEF Good, Stages
  <1>3. attempt.at \in 1..Len(Stages)
    BY <1>1 DEF Typed, Staged
  <1>4. CASE attempt.failed
    <2>1. attempt' = [Idle EXCEPT !.phase = "failed", !.inst = attempt.inst]
      BY <1>4 DEF EndStage, StageIsGood
    <2>2. attempt'.phase = "failed"
      BY <2>1, Fields, IdleExcept DEF Phase
    <2> QED BY <1>2, <2>2 DEF Flows, Live
  <1>5. CASE ~attempt.failed
    <2>1. \A f \in WrittenUpTo(Stages, attempt.at + 1) : files[f] \in good
      <3>1. \A f \in WrittenBy(Stages[attempt.at]) : files[f] \in good
        BY <1>1, <1>5 DEF Flows, Live
      <3>2. \A f \in WrittenUpTo(Stages, attempt.at) : files[f] \in good
        BY <1>1, <1>5 DEF Flows, Live, Written
      <3>3. WrittenUpTo(Stages, attempt.at + 1)
              = WrittenUpTo(Stages, attempt.at) \cup WrittenBy(Stages[attempt.at])
        BY <1>3, StagesFit DEF Typed, TypeOK
      <3> QED BY <3>1, <3>2, <3>3
    <2>2. \/ attempt'.phase = "stage" /\ attempt'.at = attempt.at + 1
          \/ attempt'.phase = "verify" /\ attempt'.at = attempt.at
      BY <1>5, Fields DEF EndStage, StageIsGood
    <2>3. Written' = WrittenUpTo(Stages, attempt.at + 1) /\ attempt'.phase # "waiting"
      BY <1>2, <2>2 DEF Written
    <2> QED BY <1>1, <1>2, <2>1, <2>3 DEF Flows
  <1> QED BY <1>4, <1>5

\* Looking at the result changes nothing.
LEMMA FlowsOnResult ==
  ASSUME Typed, Verify \/ Compare, NEW good, Good(good), Flows(good)
  PROVE  /\ Flows(good)' /\ Good(good)'
         /\ files[<<"proof">>] \in good /\ files[<<"public">>] \in good
  <1>1. /\ attempt.phase \in {"verify", "compare"} /\ UNCHANGED <<mode, files, procs>>
        /\ attempt'.phase \in {"compare", "accepted", "refused"} /\ attempt'.at = attempt.at
    BY Fields DEF Verify, Compare
  <1>2. Good(good)' /\ Stages' = Stages
    BY <1>1 DEF Good, Stages
  <1>3. ~attempt.failed /\ attempt.at = Len(Stages)
    BY <1>1 DEF Typed, Staged
  <1>4. attempt'.phase = "compare" => Written' = Written
    BY <1>1, <1>2 DEF Written
  <1>5. \A f \in Written : files[f] \in good
    BY <1>1, <1>3 DEF Flows, Live
  <1>6. {<<"proof">>, <<"public">>} \subseteq Written
    <2>1. Len(Stages) \in 1..Len(Stages)
      BY StagesFit DEF Typed, TypeOK
    <2>2. WrittenBy(Stages[Len(Stages)]) \subseteq WrittenUpTo(Stages, Len(Stages) + 1)
      BY <2>1, StagesFit DEF Typed, TypeOK
    <2> QED BY <1>1, <1>3, <2>2, StagesFit DEF Written, Typed, TypeOK
  <1>7. Flows(good)'
    BY <1>1, <1>4, <1>5 DEF Flows, Live
  <1> QED BY <1>2, <1>5, <1>6, <1>7

\* Nothing happens to the data.
LEMMA FlowsOnStutter ==
  ASSUME UNCHANGED vars, NEW good, Good(good), Flows(good)
  PROVE  Flows(good)' /\ Good(good)'
  <1>1. /\ UNCHANGED <<mode, files, procs, attempt>> /\ Stages' = Stages
        /\ Written' = Written /\ (Live' <=> Live)
    BY DEF vars, Stages, Written, Live
  <1> QED BY <1>1 DEF Flows, Good

\* The first stage of a new attempt has nothing to rely on.
LEMMA FlowsOnStart ==
  ASSUME attempt'.at = 1, attempt'.phase \in {"stage", "unbuilt"}, NEW good
  PROVE  Flows(good)'
  <1>1. Written' = {}
    <2>1. Written' = WrittenUpTo(Stages', 1)
      BY DEF Written
    <2>2. \A S : WrittenUpTo(S, 1) = {}
      BY DEF WrittenUpTo
    <2> QED BY <2>1, <2>2
  <1> QED BY <1>1 DEF Flows

\* A step of the present attempt, or of a survivor beside it.
AttemptStep ==
  \/ BeginStage \/ EndStage \/ Verify \/ Compare
  \/ ProcessNext
  \/ UNCHANGED vars

\* What is good stays good, as long as no survivor fails.
LEMMA FlowsOn ==
  ASSUME Typed, AttemptStep, \A pr \in procs : Fail(pr) => pr.own,
         NEW good, {Mine} \in good, Good(good), Flows(good)
  PROVE  Flows(good)' /\ Good(good)'
  <1>1. CASE BeginStage
    BY <1>1, FlowsOnBegin
  <1>2. CASE EndStage
    BY <1>2, FlowsOnStageEnd
  <1>3. CASE Verify \/ Compare
    BY <1>3, FlowsOnResult
  <1>4. ASSUME NEW pr \in procs, WriteOutput(pr)
        PROVE  Flows(good)' /\ Good(good)'
    BY <1>4, FlowsOnWrite
  <1>5. ASSUME NEW pr \in procs, GiveUp(pr) \/ KillHung(pr) \/ Fail(pr)
        PROVE  Flows(good)' /\ Good(good)'
    BY <1>5, FlowsOnEnd
  <1>6. ASSUME NEW session \in SUBSET {pr \in procs : pr.phase = "waiting"},
               Join(session) \/ BreakDown(session)
        PROVE  Flows(good)' /\ Good(good)'
    BY <1>6, FlowsOnJoin, FlowsOnBreak
  <1>7. CASE UNCHANGED vars
    BY <1>7, FlowsOnStutter
  <1> QED BY <1>1, <1>2, <1>3, <1>4, <1>5, <1>6, <1>7 DEF AttemptStep, ProcessNext

\* Every process was there before, and has lost nothing it had read, or its
\* attempt has just started it.
LEMMA Provenance ==
  ASSUME Typed, AttemptStep, NEW qr \in procs'
  PROVE  \/ \E pr \in procs : qr.own = pr.own /\ pr.got \subseteq qr.got
         \/ qr.own
  <1>1. CASE BeginStage
    <2>1. CASE qr \in procs
      BY <2>1
    <2>2. CASE qr \notin procs
      <3>1. PICK c : qr = Process(c)
        BY <1>1, <2>2 DEF BeginStage
      <3> QED BY <3>1 DEF Process
    <2> QED BY <2>1, <2>2
  <1>2. ASSUME procs' \subseteq procs
        PROVE  \E pr \in procs : qr.own = pr.own /\ pr.got \subseteq qr.got
    BY <1>2
  <1>3. CASE EndStage \/ Verify \/ Compare \/ UNCHANGED vars
    BY <1>2, <1>3 DEF EndStage, Verify, Compare, vars
  <1>4. ASSUME NEW pr \in procs, GiveUp(pr) \/ KillHung(pr) \/ Fail(pr)
        PROVE  \E p \in procs : qr.own = p.own /\ p.got \subseteq qr.got
    BY <1>2, <1>4 DEF GiveUp, KillHung, Fail
  <1>5. ASSUME NEW pr \in procs, WriteOutput(pr)
        PROVE  \E p \in procs : qr.own = p.own /\ p.got \subseteq qr.got
    <2>1. CASE qr \in procs
      BY <2>1
    <2>2. CASE qr \notin procs
      <3>1. Len(pr.todo) # 1 /\ qr = [pr EXCEPT !.todo = Tail(@)]
        BY <1>5, <2>2 DEF WriteOutput
      <3>2. qr.own = pr.own /\ qr.got = pr.got
        BY <3>1, RestRuns
      <3> QED BY <3>2
    <2> QED BY <2>1, <2>2
  <1>6. ASSUME NEW session \in SUBSET {pr \in procs : pr.phase = "waiting"}, Join(session)
        PROVE  \E p \in procs : qr.own = p.own /\ p.got \subseteq qr.got
    <2> DEFINE all == UNION {pr.got : pr \in session}
               Joined(pr) == [pr EXCEPT !.phase = "computed", !.got = all]
    <2>1. /\ session \subseteq procs
          /\ procs' = (procs \ session) \cup {Joined(pr) : pr \in session}
          /\ \A pr \in session : Joined(pr).own = pr.own /\ Joined(pr).got = all
      BY <1>6, JoinedRun
    <2>2. \A pr \in session : pr.got \subseteq all
      OBVIOUS
    <2> HIDE DEF all, Joined
    <2> QED BY <2>1, <2>2
  <1>7. ASSUME NEW session \in SUBSET {pr \in procs : pr.phase = "waiting"}, BreakDown(session)
        PROVE  \E p \in procs : qr.own = p.own /\ p.got \subseteq qr.got
    <2> DEFINE Hanging(pr) == [pr EXCEPT !.phase = "hung"]
    <2>1. /\ session \subseteq procs
          /\ \E hung \in SUBSET session :
               procs' = (procs \ session) \cup {Hanging(pr) : pr \in hung}
          /\ \A pr \in session : Hanging(pr).own = pr.own /\ Hanging(pr).got = pr.got
      BY <1>7, HungRun
    <2> HIDE DEF Hanging
    <2> QED BY <2>1
  <1> QED BY <1>1, <1>3, <1>4, <1>5, <1>6, <1>7 DEF AttemptStep, ProcessNext

\* The results of an attempt.
LEMMA Outcomes ==
  ASSUME Typed, AttemptStep
  PROVE  /\ attempt'.inst = attempt.inst /\ mode' = mode /\ faults <= faults'
         /\ Live' => Live /\ attempt'.disturbed = attempt.disturbed
         /\ attempt'.phase = "refused" =>
              /\ attempt'.disturbed = attempt.disturbed
              /\ \/ attempt.phase = "refused"
                 \/ /\ Verify \/ Compare
                    /\ mode # "full" =>
                         ~(files[<<"proof">>] = {Mine} /\ files[<<"public">>] = {Mine})
         /\ attempt'.phase = "compare" =>
              \/ attempt.phase = "compare" /\ attempt'.verified = attempt.verified
              \/ Verify /\ MayVerify /\ attempt'.verified = files[<<"public">>]
         /\ attempt'.phase = "accepted" =>
              /\ attempt'.verified = attempt.verified
              /\ attempt'.disturbed = attempt.disturbed
              /\ \/ attempt.phase = "accepted"
                 \/ Compare /\ MayMatch(files[<<"public">>])
  <1>1. faults \in Nat /\ (faults' = faults => faults <= faults')
    BY Tier3Bounds DEF Typed, TypeOK
  <1>2. CASE BeginStage
    <2>1. attempt' = [attempt EXCEPT !.phase = "waiting"] /\ attempt.phase = "stage"
          /\ mode' = mode /\ faults' = faults
      BY <1>2 DEF BeginStage
    <2>2. attempt'.phase = "waiting" /\ attempt'.inst = attempt.inst
          /\ attempt'.disturbed = attempt.disturbed
      BY <2>1, Fields
    <2> QED BY <1>1, <2>1, <2>2 DEF Live
  <1>3. CASE EndStage
    <2>1. attempt.phase = "waiting" /\ mode' = mode /\ faults' = faults
      BY <1>3 DEF EndStage
    <2>2. CASE attempt' = [Idle EXCEPT !.phase = "failed", !.inst = attempt.inst]
      <3>1. "failed" \in Phase /\ attempt.inst \in Instance \cup {NoInstance}
        BY Fields DEF Phase
      <3>2. attempt'.phase = "failed" /\ attempt'.inst = attempt.inst
        BY ONLY <2>2, <3>1, IdleExcept
      <3> QED BY <1>1, <2>1, <3>2 DEF Live
    <2>3. CASE \/ attempt' = [attempt EXCEPT !.phase = "stage", !.at = @ + 1]
               \/ attempt' = [attempt EXCEPT !.phase = "verify"]
      <3>1. attempt'.phase \in {"stage", "verify"} /\ attempt'.inst = attempt.inst
            /\ attempt'.disturbed = attempt.disturbed
        BY <2>3, Fields
      <3> QED BY <1>1, <2>1, <3>1 DEF Live
    <2> QED BY <1>3, <2>2, <2>3 DEF EndStage
  <1>4. CASE Verify
    <2>1. attempt.phase = "verify" /\ mode' = mode /\ faults' = faults
      BY <1>4 DEF Verify
    <2>2. CASE /\ MayVerify
               /\ attempt' = [attempt EXCEPT !.phase = "compare", !.verified = files[<<"public">>]]
      <3>1. attempt'.phase = "compare" /\ attempt'.inst = attempt.inst
            /\ attempt'.disturbed = attempt.disturbed /\ attempt'.verified = files[<<"public">>]
        BY <2>2, Fields
      <3> QED BY <1>1, <1>4, <2>1, <2>2, <3>1 DEF Live
    <2>3. CASE ~MustVerify /\ attempt' = [attempt EXCEPT !.phase = "refused"]
      <3>1. attempt'.phase = "refused" /\ attempt'.inst = attempt.inst
            /\ attempt'.disturbed = attempt.disturbed
        BY <2>3, Fields
      <3> QED BY <1>1, <1>4, <2>1, <2>3, <3>1 DEF Live, MustVerify
    <2> QED BY <1>4, <2>2, <2>3 DEF Verify
  <1>5. CASE Compare
    <2>1. attempt.phase = "compare" /\ mode' = mode /\ faults' = faults
      BY <1>5 DEF Compare
    <2>2. CASE MayMatch(files[<<"public">>]) /\ attempt' = [attempt EXCEPT !.phase = "accepted"]
      <3>1. attempt'.phase = "accepted" /\ attempt'.inst = attempt.inst
            /\ attempt'.verified = attempt.verified /\ attempt'.disturbed = attempt.disturbed
        BY <2>2, Fields
      <3> QED BY <1>1, <1>5, <2>1, <2>2, <3>1 DEF Live
    <2>3. CASE files[<<"public">>] # {Mine} /\ attempt' = [attempt EXCEPT !.phase = "refused"]
      <3>1. attempt'.phase = "refused" /\ attempt'.inst = attempt.inst
            /\ attempt'.disturbed = attempt.disturbed
        BY <2>3, Fields
      <3> QED BY <1>1, <1>5, <2>1, <2>3, <3>1 DEF Live
    <2> QED BY <1>5, <2>2, <2>3 DEF Compare
  <1>6. ASSUME NEW b \in BOOLEAN, attempt' = [attempt EXCEPT !.failed = @ \/ b],
               mode' = mode, faults' = faults \/ faults' = faults + 1
        PROVE  /\ attempt'.inst = attempt.inst /\ mode' = mode /\ faults <= faults'
               /\ attempt'.phase = attempt.phase /\ attempt'.disturbed = attempt.disturbed
               /\ attempt'.verified = attempt.verified /\ (Live' <=> Live)
    <2>1. /\ attempt'.inst = attempt.inst
          /\ attempt'.phase = attempt.phase /\ attempt'.disturbed = attempt.disturbed
          /\ attempt'.verified = attempt.verified
      BY <1>6, Fields
    <2>2. faults <= faults'
      BY <1>1, <1>6
    <2> QED BY <1>6, <2>1, <2>2 DEF Live
  <1>7. CASE ProcessNext \/ UNCHANGED vars
    <2>1. \E b \in BOOLEAN :
            /\ attempt' = [attempt EXCEPT !.failed = @ \/ b]
            /\ mode' = mode /\ (faults' = faults \/ faults' = faults + 1)
      <3>1. CASE UNCHANGED <<mode, attempt, faults>>
        BY <3>1, SameAttempt
      <3>2. ASSUME NEW pr \in procs, GiveUp(pr) \/ KillHung(pr) \/ Fail(pr)
            PROVE  /\ pr.own \in BOOLEAN /\ attempt' = [attempt EXCEPT !.failed = @ \/ pr.own]
                   /\ mode' = mode /\ (faults' = faults \/ faults' = faults + 1)
        BY <3>2, Fields DEF GiveUp, KillHung, Fail
      <3>3. ASSUME NEW session \in SUBSET {pr \in procs : pr.phase = "waiting"},
                   BreakDown(session)
            PROVE  \E b \in BOOLEAN :
                     /\ attempt' = [attempt EXCEPT !.failed = @ \/ b]
                     /\ mode' = mode /\ faults' = faults
        <4>1. PICK hung \in SUBSET session :
                attempt' = [attempt EXCEPT !.failed = @ \/ \E pr \in session \ hung : pr.own]
          BY <3>3, HungRun
        <4>2. (\E pr \in session \ hung : pr.own) \in BOOLEAN
          OBVIOUS
        <4> QED BY <3>3, <4>1, <4>2 DEF BreakDown
      <3> QED BY <1>7, <3>1, <3>2, <3>3 DEF ProcessNext, WriteOutput, Join, vars
    <2> QED BY <1>6, <2>1
  <1> QED BY <1>2, <1>3, <1>4, <1>5, <1>7 DEF AttemptStep

-----------------------------------------------------------------------------
(* An attempt that no survivor of a killed one disturbs.                    *)

\* It computes on its own data only, so it has no reason to be refused, unless
\* these have made a wrong witness, and then it is.
Undisturbed ==
  /\ attempt.phase = "refused" /\ mode # "full" => attempt.disturbed
  /\ attempt.phase \in {"compare", "accepted"} /\ mode = "full" => attempt.disturbed
  /\ Live /\ ~attempt.disturbed =>
       /\ \A pr \in procs : pr.own /\ pr.got = {Mine}
       /\ Flows({{Mine}})

\* Only the death of the driver under a running command disturbs an attempt.
LEMMA UndisturbedStaysSo ==
  ASSUME Typed, Undisturbed, [Next]_vars
  PROVE  Undisturbed'
  <1>1. ASSUME NEW m \in Mode, NEW inst \in Instance, StartAttempt(m, inst)
        PROVE  Undisturbed'
    <2>1. /\ attempt'.phase \in {"stage", "unbuilt"} /\ attempt'.at = 1
          /\ ~attempt'.disturbed => procs' = {}
      BY <1>1, StartTyped
    <2>2. PICK good : good = {{Mine'}}
      OBVIOUS
    <2>3. Flows(good)'
      BY <2>1, FlowsOnStart
    <2>4. Flows({{Mine}})'
      BY <2>2, <2>3 DEF Flows
    <2> QED BY <2>1, <2>4 DEF Undisturbed
  <1>2. CASE Kill
    <2>1. attempt'.phase = "killed"
      BY <1>2, Fields, IdleExcept DEF Kill, Phase
    <2> QED BY <2>1 DEF Undisturbed, Live
  <1>3. CASE AttemptStep
    <2>1. CASE Live /\ ~attempt.disturbed
      <3>1. (\A pr \in procs : pr.own /\ pr.got = {Mine}) /\ Flows({{Mine}})
        BY <2>1 DEF Undisturbed
      <3>2. PICK good : good = {{Mine}}
        OBVIOUS
      <3>3. Flows(good)
        BY <3>1, <3>2
      <3>4. Good(good) /\ {Mine} \in good
        <4>1. ASSUME NEW some \in SUBSET good, some # {}
              PROVE  UNION some \in good
          <5>1. some = {{Mine}}
            BY <3>2, <4>1
          <5> QED BY <3>2, <5>1
        <4> QED BY <3>1, <3>2, <4>1 DEF Good
      <3>5. Flows(good)' /\ Good(good)'
        BY <1>3, <3>1, <3>3, <3>4, FlowsOn
      <3>6. Mine' = Mine
        BY <1>3, Outcomes DEF Mine
      <3>7. Flows({{Mine}})' /\ \A pr \in procs' : pr.got = {Mine'}
        BY <3>2, <3>5, <3>6 DEF Good, Flows
      <3>8. \A pr \in procs' : pr.own
        BY <1>3, <3>1, Provenance
      <3>9. Verify \/ Compare => files[<<"proof">>] = {Mine} /\ files[<<"public">>] = {Mine}
        BY <3>2, <3>3, <3>4, FlowsOnResult
      <3>10. attempt'.phase = "refused" => mode' = "full"
        BY <1>3, <2>1, <3>9, Outcomes DEF Live
      <3>11. ASSUME mode = "full"
             PROVE  attempt'.phase \notin {"compare", "accepted"}
        <4>1. attempt.phase \notin {"compare", "accepted"}
          BY <2>1, <3>11 DEF Undisturbed, Live
        <4>2. ~(Verify /\ MayVerify)
          <5>1. Mine.full
            BY <3>11 DEF Mine
          <5>2. Verify => Mine \in files[<<"proof">>]
            BY <3>9
          <5> QED BY <5>1, <5>2 DEF MayVerify
        <4>3. ~Compare
          BY <4>1 DEF Compare
        <4> QED BY <1>3, <4>1, <4>2, <4>3, Outcomes
      <3>12. mode' = mode
        BY <1>3, Outcomes
      <3> QED BY <3>7, <3>8, <3>10, <3>11, <3>12 DEF Undisturbed
    <2>2. CASE ~(Live /\ ~attempt.disturbed)
      <3>1. ~(Live' /\ ~attempt'.disturbed)
        BY <1>3, <2>2, Outcomes
      <3>2. Verify \/ Compare \/ attempt.phase = "compare" => Live
        BY DEF Verify, Compare, Live
      <3>3. attempt'.phase = "refused" /\ mode' # "full" => attempt'.disturbed
        BY <1>3, <2>2, <3>2, Outcomes DEF Undisturbed
      <3>4. attempt'.phase \in {"compare", "accepted"} /\ mode' = "full" => attempt'.disturbed
        <4>1. attempt'.phase = "compare" => attempt'.disturbed
          BY <3>1 DEF Live
        <4>2. attempt'.phase = "accepted" /\ mode' = "full" => attempt'.disturbed
          <5>1. attempt.phase = "accepted" /\ mode = "full" => attempt.disturbed
            BY DEF Undisturbed
          <5>2. Compare => attempt.disturbed
            BY <2>2, <3>2
          <5> QED BY <1>3, <5>1, <5>2, Outcomes
        <4> QED BY <4>1, <4>2
      <3> QED BY <3>1, <3>3, <3>4 DEF Undisturbed
    <2> QED BY <2>1, <2>2
  <1> QED BY <1>1, <1>2, <1>3 DEF Next, DriverNext, AttemptStep

\* An attempt nothing disturbed works alone, on its own values.
LEMMA UndisturbedInvariant == Spec => []Undisturbed
  <1>1. Init => Undisturbed
    BY DEF Init, Undisturbed, Live, Idle
  <1>2. Typed /\ Undisturbed /\ [Next]_vars => Undisturbed'
    BY UndisturbedStaysSo
  <1> QED BY TypedInvariant, <1>1, <1>2, PTL DEF Spec

\* Whatever failed or killed attempts have left in the work directory, in which
\* stage and of which instance: only if a process of a killed attempt was still
\* running when an attempt began is its finished proof refused, in a mode whose
\* witness is right, or accepted in the mode whose witness is wrong.
THEOREM OnlyOrphansEverSpoil == Spec => []OnlyOrphansSpoil
  <1>1. Undisturbed => OnlyOrphansSpoil
    BY DEF Undisturbed, OnlyOrphansSpoil
  <1> QED BY UndisturbedInvariant, <1>1, PTL

-----------------------------------------------------------------------------
(* Data of the killed attempt stay what they are.                           *)

Insts(origins) == {o.inst : o \in origins}

Holding(insts) == {origins \in SUBSET Origin : Insts(origins) \cap insts # {}}

\* Contents that hold data of one of some instances are good contents.
LEMMA HoldingMore ==
  ASSUME NEW insts
  PROVE  /\ {} \notin Holding(insts)
         /\ \A some \in SUBSET Holding(insts) : some # {} => UNION some \in Holding(insts)
         /\ \A have \in Holding(insts), more \in SUBSET Origin :
              have \subseteq more => more \in Holding(insts)
         /\ \A more : insts \subseteq more => Holding(insts) \subseteq Holding(more)
         /\ \A have \in Holding(insts) : have # {} /\ Aged(have) \in Holding(insts)
  <1>1. {} \notin Holding(insts)
    BY DEF Holding, Insts
  <1>2. ASSUME NEW have \in Holding(insts), NEW more \in SUBSET Origin, have \subseteq more
        PROVE  more \in Holding(insts)
    BY <1>2 DEF Holding, Insts
  <1>3. ASSUME NEW some \in SUBSET Holding(insts), some # {}
        PROVE  UNION some \in Holding(insts)
    <2>1. PICK have : have \in some
      BY <1>3
    <2>2. UNION some \in SUBSET Origin /\ have \subseteq UNION some /\ have \in Holding(insts)
      BY <2>1 DEF Holding
    <2> QED BY <1>2, <2>2
  <1>4. ASSUME NEW more, insts \subseteq more
        PROVE  Holding(insts) \subseteq Holding(more)
    BY <1>4 DEF Holding
  <1>5. ASSUME NEW have \in Holding(insts)
        PROVE  Aged(have) \in Holding(insts)
    <2>1. PICK o \in have : o.inst \in insts
      BY DEF Holding, Insts
    <2>2. \A q \in have : [q EXCEPT !.fresh = FALSE] \in Origin
                          /\ [q EXCEPT !.fresh = FALSE].inst = q.inst
      BY DEF Holding, Origin
    <2>3. Aged(have) \subseteq Origin /\ [o EXCEPT !.fresh = FALSE] \in Aged(have)
      BY <2>2 DEF Aged
    <2>4. o.inst \in Insts(Aged(have))
      BY <2>2, <2>3 DEF Insts
    <2> QED BY <2>1, <2>3, <2>4 DEF Holding
  <1> QED BY <1>1, <1>2, <1>3, <1>4, <1>5

\* After a first fault, b is the instance of the attempt that was killed: its
\* survivors have read data of b, and the present attempt reads its own data or
\* what they write.  What is read as public inputs after the verification was
\* verified, or is theirs.
Traced(b) ==
  /\ faults = 0 => b = attempt.inst
  /\ \A pr \in procs :
       /\ pr.got \in Holding({b, attempt.inst})
       /\ ~pr.own => pr.got \in Holding({b})
  /\ Flows(Holding({b, attempt.inst}))
  /\ attempt.phase = "compare" =>
       /\ OfOneInstance(attempt.verified)
       /\ attempt.verified \in Holding({b, attempt.inst})
       /\ files[<<"public">>] = attempt.verified \/ files[<<"public">>] \in Holding({b})

Binding ==
  /\ faults = 0 => \A pr \in procs : pr.own
  /\ faults <= 1 => \E b \in Instance \cup {NoInstance} : Traced(b)
  /\ AcceptedIsExpected

\* A new attempt, when at most one has been killed.
LEMMA StartTraced ==
  ASSUME Typed, Binding, NEW m \in Mode, NEW inst \in Instance, StartAttempt(m, inst)
  PROVE  Binding'
  <1>1. /\ procs' = {[pr EXCEPT !.got = Aged(pr.got)] : pr \in procs}
        /\ \A pr \in procs : ~pr.own
        /\ attempt'.inst = inst /\ attempt'.at = 1 /\ attempt'.phase \in {"stage", "unbuilt"}
    BY StartTyped
  <1>2. faults' = faults /\ faults \in Nat
    BY Tier3Bounds DEF StartAttempt, Typed, TypeOK
  <1>3. CASE faults = 0
    <2>1. procs' = {}
      BY <1>1, <1>3 DEF Binding
    <2>2. PICK good : good = Holding({inst, inst})
      OBVIOUS
    <2>3. Flows(good)'
      BY <1>1, FlowsOnStart
    <2>4. Traced(inst)'
      BY <1>1, <2>1, <2>2, <2>3 DEF Traced, Flows
    <2> QED BY <1>1, <1>2, <2>1, <2>4 DEF Binding, AcceptedIsExpected
  <1>4. CASE faults = 1
    <2>1. PICK b \in Instance \cup {NoInstance} : Traced(b)
      BY <1>4 DEF Binding
    <2>2. ASSUME NEW pr \in procs
          PROVE  /\ [pr EXCEPT !.got = Aged(pr.got)].got \in Holding({b, inst})
                 /\ [pr EXCEPT !.got = Aged(pr.got)].got \in Holding({b})
      <3>1. pr.got \in Holding({b})
        BY <1>1, <2>1 DEF Traced
      <3>2. Aged(pr.got) \in Holding({b}) /\ Holding({b}) \subseteq Holding({b, inst})
        <4>1. {b} \subseteq {b, inst}
          OBVIOUS
        <4> QED BY <3>1, <4>1, HoldingMore
      <3>3. pr \in Running
        BY DEF Typed
      <3>4. [pr EXCEPT !.got = Aged(pr.got)].got = Aged(pr.got)
        BY <3>3 DEF Running
      <3> QED BY <3>2, <3>4
    <2>3. \A qr \in procs' : qr.got \in Holding({b, inst}) /\ qr.got \in Holding({b})
      BY <1>1, <2>2
    <2>4. PICK good : good = Holding({b, inst})
      OBVIOUS
    <2>5. Flows(good)'
      BY <1>1, FlowsOnStart
    <2>6. Traced(b)'
      <3>1. Flows(Holding({b, attempt.inst}))'
        BY <1>1, <2>4, <2>5 DEF Flows
      <3>2. faults' # 0 /\ attempt'.phase # "compare"
        BY <1>1, <1>2, <1>4
      <3>3. \A qr \in procs' : qr.got \in Holding({b, attempt'.inst}) /\ qr.got \in Holding({b})
        BY <1>1, <2>3
      <3> QED BY <3>1, <3>2, <3>3 DEF Traced
    <2> QED BY <1>1, <1>2, <1>4, <2>6 DEF Binding, AcceptedIsExpected
  <1>5. CASE faults > 1
    BY <1>2, <1>5 DEF Binding, AcceptedIsExpected
  <1> QED BY <1>2, <1>3, <1>4, <1>5

\* A driver is killed.
LEMMA KillTraced ==
  ASSUME Typed, Binding, Kill
  PROVE  Binding'
  <1>1. faults' = faults + 1 /\ faults \in Nat /\ MaxFaults \in Nat
    BY Tier3Bounds DEF Kill, Typed, TypeOK
  <1>2. attempt'.phase = "killed" /\ attempt'.inst = attempt.inst
    <2>1. "killed" \in Phase /\ attempt.inst \in Instance \cup {NoInstance}
      BY Fields DEF Phase
    <2>2. attempt' = [Idle EXCEPT !.phase = "killed", !.inst = attempt.inst]
      BY DEF Kill
    <2> QED BY ONLY <2>1, <2>2, IdleExcept
  <1>3. faults' # 0 /\ (faults' <= 1 => faults = 0)
    BY <1>1
  <1>4. ASSUME faults = 0
        PROVE  \E b \in Instance \cup {NoInstance} : Traced(b)'
    <2>1. PICK b \in Instance \cup {NoInstance} : Traced(b)
      BY <1>4 DEF Binding
    <2>2. b = attempt.inst /\ (\A pr \in procs : pr.own /\ pr.got \in Holding({b, b}))
      BY <1>4, <2>1 DEF Traced, Binding
    <2>3. {b, b} = {b} /\ {b, attempt.inst} = {b}
      BY <2>2
    <2>4. \A pr \in procs : [pr EXCEPT !.own = FALSE].got = pr.got
      BY DEF Typed, Running
    <2>5. \A qr \in procs' : qr.got \in Holding({b})
      <3>1. procs' = {[pr EXCEPT !.own = FALSE] : pr \in procs} \/ procs' = Orphans
        BY DEF Kill
      <3>2. \A pr \in procs : pr.got \in Holding({b})
        BY <2>2, <2>3
      <3>3. CASE procs' = Orphans
        BY <3>2, <3>3 DEF Orphans
      <3>4. CASE procs' = {[pr EXCEPT !.own = FALSE] : pr \in procs}
        BY <2>4, <3>2, <3>4
      <3> QED BY <3>1, <3>3, <3>4
    <2>6. Flows(Holding({b, attempt.inst}))'
      BY <1>2 DEF Flows, Live
    <2>7. Traced(b)'
      BY <1>2, <1>3, <2>3, <2>5, <2>6 DEF Traced
    <2> QED BY <2>7
  <1>5. AcceptedIsExpected'
    BY <1>2 DEF AcceptedIsExpected
  <1> QED BY <1>3, <1>4, <1>5 DEF Binding

\* What is compared was verified, or a survivor has written it.
LEMMA ResultsTraced ==
  ASSUME Typed, AttemptStep, \A pr \in procs : Fail(pr) => pr.own,
         NEW b, Traced(b), attempt'.phase = "compare",
         files[<<"public">>] \in Holding({b, attempt.inst}) \/ attempt.phase = "compare"
  PROVE  /\ OfOneInstance(attempt'.verified)
         /\ attempt'.verified \in Holding({b, attempt.inst})
         /\ files'[<<"public">>] = attempt'.verified \/ files'[<<"public">>] \in Holding({b})
  <1>1. <<"public">> \in File
    BY FilesOf
  <1>2. CASE Verify /\ MayVerify /\ attempt'.verified = files[<<"public">>]
    <2>1. attempt.phase # "compare" /\ files' = files
      BY <1>2 DEF Verify
    <2>2. files[<<"public">>] \in Holding({b, attempt.inst})
      BY <2>1
    <2>3. OfOneInstance(files[<<"public">>])
      <3>1. files[<<"public">>] # {}
        BY <2>2, HoldingMore
      <3> QED BY <1>2, <3>1 DEF MayVerify, OfOneInstance
    <2> QED BY <1>2, <2>1, <2>2, <2>3
  <1>3. CASE attempt.phase = "compare" /\ attempt'.verified = attempt.verified
    <2>1. /\ OfOneInstance(attempt.verified)
          /\ attempt.verified \in Holding({b, attempt.inst})
          /\ files[<<"public">>] = attempt.verified \/ files[<<"public">>] \in Holding({b})
      BY <1>3 DEF Traced
    <2>2. \A pr \in procs : ~pr.own /\ pr.got \in Holding({b})
      BY <1>3 DEF Typed, Staged, Traced
    <2>3. files'[<<"public">>] = files[<<"public">>] \/ files'[<<"public">>] \in Holding({b})
      <3>1. ~BeginStage /\ ~EndStage /\ ~Verify
        BY <1>3 DEF BeginStage, EndStage, Verify
      <3>2. CASE UNCHANGED files
        BY <3>2
      <3>3. ASSUME NEW pr \in procs, WriteOutput(pr)
            PROVE  files'[<<"public">>] = files[<<"public">>]
                   \/ files'[<<"public">>] \in Holding({b})
        <4>1. files'[<<"public">>] \in {files[<<"public">>], pr.got}
          BY <1>1, <3>3 DEF WriteOutput
        <4> QED BY <2>2, <4>1
      <3>4. \A pr \in procs : ~Fail(pr)
        BY <2>2
      <3> QED BY <3>1, <3>2, <3>3, <3>4
            DEF AttemptStep, ProcessNext, Compare, GiveUp, KillHung, Join, BreakDown, vars
    <2> QED BY <1>3, <2>1, <2>3
  <1> QED BY <1>2, <1>3, Outcomes

\* What is accepted was verified with data of one instance, which the driver
\* cannot tell from its own.
LEMMA ComparedMatches ==
  ASSUME NEW b, Traced(b), attempt.phase = "compare", MayMatch(files[<<"public">>])
  PROVE  /\ attempt.verified # {}
         /\ \A o \in attempt.verified : Compared(o.inst) = Compared(attempt.inst)
  <1>1. /\ OfOneInstance(attempt.verified)
        /\ attempt.verified \in Holding({b, attempt.inst})
        /\ files[<<"public">>] = attempt.verified \/ files[<<"public">>] \in Holding({b})
    BY DEF Traced
  <1>2. PICK i \in Instance : attempt.verified # {} /\ \A o \in attempt.verified : o.inst = i
    BY <1>1 DEF OfOneInstance
  <1>3. i \in {b, attempt.inst}
    BY <1>1, <1>2 DEF Holding, Insts
  <1>4. CASE i = attempt.inst
    BY <1>2, <1>4
  <1>5. CASE i = b
    <2>1. CASE files[<<"public">>] = attempt.verified
      BY <1>2, <2>1 DEF MayMatch
    <2>2. CASE files[<<"public">>] \in Holding({b})
      <3>1. PICK o \in files[<<"public">>] : o.inst = b
        BY <2>2 DEF Holding, Insts
      <3>2. Compared(b) = Compared(attempt.inst)
        BY <3>1 DEF MayMatch
      <3> QED BY <1>2, <1>5, <3>2
    <2> QED BY <1>1, <2>1, <2>2
  <1> QED BY <1>3, <1>4, <1>5

\* A step of the present attempt, or of a survivor.
LEMMA AttemptTraced ==
  ASSUME Typed, Binding, AttemptStep
  PROVE  Binding'
  <1>1. /\ attempt'.inst = attempt.inst /\ mode' = mode /\ faults <= faults'
    BY Outcomes
  <1>2. Typed'
    BY NextTyped DEF AttemptStep, Next, DriverNext
  <1>3. /\ faults \in Nat /\ faults' \in Nat
        /\ \A qr \in procs' : qr.got \in SUBSET Origin /\ qr.own \in BOOLEAN
    BY <1>2, Tier3Bounds DEF Typed, TypeOK
  <1>4. ASSUME faults' = 0
        PROVE  \A qr \in procs' : qr.own
    <2>1. \A pr \in procs : pr.own
      BY <1>1, <1>3, <1>4 DEF Binding
    <2> QED BY <2>1, Provenance
  <1>5. ASSUME faults' <= 1
        PROVE  AcceptedIsExpected' /\ \E b \in Instance \cup {NoInstance} : Traced(b)'
    <2>1. faults <= 1
      BY <1>1, <1>3, <1>5
    <2>2. PICK b \in Instance \cup {NoInstance} : Traced(b)
      BY <2>1 DEF Binding
    <2>3. \A pr \in procs : Fail(pr) => pr.own
      <3> SUFFICES ASSUME NEW pr \in procs, Fail(pr) PROVE pr.own
        OBVIOUS
      <3>1. faults = 0
        BY <1>3, <1>5 DEF Fail
      <3> QED BY <3>1 DEF Binding
    <2>4. PICK good : good = Holding({b, attempt.inst})
      OBVIOUS
    <2>5. {Mine} \in good
      <3>1. Mine \in Origin /\ Mine.inst = attempt.inst
        BY Fields DEF Mine, Origin
      <3>2. attempt.inst \in Insts({Mine})
        BY <3>1 DEF Insts
      <3> QED BY <2>4, <3>1, <3>2 DEF Holding
    <2>6. Good(good) /\ Flows(good)
      <3>1. {} \notin good /\ \A some \in SUBSET good : some # {} => UNION some \in good
        BY <2>4, HoldingMore
      <3>2. \A pr \in procs : pr.got \in good
        BY <2>2, <2>4 DEF Traced
      <3>3. Flows(good)
        BY <2>2, <2>4 DEF Traced
      <3> QED BY <3>1, <3>2, <3>3 DEF Good
    <2>7. Flows(good)' /\ Good(good)'
      BY <2>3, <2>5, <2>6, FlowsOn
    <2>8. ASSUME NEW qr \in procs'
          PROVE  /\ qr.got \in Holding({b, attempt'.inst})
                 /\ ~qr.own => qr.got \in Holding({b})
      <3>1. qr.got \in Holding({b, attempt'.inst})
        BY <1>1, <2>4, <2>7 DEF Good
      <3>2. ASSUME ~qr.own
            PROVE  qr.got \in Holding({b})
        <4>1. PICK pr \in procs : qr.own = pr.own /\ pr.got \subseteq qr.got
          BY <3>2, Provenance
        <4>2. pr.got \in Holding({b}) /\ qr.got \in SUBSET Origin
          BY <1>3, <2>2, <3>2, <4>1 DEF Traced
        <4> QED BY <4>1, <4>2, HoldingMore
      <3> QED BY <3>1, <3>2
    <2>9. ASSUME attempt'.phase = "compare"
          PROVE  /\ OfOneInstance(attempt'.verified)
                 /\ attempt'.verified \in Holding({b, attempt.inst})
                 /\ \/ files'[<<"public">>] = attempt'.verified
                    \/ files'[<<"public">>] \in Holding({b})
      <3>1. files[<<"public">>] \in Holding({b, attempt.inst}) \/ attempt.phase = "compare"
        <4>1. Verify => files[<<"public">>] \in good
          BY <2>6, FlowsOnResult
        <4> QED BY <2>4, <2>9, <4>1, Outcomes
      <3> QED BY <2>2, <2>3, <2>9, <3>1, ResultsTraced
    <2>10. Traced(b)'
      <3>1. faults' = 0 => b = attempt'.inst
        BY <1>1, <1>3, <2>2 DEF Traced
      <3>2. Flows(Holding({b, attempt.inst}))'
        BY <1>1, <2>4, <2>7 DEF Flows
      <3>3. attempt'.phase = "compare" =>
              /\ OfOneInstance(attempt.verified)'
              /\ attempt'.verified \in Holding({b, attempt'.inst})
              /\ \/ files'[<<"public">>] = attempt'.verified
                 \/ files'[<<"public">>] \in Holding({b})
        BY <1>1, <2>9 DEF OfOneInstance
      <3> QED BY <2>8, <3>1, <3>2, <3>3 DEF Traced
    <2>11. AcceptedIsExpected'
      <3> SUFFICES ASSUME attempt'.phase = "accepted"
                   PROVE  /\ attempt'.verified # {}
                          /\ \A o \in attempt'.verified :
                               Compared(o.inst)' = Compared(attempt.inst)'
        BY DEF AcceptedIsExpected
      <3>1. /\ attempt.verified # {}
            /\ \A o \in attempt.verified : Compared(o.inst) = Compared(attempt.inst)
        <4>1. CASE attempt.phase = "accepted"
          BY <2>1, <4>1 DEF Binding, AcceptedIsExpected
        <4>2. CASE Compare /\ MayMatch(files[<<"public">>])
          <5>1. attempt.phase = "compare"
            BY <4>2 DEF Compare
          <5> QED BY <2>2, <4>2, <5>1, ComparedMatches
        <4> QED BY <4>1, <4>2, Outcomes
      <3>2. attempt'.verified = attempt.verified
        BY Outcomes
      <3> QED BY <1>1, <3>1, <3>2 DEF Compared
    <2> QED BY <2>10, <2>11
  <1>6. CASE faults' > 1
    BY <1>3, <1>4, <1>6 DEF Binding, AcceptedIsExpected
  <1> QED BY <1>3, <1>4, <1>5, <1>6 DEF Binding

\* A trace of what every file and process was made for is kept.
LEMMA BindingInvariant == Spec => []Binding
  <1>1. Init => Binding
    <2> SUFFICES ASSUME Init PROVE Binding
      OBVIOUS
    <2>1. procs = {} /\ attempt.phase = "none" /\ attempt.inst = NoInstance
      BY DEF Init, Idle
    <2>2. Traced(NoInstance)
      BY <2>1 DEF Traced, Flows, Live
    <2> QED BY <2>1, <2>2 DEF Binding, AcceptedIsExpected
  <1>2. Typed /\ Binding /\ [Next]_vars => Binding'
    BY StartTraced, KillTraced, AttemptTraced DEF Next, DriverNext, AttemptStep
  <1> QED BY TypedInvariant, <1>1, <1>2, PTL DEF Spec

\* Whatever one failed process, or the survivors of one killed attempt, write at
\* whatever moment into the directory of the attempts that follow: the pair of
\* files that is verified, and after it compared, is about what the driver
\* expects.
THEOREM AcceptedIsAlwaysExpected == Spec => []AcceptedIsExpected
  <1>1. Binding => AcceptedIsExpected
    BY DEF Binding
  <1> QED BY BindingInvariant, <1>1, PTL

-----------------------------------------------------------------------------
(* The circuit combines the nonce of the single prover's witness.           *)

\* The share at x of a line, in Horner's form.
LEMMA LineShare ==
  ASSUME NEW id, NEW x, NEW c0, NEW c1, NoncePoly[id] = <<c0, c1>>
  PROVE  Share(id, x) = (c0 + x * ((c1 + x * 0) % FieldOrder)) % FieldOrder
  <1> DEFINE op(c, acc) == (c + x * acc) % FieldOrder
             D == {1, 2}
             seq == NoncePoly[id]
             fold(g) == [s \in SUBSET D |-> IF s = {} THEN 0
                                            ELSE op(seq[Min(s)], g[s \ {Min(s)}])]
             last == op(c1, 0)
             h == [s \in SUBSET D |-> IF s = {} THEN 0
                                      ELSE IF s = {2} THEN last
                                      ELSE IF s = {1} THEN op(c0, 0)
                                      ELSE op(c0, last)]
             it == CHOOSE g : g = fold(g)
  <1>1. DOMAIN seq = D /\ seq[1] = c0 /\ seq[2] = c1
    OBVIOUS
  <1>2. Share(id, x) = it[D]
    BY <1>1 DEF Share, FoldRight, MapThenFoldSet
  <1>3. Min({1}) = 1 /\ Min({2}) = 2 /\ Min({1, 2}) = 1
    BY DEF Min
  <1>4. SUBSET D = {{}, {1}, {2}, {1, 2}}
    <2>1. ASSUME NEW s \in SUBSET D
          PROVE  s \in {{}, {1}, {2}, {1, 2}}
      <3>1. s = {} \/ s = {1} \/ s = {2} \/ s = {1, 2}
        OBVIOUS
      <3> QED BY <3>1
    <2> QED BY <2>1
  <1>5. {1} # {2} /\ {1} # {} /\ {2} # {} /\ {1, 2} # {} /\ {1, 2} # {1} /\ {1, 2} # {2}
    OBVIOUS
  <1>6. {1} \ {1} = {} /\ {2} \ {2} = {} /\ {1, 2} \ {1} = {2}
    OBVIOUS
  <1> HIDE DEF op, seq, D
  <1>7. h = fold(h)
    <2>1. ASSUME NEW s \in SUBSET D
          PROVE  h[s] = fold(h)[s]
      <3>1. CASE s = {}
        BY <3>1
      <3>2. CASE s = {1}
        <4>1. h[{}] = 0
          BY <1>4
        <4> QED BY <1>1, <1>3, <1>5, <1>6, <3>2, <4>1
      <3>3. CASE s = {2}
        <4>1. h[{}] = 0
          BY <1>4
        <4> QED BY <1>1, <1>3, <1>5, <1>6, <3>3, <4>1
      <3>4. CASE s = {1, 2}
        <4>1. h[{2}] = last
          BY <1>4, <1>5
        <4> QED BY <1>1, <1>3, <1>5, <1>6, <3>4, <4>1
      <3> QED BY <1>4, <3>1, <3>2, <3>3, <3>4
    <2>2. h = [s \in SUBSET D |-> h[s]] /\ fold(h) = [s \in SUBSET D |-> fold(h)[s]]
      OBVIOUS
    <2> HIDE DEF h, fold
    <2> QED BY <2>1, <2>2, Zenon
  <1>8. it = fold(it)
    <2> HIDE DEF fold, h
    <2> QED BY <1>7
  <1> HIDE DEF it
  <1>9. it[{}] = 0
    BY <1>4, <1>8
  <1>10. it[{2}] = last
    <2>1. it[{2}] = op(seq[Min({2})], it[{2} \ {Min({2})}])
      BY <1>4, <1>5, <1>8
    <2> QED BY <1>1, <1>3, <1>6, <1>9, <2>1
  <1>11. it[{1, 2}] = op(c0, last)
    <2>1. it[{1, 2}] = op(seq[Min({1, 2})], it[{1, 2} \ {Min({1, 2})}])
      BY <1>4, <1>5, <1>8
    <2> QED BY <1>1, <1>3, <1>6, <1>10, <2>1
  <1> QED BY <1>2, <1>11 DEF D, op

\* A remainder, from a multiple that is known.
LEMMA Remainder ==
  ASSUME NEW q \in Nat \ {0}, NEW x \in Int, NEW r \in 0..(q - 1),
         x = r \/ x = r + q \/ x = r + 2 * q \/ x = r - q \/ x = r - 2 * q
  PROVE  x % q = r
  OBVIOUS

\* zk/tier3.rs LagrangeCombineT2: the shares at 1 and 2 of a line combine to its
\* value at 0.
LEMMA SharesCombine ==
  ASSUME NonceShares >= 2, NEW id \in 0..(NumVoters - 1), Len(NoncePoly[id]) = 2
  PROVE  Combine(SharesOf(id)) = REa(id)
  <1> DEFINE q == FieldOrder
             a == NoncePoly[id][1]
             b == NoncePoly[id][2]
  <1>1. q \in Nat \ {0} /\ NumVoters \in Nat /\ NoncePoly[id] \in Seq(0..(q - 1))
    BY SharesAssumption
  <1>2. a \in 0..(q - 1) /\ b \in 0..(q - 1) /\ NoncePoly[id] = <<a, b>>
    BY <1>1
  <1> HIDE DEF a, b, q
  <1>3. /\ Share(id, 1) = (a + 1 * ((b + 1 * 0) % q)) % q
        /\ Share(id, 2) = (a + 2 * ((b + 2 * 0) % q)) % q
    BY <1>2, LineShare DEF q
  <1>4. b + 1 * 0 = b /\ b + 2 * 0 = b /\ b % q = b
    BY <1>1, <1>2, Remainder
  <1> DEFINE u == IF a + b < q THEN a + b ELSE a + b - q
             v == IF a + 2 * b < q THEN a + 2 * b
                  ELSE IF a + 2 * b < 2 * q THEN a + 2 * b - q ELSE a + 2 * b - 2 * q
  <1>5. u \in 0..(q - 1) /\ v \in 0..(q - 1)
    BY <1>1, <1>2
  <1>6. /\ a + 1 * b \in Int /\ (a + 1 * b = u \/ a + 1 * b = u + q)
        /\ a + 2 * b \in Int
        /\ a + 2 * b = v \/ a + 2 * b = v + q \/ a + 2 * b = v + 2 * q
    BY <1>1, <1>2
  <1>7. /\ 2 * u - v \in Int
        /\ \/ 2 * u - v = a \/ 2 * u - v = a + q \/ 2 * u - v = a + 2 * q
           \/ 2 * u - v = a - q \/ 2 * u - v = a - 2 * q
    BY <1>1, <1>2, <1>5
  <1> HIDE DEF u, v
  <1>8. (a + 1 * b) % q = u /\ (a + 2 * b) % q = v
    BY ONLY <1>1, <1>5, <1>6, Remainder
  <1>9. (2 * u - v) % q = a
    BY ONLY <1>1, <1>2, <1>7, Remainder
  <1>10. SharesOf(id) = <<u, v>>
    BY <1>1, <1>3, <1>4, <1>8 DEF SharesOf
  <1> QED BY <1>9, <1>10 DEF Combine, REa, q, a

\* Where nobody is claimed, and in padding slots, both provers use 0.
LEMMA NobodysShares ==
  ASSUME NEW id \in Nat, ~(id < NumVoters)
  PROVE  Combine(SharesOf(id)) = 0 /\ Combine(<<0, 0>>) = 0
  <1>1. 0 % FieldOrder = 0
    BY SharesAssumption
  <1> QED BY <1>1 DEF Combine, SharesOf

\* An attempt that is under way, or was, had all its inputs built.
Provided ==
  attempt.phase \notin {"none", "unbuilt"} =>
    mode \in Mode /\ attempt.inst \in Instance /\ Providable(mode, attempt.inst)

\* Only the start of an attempt changes its mode or instance.
LEMMA ProvidedStaysSo ==
  ASSUME Typed, Provided, [Next]_vars
  PROVE  Provided'
  <1>1. ASSUME mode' = mode, attempt'.inst = attempt.inst,
               attempt.phase \notin {"none", "unbuilt"} \/ attempt'.phase = attempt.phase
        PROVE  Provided'
    BY <1>1 DEF Provided, Providable
  <1>2. ASSUME NEW m \in Mode, NEW inst \in Instance, StartAttempt(m, inst)
        PROVE  Provided'
    <2>1. /\ attempt'.phase = IF Providable(m, inst) THEN "stage" ELSE "unbuilt"
          /\ attempt'.inst = inst /\ mode' = m
      BY <1>2 DEF StartAttempt, Idle
    <2>2. Providable(m, inst) => Providable(mode', attempt'.inst)
      BY <2>1
    <2> QED BY <2>1, <2>2 DEF Provided, Providable
  <1>3. CASE BeginStage \/ Verify \/ Compare
    <2>1. /\ attempt'.inst = attempt.inst /\ mode' = mode
          /\ attempt.phase \in {"stage", "verify", "compare"}
      BY <1>3, Fields DEF BeginStage, Verify, Compare
    <2> QED BY <1>1, <2>1
  <1>4. CASE EndStage
    <2>1. attempt'.inst = attempt.inst /\ mode' = mode /\ attempt.phase = "waiting"
      BY <1>4, Fields DEF EndStage, Idle
    <2> QED BY <1>1, <2>1
  <1>5. CASE Kill
    <2>1. attempt'.inst = attempt.inst /\ mode' = mode /\ attempt.phase \notin {"none", "unbuilt"}
      BY <1>5 DEF Kill, Idle, Ended
    <2> QED BY <1>1, <2>1
  <1>6. ASSUME NEW pr \in procs, WriteOutput(pr) \/ GiveUp(pr) \/ KillHung(pr) \/ Fail(pr)
        PROVE  Provided'
    <2>1. attempt'.inst = attempt.inst /\ mode' = mode /\ attempt'.phase = attempt.phase
      BY <1>6, Fields DEF WriteOutput, GiveUp, KillHung, Fail
    <2> QED BY <1>1, <2>1
  <1>7. ASSUME NEW session \in SUBSET {pr \in procs : pr.phase = "waiting"},
               Join(session) \/ BreakDown(session)
        PROVE  Provided'
    <2>1. attempt'.inst = attempt.inst /\ mode' = mode /\ attempt'.phase = attempt.phase
      BY <1>7, Fields DEF Join, BreakDown
    <2> QED BY <1>1, <2>1
  <1>8. CASE UNCHANGED vars
    BY <1>1, <1>8 DEF vars
  <1> QED BY <1>2, <1>3, <1>4, <1>5, <1>6, <1>7, <1>8 DEF Next, DriverNext, ProcessNext

\* zk/tier3.rs:72-76 "so the MPC computes exactly the same witness": when the
\* nonces are shared with threshold 2, as LagrangeCombineT2 takes them to be,
\* every attempt of either driver combines the nonces of the witness, in every
\* slot, for boards and circuits of any size.
THEOREM SameNoncesAlways ==
  ASSUME NonceShares >= 2, \A id \in 0..(NumVoters - 1) : Len(NoncePoly[id]) = 2
  PROVE  Spec => []SameNonces
  <1>1. Init => Provided
    BY DEF Init, Provided, Idle
  <1>2. Typed /\ Provided /\ [Next]_vars => Provided'
    BY ProvidedStaysSo
  <1>3. Provided => SameNonces
    <2> SUFFICES ASSUME Provided, attempt.phase \notin {"none", "unbuilt"}
                 PROVE  SameNonces
      BY DEF SameNonces
    <2> DEFINE board == attempt.inst.board
    <2>1. board \in Seq(Nat) /\ Providable(mode, attempt.inst)
      BY Tier3Bounds DEF Provided
    <2>2. CASE mode = "chunk"
      BY <2>1, <2>2 DEF SameNonces, Providable, ChunkProvidable, ChunkShares
    <2>3. CASE mode # "chunk"
      <3> SUFFICES ASSUME NEW j \in 0..(Slots - 1)
                   PROVE  Combine(FullShares(board, Slots)[j]) = WitnessNonce(board, j)
        BY <2>3 DEF SameNonces, FullShares
      <3>1. FullShares(board, Slots)[j]
              = IF j < Len(board) THEN SharesOf(board[j + 1]) ELSE <<0, 0>>
        BY DEF FullShares
      <3>2. CASE j < Len(board)
        <4>1. board[j + 1] \in Nat
          BY <2>1, <3>2, Tier3Bounds
        <4>2. CASE board[j + 1] < NumVoters
          <5>1. board[j + 1] \in 0..(NumVoters - 1)
            BY <4>1, <4>2, SharesAssumption
          <5>2. Combine(SharesOf(board[j + 1])) = REa(board[j + 1])
            BY <5>1, SharesCombine
          <5> QED BY <3>1, <3>2, <4>2, <5>2 DEF WitnessNonce
        <4>3. CASE ~(board[j + 1] < NumVoters)
          <5>1. Combine(SharesOf(board[j + 1])) = 0
            BY <4>1, <4>3, NobodysShares
          <5> QED BY <3>1, <3>2, <4>3, <5>1 DEF WitnessNonce
        <4> QED BY <4>2, <4>3
      <3>3. CASE ~(j < Len(board))
        <4>1. Combine(<<0, 0>>) = 0
          <5>1. NumVoters \in Nat /\ ~(NumVoters < NumVoters)
            BY SharesAssumption
          <5> QED BY <5>1, NobodysShares
        <4> QED BY <3>1, <3>3, <4>1 DEF WitnessNonce
      <3> QED BY <3>2, <3>3
    <2> QED BY <2>2, <2>3
  <1> QED BY TypedInvariant, <1>1, <1>2, <1>3, PTL DEF Spec
=============================================================================
