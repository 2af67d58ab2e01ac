-------------------------- MODULE AdmissionProofs --------------------------
(***************************************************************************)
(* Admission for any number of ballots, submissions and crashes.  With any  *)
(* number of shells and both paths mixed the directory stays well typed.    *)
(* With one shell and one path: what Clean keeps of a growing raw board     *)
(* only grows at its end; a torn pair of files is refused and never opened; *)
(* the admitted board of Path 1 is Clean of an earlier raw board; the       *)
(* channel loses nothing; no receipt holder can have the EA ruled faulty;   *)
(* and admission implements the write-once cells of FirstValidCounts.       *)
(***************************************************************************)
EXTENDS Admission, TallyProofs

-----------------------------------------------------------------------------
(* Clean.                                                                   *)

\* Of n positions the k-th is one that k of them do not exceed, and only one is.
LEMMA NthIsOne ==
  ASSUME NEW n \in Nat, NEW S \in SUBSET (1..n)
  PROVE  /\ IsFiniteSet(S) /\ Cardinality(S) \in Nat
         /\ \A k \in 1..Cardinality(S) :
              NthOf(S, k) \in S /\ Cardinality(UpTo(S, NthOf(S, k))) = k
         /\ \A i, h \in S :
              Cardinality(UpTo(S, i)) = Cardinality(UpTo(S, h)) => i = h
  <1> DEFINE c == Cardinality(S)
  <1>1. IsFiniteSet(1..n) /\ Cardinality(1..n) = n
    BY FS_Interval
  <1>2. IsFiniteSet(S) /\ c \in Nat
    <2>1. IsFiniteSet(S) /\ c <= n
      BY <1>1, FS_Subset
    <2> QED BY <2>1, FS_CardinalityType
  <1>3. ASSUME NEW i \in S
        PROVE  IsFiniteSet(UpTo(S, i)) /\ Cardinality(UpTo(S, i)) \in 1..c
    <2>1. UpTo(S, i) \in SUBSET S /\ i \in UpTo(S, i)
      BY DEF UpTo
    <2>2. IsFiniteSet(UpTo(S, i)) /\ Cardinality(UpTo(S, i)) <= c
      BY <1>2, <2>1, FS_Subset
    <2>3. Cardinality(UpTo(S, i)) \in Nat /\ Cardinality(UpTo(S, i)) # 0
      BY <2>1, <2>2, FS_CardinalityType, FS_EmptySet
    <2> QED BY <1>2, <2>2, <2>3
  <1>4. ASSUME NEW i \in S, NEW h \in S, i < h
        PROVE  Cardinality(UpTo(S, i)) # Cardinality(UpTo(S, h))
    <2>1. UpTo(S, i) \in SUBSET UpTo(S, h) /\ h \in UpTo(S, h) /\ h \notin UpTo(S, i)
      <3>1. S \subseteq Int /\ i \in Int /\ h \in Int
        OBVIOUS
      <3>2. \A j \in S : j <= i => j <= h
        BY <1>4, <3>1
      <3>3. h <= h /\ ~(h <= i)
        BY <1>4, <3>1
      <3> QED BY <3>2, <3>3, Zenon DEF UpTo
    <2> QED BY <1>3, <2>1, FS_Subset
  <1>5. \A i, h \in S : Cardinality(UpTo(S, i)) = Cardinality(UpTo(S, h)) => i = h
    <2> QED BY <1>4
  <1> DEFINE rank == [i \in S |-> Cardinality(UpTo(S, i))]
  <1>6. rank \in [S -> 1..c] /\ \A i, h \in S : rank[i] = rank[h] => i = h
    <2> QED BY <1>3, <1>5
  <1>7. rank \in Surjection(S, 1..c)
    <2>1. rank \in Injection(S, 1..c)
      <3> HIDE DEF rank
      <3> QED BY <1>6 DEF Injection, IsInjective
    <2>2. IsFiniteSet(1..c) /\ Cardinality(1..c) = c
      BY <1>2, FS_Interval
    <2> HIDE DEF rank
    <2> QED BY <1>2, <2>1, <2>2, FS_Injection
  <1>8. ASSUME NEW k \in 1..c
        PROVE  NthOf(S, k) \in S /\ Cardinality(UpTo(S, NthOf(S, k))) = k
    <2>1. \E i \in S : rank[i] = k
      <3> HIDE DEF rank
      <3> QED BY <1>7 DEF Surjection
    <2>2. \E i \in S : Cardinality(UpTo(S, i)) = k
      BY <2>1
    <2>3. NthOf(S, k) = CHOOSE i \in S : Cardinality(UpTo(S, i)) = k
      BY DEF NthOf
    <2> QED BY <2>2, <2>3
  <1> QED BY <1>2, <1>5, <1>8

\* The k-th of the positions that do not exceed m is the k-th of all of them.
LEMMA NthOfFirst ==
  ASSUME NEW n \in Nat, NEW S \in SUBSET (1..n), NEW m \in Nat,
         NEW F \in SUBSET S, \A i \in S : i \in F <=> i <= m
  PROVE  /\ Cardinality(F) <= Cardinality(S)
         /\ \A k \in 1..Cardinality(F) : NthOf(F, k) = NthOf(S, k)
  <1>1. F \in SUBSET (1..n) /\ S \subseteq Int /\ F \subseteq Int
    OBVIOUS
  <1>2. /\ IsFiniteSet(S) /\ Cardinality(S) \in Nat
        /\ \A k \in 1..Cardinality(S) :
             NthOf(S, k) \in S /\ Cardinality(UpTo(S, NthOf(S, k))) = k
        /\ \A i, h \in S :
             Cardinality(UpTo(S, i)) = Cardinality(UpTo(S, h)) => i = h
    BY NthIsOne, Zenon
  <1>3. /\ Cardinality(F) \in Nat
        /\ \A k \in 1..Cardinality(F) :
             NthOf(F, k) \in F /\ Cardinality(UpTo(F, NthOf(F, k))) = k
    BY <1>1, NthIsOne
  <1>4. Cardinality(F) <= Cardinality(S)
    BY <1>1, <1>2, FS_Subset
  <1>5. ASSUME NEW k \in 1..Cardinality(F)
        PROVE  NthOf(F, k) = NthOf(S, k)
    <2> DEFINE i == NthOf(F, k)
               h == NthOf(S, k)
    <2>1. i \in S /\ i <= m /\ Cardinality(UpTo(F, i)) = k
      BY <1>3
    <2>2. h \in S /\ Cardinality(UpTo(S, h)) = k
      BY <1>2, <1>3, <1>4
    <2> HIDE DEF i, h
    <2>3. UpTo(F, i) = UpTo(S, i)
      <3>1. \A j \in S : j <= i => j \in F
        <4>1. i \in Int
          BY <1>1, <2>1
        <4> QED BY <1>1, <2>1, <4>1
      <3> QED BY <3>1, Zenon DEF UpTo
    <2>4. i = h
      BY <1>2, <2>1, <2>2, <2>3, Zenon
    <2> QED BY <2>4 DEF i, h
  <1> QED BY <1>4, <1>5

\* Clean of the first n entries and proofs.
CleanUpTo(raw, pis, n) == Clean(SubSeq(raw, 1, n), SubSeq(pis, 1, n))

\* a is the beginning of b.
Begins(a, b) == Len(a) <= Len(b) /\ \A i \in 1..Len(a) : b[i] = a[i]

\* Clean of a beginning keeps the positions that are kept of it, in their order.
LEMMA CleanOfFirst ==
  ASSUME NEW raw \in Seq(Com), NEW pis \in Seq(Proof), NEW n \in Nat,
         n <= Len(raw), n <= Len(pis),
         NEW S, S = {i \in 1..n : Verifies(raw, pis, i)}
  PROVE  /\ CleanUpTo(raw, pis, n) = [k \in 1..Cardinality(S) |-> raw[NthOf(S, k)]]
         /\ CleanUpTo(raw, pis, n) \in Seq(Com)
         /\ Len(CleanUpTo(raw, pis, n)) = Cardinality(S)
  <1> DEFINE r == SubSeq(raw, 1, n)
             p == SubSeq(pis, 1, n)
  <1>1. /\ r \in Seq(Com) /\ DOMAIN r = 1..n /\ \A i \in 1..n : r[i] = raw[i]
        /\ \A i \in 1..n : p[i] = pis[i]
    BY SubSeqProperties
  <1> HIDE DEF r, p
  <1>2. Kept(r, p) = S
    BY <1>1 DEF Kept, Verifies
  <1>3. /\ S \in SUBSET (1..n) /\ Cardinality(S) \in Nat
        /\ \A k \in 1..Cardinality(S) : NthOf(S, k) \in S
    <2>1. S \in SUBSET (1..n)
      OBVIOUS
    <2> QED BY <2>1, NthIsOne
  <1>4. CleanUpTo(raw, pis, n) = [k \in 1..Cardinality(S) |-> r[NthOf(S, k)]]
    BY <1>2 DEF CleanUpTo, Clean, r, p
  <1>5. \A k \in 1..Cardinality(S) : r[NthOf(S, k)] = raw[NthOf(S, k)] /\ raw[NthOf(S, k)] \in Com
    BY <1>1, <1>3
  <1>6. CleanUpTo(raw, pis, n) = [k \in 1..Cardinality(S) |-> raw[NthOf(S, k)]]
    BY <1>4, <1>5
  <1>7. [k \in 1..Cardinality(S) |-> raw[NthOf(S, k)]] \in Seq(Com)
    <2> DEFINE f == [k \in 1..Cardinality(S) |-> raw[NthOf(S, k)]]
    <2>1. f \in [1..Cardinality(S) -> Com]
      BY <1>5
    <2> HIDE DEF f
    <2>2. f \in Seq(Com)
      BY <1>3, <2>1
    <2> QED BY <2>2 DEF f
  <1> QED BY <1>3, <1>6, <1>7, LenProperties

\* What Clean keeps of a beginning is a sequence of commitments; of nothing,
\* nothing.
LEMMA CleanTyped ==
  ASSUME NEW raw \in Seq(Com), NEW pis \in Seq(Proof), NEW n \in Nat,
         n <= Len(raw), n <= Len(pis)
  PROVE  /\ CleanUpTo(raw, pis, n) \in Seq(Com)
         /\ Len(CleanUpTo(raw, pis, n)) <= n
         /\ n = 0 => CleanUpTo(raw, pis, n) = <<>>
  <1>1. PICK S : S = {i \in 1..n : Verifies(raw, pis, i)}
    OBVIOUS
  <1>2. CleanUpTo(raw, pis, n) \in Seq(Com) /\ Len(CleanUpTo(raw, pis, n)) = Cardinality(S)
    BY <1>1, CleanOfFirst
  <1>3. Cardinality(S) <= n
    <2>1. S \in SUBSET (1..n) /\ IsFiniteSet(1..n) /\ Cardinality(1..n) = n
      BY <1>1, FS_Interval
    <2> QED BY <2>1, FS_Subset
  <1>4. ASSUME n = 0
        PROVE  CleanUpTo(raw, pis, n) = <<>>
    <2>1. Len(CleanUpTo(raw, pis, n)) = 0
      BY <1>2, <1>3, <1>4, LenProperties
    <2> QED BY <1>2, <2>1, EmptySeq
  <1> QED BY <1>2, <1>3, <1>4

\* What Clean keeps of a raw board begins with what it keeps of its beginning.
LEMMA CleanGrows ==
  ASSUME NEW raw \in Seq(Com), NEW pis \in Seq(Proof), NEW m \in Nat, NEW n \in Nat,
         m <= n, n <= Len(raw), n <= Len(pis)
  PROVE  Begins(CleanUpTo(raw, pis, m), CleanUpTo(raw, pis, n))
  <1> DEFINE S == {i \in 1..n : Verifies(raw, pis, i)}
             F == {i \in 1..m : Verifies(raw, pis, i)}
  <1>1. m <= Len(raw) /\ m <= Len(pis)
    BY LenProperties
  <1>2. F \in SUBSET S /\ S \in SUBSET (1..n) /\ \A i \in S : i \in F <=> i <= m
    OBVIOUS
  <1>3. /\ Cardinality(F) <= Cardinality(S)
        /\ \A k \in 1..Cardinality(F) : NthOf(F, k) = NthOf(S, k)
    <2> HIDE DEF S, F
    <2> QED BY <1>2, NthOfFirst
  <1>4. /\ CleanUpTo(raw, pis, m) = [k \in 1..Cardinality(F) |-> raw[NthOf(F, k)]]
        /\ Len(CleanUpTo(raw, pis, m)) = Cardinality(F)
    BY <1>1, CleanOfFirst
  <1>5. /\ CleanUpTo(raw, pis, n) = [k \in 1..Cardinality(S) |-> raw[NthOf(S, k)]]
        /\ Len(CleanUpTo(raw, pis, n)) = Cardinality(S)
    BY CleanOfFirst
  <1>6. Cardinality(F) \in Nat /\ Cardinality(S) \in Nat
    BY NthIsOne
  <1> HIDE DEF S, F
  <1> QED BY <1>3, <1>4, <1>5, <1>6 DEF Begins

\* Entries and proofs appended to a raw board do not change what is kept of its
\* beginning.
LEMMA CleanOfLonger ==
  ASSUME NEW raw \in Seq(Com), NEW pis \in Seq(Proof),
         NEW raw1 \in Seq(Com), NEW pis1 \in Seq(Proof),
         NEW n \in Nat, n <= Len(raw), n <= Len(pis), Begins(raw, raw1), Begins(pis, pis1)
  PROVE  /\ n <= Len(raw1) /\ n <= Len(pis1)
         /\ CleanUpTo(raw1, pis1, n) = CleanUpTo(raw, pis, n)
  <1>1. /\ Len(raw) \in Nat /\ Len(pis) \in Nat /\ Len(raw1) \in Nat /\ Len(pis1) \in Nat
        /\ Len(raw) <= Len(raw1) /\ Len(pis) <= Len(pis1)
        /\ \A i \in 1..n : raw1[i] = raw[i] /\ pis1[i] = pis[i]
    BY LenProperties DEF Begins
  <1>2. n <= Len(raw1) /\ n <= Len(pis1)
    BY <1>1
  <1>3. SubSeq(raw1, 1, n) = SubSeq(raw, 1, n) /\ SubSeq(pis1, 1, n) = SubSeq(pis, 1, n)
    BY <1>1, <1>2, SubSeqProperties
  <1> QED BY <1>2, <1>3 DEF CleanUpTo

\* Clean of a board as long as its proofs is Clean of all its entries.
LEMMA CleanOfAll ==
  ASSUME NEW raw \in Seq(Com), NEW pis \in Seq(Proof), Len(raw) = Len(pis)
  PROVE  Clean(raw, pis) = CleanUpTo(raw, pis, Len(raw))
  <1>1. SubSeq(raw, 1, Len(raw)) = raw /\ SubSeq(pis, 1, Len(raw)) = pis
    BY LenProperties, SubSeqProperties
  <1> QED BY <1>1 DEF CleanUpTo

-----------------------------------------------------------------------------
(* Well-typed files, with any number of shells and both paths mixed.        *)

\* A command that runs has a file left to write.
JobsRun ==
  \A p \in Terminal :
    job[p] # Idle => job[p].cmd \in Command /\ job[p].done < Len(WriteOrder[job[p].cmd])

Typed == TypeOK /\ JobsRun

\* The empty output and the idle job are typed.
LEMMA IdleTyped == Nothing \in Output /\ Idle \in Job
  BY DEF Nothing, Output, Idle, Job

\* The files of each command, in the order of its writes.
LEMMA Orders ==
  /\ Command = {"submit", "flush", "admit", "ea"}
  /\ Len(WriteOrder["submit"]) = 1 /\ WriteOrder["submit"][1] = "channel"
  /\ Len(WriteOrder["flush"]) = 3 /\ WriteOrder["flush"][1] = "board"
  /\ WriteOrder["flush"][2] = "proofs" /\ WriteOrder["flush"][3] = "channel"
  /\ Len(WriteOrder["admit"]) = 2 /\ WriteOrder["admit"][1] = "admitted"
  /\ WriteOrder["admit"][2] = "openings"
  /\ Len(WriteOrder["ea"]) = 3 /\ WriteOrder["ea"][1] = "admitted"
  /\ WriteOrder["ea"][2] = "openings" /\ WriteOrder["ea"][3] = "receipt"
  <1>1. /\ WriteOrder["submit"] = <<"channel">>
        /\ WriteOrder["flush"] = <<"board", "proofs", "channel">>
        /\ WriteOrder["admit"] = <<"admitted", "openings">>
        /\ WriteOrder["ea"] = <<"admitted", "openings", "receipt">>
    BY DEF WriteOrder
  <1>2. Command = {"submit", "flush", "admit", "ea"}
    BY DEF WriteOrder, Command
  <1> QED BY <1>1, <1>2

\* A command that starts leaves the files alone and has all of them to write.
LEMMA StartTyped ==
  ASSUME Typed, NEW p \in Terminal, NEW cmd \in Command, NEW out \in Output,
         Start(p, cmd, out)
  PROVE  /\ Typed'
         /\ UNCHANGED <<files, crashes>>
         /\ job[p] = Idle
         /\ \A q \in Terminal : q # p => job'[q] = job[q]
         /\ job'[p] = [cmd |-> cmd, done |-> 0, out |-> out]
  <1>1. [cmd |-> cmd, done |-> 0, out |-> out] \in Job
    BY DEF Job
  <1>2. /\ job' \in [Terminal -> Job] /\ UNCHANGED <<files, crashes>> /\ job[p] = Idle
        /\ \A q \in Terminal : q # p => job'[q] = job[q]
        /\ job'[p] = [cmd |-> cmd, done |-> 0, out |-> out]
    BY <1>1 DEF Start, Typed, TypeOK
  <1>3. 0 < Len(WriteOrder[cmd])
    BY Orders
  <1>4. TypeOK'
    BY <1>2 DEF Typed, TypeOK, files
  <1>5. JobsRun'
    BY <1>2, <1>3 DEF Typed, JobsRun
  <1> QED BY <1>2, <1>4, <1>5 DEF Typed

\* A crash leaves the files alone and the shell idle.
LEMMA CrashTyped ==
  ASSUME Typed, NEW p \in Terminal, Crash(p)
  PROVE  /\ Typed'
         /\ UNCHANGED files
         /\ crashes' = crashes + 1 /\ crashes' # 0
         /\ \A q \in Terminal : q # p => job'[q] = job[q]
         /\ job'[p] = Idle
  <1>1. /\ job' \in [Terminal -> Job] /\ UNCHANGED files
        /\ \A q \in Terminal : q # p => job'[q] = job[q]
        /\ job'[p] = Idle
    BY IdleTyped DEF Crash, Typed, TypeOK
  <1>2. crashes' = crashes + 1 /\ crashes' \in 0..MaxCrashes /\ crashes' # 0
    BY BoundsAssumption DEF Crash, Typed, TypeOK
  <1>3. TypeOK'
    BY <1>1, <1>2 DEF Typed, TypeOK, files
  <1>4. JobsRun'
    BY <1>1 DEF Typed, JobsRun
  <1> QED BY <1>1, <1>2, <1>3, <1>4 DEF Typed

\* What a write does to the job, and that each command's files are written in
\* its order.
LEMMA JobAdvances ==
  ASSUME Typed, NEW p \in Terminal, WriteFile(p)
  PROVE  /\ job[p] \in Job /\ job[p] # Idle
         /\ \A q \in Terminal : q # p => job'[q] = job[q]
         /\ job' \in [Terminal -> Job] /\ JobsRun'
         /\ crashes' = crashes
         /\ \/ /\ job[p].cmd = "submit" /\ job[p].done = 0
               /\ NextFile(p) = "channel" /\ job'[p] = Idle
            \/ /\ job[p].cmd = "flush" /\ job[p].done = 0
               /\ NextFile(p) = "board" /\ job'[p] = [job[p] EXCEPT !.done = 1]
            \/ /\ job[p].cmd = "flush" /\ job[p].done = 1
               /\ NextFile(p) = "proofs" /\ job'[p] = [job[p] EXCEPT !.done = 2]
            \/ /\ job[p].cmd = "flush" /\ job[p].done = 2
               /\ NextFile(p) = "channel" /\ job'[p] = Idle
            \/ /\ job[p].cmd = "admit" /\ job[p].done = 0
               /\ NextFile(p) = "admitted" /\ job'[p] = [job[p] EXCEPT !.done = 1]
            \/ /\ job[p].cmd = "admit" /\ job[p].done = 1
               /\ NextFile(p) = "openings" /\ job'[p] = Idle
            \/ /\ job[p].cmd = "ea" /\ job[p].done = 0
               /\ NextFile(p) = "admitted" /\ job'[p] = [job[p] EXCEPT !.done = 1]
            \/ /\ job[p].cmd = "ea" /\ job[p].done = 1
               /\ NextFile(p) = "openings" /\ job'[p] = [job[p] EXCEPT !.done = 2]
            \/ /\ job[p].cmd = "ea" /\ job[p].done = 2
               /\ NextFile(p) = "receipt" /\ job'[p] = Idle
  <1> DEFINE j == job[p]
  <1>1. /\ j \in Job /\ j # Idle /\ job \in [Terminal -> Job]
        /\ j.cmd \in Command /\ j.done < Len(WriteOrder[j.cmd]) /\ j.done \in 0..2
    BY DEF WriteFile, Typed, TypeOK, JobsRun, Job
  <1>2. job' = [job EXCEPT ![p] = Advance(j)] /\ crashes' = crashes
    BY DEF WriteFile
  <1>3. NextFile(p) = WriteOrder[j.cmd][j.done + 1]
    BY DEF NextFile
  <1>5. /\ Advance(j) \in Job
        /\ Advance(j) = Idle \/ (/\ Advance(j) = [j EXCEPT !.done = j.done + 1]
                                 /\ Advance(j).cmd = j.cmd
                                 /\ Advance(j).done < Len(WriteOrder[j.cmd]))
    <2>1. CASE j.done + 1 = Len(WriteOrder[j.cmd])
      BY <2>1, IdleTyped DEF Advance
    <2>2. CASE j.done + 1 # Len(WriteOrder[j.cmd])
      <3>1. Len(WriteOrder[j.cmd]) \in 1..3
        BY <1>1, Orders
      <3>2. Advance(j) = [j EXCEPT !.done = j.done + 1]
        BY <2>2 DEF Advance
      <3>3. j.done + 1 \in 0..2 /\ j.done + 1 < Len(WriteOrder[j.cmd])
        <4>1. \A d \in 0..2, l \in 1..3 :
                d < l /\ d + 1 # l => d + 1 \in 0..2 /\ d + 1 < l
          OBVIOUS
        <4> QED BY <1>1, <2>2, <3>1, <4>1, Zenon
      <3> QED BY <1>1, <3>2, <3>3 DEF Job
    <2> QED BY <2>1, <2>2
  <1>6. /\ job' \in [Terminal -> Job] /\ job'[p] = Advance(j)
        /\ \A q \in Terminal : q # p => job'[q] = job[q]
    BY <1>1, <1>2, <1>5
  <1>7. JobsRun'
    <2>1. Advance(j) # Idle => /\ Advance(j).cmd \in Command
                               /\ Advance(j).done < Len(WriteOrder[Advance(j).cmd])
      BY <1>1, <1>5
    <2> QED BY <1>6, <2>1 DEF Typed, JobsRun
  <1>8. Advance(j) = IF j.done + 1 = Len(WriteOrder[j.cmd])
                       THEN Idle ELSE [j EXCEPT !.done = j.done + 1]
    BY DEF Advance
  <1> HIDE DEF j
  <1>9. CASE j.cmd = "submit"
    <2>1. Len(WriteOrder[j.cmd]) = 1
      BY <1>9, Orders
    <2>2. j.done \in 0..0
      BY <1>1, <2>1
    <2>3. CASE j.done = 0
      <3>1. NextFile(p) = WriteOrder["submit"][1] /\ Advance(j) = Idle
        BY <1>3, <1>8, <1>9, <2>1, <2>3
      <3> QED BY <1>1, <1>2, <1>6, <1>7, <1>9, <2>3, <3>1, Orders DEF j
    <2> QED BY <2>2, <2>3
  <1>10. CASE j.cmd = "flush"
    <2>1. Len(WriteOrder[j.cmd]) = 3
      BY <1>10, Orders
    <2>2. j.done \in 0..2
      BY <1>1, <2>1
    <2>3. CASE j.done = 0
      <3>1. NextFile(p) = WriteOrder["flush"][1] /\ Advance(j) = [j EXCEPT !.done = 1]
        BY <1>3, <1>8, <1>10, <2>1, <2>3
      <3> QED BY <1>1, <1>2, <1>6, <1>7, <1>10, <2>3, <3>1, Orders DEF j
    <2>4. CASE j.done = 1
      <3>1. NextFile(p) = WriteOrder["flush"][2] /\ Advance(j) = [j EXCEPT !.done = 2]
        BY <1>3, <1>8, <1>10, <2>1, <2>4
      <3> QED BY <1>1, <1>2, <1>6, <1>7, <1>10, <2>4, <3>1, Orders DEF j
    <2>5. CASE j.done = 2
      <3>1. NextFile(p) = WriteOrder["flush"][3] /\ Advance(j) = Idle
        BY <1>3, <1>8, <1>10, <2>1, <2>5
      <3> QED BY <1>1, <1>2, <1>6, <1>7, <1>10, <2>5, <3>1, Orders DEF j
    <2> QED BY <2>2, <2>3, <2>4, <2>5
  <1>11. CASE j.cmd = "admit"
    <2>1. Len(WriteOrder[j.cmd]) = 2
      BY <1>11, Orders
    <2>2. j.done \in 0..1
      BY <1>1, <2>1
    <2>3. CASE j.done = 0
      <3>1. NextFile(p) = WriteOrder["admit"][1] /\ Advance(j) = [j EXCEPT !.done = 1]
        BY <1>3, <1>8, <1>11, <2>1, <2>3
      <3> QED BY <1>1, <1>2, <1>6, <1>7, <1>11, <2>3, <3>1, Orders DEF j
    <2>4. CASE j.done = 1
      <3>1. NextFile(p) = WriteOrder["admit"][2] /\ Advance(j) = Idle
        BY <1>3, <1>8, <1>11, <2>1, <2>4
      <3> QED BY <1>1, <1>2, <1>6, <1>7, <1>11, <2>4, <3>1, Orders DEF j
    <2> QED BY <2>2, <2>3, <2>4
  <1>12. CASE j.cmd = "ea"
    <2>1. Len(WriteOrder[j.cmd]) = 3
      BY <1>12, Orders
    <2>2. j.done \in 0..2
      BY <1>1, <2>1
    <2>3. CASE j.done = 0
      <3>1. NextFile(p) = WriteOrder["ea"][1] /\ Advance(j) = [j EXCEPT !.done = 1]
        BY <1>3, <1>8, <1>12, <2>1, <2>3
      <3> QED BY <1>1, <1>2, <1>6, <1>7, <1>12, <2>3, <3>1, Orders DEF j
    <2>4. CASE j.done = 1
      <3>1. NextFile(p) = WriteOrder["ea"][2] /\ Advance(j) = [j EXCEPT !.done = 2]
        BY <1>3, <1>8, <1>12, <2>1, <2>4
      <3> QED BY <1>1, <1>2, <1>6, <1>7, <1>12, <2>4, <3>1, Orders DEF j
    <2>5. CASE j.done = 2
      <3>1. NextFile(p) = WriteOrder["ea"][3] /\ Advance(j) = Idle
        BY <1>3, <1>8, <1>12, <2>1, <2>5
      <3> QED BY <1>1, <1>2, <1>6, <1>7, <1>12, <2>5, <3>1, Orders DEF j
    <2> QED BY <2>2, <2>3, <2>4, <2>5
  <1> QED BY <1>1, <1>9, <1>10, <1>11, <1>12, Orders

\* A release in random order is the channel in another order.
LEMMA ShuffleKeepsAll ==
  ASSUME NEW S, NEW s \in Seq(S), NEW subs \in Shuffles(s)
  PROVE  /\ subs \in Seq(S) /\ Len(subs) = Len(s)
         /\ DOMAIN subs = 1..Len(s)
         /\ Range(subs) = Range(s)
  <1>1. /\ Len(s) \in Nat /\ DOMAIN s = 1..Len(s)
        /\ \A i \in 1..Len(s) : s[i] \in S
    BY LenProperties, ElementOfSeq
  <1>2. PICK f \in [DOMAIN s -> DOMAIN s] :
          IsInjective(f) /\ subs = [i \in DOMAIN s |-> s[f[i]]]
    BY DEF Shuffles
  <1>3. /\ DOMAIN subs = 1..Len(s)
        /\ \A i \in 1..Len(s) : f[i] \in 1..Len(s) /\ subs[i] = s[f[i]]
    BY <1>1, <1>2
  <1>4. subs \in [1..Len(s) -> S]
    BY <1>1, <1>2, <1>3
  <1>5. subs \in Seq(S) /\ Len(subs) = Len(s)
    BY <1>1, <1>4, LenProperties
  <1>6. f \in Surjection(1..Len(s), 1..Len(s))
    <2>1. f \in Injection(1..Len(s), 1..Len(s))
      BY <1>1, <1>2 DEF Injection, IsInjective
    <2>2. IsFiniteSet(1..Len(s))
      BY <1>1, FS_Interval
    <2> QED BY <2>1, <2>2, FS_Injection
  <1>7. \A k \in 1..Len(s) : \E i \in 1..Len(s) : f[i] = k
    BY <1>6 DEF Surjection
  <1>8. Range(subs) \subseteq Range(s)
    BY <1>1, <1>3 DEF Range
  <1>9. Range(s) \subseteq Range(subs)
    <2> SUFFICES ASSUME NEW k \in 1..Len(s)
                 PROVE  \E i \in DOMAIN subs : subs[i] = s[k]
      BY <1>1 DEF Range
    <2>1. PICK i \in 1..Len(s) : f[i] = k
      BY <1>7
    <2>2. i \in DOMAIN subs /\ subs[i] = s[f[i]]
      BY <1>3
    <2> QED BY <2>1, <2>2
  <1> QED BY <1>3, <1>5, <1>8, <1>9

\* What submit has computed when it starts: one more submission, with the
\* proof of its commitment or none.
LEMMA SubmitStarts ==
  ASSUME Typed, NEW p \in Terminal, NEW com \in Com, NEW pi \in Proof, Submit(p, com, pi)
  PROVE  \E out \in Output, s \in Submission :
           /\ Start(p, "submit", out)
           /\ s.pi \in {s.entry, NoProof}
           /\ out.channel = Append(channel, s)
  <1> DEFINE s == [entry |-> com, pi |-> pi]
             out == [Nothing EXCEPT !.channel = Append(channel, s)]
  <1>1. s \in Submission /\ s.pi \in {s.entry, NoProof} /\ Start(p, "submit", out)
    BY DEF Submission, Submit
  <1>2. Append(channel, s) \in Seq(Submission)
    BY <1>1, AppendProperties DEF Typed, TypeOK
  <1>3. out \in Output /\ out.channel = Append(channel, s)
    BY <1>2, IdleTyped DEF Output
  <1> HIDE DEF s, out
  <1> QED BY <1>1, <1>3

\* What flush-channel has computed when it starts: the raw board and the proofs
\* with every pending submission behind them.
LEMMA FlushStarts ==
  ASSUME Typed, NEW p \in Terminal, FlushChannel(p)
  PROVE  \E out \in Output, subs \in Seq(Submission), E \in Seq(Com), P \in Seq(Proof) :
           /\ Start(p, "flush", out)
           /\ Len(E) = Len(subs) /\ Len(P) = Len(subs) /\ Range(subs) = Range(channel)
           /\ \A i \in 1..Len(subs) : E[i] = subs[i].entry /\ P[i] = subs[i].pi
           /\ out.channel = <<>> /\ out.board = board \o E /\ out.proofs = proofs \o P
  <1>1. PICK subs \in Shuffles(channel) :
          Start(p, "flush",
                [Nothing EXCEPT
                   !.board  = board \o [i \in DOMAIN subs |-> subs[i].entry],
                   !.proofs = proofs \o [i \in DOMAIN subs |-> subs[i].pi]])
    BY DEF FlushChannel
  <1> DEFINE E == [i \in DOMAIN subs |-> subs[i].entry]
             P == [i \in DOMAIN subs |-> subs[i].pi]
             out == [Nothing EXCEPT !.board = board \o E, !.proofs = proofs \o P]
  <1>2. /\ subs \in Seq(Submission) /\ DOMAIN subs = 1..Len(subs) /\ Len(subs) \in Nat
        /\ Range(subs) = Range(channel)
        /\ \A i \in 1..Len(subs) : subs[i] \in Submission
    <2>1. channel \in Seq(Submission)
      BY DEF Typed, TypeOK
    <2>2. subs \in Seq(Submission) /\ Range(subs) = Range(channel)
      BY <2>1, ShuffleKeepsAll
    <2> QED BY <2>2, LenProperties, ElementOfSeq
  <1>3. E \in Seq(Com) /\ Len(E) = Len(subs) /\ P \in Seq(Proof) /\ Len(P) = Len(subs)
    <2>1. E \in [1..Len(subs) -> Com] /\ P \in [1..Len(subs) -> Proof]
      BY <1>2 DEF Submission
    <2> HIDE DEF E, P
    <2> QED BY <1>2, <2>1, LenProperties
  <1>4. \A i \in 1..Len(subs) : E[i] = subs[i].entry /\ P[i] = subs[i].pi
    BY <1>2
  <1> HIDE DEF E, P
  <1>5. board \o E \in Seq(Com) /\ proofs \o P \in Seq(Proof)
    BY <1>3, ConcatProperties DEF Typed, TypeOK
  <1>6. out \in Output /\ out.channel = <<>> /\ out.board = board \o E /\ out.proofs = proofs \o P
    BY <1>5, IdleTyped DEF Output, Nothing
  <1>7. Start(p, "flush", out)
    BY <1>1 DEF E, P
  <1> HIDE DEF out
  <1> QED BY <1>2, <1>3, <1>4, <1>6, <1>7

\* What admit-board has computed when it starts: Clean of the raw board, twice.
LEMMA AdmitStarts ==
  ASSUME Typed, NEW p \in Terminal, AdmitBoard(p)
  PROVE  \E out \in Output :
           /\ Start(p, "admit", out)
           /\ Len(board) = Len(proofs)
           /\ out.admitted = Clean(board, proofs) /\ out.openings = Clean(board, proofs)
  <1> DEFINE adm == Clean(board, proofs)
             out == [Nothing EXCEPT !.admitted = adm, !.openings = adm]
  <1>1. Len(board) = Len(proofs) /\ Start(p, "admit", out)
    BY DEF AdmitBoard
  <1>2. adm \in Seq(Com)
    <2>1. board \in Seq(Com) /\ proofs \in Seq(Proof) /\ Len(board) \in Nat
      BY LenProperties DEF Typed, TypeOK
    <2>2. adm = CleanUpTo(board, proofs, Len(board))
      BY <1>1, <2>1, CleanOfAll
    <2>3. CleanUpTo(board, proofs, Len(board)) \in Seq(Com)
      BY <1>1, <2>1, CleanTyped
    <2> HIDE DEF adm
    <2> QED BY <2>2, <2>3
  <1> HIDE DEF adm
  <1>3. out \in Output /\ out.admitted = adm /\ out.openings = adm
    BY <1>2, IdleTyped DEF Output
  <1> HIDE DEF out
  <1> QED BY <1>1, <1>3 DEF adm

\* What ea-submit has computed when it starts: one more commitment on both
\* files and a receipt for it.
LEMMA EaStarts ==
  ASSUME Typed, NEW p \in Terminal, NEW com \in Com, NEW opening \in Com,
         EaSubmit(p, com, opening)
  PROVE  \E out \in Output :
           /\ Start(p, "ea", out)
           /\ out.admitted = Append(admitted, com)
           /\ out.openings = Append(openings, com)
           /\ out.receipt = {com}
  <1> DEFINE out == [Nothing EXCEPT !.admitted = Append(admitted, com),
                                    !.openings = Append(openings, opening),
                                    !.receipt  = {com}]
  <1>1. Append(admitted, com) \in Seq(Com) /\ Append(openings, opening) \in Seq(Com)
    BY AppendProperties DEF Typed, TypeOK
  <1>2. /\ out \in Output
        /\ out.admitted = Append(admitted, com)
        /\ out.openings = Append(openings, opening)
        /\ out.receipt = {com}
    BY <1>1, IdleTyped DEF Output
  <1>3. opening = com /\ Start(p, "ea", out)
    BY DEF EaSubmit
  <1> HIDE DEF out
  <1> QED BY <1>2, <1>3

\* A write keeps the types.
LEMMA WriteTyped ==
  ASSUME Typed, NEW p \in Terminal, WriteFile(p)
  PROVE  Typed'
  <1>1. /\ job[p] \in Job /\ job' \in [Terminal -> Job] /\ JobsRun' /\ crashes' = crashes
    BY JobAdvances
  <1>2. job[p].out \in Output
    BY <1>1 DEF Job
  <1> DEFINE out == job[p].out
  <1>3. /\ out.channel \in Seq(Submission) /\ out.board \in Seq(Com)
        /\ out.proofs \in Seq(Proof) /\ out.admitted \in Seq(Com)
        /\ out.openings \in Seq(Com) /\ out.receipt \subseteq Com
    BY <1>2 DEF Output
  <1> HIDE DEF out
  <1>4. /\ channel' \in {channel, out.channel} /\ board' \in {board, out.board}
        /\ proofs' \in {proofs, out.proofs} /\ admitted' \in {admitted, out.admitted}
        /\ openings' \in {openings, out.openings}
        /\ receipts' \in {receipts, receipts \cup out.receipt}
    BY DEF WriteFile, out
  <1>5. TypeOK'
    BY <1>1, <1>3, <1>4 DEF Typed, TypeOK
  <1> QED BY <1>1, <1>5 DEF Typed

\* Every step of a command of either path keeps the types.
LEMMA TypedInvariant == MixedSpec => []Typed
  <1>1. Init => Typed
    BY IdleTyped, BoundsAssumption DEF Init, Typed, TypeOK, JobsRun
  <1>2. Typed /\ [MixedNext]_vars => Typed'
    <2> SUFFICES ASSUME Typed, [MixedNext]_vars
                 PROVE  Typed'
      OBVIOUS
    <2>1. ASSUME NEW p \in Terminal, NEW com \in PublicBallot, NEW pi \in Proof,
                 Submit(p, com, pi)
          PROVE  Typed'
      <3>1. com \in Com
        BY PathsAssumption
      <3> QED BY <2>1, <3>1, SubmitStarts, StartTyped, Orders
    <2>2. ASSUME NEW p \in Terminal, FlushChannel(p)
          PROVE  Typed'
      BY <2>2, FlushStarts, StartTyped, Orders
    <2>3. ASSUME NEW p \in Terminal, AdmitBoard(p)
          PROVE  Typed'
      BY <2>3, AdmitStarts, StartTyped, Orders
    <2>4. ASSUME NEW p \in Terminal, NEW com \in PrivateBallot, NEW opening \in Com,
                 EaSubmit(p, com, opening)
          PROVE  Typed'
      <3>1. com \in Com
        BY PathsAssumption
      <3> QED BY <2>4, <3>1, EaStarts, StartTyped, Orders
    <2>5. ASSUME NEW p \in Terminal, WriteFile(p)
          PROVE  Typed'
      BY <2>5, WriteTyped
    <2>6. ASSUME NEW p \in Terminal, Crash(p)
          PROVE  Typed'
      BY <2>6, CrashTyped
    <2>7. CASE UNCHANGED vars
      BY <2>7 DEF vars, Typed, TypeOK, JobsRun
    <2> QED BY <2>1, <2>2, <2>3, <2>4, <2>5, <2>6, <2>7
            DEF MixedNext, PublicCommand, PrivateCommand
  <1> QED BY <1>1, <1>2, PTL DEF MixedSpec

\* An election that uses one path is one that mixes them.
LEMMA OnePathIsMixed == OnePathSpec => MixedSpec
  <1>1. [OnePathNext]_vars => [MixedNext]_vars
    BY DEF OnePathNext, MixedNext
  <1> QED BY <1>1, PTL DEF OnePathSpec, MixedSpec

\* Every file stays well typed and every command that runs has a file left to
\* write, whichever commands of either path interleave in however many shells
\* and wherever they crash.
THEOREM AdmissionTypeOK == (MixedSpec => []TypeOK) /\ (OnePathSpec => []TypeOK)
  <1>1. Typed => TypeOK
    BY DEF Typed
  <1> QED BY <1>1, TypedInvariant, OnePathIsMixed, PTL

-----------------------------------------------------------------------------
(* The files of one shell that admits through one path.                     *)

\* A submission carries the proof of its commitment, or none.
OwnProof(s) == s.pi \in {s.entry, NoProof}

\* Every submission of chan is on the raw board, its proof among the proofs.
Posted(chan, raw, pis) ==
  \A s \in Range(chan) : s.entry \in Range(raw) /\ s.pi \in Range(pis)

\* The proofs may lag behind the raw board, and then never catch up in length;
\* when they do not lag, each stands beside its entry.
Beside(raw, pis) ==
  \/ Len(pis) < Len(raw)
  \/ Len(pis) = Len(raw) /\ \A i \in DOMAIN raw : pis[i] \in {raw[i], NoProof}

\* The admitted board is Clean of an earlier raw board, the openings of one
\* that is not later.
Recomputable(raw, pis, adm, opened) ==
  \E m, n \in Nat : /\ m <= n /\ n <= Len(raw) /\ n <= Len(pis)
                    /\ opened = CleanUpTo(raw, pis, m)
                    /\ adm = CleanUpTo(raw, pis, n)

\* What a running command of Path 1 has computed, against the files.
SubmitInStep(j) ==
  /\ Range(channel) \subseteq Range(j.out.channel)
  /\ \A s \in Range(j.out.channel) : OwnProof(s)

FlushInStep(j) ==
  /\ j.out.channel = <<>>
  /\ Begins(board, j.out.board) /\ Begins(proofs, j.out.proofs)
  /\ Beside(j.out.board, proofs) /\ Beside(j.out.board, j.out.proofs)
  /\ Posted(channel, j.out.board, j.out.proofs)
  /\ j.done # 0 => board = j.out.board
  /\ j.done = 2 => proofs = j.out.proofs

AdmitInStep(j) ==
  /\ Len(board) = Len(proofs)
  /\ j.out.admitted = Clean(board, proofs) /\ j.out.openings = Clean(board, proofs)
  /\ j.done # 0 => admitted = j.out.admitted

PublicJob(j) ==
  \/ j = Idle
  \/ j.cmd = "submit" /\ SubmitInStep(j)
  \/ j.cmd = "flush"  /\ FlushInStep(j)
  \/ j.cmd = "admit"  /\ AdmitInStep(j)

\* The directory of an election that has used no command of Path 2.
PublicStore ==
  /\ receipts = {}
  /\ \A s \in Range(channel) : OwnProof(s)
  /\ Beside(board, proofs)
  /\ Recomputable(board, proofs, admitted, openings)
  /\ \A p \in Terminal : PublicJob(job[p])

\* The stored openings may lag behind the admitted board, and then never
\* catch up in length: each later ea-submit appends one to both.
Level(opened, adm) == opened = adm \/ Len(opened) < Len(adm)

\* With done files written, the rest of job j is what completes the files.
InStep(j) ==
  /\ j.done = 0 => \E com \in Com : /\ j.out.admitted = Append(admitted, com)
                                    /\ j.out.openings = Append(openings, com)
                                    /\ j.out.receipt = {com}
  /\ j.done # 0 => j.out.receipt \subseteq Range(admitted)
  /\ j.done = 1 => Len(openings) < Len(admitted) /\ Level(j.out.openings, admitted)

\* The directory of an election that has used no command of Path 1.
PrivateStore ==
  /\ channel = <<>> /\ board = <<>> /\ proofs = <<>>
  /\ receipts \subseteq Range(admitted)
  /\ Level(openings, admitted)
  /\ \A p \in Terminal : job[p] = Idle \/ (job[p].cmd = "ea" /\ InStep(job[p]))

\* Before the first crash the openings are those of the admitted board, or are
\* about to be.
OpeningsFollow ==
  crashes = 0 =>
    \A p \in Terminal : IF job[p].cmd \in {"admit", "ea"} /\ job[p].done = 1
                          THEN job[p].out.openings = admitted
                          ELSE openings = admitted

\* The inductive invariant of one shell and one path.
OnePathStore == Typed /\ (PublicStore \/ PrivateStore) /\ OpeningsFollow

-----------------------------------------------------------------------------
(* Boards and channels that grow.                                           *)

\* What is behind a sequence leaves its beginning.
LEMMA ConcatBegins ==
  ASSUME NEW S, NEW a \in Seq(S), NEW e \in Seq(S)
  PROVE  /\ Len(a) \in Nat /\ Len(e) \in Nat /\ Len(a \o e) = Len(a) + Len(e)
         /\ DOMAIN a = 1..Len(a) /\ DOMAIN (a \o e) = 1..Len(a \o e)
         /\ \A i \in 1..Len(a) : (a \o e)[i] = a[i]
         /\ \A i \in 1..Len(e) : (a \o e)[Len(a) + i] = e[i]
         /\ Begins(a, a \o e)
         /\ Range(e) \subseteq Range(a \o e)
  <1>1. /\ Len(a) \in Nat /\ Len(e) \in Nat /\ Len(a \o e) = Len(a) + Len(e)
        /\ DOMAIN a = 1..Len(a) /\ DOMAIN e = 1..Len(e)
        /\ DOMAIN (a \o e) = 1..Len(a \o e)
        /\ \A i \in 1..Len(a) : (a \o e)[i] = a[i]
        /\ \A i \in 1..Len(e) : (a \o e)[Len(a) + i] = e[i]
    BY LenProperties, ConcatProperties
  <1>2. Begins(a, a \o e)
    BY <1>1 DEF Begins
  <1>3. ASSUME NEW i \in 1..Len(e)
        PROVE  e[i] \in Range(a \o e)
    <2>1. Len(a) + i \in DOMAIN (a \o e) /\ (a \o e)[Len(a) + i] = e[i]
      BY <1>1
    <2> QED BY <2>1 DEF Range
  <1> QED BY <1>1, <1>2, <1>3 DEF Range

\* A sequence that was appended to holds what it held and the new member.
LEMMA AppendRange ==
  ASSUME NEW S, NEW s \in Seq(S), NEW x \in S
  PROVE  Range(Append(s, x)) = Range(s) \cup {x}
  <1>1. /\ Len(s) \in Nat /\ DOMAIN s = 1..Len(s)
        /\ DOMAIN Append(s, x) = 1..(Len(s) + 1)
        /\ \A i \in 1..Len(s) : Append(s, x)[i] = s[i]
        /\ Append(s, x)[Len(s) + 1] = x
    BY LenProperties, AppendProperties
  <1>2. 1..(Len(s) + 1) = 1..Len(s) \cup {Len(s) + 1}
    BY <1>1
  <1> QED BY <1>1, <1>2 DEF Range

\* The raw board and the proofs with the released submissions behind them stand
\* beside each other as the files did.
LEMMA FlushKeepsBeside ==
  ASSUME NEW raw \in Seq(Com), NEW pis \in Seq(Proof), Beside(raw, pis),
         NEW E \in Seq(Com), NEW P \in Seq(Proof), Len(E) = Len(P),
         \A i \in 1..Len(E) : P[i] \in {E[i], NoProof}
  PROVE  Beside(raw \o E, pis) /\ Beside(raw \o E, pis \o P)
  <1> DEFINE r == raw \o E
             p == pis \o P
  <1>1. /\ Len(raw) \in Nat /\ Len(pis) \in Nat /\ Len(E) \in Nat
        /\ Len(r) = Len(raw) + Len(E) /\ Len(p) = Len(pis) + Len(E)
        /\ DOMAIN raw = 1..Len(raw) /\ DOMAIN r = 1..Len(r)
        /\ \A i \in 1..Len(raw) : r[i] = raw[i]
        /\ \A i \in 1..Len(pis) : p[i] = pis[i]
        /\ \A i \in 1..Len(E) : r[Len(raw) + i] = E[i] /\ p[Len(pis) + i] = P[i]
    <2> HIDE DEF r, p
    <2>1. /\ Len(raw) \in Nat /\ Len(E) \in Nat /\ Len(r) = Len(raw) + Len(E)
          /\ DOMAIN raw = 1..Len(raw) /\ DOMAIN r = 1..Len(r)
          /\ \A i \in 1..Len(raw) : r[i] = raw[i]
          /\ \A i \in 1..Len(E) : r[Len(raw) + i] = E[i]
      <3>1. raw \in Seq(Com) /\ E \in Seq(Com)
        OBVIOUS
      <3> QED BY ONLY <3>1, ConcatBegins DEF r
    <2>2. /\ Len(pis) \in Nat /\ Len(p) = Len(pis) + Len(P)
          /\ \A i \in 1..Len(pis) : p[i] = pis[i]
          /\ \A i \in 1..Len(P) : p[Len(pis) + i] = P[i]
      BY ConcatBegins DEF p
    <2> QED BY <2>1, <2>2
  <1> HIDE DEF r, p
  <1>2. CASE Len(pis) < Len(raw)
    BY <1>1, <1>2 DEF Beside, r, p
  <1>3. CASE Len(pis) = Len(raw) /\ \A i \in DOMAIN raw : pis[i] \in {raw[i], NoProof}
    <2>1. Beside(r, pis)
      <3>1. CASE Len(E) = 0
        <4>1. Len(pis) = Len(r) /\ \A i \in DOMAIN r : pis[i] \in {r[i], NoProof}
          <5>1. Len(r) = Len(raw)
            BY <1>1, <3>1
          <5> QED BY <1>1, <1>3, <5>1
        <4> QED BY <4>1 DEF Beside
      <3>2. CASE Len(E) # 0
        <4>1. Len(pis) < Len(r)
          BY <1>1, <1>3, <3>2
        <4> QED BY <4>1 DEF Beside
      <3> QED BY <3>1, <3>2
    <2>2. ASSUME NEW i \in 1..Len(r)
          PROVE  p[i] \in {r[i], NoProof}
      <3>1. CASE i \in 1..Len(raw)
        BY <1>1, <1>3, <3>1
      <3>2. CASE i \notin 1..Len(raw)
        <4>1. PICK k \in 1..Len(E) : i = Len(raw) + k
          <5>1. i - Len(raw) \in 1..Len(E) /\ i = Len(raw) + (i - Len(raw))
            BY <1>1, <3>2
          <5> QED BY <5>1
        <4>2. r[i] = E[k] /\ p[i] = P[k]
          BY <1>1, <1>3, <4>1
        <4> QED BY <4>2
      <3> QED BY <3>1, <3>2
    <2> QED BY <1>1, <1>3, <2>1, <2>2 DEF Beside, r, p
  <1> QED BY <1>2, <1>3 DEF Beside

\* What stands on a raw board that grows at its end stays recomputable.
LEMMA GrowthKeepsRecomputable ==
  ASSUME NEW raw \in Seq(Com), NEW pis \in Seq(Proof),
         NEW raw1 \in Seq(Com), NEW pis1 \in Seq(Proof),
         Begins(raw, raw1), Begins(pis, pis1),
         NEW adm, NEW opened, Recomputable(raw, pis, adm, opened)
  PROVE  Recomputable(raw1, pis1, adm, opened)
  <1>1. PICK m \in Nat, n \in Nat :
          /\ m <= n /\ n <= Len(raw) /\ n <= Len(pis)
          /\ opened = CleanUpTo(raw, pis, m) /\ adm = CleanUpTo(raw, pis, n)
    BY DEF Recomputable
  <1>2. Len(raw) \in Nat /\ Len(pis) \in Nat
    BY LenProperties
  <1>3. m <= Len(raw) /\ m <= Len(pis)
    BY <1>1, <1>2
  <1>4. n <= Len(raw1) /\ n <= Len(pis1) /\ CleanUpTo(raw1, pis1, n) = CleanUpTo(raw, pis, n)
    BY <1>1, CleanOfLonger
  <1>5. CleanUpTo(raw1, pis1, m) = CleanUpTo(raw, pis, m)
    BY <1>3, CleanOfLonger
  <1> QED BY <1>1, <1>4, <1>5 DEF Recomputable

-----------------------------------------------------------------------------
(* One shell: each step of Path 1 leaves the files in step.                 *)

\* A command that starts and is in step with the files.
LEMMA PublicStarts ==
  ASSUME NEW t, Terminal = {t}, PublicStore, UNCHANGED files, PublicJob(job[t])'
  PROVE  PublicStore'
  BY DEF PublicStore, files

\* submit starts in step.
LEMMA SubmitStartsInStep ==
  ASSUME NEW t, Terminal = {t}, Typed, PublicStore,
         NEW com \in Com, NEW pi \in Proof, Submit(t, com, pi)
  PROVE  PublicStore'
  <1>1. PICK out \in Output, s \in Submission :
          /\ Start(t, "submit", out) /\ OwnProof(s)
          /\ out.channel = Append(channel, s)
    BY SubmitStarts DEF OwnProof
  <1>2. UNCHANGED files /\ job'[t] = [cmd |-> "submit", done |-> 0, out |-> out]
    BY <1>1, StartTyped, Orders
  <1>3. Range(out.channel) = Range(channel) \cup {s}
    BY <1>1, AppendRange DEF Typed, TypeOK
  <1>4. PublicJob(job[t])'
    <2>1. job'[t].cmd = "submit" /\ job'[t].out = out /\ channel' = channel
      BY <1>2 DEF files
    <2>2. /\ Range(channel) \subseteq Range(out.channel)
          /\ \A r \in Range(out.channel) : OwnProof(r)
      BY <1>1, <1>3 DEF PublicStore
    <2>3. SubmitInStep(job[t])'
      BY <2>1, <2>2 DEF SubmitInStep
    <2> QED BY <2>1, <2>3 DEF PublicJob
  <1> QED BY <1>2, <1>4, PublicStarts

\* flush-channel starts in step.
LEMMA FlushStartsInStep ==
  ASSUME NEW t, Terminal = {t}, Typed, PublicStore, FlushChannel(t)
  PROVE  PublicStore'
  <1>1. PICK out \in Output, subs \in Seq(Submission), E \in Seq(Com), P \in Seq(Proof) :
          /\ Start(t, "flush", out)
          /\ Len(E) = Len(subs) /\ Len(P) = Len(subs) /\ Range(subs) = Range(channel)
          /\ \A i \in 1..Len(subs) : E[i] = subs[i].entry /\ P[i] = subs[i].pi
          /\ out.channel = <<>> /\ out.board = board \o E /\ out.proofs = proofs \o P
    BY FlushStarts
  <1>2. UNCHANGED files /\ job'[t] = [cmd |-> "flush", done |-> 0, out |-> out]
    BY <1>1, StartTyped, Orders
  <1>3. board \in Seq(Com) /\ proofs \in Seq(Proof)
    BY DEF Typed, TypeOK
  <1>4. DOMAIN subs = 1..Len(subs) /\ DOMAIN E = 1..Len(subs) /\ DOMAIN P = 1..Len(subs)
    BY <1>1, LenProperties
  <1>5. \A i \in 1..Len(E) : P[i] \in {E[i], NoProof}
    <2>1. \A i \in 1..Len(subs) : subs[i] \in Range(channel)
      BY <1>1, <1>4 DEF Range
    <2> QED BY <1>1, <2>1 DEF PublicStore, OwnProof
  <1>6. /\ Begins(board, board \o E) /\ Range(E) \subseteq Range(board \o E)
        /\ Begins(proofs, proofs \o P) /\ Range(P) \subseteq Range(proofs \o P)
    BY <1>3, ConcatBegins
  <1>7. Beside(board \o E, proofs) /\ Beside(board \o E, proofs \o P)
    BY <1>1, <1>3, <1>5, FlushKeepsBeside DEF PublicStore
  <1>8. Posted(channel, board \o E, proofs \o P)
    <2> SUFFICES ASSUME NEW s \in Range(channel)
                 PROVE  s.entry \in Range(board \o E) /\ s.pi \in Range(proofs \o P)
      BY DEF Posted
    <2>1. PICK i \in 1..Len(subs) : subs[i] = s
      BY <1>1, <1>4 DEF Range
    <2>2. s.entry \in Range(E) /\ s.pi \in Range(P)
      BY <1>1, <1>4, <2>1 DEF Range
    <2> QED BY <1>6, <2>2
  <1>9. PublicJob(job[t])'
    <2>1. /\ job'[t].cmd = "flush" /\ job'[t].done = 0 /\ job'[t].out = out
          /\ channel' = channel /\ board' = board /\ proofs' = proofs
      BY <1>2 DEF files
    <2>2. FlushInStep(job[t])'
      <3>1. /\ out.channel = <<>>
            /\ Begins(board, out.board) /\ Begins(proofs, out.proofs)
            /\ Beside(out.board, proofs) /\ Beside(out.board, out.proofs)
            /\ Posted(channel, out.board, out.proofs)
        BY <1>1, <1>6, <1>7, <1>8
      <3> QED BY <2>1, <3>1 DEF FlushInStep
    <2> QED BY <2>1, <2>2 DEF PublicJob
  <1> QED BY <1>2, <1>9, PublicStarts

\* admit-board starts in step.
LEMMA AdmitStartsInStep ==
  ASSUME NEW t, Terminal = {t}, Typed, PublicStore, AdmitBoard(t)
  PROVE  PublicStore'
  <1>1. PICK out \in Output :
          /\ Start(t, "admit", out) /\ Len(board) = Len(proofs)
          /\ out.admitted = Clean(board, proofs) /\ out.openings = Clean(board, proofs)
    BY AdmitStarts
  <1>2. UNCHANGED files /\ job'[t] = [cmd |-> "admit", done |-> 0, out |-> out]
    BY <1>1, StartTyped, Orders
  <1>3. PublicJob(job[t])'
    BY <1>1, <1>2 DEF PublicJob, AdmitInStep, files
  <1> QED BY <1>2, <1>3, PublicStarts

\* A write of a command of Path 1 leaves the files in step with what remains
\* of it.
LEMMA PublicWritesInStep ==
  ASSUME NEW t, Terminal = {t}, Typed, Typed', PublicStore, WriteFile(t)
  PROVE  PublicStore'
  <1> DEFINE j == job[t]
             out == j.out
  <1>1. /\ t \in Terminal /\ j \in Job /\ j # Idle /\ PublicJob(j)
        /\ board \in Seq(Com) /\ proofs \in Seq(Proof)
        /\ board' \in Seq(Com) /\ proofs' \in Seq(Proof)
    BY JobAdvances DEF Typed, TypeOK, PublicStore
  <1>2. /\ out.board \in Seq(Com) /\ out.proofs \in Seq(Proof)
    BY <1>1 DEF Job, Output
  <1>3. CASE j.cmd = "submit"
    <2>1. j.done = 0 /\ NextFile(t) = "channel" /\ job'[t] = Idle
      BY <1>1, <1>3, JobAdvances
    <2>2. channel' = out.channel /\ UNCHANGED <<board, proofs, admitted, openings, receipts>>
      BY <2>1 DEF WriteFile
    <2>3. \A s \in Range(channel') : OwnProof(s)
      BY <1>1, <1>3, <2>2 DEF PublicJob, SubmitInStep
    <2> QED BY <2>1, <2>2, <2>3 DEF PublicStore, PublicJob
  <1>4. CASE j.cmd = "flush"
    <2>1. FlushInStep(j)
      BY <1>1, <1>4 DEF PublicJob
    <2>2. j.done \in 0..2
      BY <1>1 DEF Job
    <2>3. CASE j.done = 0
      <3>1. NextFile(t) = "board" /\ job'[t] = [j EXCEPT !.done = 1]
        BY <1>1, <1>4, <2>3, JobAdvances
      <3>2. board' = out.board /\ UNCHANGED <<channel, proofs, admitted, openings, receipts>>
        BY <3>1 DEF WriteFile
      <3>3. job'[t].cmd = "flush" /\ job'[t].done = 1 /\ job'[t].out = out
        BY <1>1, <1>4, <3>1 DEF Job
      <3>4. Begins(board', board') /\ Begins(proofs, proofs)
        BY <1>1, LenProperties DEF Begins
      <3>5. Recomputable(board', proofs', admitted', openings')
        BY <1>1, <2>1, <3>2, <3>4, GrowthKeepsRecomputable DEF FlushInStep, PublicStore
      <3>6. FlushInStep(job[t])'
        BY <2>1, <3>2, <3>3, <3>4 DEF FlushInStep
      <3> QED BY <2>1, <3>2, <3>3, <3>5, <3>6 DEF PublicStore, PublicJob, FlushInStep
    <2>4. CASE j.done = 1
      <3>1. NextFile(t) = "proofs" /\ job'[t] = [j EXCEPT !.done = 2]
        BY <1>1, <1>4, <2>4, JobAdvances
      <3>2. proofs' = out.proofs /\ UNCHANGED <<channel, board, admitted, openings, receipts>>
        BY <3>1 DEF WriteFile
      <3>3. job'[t].cmd = "flush" /\ job'[t].done = 2 /\ job'[t].out = out
        BY <1>1, <1>4, <3>1 DEF Job
      <3>4. Begins(board, board) /\ Begins(proofs', proofs') /\ board = out.board
        BY <1>1, <2>1, <2>4, LenProperties DEF Begins, FlushInStep
      <3>5. Recomputable(board', proofs', admitted', openings')
        BY <1>1, <2>1, <3>2, <3>4, GrowthKeepsRecomputable DEF FlushInStep, PublicStore
      <3>6. FlushInStep(job[t])'
        BY <2>1, <3>2, <3>3, <3>4 DEF FlushInStep
      <3> QED BY <2>1, <3>2, <3>3, <3>4, <3>5, <3>6 DEF PublicStore, PublicJob, FlushInStep
    <2>5. CASE j.done = 2
      <3>1. NextFile(t) = "channel" /\ job'[t] = Idle
        BY <1>1, <1>4, <2>5, JobAdvances
      <3>2. channel' = <<>> /\ UNCHANGED <<board, proofs, admitted, openings, receipts>>
        BY <2>1, <3>1 DEF WriteFile, FlushInStep
      <3>3. Range(<<>>) = {}
        BY DEF Range
      <3> QED BY <3>1, <3>2, <3>3 DEF PublicStore, PublicJob
    <2> QED BY <2>2, <2>3, <2>4, <2>5
  <1>5. CASE j.cmd = "admit"
    <2> DEFINE n == Len(board)
    <2>1. AdmitInStep(j)
      BY <1>1, <1>5 DEF PublicJob
    <2>2. n \in Nat /\ n = Len(proofs) /\ Clean(board, proofs) = CleanUpTo(board, proofs, n)
      BY <1>1, <2>1, LenProperties, CleanOfAll DEF AdmitInStep
    <2>3. PICK k \in Nat, h \in Nat :
            /\ k <= h /\ h <= n /\ openings = CleanUpTo(board, proofs, k)
            /\ admitted = CleanUpTo(board, proofs, h)
      BY DEF PublicStore, Recomputable
    <2> HIDE DEF n
    <2>4. k <= n /\ n <= n
      BY <2>2, <2>3
    <2>5. CASE j.done = 0
      <3>1. NextFile(t) = "admitted" /\ job'[t] = [j EXCEPT !.done = 1]
        BY <1>1, <1>5, <2>5, JobAdvances
      <3>2. admitted' = out.admitted /\ UNCHANGED <<channel, board, proofs, openings, receipts>>
        BY <3>1 DEF WriteFile
      <3>3. job'[t].cmd = "admit" /\ job'[t].done = 1 /\ job'[t].out = out
        BY <1>1, <1>5, <3>1 DEF Job
      <3>4. admitted' = CleanUpTo(board, proofs, n)
        BY <2>1, <2>2, <3>2 DEF AdmitInStep
      <3>5. Recomputable(board', proofs', admitted', openings')
        BY <2>2, <2>3, <2>4, <3>2, <3>4 DEF Recomputable, n
      <3>6. AdmitInStep(job[t])'
        BY <2>1, <3>2, <3>3 DEF AdmitInStep
      <3> QED BY <3>2, <3>3, <3>5, <3>6 DEF PublicStore, PublicJob
    <2>6. CASE j.done # 0
      <3>1. NextFile(t) = "openings" /\ job'[t] = Idle
        BY <1>1, <1>5, <2>6, JobAdvances
      <3>2. openings' = out.openings /\ UNCHANGED <<channel, board, proofs, admitted, receipts>>
        BY <3>1 DEF WriteFile
      <3>3. openings' = CleanUpTo(board, proofs, n) /\ admitted' = CleanUpTo(board, proofs, n)
        BY <2>1, <2>2, <2>6, <3>2 DEF AdmitInStep
      <3>4. Recomputable(board', proofs', admitted', openings')
        BY <2>2, <2>4, <3>2, <3>3 DEF Recomputable, n
      <3> QED BY <3>1, <3>2, <3>4 DEF PublicStore, PublicJob
    <2> QED BY <2>5, <2>6
  <1> QED BY <1>1, <1>3, <1>4, <1>5 DEF PublicJob

-----------------------------------------------------------------------------
(* One shell: each step of Path 2 leaves the files in step.                 *)

\* Starting an ea-submit leaves the files in step with it.
LEMMA EaStartsInStep ==
  ASSUME NEW t, Terminal = {t}, Typed, PrivateStore,
         NEW com \in Com, NEW opening \in Com, EaSubmit(t, com, opening)
  PROVE  PrivateStore'
  <1>1. PICK out \in Output :
          /\ Start(t, "ea", out)
          /\ out.admitted = Append(admitted, com)
          /\ out.openings = Append(openings, com)
          /\ out.receipt = {com}
    BY EaStarts
  <1>2. UNCHANGED files /\ job'[t] = [cmd |-> "ea", done |-> 0, out |-> out]
    BY <1>1, StartTyped, Orders
  <1>3. job'[t].cmd = "ea" /\ InStep(job[t])'
    BY <1>1, <1>2 DEF InStep, files
  <1> QED BY <1>2, <1>3 DEF PrivateStore, files

\* A write of an ea-submit leaves the files in step with what remains of it.
LEMMA EaWritesInStep ==
  ASSUME NEW t, Terminal = {t}, Typed, PrivateStore, WriteFile(t)
  PROVE  PrivateStore'
  <1> DEFINE j == job[t]
             out == j.out
  <1>1. /\ t \in Terminal /\ j \in Job /\ j # Idle /\ j.cmd = "ea" /\ InStep(j)
        /\ admitted \in Seq(Com) /\ openings \in Seq(Com)
    BY JobAdvances DEF Typed, TypeOK, PrivateStore
  <1>2. CASE j.done = 0
    <2>1. NextFile(t) = "admitted" /\ job'[t] = [j EXCEPT !.done = 1]
      BY <1>1, <1>2, JobAdvances
    <2>2. /\ admitted' = out.admitted
          /\ UNCHANGED <<channel, board, proofs, openings, receipts>>
      BY <2>1 DEF WriteFile
    <2>3. job'[t].cmd = "ea" /\ job'[t].done = 1 /\ job'[t].out = out
      BY <1>1, <2>1 DEF Job
    <2>4. PICK com \in Com : /\ out.admitted = Append(admitted, com)
                             /\ out.openings = Append(openings, com)
                             /\ out.receipt = {com}
      BY <1>1, <1>2 DEF InStep
    <2> HIDE DEF out
    <2>5. /\ Len(Append(admitted, com)) = Len(admitted) + 1
          /\ Len(Append(openings, com)) = Len(openings) + 1
          /\ Len(admitted) \in Nat /\ Len(openings) \in Nat
      BY <1>1, LenProperties, AppendProperties
    <2>6. Len(openings) <= Len(admitted) /\ Level(Append(openings, com), Append(admitted, com))
      BY <2>5 DEF PrivateStore, Level
    <2>7. Len(openings') < Len(admitted') /\ Level(out.openings, admitted')
      BY <2>2, <2>4, <2>5, <2>6
    <2>8. receipts \subseteq Range(admitted') /\ out.receipt \subseteq Range(admitted')
      BY <1>1, <2>2, <2>4, AppendRange DEF PrivateStore
    <2>9. InStep(job[t])'
      BY <2>3, <2>7, <2>8 DEF InStep
    <2> QED BY <2>2, <2>3, <2>7, <2>8, <2>9 DEF PrivateStore, Level
  <1>3. CASE j.done = 1
    <2>1. NextFile(t) = "openings" /\ job'[t] = [j EXCEPT !.done = 2]
      BY <1>1, <1>3, JobAdvances
    <2>2. /\ openings' = out.openings
          /\ UNCHANGED <<channel, board, proofs, admitted, receipts>>
      BY <2>1 DEF WriteFile
    <2>3. job'[t].cmd = "ea" /\ job'[t].done = 2 /\ job'[t].out = out
      BY <1>1, <2>1 DEF Job
    <2>4. Level(openings', admitted') /\ out.receipt \subseteq Range(admitted')
      BY <1>1, <1>3, <2>2 DEF InStep, Level
    <2>5. InStep(job[t])'
      BY <2>3, <2>4 DEF InStep
    <2> QED BY <2>2, <2>3, <2>4, <2>5 DEF PrivateStore
  <1>4. CASE j.done = 2
    <2>1. NextFile(t) = "receipt" /\ job'[t] = Idle
      BY <1>1, <1>4, JobAdvances
    <2>2. /\ receipts' = receipts \cup out.receipt
          /\ UNCHANGED <<channel, board, proofs, admitted, openings>>
      BY <2>1 DEF WriteFile
    <2>3. out.receipt \subseteq Range(admitted)
      BY <1>1, <1>4 DEF InStep
    <2> QED BY <2>1, <2>2, <2>3 DEF PrivateStore, Level
  <1>5. j.done \in 0..2
    BY <1>1 DEF Job
  <1> QED BY <1>2, <1>3, <1>4, <1>5

-----------------------------------------------------------------------------
(* An unused path leaves the directory to the other.                        *)

\* What Path 2 has not begun to use is a directory of Path 1.
LEMMA UnusedPrivateIsPublic ==
  ASSUME Typed, PrivateStore, ~PrivateInUse
  PROVE  PublicStore
  <1>1. admitted = <<>> /\ \A p \in Terminal : job[p] = Idle
    BY DEF PrivateStore, PrivateInUse
  <1>2. openings = <<>> /\ Range(<<>>) = {} /\ Len(<<>>) = 0
    <2>1. Len(<<>>) = 0 /\ openings \in Seq(Com)
      BY DEF Typed, TypeOK
    <2>2. ~(Len(openings) < 0)
      BY <2>1, LenProperties
    <2> QED BY <1>1, <2>1, <2>2 DEF PrivateStore, Level, Range
  <1>3. CleanUpTo(<<>>, <<>>, 0) = <<>>
    <2>1. ASSUME NEW raw \in Seq(Com), NEW pis \in Seq(Proof)
          PROVE  CleanUpTo(raw, pis, 0) = <<>>
      <3>1. 0 <= Len(raw) /\ 0 <= Len(pis) /\ 0 \in Nat
        BY LenProperties
      <3> QED BY ONLY <3>1, CleanTyped
    <2>2. <<>> \in Seq(Com) /\ <<>> \in Seq(Proof)
      OBVIOUS
    <2> QED BY <2>1, <2>2
  <1>4. Recomputable(<<>>, <<>>, <<>>, <<>>)
    <2>1. 0 \in Nat /\ 0 <= 0
      OBVIOUS
    <2> QED BY <1>2, <1>3, <2>1 DEF Recomputable
  <1>5. Beside(<<>>, <<>>)
    BY DEF Beside
  <1> QED BY <1>1, <1>2, <1>4, <1>5 DEF PrivateStore, PublicStore, PublicJob

\* What Path 1 has not begun to use is a directory of Path 2.
LEMMA UnusedPublicIsPrivate ==
  ASSUME Typed, PublicStore, ~PublicInUse
  PROVE  PrivateStore
  <1>1. channel = <<>> /\ board = <<>> /\ \A p \in Terminal : job[p] = Idle
    BY DEF PublicStore, PublicJob, PublicInUse
  <1>2. /\ proofs \in Seq(Proof) /\ board \in Seq(Com) /\ Len(board) = 0
        /\ Len(proofs) \in Nat
    BY <1>1, LenProperties DEF Typed, TypeOK
  <1>3. proofs = <<>>
    <2>1. Len(proofs) = 0
      BY <1>2 DEF PublicStore, Beside
    <2> QED BY <1>2, <2>1, EmptySeq
  <1>4. PICK m \in Nat, n \in Nat :
          /\ m <= n /\ n <= Len(board) /\ n <= Len(proofs)
          /\ openings = CleanUpTo(board, proofs, m) /\ admitted = CleanUpTo(board, proofs, n)
    BY DEF PublicStore, Recomputable
  <1>5. m = 0 /\ n = 0
    BY <1>2, <1>4
  <1>6. admitted = <<>> /\ openings = <<>>
    BY <1>2, <1>4, <1>5, CleanTyped
  <1> QED BY <1>1, <1>3, <1>6 DEF PublicStore, PrivateStore, Level

-----------------------------------------------------------------------------
(* One shell and one path: the inductive invariant.                         *)

\* A crash, or nothing, leaves the files in step.
LEMMA StoresSurvive ==
  ASSUME NEW t, Terminal = {t}, PublicStore \/ PrivateStore, UNCHANGED files,
         job'[t] = Idle \/ job' = job
  PROVE  /\ PublicStore => PublicStore'
         /\ PrivateStore => PrivateStore'
  <1>1. /\ PublicStore => PublicStore'
    <2> SUFFICES ASSUME PublicStore PROVE PublicStore'
      OBVIOUS
    <2>1. PublicJob(job[t])'
      <3>1. CASE job'[t] = Idle
        BY <3>1 DEF PublicJob
      <3>2. CASE job' = job
        BY <3>2 DEF PublicStore, PublicJob, SubmitInStep, FlushInStep, AdmitInStep, files
      <3> QED BY <3>1, <3>2
    <2> QED BY <2>1, PublicStarts
  <1>2. PrivateStore => PrivateStore'
    <2> SUFFICES ASSUME PrivateStore PROVE PrivateStore'
      OBVIOUS
    <2> QED BY DEF PrivateStore, InStep, files
  <1> QED BY <1>1, <1>2

\* A step of one shell on one path leaves the directory that of one path.
LEMMA OnePathStays ==
  ASSUME NEW t, Terminal = {t}, Typed, Typed', PublicStore \/ PrivateStore,
         [OnePathNext]_vars
  PROVE  (PublicStore \/ PrivateStore)'
  <1>1. CASE ~PrivateInUse /\ PublicCommand(t)
    <2>1. PublicStore
      BY <1>1, UnusedPrivateIsPublic
    <2>2. ASSUME NEW com \in PublicBallot, NEW pi \in Proof, Submit(t, com, pi)
          PROVE  PublicStore'
      BY <2>1, <2>2, PathsAssumption, SubmitStartsInStep
    <2> QED BY <1>1, <2>1, <2>2, FlushStartsInStep, AdmitStartsInStep DEF PublicCommand
  <1>2. CASE ~PublicInUse /\ PrivateCommand(t)
    <2>1. PrivateStore
      BY <1>2, UnusedPublicIsPrivate
    <2>2. PICK com \in PrivateBallot, opening \in Com : EaSubmit(t, com, opening)
      BY <1>2 DEF PrivateCommand
    <2> QED BY <2>1, <2>2, PathsAssumption, EaStartsInStep
  <1>3. CASE WriteFile(t)
    BY <1>3, PublicWritesInStep, EaWritesInStep
  <1>4. CASE Crash(t)
    <2>1. UNCHANGED files /\ job'[t] = Idle
      BY <1>4, CrashTyped
    <2> QED BY <2>1, StoresSurvive
  <1>5. CASE UNCHANGED vars
    <2>1. UNCHANGED files /\ job' = job
      BY <1>5 DEF vars, files
    <2> QED BY <2>1, StoresSurvive
  <1> QED BY <1>1, <1>2, <1>3, <1>4, <1>5 DEF OnePathNext

\* A command that starts while the openings follow leaves them following.
LEMMA StartFollows ==
  ASSUME NEW t, Terminal = {t}, Typed, OpeningsFollow,
         NEW cmd \in Command, NEW out \in Output, Start(t, cmd, out)
  PROVE  OpeningsFollow'
  <1>1. /\ UNCHANGED <<files, crashes>> /\ job[t] = Idle
        /\ job'[t] = [cmd |-> cmd, done |-> 0, out |-> out]
    BY StartTyped
  <1>2. job'[t].done = 0 /\ job[t].done = 0
    BY <1>1 DEF Idle
  <1> QED BY <1>1, <1>2 DEF OpeningsFollow, files

\* Without a crash the openings follow the admitted board.
LEMMA OpeningsStayFollowing ==
  ASSUME NEW t, Terminal = {t}, Typed, PublicStore \/ PrivateStore, OpeningsFollow,
         [OnePathNext]_vars
  PROVE  OpeningsFollow'
  <1>1. CASE PublicCommand(t)
    <2>1. ASSUME NEW com \in PublicBallot, NEW pi \in Proof, Submit(t, com, pi)
          PROVE  OpeningsFollow'
      BY <2>1, PathsAssumption, SubmitStarts, StartFollows, Orders
    <2>2. ASSUME FlushChannel(t)
          PROVE  OpeningsFollow'
      BY <2>2, FlushStarts, StartFollows, Orders
    <2>3. ASSUME AdmitBoard(t)
          PROVE  OpeningsFollow'
      BY <2>3, AdmitStarts, StartFollows, Orders
    <2> QED BY <1>1, <2>1, <2>2, <2>3 DEF PublicCommand
  <1>2. CASE PrivateCommand(t)
    <2>1. PICK com \in PrivateBallot, opening \in Com : EaSubmit(t, com, opening)
      BY <1>2 DEF PrivateCommand
    <2> QED BY <2>1, PathsAssumption, EaStarts, StartFollows, Orders
  <1>3. CASE WriteFile(t)
    <2> DEFINE j == job[t]
    <2>1. t \in Terminal /\ j \in Job /\ j # Idle /\ crashes' = crashes
      BY <1>3, JobAdvances
    <2>2. CASE j.cmd \in {"submit", "flush"}
      <3>1. NextFile(t) \in {"channel", "board", "proofs"} /\ job'[t].cmd \in {j.cmd, "none"}
        BY <1>3, <2>2, JobAdvances DEF Job, Idle
      <3>2. UNCHANGED <<admitted, openings>>
        BY <1>3, <3>1 DEF WriteFile
      <3> QED BY <2>1, <2>2, <3>1, <3>2 DEF OpeningsFollow
    <2>3. CASE j.cmd = "admit"
      <3>1. j.out.openings = j.out.admitted
        BY <2>1, <2>3 DEF PublicStore, PublicJob, PrivateStore, AdmitInStep
      <3>2. CASE j.done = 0
        <4>1. NextFile(t) = "admitted" /\ job'[t] = [j EXCEPT !.done = 1]
          BY <1>3, <2>3, <3>2, JobAdvances
        <4>2. admitted' = j.out.admitted /\ job'[t].done = 1 /\ job'[t].out = j.out
          BY <1>3, <2>1, <4>1 DEF WriteFile, Job
        <4>3. job'[t].cmd = "admit"
          BY <2>1, <2>3, <4>1 DEF Job
        <4> QED BY <3>1, <4>2, <4>3 DEF OpeningsFollow
      <3>3. CASE j.done # 0
        <4>1. j.done = 1 /\ NextFile(t) = "openings" /\ job'[t] = Idle
          BY <1>3, <2>3, <3>3, JobAdvances
        <4>2. openings' = j.out.openings /\ admitted' = admitted
          BY <1>3, <4>1 DEF WriteFile
        <4> QED BY <2>1, <2>3, <4>1, <4>2 DEF OpeningsFollow, Idle
      <3> QED BY <3>2, <3>3
    <2>4. CASE j.cmd = "ea"
      <3>1. InStep(j)
        BY <2>1, <2>4 DEF PublicStore, PublicJob, PrivateStore
      <3>2. CASE j.done = 0
        <4>1. NextFile(t) = "admitted" /\ job'[t] = [j EXCEPT !.done = 1]
          BY <1>3, <2>4, <3>2, JobAdvances
        <4>2. admitted' = j.out.admitted /\ job'[t].done = 1 /\ job'[t].out = j.out
          BY <1>3, <2>1, <4>1 DEF WriteFile, Job
        <4>3. job'[t].cmd = "ea"
          BY <2>1, <2>4, <4>1 DEF Job
        <4>4. openings = admitted => j.out.openings = j.out.admitted
          BY <3>1, <3>2 DEF InStep
        <4> QED BY <2>1, <3>2, <4>2, <4>3, <4>4 DEF OpeningsFollow
      <3>3. CASE j.done = 1
        <4>1. NextFile(t) = "openings" /\ job'[t] = [j EXCEPT !.done = 2]
          BY <1>3, <2>4, <3>3, JobAdvances
        <4>2. openings' = j.out.openings /\ admitted' = admitted /\ job'[t].done = 2
          BY <1>3, <2>1, <4>1 DEF WriteFile, Job
        <4> QED BY <2>1, <2>4, <3>3, <4>2 DEF OpeningsFollow
      <3>4. CASE j.done = 2
        <4>1. NextFile(t) = "receipt" /\ job'[t] = Idle
          BY <1>3, <2>4, <3>4, JobAdvances
        <4>2. UNCHANGED <<admitted, openings>>
          BY <1>3, <4>1 DEF WriteFile
        <4> QED BY <2>1, <3>4, <4>1, <4>2 DEF OpeningsFollow, Idle
      <3> QED BY <2>1, <3>2, <3>3, <3>4 DEF Job
    <2> QED BY <1>3, <2>2, <2>3, <2>4, JobAdvances
  <1>4. CASE Crash(t)
    <2>1. crashes' # 0
      BY <1>4, CrashTyped
    <2> QED BY <2>1 DEF OpeningsFollow
  <1>5. CASE UNCHANGED vars
    BY <1>5 DEF vars, OpeningsFollow
  <1> QED BY <1>1, <1>2, <1>3, <1>4, <1>5 DEF OnePathNext

\* With one shell and one path the files stay in step with the running command.
LEMMA OnePathInvariant ==
  ASSUME NEW t, Terminal = {t}
  PROVE  OnePathSpec => []OnePathStore
  <1>1. Init /\ Typed => OnePathStore
    BY DEF Init, OnePathStore, PrivateStore, Level, OpeningsFollow, Idle, Range
  <1>2. OnePathStore /\ Typed' /\ [OnePathNext]_vars => OnePathStore'
    BY OnePathStays, OpeningsStayFollowing DEF OnePathStore
  <1> QED BY <1>1, <1>2, TypedInvariant, OnePathIsMixed, PTL DEF OnePathSpec

-----------------------------------------------------------------------------
(* One shell and one path: what the invariant says.                         *)

\* What is recomputable from one raw board: the openings are the beginning of
\* the admitted board.
LEMMA OpeningsBegin ==
  ASSUME Typed, PublicStore
  PROVE  Begins(openings, admitted)
  <1>1. PICK m \in Nat, n \in Nat :
          /\ m <= n /\ n <= Len(board) /\ n <= Len(proofs)
          /\ openings = CleanUpTo(board, proofs, m) /\ admitted = CleanUpTo(board, proofs, n)
    BY DEF PublicStore, Recomputable
  <1> QED BY <1>1, CleanGrows DEF Typed, TypeOK

\* With one shell and one path, whatever crashes: when the admitted board and
\* the openings agree in length they agree entry by entry, so the tally never
\* opens a commitment with another's opening (admission.rs:38-39,
\* main.rs:708-709).
THEOREM TallyableStaysAligned ==
  ASSUME NEW t, Terminal = {t}
  PROVE  OnePathSpec => []TallyableMeansAligned
  <1>1. OnePathStore => TallyableMeansAligned
    <2> SUFFICES ASSUME OnePathStore, Len(admitted) = Len(openings)
                 PROVE  openings = admitted
      BY DEF TallyableMeansAligned
    <2>1. admitted \in Seq(Com) /\ openings \in Seq(Com)
      BY DEF OnePathStore, Typed, TypeOK
    <2>2. CASE PublicStore
      <3>1. Begins(openings, admitted)
        BY <2>2, OpeningsBegin DEF OnePathStore
      <3>2. \A i \in 1..Len(openings) : openings[i] = admitted[i]
        BY <3>1 DEF Begins
      <3> QED BY <2>1, <3>2, SeqEqual
    <2>3. CASE PrivateStore
      BY <2>1, <2>3, LenProperties DEF PrivateStore, Level
    <2> QED BY <2>2, <2>3 DEF OnePathStore
  <1> QED BY <1>1, OnePathInvariant, PTL

\* With one shell and one path, until a crash: between two commands the stored
\* openings are those of the admitted board (admission.rs:38-39).
THEOREM StoreStaysAligned ==
  ASSUME NEW t, Terminal = {t}
  PROVE  OnePathSpec => []StoreAligned
  <1>1. OnePathStore => StoreAligned
    BY DEF OnePathStore, OpeningsFollow, StoreAligned, Idle
  <1> QED BY <1>1, OnePathInvariant, PTL

\* With one shell, whatever crashes: as long as no command of Path 2 is used the
\* admitted board is Clean of the raw board as it stood at some earlier moment
\* (admission.rs:7-8).
THEOREM AlwaysRecomputable ==
  ASSUME NEW t, Terminal = {t}
  PROVE  OnePathSpec => []PubliclyRecomputable
  <1>1. OnePathStore => PubliclyRecomputable
    <2> SUFFICES ASSUME OnePathStore, ~PrivateInUse
                 PROVE  \E n \in 0..Len(board) :
                          /\ n <= Len(proofs)
                          /\ admitted = Clean(SubSeq(board, 1, n), SubSeq(proofs, 1, n))
      BY DEF PubliclyRecomputable
    <2>1. PublicStore
      BY UnusedPrivateIsPublic DEF OnePathStore
    <2>2. PICK n \in Nat : /\ n <= Len(board) /\ n <= Len(proofs)
                           /\ admitted = CleanUpTo(board, proofs, n)
      BY <2>1 DEF PublicStore, Recomputable
    <2>3. n \in 0..Len(board)
      BY <2>2, LenProperties DEF OnePathStore, Typed, TypeOK
    <2> QED BY <2>2, <2>3 DEF CleanUpTo
  <1> QED BY <1>1, OnePathInvariant, PTL

\* With one shell and one path, whatever crashes: when Clean accepts the lengths
\* of the raw board and the proofs, every proof stands beside its own entry
\* (admission.rs:73-79).
THEOREM CleanableStaysAligned ==
  ASSUME NEW t, Terminal = {t}
  PROVE  OnePathSpec => []CleanableMeansAligned
  <1>1. OnePathStore => CleanableMeansAligned
    <2> SUFFICES ASSUME OnePathStore, Len(board) = Len(proofs)
                 PROVE  \A i \in DOMAIN board : proofs[i] \in {board[i], NoProof}
      BY DEF CleanableMeansAligned
    <2>1. CASE PublicStore
      <3>1. ~(Len(proofs) < Len(board))
        BY LenProperties DEF OnePathStore, Typed, TypeOK
      <3> QED BY <2>1, <3>1 DEF PublicStore, Beside
    <2>2. CASE PrivateStore
      BY <2>2 DEF PrivateStore
    <2> QED BY <2>1, <2>2 DEF OnePathStore
  <1> QED BY <1>1, OnePathInvariant, PTL

\* With one shell and one path, whatever crashes: every receipt the EA has handed
\* out is for a commitment on the admitted board, so the judge of a receipt never
\* rules the EA faulty (recorded_as_cast.rs:75-98, main.rs:688-715).
THEOREM ReceiptedStaysAdmitted ==
  ASSUME NEW t, Terminal = {t}
  PROVE  OnePathSpec => []ReceiptedIsAdmitted
  <1>1. OnePathStore => ReceiptedIsAdmitted
    BY DEF OnePathStore, PublicStore, PrivateStore, ReceiptedIsAdmitted,
           AdjudicateAdmissionReceipt
  <1> QED BY <1>1, OnePathInvariant, PTL

\* With one shell and one path, whatever crashes: a pending submission leaves the
\* channel only when its entry and its proof are on the boards (main.rs:433-482).
THEOREM ChannelKeepsAll ==
  ASSUME NEW t, Terminal = {t}
  PROVE  OnePathSpec => ChannelNeverLoses
  <1> DEFINE Kept1(s) == \/ s \in Range(channel')
                         \/ s.entry \in Range(board') /\ s.pi \in Range(proofs')
  <1>1. ASSUME OnePathStore, [OnePathNext]_vars
        PROVE  \A s \in Range(channel) : Kept1(s)
    <2>1. CASE channel' = channel
      BY <2>1
    <2>2. CASE WriteFile(t)
      <3> DEFINE j == job[t]
      <3>1. t \in Terminal /\ j \in Job /\ j # Idle /\ Typed
        BY <1>1, <2>2, JobAdvances DEF OnePathStore
      <3>2. CASE NextFile(t) # "channel"
        BY <2>1, <2>2, <3>2 DEF WriteFile
      <3>3. CASE NextFile(t) = "channel"
        <4>1. /\ \/ j.cmd = "submit"
                 \/ j.cmd = "flush" /\ j.done = 2
              /\ channel' = j.out.channel /\ UNCHANGED <<board, proofs>>
          BY <2>2, <3>1, <3>3, JobAdvances DEF WriteFile
        <4>2. PublicJob(j)
          BY <1>1, <3>1, <4>1 DEF OnePathStore, PublicStore, PrivateStore
        <4>3. CASE j.cmd = "submit"
          <5>1. Range(channel) \subseteq Range(channel')
            BY <3>1, <4>1, <4>2, <4>3 DEF PublicJob, SubmitInStep
          <5> QED BY <5>1
        <4>4. CASE j.cmd = "flush" /\ j.done = 2
          <5>1. Posted(channel, board', proofs')
            BY <3>1, <4>1, <4>2, <4>4 DEF PublicJob, FlushInStep
          <5> QED BY <5>1 DEF Posted
        <4> QED BY <4>1, <4>3, <4>4
      <3> QED BY <3>2, <3>3
    <2>3. CASE PublicCommand(t) \/ PrivateCommand(t) \/ Crash(t) \/ UNCHANGED vars
      <3>1. channel' = channel
        BY <2>3 DEF PublicCommand, PrivateCommand, Submit, FlushChannel, AdmitBoard,
                    EaSubmit, Start, Crash, vars, files
      <3> QED BY <2>1, <3>1
    <2> QED BY <1>1, <2>2, <2>3 DEF OnePathNext
  <1>2. OnePathStore /\ [OnePathNext]_vars
          => [\A s \in Range(channel) : Kept1(s)]_vars
    BY <1>1
  <1> QED BY <1>2, OnePathInvariant, PTL DEF OnePathSpec, ChannelNeverLoses

-----------------------------------------------------------------------------
(* One shell and one path implement FirstValidCounts.                       *)

\* Every choice is a candidate or none.
LEMMA ChoiceTyped ==
  ASSUME NEW adm \in Seq(Com)
  PROVE  ChoiceOn(adm, NoVote) \in [Voter -> Candidate \cup {NoVote}]
  <1>1. ASSUME NEW v \in Voter, VotesOf(adm, v) # {}
        PROVE  Opening[adm[FirstVote(adm, v)]].cand \in Candidate
    <2>1. FirstVote(adm, v) \in VotesOf(adm, v)
      BY <1>1, FirstVoteIsFirst
    <2>2. adm[FirstVote(adm, v)] \in Com /\ IsValid(adm[FirstVote(adm, v)])
      BY <2>1 DEF VotesOf
    <2> QED BY <2>2, ValidBallot
  <1> QED BY <1>1 DEF ChoiceOn

\* What stands behind a board leaves the choice of a voter who has one.
LEMMA BeginningKeepsChoice ==
  ASSUME NEW adm \in Seq(Com), NEW adm1 \in Seq(Com), Begins(adm, adm1),
         NEW v \in Voter, VotesOf(adm, v) # {}
  PROVE  ChoiceOn(adm1, NoVote)[v] = ChoiceOn(adm, NoVote)[v]
  <1> DEFINE n == Len(adm)
             j == FirstVote(adm, v)
             k == FirstVote(adm1, v)
  <1>1. /\ n \in Nat /\ Len(adm1) \in Nat /\ n <= Len(adm1)
        /\ \A i \in 1..n : adm1[i] = adm[i]
    BY LenProperties DEF Begins
  <1>2. /\ j \in VotesOf(adm, v)
        /\ \A i \in VotesOf(adm, v) : j <= i
    BY FirstVoteIsFirst
  <1> HIDE DEF j
  <1>3. \A i \in 1..n : i \in VotesOf(adm, v) <=> i \in VotesOf(adm1, v)
    BY <1>1 DEF VotesOf
  <1>4. j \in 1..n /\ j \in VotesOf(adm1, v)
    BY <1>2, <1>3 DEF VotesOf
  <1>5. /\ k \in VotesOf(adm1, v)
        /\ \A i \in VotesOf(adm1, v) : k <= i
    BY <1>4, FirstVoteIsFirst
  <1> HIDE DEF k
  <1>6. k \in 1..Len(adm1) /\ k <= j
    BY <1>4, <1>5 DEF VotesOf
  <1>7. k \in VotesOf(adm, v)
    BY <1>1, <1>3, <1>4, <1>5, <1>6
  <1>8. k = j
    BY <1>1, <1>2, <1>4, <1>6, <1>7
  <1>9. Opening[adm1[k]].cand = Opening[adm[j]].cand
    BY <1>1, <1>4, <1>8
  <1> QED BY <1>4, <1>9 DEF ChoiceOn, j, k

\* A step that leaves what the admitted board begins with leaves the cells or
\* fills empty ones.
LEMMA GrowthRefines ==
  ASSUME admitted \in Seq(Com), admitted' \in Seq(Com), Begins(admitted, admitted')
  PROVE  [Cells!Next]_(ChoiceOn(admitted, NoVote))
  <1> DEFINE old == ChoiceOn(admitted, NoVote)
             new == ChoiceOn(admitted', NoVote)
  <1>1. new \in [Voter -> Candidate \cup {NoVote}]
    BY ChoiceTyped
  <1>2. ASSUME NEW v \in Voter, old[v] # NoVote
        PROVE  new[v] = old[v]
    <2>1. VotesOf(admitted, v) # {}
      BY <1>2 DEF ChoiceOn
    <2> QED BY <2>1, BeginningKeepsChoice
  <1> QED BY <1>1, <1>2 DEF Cells!Next, Cells!Fill, Cells!ChoiceType

\* A step of one shell on one path leaves what the admitted board begins with.
LEMMA AdmittedGrows ==
  ASSUME NEW t, Terminal = {t}, OnePathStore, [OnePathNext]_vars
  PROVE  Begins(admitted, admitted')
  <1>1. admitted \in Seq(Com) /\ openings \in Seq(Com) /\ Typed
    BY DEF OnePathStore, Typed, TypeOK
  <1>2. CASE admitted' = admitted
    BY <1>1, <1>2, LenProperties DEF Begins
  <1>3. CASE WriteFile(t)
    <2> DEFINE j == job[t]
    <2>1. t \in Terminal /\ j \in Job /\ j # Idle
      BY <1>1, <1>3, JobAdvances
    <2>2. CASE NextFile(t) # "admitted"
      BY <1>2, <1>3, <2>2 DEF WriteFile
    <2>3. CASE NextFile(t) = "admitted"
      <3>1. j.cmd \in {"admit", "ea"} /\ j.done = 0 /\ admitted' = j.out.admitted
        BY <1>1, <1>3, <2>1, <2>3, JobAdvances DEF WriteFile
      <3>2. CASE j.cmd = "admit"
        <4>1. PublicStore /\ AdmitInStep(j)
          BY <2>1, <3>2 DEF OnePathStore, PublicStore, PublicJob, PrivateStore
        <4>2. PICK n \in Nat : /\ n <= Len(board) /\ n <= Len(proofs)
                               /\ admitted = CleanUpTo(board, proofs, n)
          BY <4>1 DEF PublicStore, Recomputable
        <4>3. board \in Seq(Com) /\ proofs \in Seq(Proof) /\ Len(board) \in Nat
          BY <1>1, LenProperties DEF Typed, TypeOK
        <4>4. Len(board) = Len(proofs) /\ admitted' = CleanUpTo(board, proofs, Len(board))
          BY <3>1, <4>1, <4>3, CleanOfAll DEF AdmitInStep
        <4> QED BY <4>2, <4>3, <4>4, CleanGrows
      <3>3. CASE j.cmd = "ea"
        <4>1. InStep(j)
          BY <2>1, <3>3 DEF OnePathStore, PublicStore, PublicJob, PrivateStore
        <4>2. PICK com \in Com : admitted' = Append(admitted, com)
          BY <3>1, <4>1 DEF InStep
        <4> QED BY <1>1, <4>2, LenProperties, AppendProperties DEF Begins
      <3> QED BY <3>1, <3>2, <3>3
    <2> QED BY <2>2, <2>3
  <1>4. CASE PublicCommand(t) \/ PrivateCommand(t) \/ Crash(t) \/ UNCHANGED vars
    <2>1. admitted' = admitted
      BY <1>4 DEF PublicCommand, PrivateCommand, Submit, FlushChannel, AdmitBoard,
                  EaSubmit, Start, Crash, vars, files
    <2> QED BY <1>2, <2>1
  <1> QED BY <1>3, <1>4 DEF OnePathNext

\* With one shell and one path, whatever crashes: admission implements the
\* write-once cells of FirstValidCounts, so that no later ballot, replay, fake or
\* re-admission of the raw board moves or removes a vote that counts.
THEOREM AdmissionImplementsCells ==
  ASSUME NEW t, Terminal = {t}
  PROVE  OnePathSpec => ImplementsFirstValidCounts
  <1>1. Init => Cells!Init
    <2>1. \A v \in Voter : VotesOf(<<>>, v) = {}
      BY DEF VotesOf
    <2> QED BY <2>1 DEF Init, Cells!Init, ChoiceOn
  <1>2. OnePathStore /\ OnePathStore' /\ [OnePathNext]_vars
          => [Cells!Next]_(ChoiceOn(admitted, NoVote))
    <2> SUFFICES ASSUME OnePathStore, OnePathStore', [OnePathNext]_vars
                 PROVE  [Cells!Next]_(ChoiceOn(admitted, NoVote))
      OBVIOUS
    <2>1. admitted \in Seq(Com) /\ admitted' \in Seq(Com)
      BY DEF OnePathStore, Typed, TypeOK
    <2> QED BY <2>1, AdmittedGrows, GrowthRefines
  <1> QED BY <1>1, <1>2, OnePathInvariant, PTL
          DEF OnePathSpec, ImplementsFirstValidCounts, Cells!Spec

-----------------------------------------------------------------------------
(* Elections that use only one path from the start.                         *)

\* One shell that only submits, flushes and admits never uses Path 2.
LEMMA PublicStoreUnused ==
  ASSUME Typed, PublicStore
  PROVE  ~PrivateInUse
  <1>1. \A p \in Terminal : job[p].cmd # "ea"
    BY DEF PublicStore, PublicJob, Idle
  <1>2. ASSUME board = <<>>
        PROVE  admitted = <<>>
    <2>1. PICK n \in Nat : /\ n <= Len(board) /\ n <= Len(proofs)
                           /\ admitted = CleanUpTo(board, proofs, n)
      BY DEF PublicStore, Recomputable
    <2>2. n = 0
      BY <1>2, <2>1
    <2> QED BY <2>1, <2>2, CleanTyped DEF Typed, TypeOK
  <1> QED BY <1>1, <1>2 DEF PrivateInUse

\* One shell that only runs ea-submit never uses Path 1.
LEMMA PrivateStoreUnused ==
  ASSUME PrivateStore
  PROVE  ~PublicInUse
  BY DEF PrivateStore, PublicInUse, Idle

\* With one shell an election of Path 1 alone, or of Path 2 alone, is an election
\* of one path, so that the theorems above hold of both.
THEOREM EitherPathIsOnePath ==
  ASSUME NEW t, Terminal = {t}
  PROVE  (PublicSpec => OnePathSpec) /\ (PrivateSpec => OnePathSpec)
  <1>1. Init /\ Typed => PublicStore /\ PrivateStore
    <2> SUFFICES ASSUME Init, Typed PROVE PublicStore /\ PrivateStore
      OBVIOUS
    <2>1. PrivateStore /\ ~PrivateInUse
      BY DEF Init, PrivateStore, PrivateInUse, Level, Idle, Range
    <2> QED BY <2>1, UnusedPrivateIsPublic
  <1>2. PublicSpec => MixedSpec
    <2>1. [PublicNext]_vars => [MixedNext]_vars
      BY DEF PublicNext, MixedNext
    <2> QED BY <2>1, PTL DEF PublicSpec, MixedSpec
  <1>3. PrivateSpec => MixedSpec
    <2>1. [PrivateNext]_vars => [MixedNext]_vars
      BY DEF PrivateNext, MixedNext
    <2> QED BY <2>1, PTL DEF PrivateSpec, MixedSpec
  <1>4. PublicStore /\ Typed /\ [PublicNext]_vars => [OnePathNext]_vars
    BY PublicStoreUnused DEF PublicNext, OnePathNext
  <1>5. PrivateStore /\ [PrivateNext]_vars => [OnePathNext]_vars
    BY PrivateStoreUnused DEF PrivateNext, OnePathNext
  <1>6. PublicStore /\ Typed /\ Typed' /\ [PublicNext]_vars => PublicStore'
    <2> SUFFICES ASSUME PublicStore, Typed, Typed', [PublicNext]_vars
                 PROVE  PublicStore'
      OBVIOUS
    <2>1. CASE PublicCommand(t)
      <3>1. ASSUME NEW com \in PublicBallot, NEW pi \in Proof, Submit(t, com, pi)
            PROVE  PublicStore'
        BY <3>1, PathsAssumption, SubmitStartsInStep
      <3> QED BY <2>1, <3>1, FlushStartsInStep, AdmitStartsInStep DEF PublicCommand
    <2>2. CASE WriteFile(t)
      BY <2>2, PublicWritesInStep
    <2>3. CASE Crash(t)
      <3>1. UNCHANGED files /\ job'[t] = Idle
        BY <2>3, CrashTyped
      <3> QED BY <3>1, StoresSurvive
    <2>4. CASE UNCHANGED vars
      <3>1. UNCHANGED files /\ job' = job
        BY <2>4 DEF vars, files
      <3> QED BY <3>1, StoresSurvive
    <2> QED BY <2>1, <2>2, <2>3, <2>4 DEF PublicNext
  <1>7. PrivateStore /\ Typed /\ [PrivateNext]_vars => PrivateStore'
    <2> SUFFICES ASSUME PrivateStore, Typed, [PrivateNext]_vars
                 PROVE  PrivateStore'
      OBVIOUS
    <2>1. CASE PrivateCommand(t)
      <3>1. PICK com \in PrivateBallot, opening \in Com : EaSubmit(t, com, opening)
        BY <2>1 DEF PrivateCommand
      <3> QED BY <3>1, PathsAssumption, EaStartsInStep
    <2>2. CASE WriteFile(t)
      BY <2>2, EaWritesInStep
    <2>3. CASE Crash(t)
      <3>1. UNCHANGED files /\ job'[t] = Idle
        BY <2>3, CrashTyped
      <3> QED BY <3>1, StoresSurvive
    <2>4. CASE UNCHANGED vars
      <3>1. UNCHANGED files /\ job' = job
        BY <2>4 DEF vars, files
      <3> QED BY <3>1, StoresSurvive
    <2> QED BY <2>1, <2>2, <2>3, <2>4 DEF PrivateNext
  <1>8. PublicSpec => OnePathSpec
    BY <1>1, <1>2, <1>4, <1>6, TypedInvariant, PTL DEF PublicSpec, OnePathSpec
  <1>9. PrivateSpec => OnePathSpec
    BY <1>1, <1>3, <1>5, <1>7, TypedInvariant, PTL DEF PrivateSpec, OnePathSpec
  <1> QED BY <1>8, <1>9
=============================================================================
