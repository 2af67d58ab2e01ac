--------------------------- MODULE ChunkedProofs ---------------------------
(***************************************************************************)
(* For every board, chunk size and choice of sorted records, tampered ones  *)
(* included: the partial tallies of the runs add up to one pass, and counts *)
(* the checker accepts are the exact tally of the board.  The same of the   *)
(* published transcript, whatever other values the prover took: accepted    *)
(* links, proofs and products mean the exact tally.  Conversely what an     *)
(* honest prover claims, or posts proof by proof into a pool, is accepted.  *)
(* The transcript implements the chunked tally, and that implements the     *)
(* counting of the board, whose own theorems (CountingTypeOK and those      *)
(* after it) come first.                                                    *)
(***************************************************************************)
EXTENDS Transcript, TallyProofs, FunctionTheorems

-----------------------------------------------------------------------------
(* Counted ballots are first votes.                                         *)

\* The reference strategy counts a ballot exactly when it is the first vote of the voter it claims.
LEMMA CountedIsFirstVote ==
  ASSUME NEW adm \in Seq(Com), NEW j \in 1..Len(adm)
  PROVE  j \in CountedNaive(Records(adm))
           <=> /\ IsValid(adm[j])
               /\ j = FirstVote(adm, Opening[adm[j]].id)
  <1> DEFINE v == Opening[adm[j]].id
  <1>1. Len(adm) \in Nat
    OBVIOUS
  <1>2. ASSUME IsValid(adm[j])
        PROVE  (\A i \in 1..(j - 1) : ~(IsValid(adm[i]) /\ Opening[adm[i]].id = v))
                 <=> j = FirstVote(adm, v)
    <2>1. j \in VotesOf(adm, v)
      BY <1>2 DEF VotesOf
    <2>2. /\ FirstVote(adm, v) \in VotesOf(adm, v)
          /\ \A i \in VotesOf(adm, v) : FirstVote(adm, v) <= i
      BY <2>1, FirstVoteIsFirst
    <2>3. VotesOf(adm, v) = {i \in 1..Len(adm) : IsValid(adm[i]) /\ Opening[adm[i]].id = v}
      BY DEF VotesOf
    <2> QED BY <1>1, <2>1, <2>2, <2>3
  <1> QED BY <1>2, CountedHasNoEarlier

-----------------------------------------------------------------------------
(* The tally is the tally of first votes.                                   *)

\* What a voter's choice says about the board: a candidate is the choice of v
\* when v's first valid ballot names it.
LEMMA ChoiceIsFirstVote ==
  ASSUME NEW adm \in Seq(Com), NEW v \in Voter, NEW c \in Candidate
  PROVE  ChoiceOn(adm, NoVote)[v] = c
           <=> /\ VotesOf(adm, v) # {}
               /\ Opening[adm[FirstVote(adm, v)]].cand = c
  <1>1. NoVote # c
    BY CountingBounds
  <1> QED BY <1>1 DEF ChoiceOn

\* Counted ballots for c and voters who chose c correspond one to one: a ballot
\* to the voter it claims, a voter to the first vote.
LEMMA CountedMatchesVoters ==
  ASSUME NEW adm \in Seq(Com), NEW c \in Candidate,
         NEW A, A = {j \in CountedNaive(Records(adm)) : Records(adm)[j].cand = c},
         NEW B, B = {v \in Voter : ChoiceOn(adm, NoVote)[v] = c}
  PROVE  ExistsBijection(A, B)
  <1>1. ASSUME NEW j
        PROVE  j \in A <=> /\ j \in 1..Len(adm)
                           /\ IsValid(adm[j])
                           /\ j = FirstVote(adm, Opening[adm[j]].id)
                           /\ Opening[adm[j]].cand = c
    <2>1. j \in A => j \in 1..Len(adm)
      BY CountedFinite
    <2>2. ASSUME j \in 1..Len(adm), IsValid(adm[j])
          PROVE  Records(adm)[j].cand = Opening[adm[j]].cand
      BY <2>2 DEF Records
    <2> QED BY <2>1, <2>2, CountedIsFirstVote
  <1>2. ASSUME NEW v \in B
        PROVE  /\ v \in Voter
               /\ FirstVote(adm, v) \in A
               /\ Opening[adm[FirstVote(adm, v)]].id = v
    <2>1. /\ VotesOf(adm, v) # {}
          /\ Opening[adm[FirstVote(adm, v)]].cand = c
      BY ChoiceIsFirstVote
    <2>2. FirstVote(adm, v) \in VotesOf(adm, v)
      BY <2>1, FirstVoteIsFirst
    <2> QED BY <1>1, <2>1, <2>2 DEF VotesOf
  <1>3. ASSUME NEW j \in A
        PROVE  Opening[adm[j]].id \in B
    <2> DEFINE v == Opening[adm[j]].id
    <2>1. /\ j \in 1..Len(adm) /\ IsValid(adm[j])
          /\ j = FirstVote(adm, v) /\ Opening[adm[j]].cand = c
      BY <1>1
    <2>2. adm[j] \in Com /\ v \in Voter
      BY <2>1, ValidBallot
    <2>3. j \in VotesOf(adm, v)
      BY <2>1 DEF VotesOf
    <2> QED BY <2>1, <2>2, <2>3, ChoiceIsFirstVote
  <1> DEFINE f == [j \in A |-> Opening[adm[j]].id]
  <1>4. f \in [A -> B]
    BY <1>3
  <1>5. \A i, j \in A : f[i] = f[j] => i = j
    BY <1>1
  <1>6. \A v \in B : \E j \in A : f[j] = v
    BY <1>2
  <1>7. f \in Bijection(A, B)
    BY <1>4, <1>5, <1>6 DEF Bijection, Injection, Surjection, IsInjective
  <1> QED BY <1>7 DEF ExistsBijection

\* filter_and_tally of a board is the tally of the choices on it, and every
\* count is a number.
LEMMA TallyCountsChoices ==
  ASSUME NEW adm \in Seq(Com)
  PROVE  /\ FilterAndTally(adm) = TallyOfChoice(ChoiceOn(adm, NoVote))
         /\ FilterAndTally(adm) \in [Candidate -> Nat]
         /\ \A c \in Candidate : IsFiniteSet({v \in Voter : ChoiceOn(adm, NoVote)[v] = c})
  <1> DEFINE A(c) == {j \in CountedNaive(Records(adm)) : Records(adm)[j].cand = c}
             B(c) == {v \in Voter : ChoiceOn(adm, NoVote)[v] = c}
  <1>1. FilterAndTally(adm) = [c \in Candidate |-> Cardinality(A(c))]
    <2>1. CountedSorted(Records(adm)) = CountedNaive(Records(adm))
      BY RecordsNumbered, SortedCountsNaive
    <2> QED BY <2>1 DEF FilterAndTally, TallyFromCounted
  <1>2. TallyOfChoice(ChoiceOn(adm, NoVote)) = [c \in Candidate |-> Cardinality(B(c))]
    BY DEF TallyOfChoice
  <1>3. ASSUME NEW c \in Candidate
        PROVE  /\ IsFiniteSet(A(c))
               /\ ExistsBijection(A(c), B(c))
    BY CountedFinite, CountedMatchesVoters
  <1> HIDE DEF A, B
  <1>4. ASSUME NEW c \in Candidate
        PROVE  /\ Cardinality(A(c)) = Cardinality(B(c))
               /\ Cardinality(A(c)) \in Nat
               /\ IsFiniteSet(B(c))
    BY <1>3, FS_Bijection, FS_CardinalityType
  <1>5. \A c \in Candidate : IsFiniteSet(B(c))
    BY <1>4
  <1> QED BY <1>1, <1>2, <1>4, <1>5 DEF B

-----------------------------------------------------------------------------
(* One more ballot on the board.                                            *)

\* One more ballot changes the choice of at most one voter, and only from
\* none to a candidate.
LEMMA AppendFillsOne ==
  ASSUME NEW adm \in Seq(Com), NEW com \in Com
  PROVE  \/ ChoiceOn(Append(adm, com), NoVote) = ChoiceOn(adm, NoVote)
         \/ \E v \in Voter, c \in Candidate :
              /\ ChoiceOn(adm, NoVote)[v] = NoVote
              /\ ChoiceOn(Append(adm, com), NoVote) = [ChoiceOn(adm, NoVote) EXCEPT ![v] = c]
  <1> DEFINE old == ChoiceOn(adm, NoVote)
             new == ChoiceOn(Append(adm, com), NoVote)
             w == Opening[com].id
  <1>1. /\ old = [v \in Voter |-> old[v]]
        /\ new = [v \in Voter |-> new[v]]
    BY DEF ChoiceOn
  <1>2. \A v \in Voter : VotesOf(adm, v) = {} => old[v] = NoVote
    BY DEF ChoiceOn
  <1>3. \A v \in Voter : VotesOf(adm, v) # {} => new[v] = old[v]
    BY AppendKeepsChoice
  <1>4. \A v \in Voter : VotesOf(adm, v) = {} =>
          new[v] = IF IsValid(com) /\ w = v THEN Opening[com].cand ELSE NoVote
    BY AppendFillsChoice
  <1>5. IsValid(com) => w \in Voter /\ Opening[com].cand \in Candidate
    BY ValidBallot
  <1> HIDE DEF old, new
  <1>6. CASE IsValid(com) /\ VotesOf(adm, w) = {}
    <2>1. w \in Voter /\ Opening[com].cand \in Candidate
      BY <1>5, <1>6
    <2>2. new = [old EXCEPT ![w] = Opening[com].cand]
      BY <1>1, <1>2, <1>3, <1>4, <1>6, <2>1
    <2>3. old[w] = NoVote
      BY <1>2, <1>6, <2>1
    <2> QED BY <2>1, <2>2, <2>3 DEF old, new
  <1>7. CASE ~(IsValid(com) /\ VotesOf(adm, w) = {})
    <2>1. \A v \in Voter : new[v] = old[v]
      BY <1>2, <1>3, <1>4, <1>7
    <2>2. new = old
      BY <1>1, <2>1
    <2> QED BY <2>2 DEF old, new
  <1> QED BY <1>6, <1>7

\* A voter without a choice who makes one adds one to that candidate's count
\* and changes no other.
LEMMA FillingAddsOne ==
  ASSUME NEW old \in [Voter -> Candidate \cup {NoVote}],
         NEW v \in Voter, NEW c \in Candidate, old[v] = NoVote,
         \A d \in Candidate : IsFiniteSet({u \in Voter : old[u] = d}),
         NEW d \in Candidate
  PROVE  TallyOfChoice([old EXCEPT ![v] = c])[d]
           = TallyOfChoice(old)[d] + (IF d = c THEN 1 ELSE 0)
  <1> DEFINE new == [old EXCEPT ![v] = c]
             O == {u \in Voter : old[u] = d}
             N == {u \in Voter : new[u] = d}
  <1>1. TallyOfChoice(new)[d] = Cardinality(N) /\ TallyOfChoice(old)[d] = Cardinality(O)
    BY DEF TallyOfChoice
  <1>2. IsFiniteSet(O) /\ v \notin O
    BY CountingBounds
  <1>3. CASE d = c
    <2>1. N = O \cup {v}
      BY <1>3
    <2>2. Cardinality(N) = Cardinality(O) + 1
      BY <1>2, <2>1, FS_AddElement
    <2> QED BY <1>1, <1>3, <2>2
  <1>4. CASE d # c
    <2>1. N = O
      BY <1>4, CountingBounds
    <2>2. Cardinality(O) \in Nat
      BY <1>2, FS_CardinalityType
    <2> QED BY <1>1, <1>4, <2>1, <2>2
  <1> QED BY <1>3, <1>4

-----------------------------------------------------------------------------
(* The specification.                                                       *)

\* The inductive invariant: the published counts are those of the whole board.
TalliedBoard == TypeOK /\ counts = FilterAndTally(admitted)

\* Every reachable state publishes the tally of its board.
LEMMA TalliedBoardInvariant == Spec => []TalliedBoard
  <1>1. Init => TalliedBoard
    <2>1. <<>> \in Seq(Com)
      OBVIOUS
    <2> QED BY <2>1, TallyCountsChoices DEF Init, TalliedBoard, TypeOK
  <1>2. TalliedBoard /\ [Next]_vars => TalliedBoard'
    <2> SUFFICES ASSUME TalliedBoard, [Next]_vars
                 PROVE  TalliedBoard'
      OBVIOUS
    <2>1. ASSUME NEW com \in Com, Admit(com)
          PROVE  TalliedBoard'
      <3>1. admitted' \in Seq(Com)
        BY <2>1, AppendProperties DEF Admit, TalliedBoard, TypeOK
      <3>2. FilterAndTally(admitted') \in [Candidate -> Nat]
        BY <3>1, TallyCountsChoices
      <3> QED BY <2>1, <3>1, <3>2 DEF Admit, TalliedBoard, TypeOK
    <2>2. CASE UNCHANGED vars
      BY <2>2 DEF TalliedBoard, TypeOK, vars
    <2> QED BY <2>1, <2>2 DEF Next
  <1> QED BY <1>1, <1>2, PTL DEF Spec

\* The board holds commitments and the counts are numbers, one per candidate.
THEOREM CountingTypeOK == Spec => []TypeOK
  <1>1. TalliedBoard => TypeOK
    BY DEF TalliedBoard
  <1> QED BY <1>1, TalliedBoardInvariant, PTL

\* duplicates.rs:64-70, for every admitted board: the sort and the linear pass
\* count exactly what the quadratic reference counts.
THEOREM SortedIsAlwaysNaive == Spec => []SortedIsNaive
  <1>1. TalliedBoard => SortedIsNaive
    BY RecordsNumbered, SortedCountsNaive DEF TalliedBoard, TypeOK, SortedIsNaive
  <1> QED BY <1>1, TalliedBoardInvariant, PTL

\* For every admitted board: the published counts are those of an election in
\* which every voter casts the candidate of the first valid ballot, once.
THEOREM TallyIsAlwaysOfFirstChoices == Spec => []TallyIsOfFirstChoices
  <1>1. TalliedBoard => TallyIsOfFirstChoices
    BY TallyCountsChoices DEF TalliedBoard, TypeOK, TallyIsOfFirstChoices
  <1> QED BY <1>1, TalliedBoardInvariant, PTL

\* For every board and every ballot: admitting it adds one to at most one
\* candidate's count and lowers none.
THEOREM AdmissionAlwaysAddsAtMostOne == Spec => AdmissionAddsAtMostOne
  <1> DEFINE Gains ==
        \E gains \in SUBSET Candidate :
          /\ Cardinality(gains) <= 1
          /\ \A c \in Candidate : counts'[c] = counts[c] + (IF c \in gains THEN 1 ELSE 0)
  <1>1. TalliedBoard /\ [Next]_vars => [Gains]_vars
    <2> SUFFICES ASSUME TalliedBoard, NEW com \in Com, Admit(com)
                 PROVE  Gains
      BY DEF Next, vars
    <2> DEFINE old == ChoiceOn(admitted, NoVote)
               new == ChoiceOn(admitted', NoVote)
    <2>1. /\ admitted \in Seq(Com) /\ admitted' = Append(admitted, com)
          /\ admitted' \in Seq(Com)
      BY AppendProperties DEF TalliedBoard, TypeOK, Admit
    <2>2. /\ counts = TallyOfChoice(old) /\ counts' = TallyOfChoice(new)
          /\ counts \in [Candidate -> Nat]
          /\ \A c \in Candidate : IsFiniteSet({u \in Voter : old[u] = c})
      BY <2>1, TallyCountsChoices DEF TalliedBoard, TypeOK, Admit
    <2>3. CASE new = old
      <3>1. Cardinality({}) <= 1 /\ {} \in SUBSET Candidate
        BY FS_EmptySet
      <3>2. \A c \in Candidate : counts'[c] = counts[c] + (IF c \in {} THEN 1 ELSE 0)
        BY <2>2, <2>3
      <3> QED BY <3>1, <3>2
    <2>4. ASSUME NEW v \in Voter, NEW c \in Candidate,
                 old[v] = NoVote, new = [old EXCEPT ![v] = c]
          PROVE  Gains
      <3>1. old \in [Voter -> Candidate \cup {NoVote}]
        <4>1. ASSUME NEW u \in Voter, VotesOf(admitted, u) # {}
              PROVE  Opening[admitted[FirstVote(admitted, u)]].cand \in Candidate
          <5>1. FirstVote(admitted, u) \in VotesOf(admitted, u)
            BY <2>1, <4>1, FirstVoteIsFirst
          <5>2. /\ admitted[FirstVote(admitted, u)] \in Com
                /\ IsValid(admitted[FirstVote(admitted, u)])
            BY <2>1, <5>1 DEF VotesOf
          <5> QED BY <5>2, ValidBallot
        <4> QED BY <4>1 DEF ChoiceOn
      <3>2. Cardinality({c}) <= 1 /\ {c} \in SUBSET Candidate
        BY FS_Singleton
      <3> HIDE DEF old, new
      <3>3. \A d \in Candidate :
              TallyOfChoice(new)[d] = TallyOfChoice(old)[d] + (IF d = c THEN 1 ELSE 0)
        BY <2>2, <2>4, <3>1, FillingAddsOne DEF old
      <3>4. \A d \in Candidate : counts'[d] = counts[d] + (IF d \in {c} THEN 1 ELSE 0)
        BY <2>2, <3>3
      <3> QED BY <3>2, <3>4
    <2> QED BY <2>1, <2>3, <2>4, AppendFillsOne
  <1> QED BY <1>1, TalliedBoardInvariant, PTL DEF Spec, AdmissionAddsAtMostOne

-----------------------------------------------------------------------------
(* One pass, cut at a slot.                                                 *)

\* The identity met before slot `mid` of a pass.
IdBefore(rows, mid, before) == IF mid = 0 THEN before ELSE rows[mid - 1].id

\* The slots counted before `last` are those counted before `mid` and those
\* counted from `mid` on, when the identity before `mid` is carried over.
LEMMA SlotsCut ==
  ASSUME NEW rows, NEW mid \in Nat, NEW last \in Nat, mid <= last, NEW before
  PROVE  LET left  == CountedSlots(rows, 0, mid, before)
             right == CountedSlots(rows, mid, last, IdBefore(rows, mid, before))
         IN  /\ CountedSlots(rows, 0, last, before) = left \cup right
             /\ left \cap right = {}
  <1> DEFINE opensBlock(j) == rows[j].valid /\ rows[j].id # IdBefore(rows, j, before)
  <1>1. CountedSlots(rows, 0, last, before) = {j \in 0..(last - 1) : opensBlock(j)}
    BY DEF CountedSlots, IdBefore
  <1>2. CountedSlots(rows, 0, mid, before) = {j \in 0..(mid - 1) : opensBlock(j)}
    BY DEF CountedSlots, IdBefore
  <1>3. CountedSlots(rows, mid, last, IdBefore(rows, mid, before))
          = {j \in mid..(last - 1) : opensBlock(j)}
    BY DEF CountedSlots, IdBefore
  <1> HIDE DEF opensBlock
  <1> QED BY <1>1, <1>2, <1>3

\* So the votes of a pass are the votes of its two parts.
LEMMA VotesCut ==
  ASSUME NEW rows, NEW mid \in Nat, NEW last \in Nat, mid <= last, NEW before,
         NEW c \in Candidate
  PROVE  VotesAt(rows, CountedSlots(rows, 0, last, before))[c]
           = VotesAt(rows, CountedSlots(rows, 0, mid, before))[c]
               + VotesAt(rows, CountedSlots(rows, mid, last,
                                            IdBefore(rows, mid, before)))[c]
  <1> DEFINE all   == CountedSlots(rows, 0, last, before)
             left  == CountedSlots(rows, 0, mid, before)
             right == CountedSlots(rows, mid, last, IdBefore(rows, mid, before))
             For(S) == {j \in S : rows[j].cand = c}
  <1>1. all = left \cup right /\ left \cap right = {}
    BY SlotsCut, Zenon
  <1>2. IsFiniteSet(For(left)) /\ IsFiniteSet(For(right))
    <2>1. IsFiniteSet(left) /\ IsFiniteSet(right)
      BY SlotsFinite
    <2>2. For(left) \subseteq left /\ For(right) \subseteq right
      OBVIOUS
    <2> QED BY <2>1, <2>2, FS_Subset, Zenon
  <1>3. \A S : VotesAt(rows, S)[c] = Cardinality(For(S))
    BY DEF VotesAt
  <1>4. /\ Cardinality(For(left)) \in Nat
        /\ Cardinality(For(right)) \in Nat
    BY <1>2, FS_CardinalityType
  <1> HIDE DEF all, left, right
  <1>5. For(all) = For(left) \cup For(right) /\ For(left) \cap For(right) = {}
    BY <1>1
  <1>6. Cardinality(For(all))
          = Cardinality(For(left)) + Cardinality(For(right))
              - Cardinality(For(left) \cap For(right))
    BY <1>2, <1>5, FS_Union, Zenon
  <1>7. Cardinality(For(left) \cap For(right)) = 0
    BY <1>5, FS_EmptySet, Zenon
  <1>8. Cardinality(For(all)) = Cardinality(For(left)) + Cardinality(For(right))
    <2> HIDE DEF For
    <2> QED BY <1>4, <1>6, <1>7
  <1>9. VotesAt(rows, all)[c] = VotesAt(rows, left)[c] + VotesAt(rows, right)[c]
    <2> HIDE DEF For
    <2> QED BY <1>3, <1>8
  <1> QED BY <1>9 DEF all, left, right

\* A pass over no slots counts no vote.
LEMMA NoSlots ==
  ASSUME NEW rows, NEW before
  PROVE  VotesAt(rows, CountedSlots(rows, 0, 0, before)) = NoVotes
  <1>1. CountedSlots(rows, 0, 0, before) = {}
    BY DEF CountedSlots
  <1>2. \A c : {j \in {} : rows[j].cand = c} = {}
    OBVIOUS
  <1>3. Cardinality({}) = 0
    BY FS_EmptySet
  <1> QED BY <1>1, <1>2, <1>3, Zenon DEF VotesAt, NoVotes

-----------------------------------------------------------------------------
(* The checker's order.                                                     *)

\* What a run checks of the slots before n; the key of a sentinel is not
\* compared with the next.
ChecksOut(s, n) ==
  /\ \A j \in 0..(n - 1) : s[j].pos < PosLimit
  /\ \A j \in 1..(n - 1) : s[j - 1].id = IdLimit \/ KeyWide(s[j - 1]) <= KeyWide(s[j])

\* What checks out is in the order of the pass, when the slots hold records of
\* a board.
LEMMA CheckedIsInOrder ==
  ASSUME NEW adm \in Seq(Com), NEW n \in Nat, RowsFetchable(adm), NumVoters < IdLimit,
         NEW rs, HoldsBoard(rs, adm, n),
         NEW s, Shuffled(s, rs, n), ChecksOut(s, n)
  PROVE  SlotsInOrder(s, n)
  <1>1. IdLimit \in Nat /\ PosLimit \in Nat /\ NumVoters \in Nat
    BY ChunkedBounds, VotersAssumption
  <1>2. ASSUME NEW i \in 0..(n - 1)
        PROVE  /\ s[i].valid \in BOOLEAN /\ s[i].id \in 0..(IdLimit - 1)
               /\ s[i].pos \in 0..(PosLimit - 1)
    <2>1. PICK j \in 0..(n - 1) : s[i] = rs[j]
      BY DEF Shuffled
    <2>2. s[i].pos < PosLimit
      BY DEF ChecksOut
    <2>3. /\ rs[j].valid \in BOOLEAN /\ rs[j].pos \in Nat
          /\ rs[j].id = 0 \/ rs[j].id \in Voter
      BY BoardSlot
    <2>4. rs[j].id \in 0..(IdLimit - 1)
      BY <1>1, <2>3 DEF Voter
    <2> QED BY <1>1, <2>1, <2>2, <2>3, <2>4
  <1>3. ASSUME NEW j \in 1..(n - 1)
        PROVE  InOrder(s[j - 1], s[j])
    <2> DEFINE a == s[j - 1]
               b == s[j]
               invalid == 2 * IdLimit * PosLimit
    <2>1. j - 1 \in 0..(n - 1) /\ j \in 0..(n - 1)
      OBVIOUS
    <2>2. /\ a.valid \in BOOLEAN /\ a.id \in 0..(IdLimit - 1) /\ a.pos \in 0..(PosLimit - 1)
          /\ b.valid \in BOOLEAN /\ b.id \in 0..(IdLimit - 1) /\ b.pos \in 0..(PosLimit - 1)
      BY <1>2, <2>1
    <2>3. KeyWide(a) <= KeyWide(b)
      BY <1>1, <2>2 DEF ChecksOut
    <2>4. Packed(PosLimit, invalid, a) <= Packed(PosLimit, invalid, b)
      BY <2>3, Zenon DEF KeyWide, Packed
    <2>5. invalid \in Nat /\ HasRoom(IdLimit, PosLimit, invalid)
      <3> DEFINE half == IdLimit * PosLimit
      <3>1. half \in Nat /\ invalid = half + half
        BY <1>1
      <3> HIDE DEF half, invalid
      <3>2. invalid \in Nat /\ half <= invalid
        BY <3>1
      <3> QED BY <3>2 DEF half, HasRoom
    <2> HIDE DEF a, b, invalid
    <2>6. InOrder(a, b)
      BY ONLY <1>1, <2>2, <2>4, <2>5, PackedOrders
    <2> QED BY <2>6 DEF a, b
  <1> QED BY <1>3 DEF SlotsInOrder

\* Hence the votes of a pass over what checks out are those filter_and_tally
\* publishes.
LEMMA CheckedPassIsTally ==
  ASSUME NEW adm \in Seq(Com), NEW n \in Nat, Len(adm) <= n,
         RowsFetchable(adm), NumVoters < IdLimit,
         NEW rs, HoldsBoard(rs, adm, n),
         NEW s, Shuffled(s, rs, n), ChecksOut(s, n)
  PROVE  VotesAt(s, CountedSlots(s, 0, n, IdLimit)) = FilterAndTally(adm)
  <1>1. SlotsInOrder(s, n)
    BY CheckedIsInOrder
  <1>2. IdLimit \notin Voter
    BY ChunkedBounds, VotersAssumption DEF Voter
  <1> QED BY <1>1, <1>2, PassIsTally

-----------------------------------------------------------------------------
(* The same records, as often, are the same records rearranged.             *)

\* Equal products make the sorted records a permutation of numbered rows.
LEMMA SameIsRearranged ==
  ASSUME NEW n \in Nat, NEW s, NEW rs,
         DOMAIN s = 0..(n - 1), DOMAIN rs = 0..(n - 1),
         \A j \in 0..(n - 1) : rs[j].pos = j,
         SameRecords(s, rs)
  PROVE  Rearranged(s, rs, n)
  <1> DEFINE D == 0..(n - 1)
             At(j) == {i \in D : s[i] = rs[j]}
  <1>1. IsFiniteSet(D)
    BY FS_Interval
  <1>2. ASSUME NEW j \in D
        PROVE  \E i : At(j) = {i}
    <2>1. {i \in D : rs[i] = rs[j]} = {j}
      <3>1. \A i \in D : rs[i] = rs[j] => i = j
        OBVIOUS
      <3> QED BY <3>1
    <2>2. Cardinality(At(j)) = Cardinality({i \in D : rs[i] = rs[j]})
      BY DEF SameRecords
    <2>3. Cardinality({j}) = 1
      BY FS_Singleton
    <2>4. IsFiniteSet(At(j))
      BY <1>1, FS_Subset
    <2> QED BY <2>1, <2>2, <2>3, <2>4, FS_Singleton, Zenon
  <1> DEFINE f == [j \in D |-> CHOOSE i : At(j) = {i}]
  <1>3. ASSUME NEW j \in D
        PROVE  f[j] \in D /\ s[f[j]] = rs[j] /\ At(j) = {f[j]}
    <2>1. At(j) = {f[j]}
      BY <1>2, Zenon
    <2> HIDE DEF f
    <2>2. f[j] \in At(j)
      BY <2>1
    <2> QED BY <2>1, <2>2
  <1>4. f \in [D -> D]
    BY <1>3
  <1>5. \A j, k \in D : f[j] = f[k] => j = k
    <2> HIDE DEF f
    <2> QED BY <1>3
  <1>6. f \in Injection(D, D)
    <2> HIDE DEF f
    <2> QED BY <1>4, <1>5 DEF Injection, IsInjective
  <1>7. f \in Surjection(D, D)
    <2> HIDE DEF f, D
    <2> QED BY <1>1, <1>6, FS_Injection
  <1>8. \A i \in D : \E j \in D : f[j] = i
    <2> HIDE DEF f, D
    <2> QED BY <1>7 DEF Surjection
  <1> HIDE DEF f
  <1>9. ASSUME NEW i \in D
        PROVE  s[i].pos \in D /\ s[i] = rs[s[i].pos] /\ f[s[i].pos] = i
    <2>1. PICK j \in D : f[j] = i
      BY <1>8
    <2>2. s[i] = rs[j] /\ s[i].pos = j
      BY <1>3, <2>1
    <2> QED BY <2>1, <2>2
  <1>10. \A j \in D : s[f[j]].pos = j
    BY <1>3
  <1> QED BY <1>3, <1>9, <1>10, SMTT(30) DEF Rearranged

\* So they are shuffled ones.
LEMMA SameIsShuffled ==
  ASSUME NEW n \in Nat, NEW s, NEW rs,
         DOMAIN s = 0..(n - 1), DOMAIN rs = 0..(n - 1),
         \A j \in 0..(n - 1) : rs[j].pos = j,
         SameRecords(s, rs)
  PROVE  Shuffled(s, rs, n)
  BY SameIsRearranged, RearrangedIsShuffled


-----------------------------------------------------------------------------
(* The runs add up.                                                         *)

\* Nothing is added up before a claim is under check.
RunsInv ==
  /\ run \in Nat
  /\ claim # NoClaim => claim.chunk \in Nat \ {0}
  /\ verdict = "none" \/ claim = NoClaim => run = 0 /\ total = NoVotes
  /\ claim = NoClaim => verdict = "none"
  /\ RunsAddUp

\* A new claim starts with nothing added up.
LEMMA ClaimKeepsRuns ==
  ASSUME RunsInv, NEW c \in ChunkSizes, NEW sorted, NEW cs, Claim(c, sorted, cs)
  PROVE  RunsInv'
  <1>1. /\ run = 0 /\ total = NoVotes /\ verdict = "none"
        /\ run' = 0 /\ total' = NoVotes /\ verdict' = "none"
    BY DEF RunsInv, Claim
  <1>2. claim'.chunk = c /\ claim'.sorted = sorted /\ c \in Nat \ {0}
    BY ChunkedBounds DEF Claim
  <1>3. 0 * c = 0
    BY <1>2
  <1>4. RunsAddUp'
    BY <1>1, <1>2, <1>3, NoSlots, Zenon DEF RunsAddUp
  <1> QED BY <1>1, <1>2, <1>4 DEF RunsInv

\* A run that is checked adds what one pass counts in its slots.
LEMMA CheckRunKeepsRuns ==
  ASSUME RunsInv, CheckRun
  PROVE  RunsInv'
  <1> DEFINE first == run * claim.chunk
             after == (run + 1) * claim.chunk
  <1>1. /\ claim # NoClaim /\ claim' = claim
        /\ run \in Nat /\ claim.chunk \in Nat \ {0} /\ verdict' # "none"
    BY DEF RunsInv, CheckRun
  <1>2. CASE RunIsSorted(run)
    <2>1. /\ run' = run + 1
          /\ total' = [c \in Candidate |-> total[c] + PartialTally(run)[c]]
      BY <1>2 DEF CheckRun
    <2>2. /\ first \in Nat /\ after \in Nat /\ first <= after
          /\ first = 0 <=> run = 0
      BY <1>1
    <2> HIDE DEF first, after
    <2>3. total = VotesAt(claim.sorted, CountedSlots(claim.sorted, 0, first, IdLimit))
      BY <1>1 DEF RunsInv, RunsAddUp, first
    <2>4. BoundaryIn(run).id = IdBefore(claim.sorted, first, IdLimit)
      BY <2>2 DEF BoundaryIn, Sentinel, IdBefore, first
    <2>5. PartialTally(run)
            = VotesAt(claim.sorted, CountedSlots(claim.sorted, first, after, BoundaryIn(run).id))
      BY Zenon DEF PartialTally, first, after
    <2>6. ASSUME NEW c \in Candidate
          PROVE  VotesAt(claim.sorted, CountedSlots(claim.sorted, 0, after, IdLimit))[c]
                   = total[c] + PartialTally(run)[c]
      <3>1. VotesAt(claim.sorted, CountedSlots(claim.sorted, 0, after, IdLimit))[c]
              = VotesAt(claim.sorted, CountedSlots(claim.sorted, 0, first, IdLimit))[c]
                  + VotesAt(claim.sorted, CountedSlots(claim.sorted, first, after,
                              IdBefore(claim.sorted, first, IdLimit)))[c]
        <4> DEFINE rows == claim.sorted
        <4> HIDE DEF rows
        <4>1. VotesAt(rows, CountedSlots(rows, 0, after, IdLimit))[c]
                = VotesAt(rows, CountedSlots(rows, 0, first, IdLimit))[c]
                    + VotesAt(rows, CountedSlots(rows, first, after,
                                IdBefore(rows, first, IdLimit)))[c]
          BY <2>2, VotesCut
        <4> QED BY <4>1 DEF rows
      <3> QED BY <2>3, <2>4, <2>5, <3>1, Zenon
    <2>7. total' = VotesAt(claim.sorted, CountedSlots(claim.sorted, 0, after, IdLimit))
      BY <2>1, <2>6 DEF VotesAt
    <2>8. RunsAddUp'
      BY <1>1, <2>1, <2>7, Zenon DEF RunsAddUp, after
    <2> QED BY <1>1, <2>1, <2>8 DEF RunsInv
  <1>3. CASE ~RunIsSorted(run)
    BY <1>1, <1>3 DEF CheckRun, RunsInv, RunsAddUp
  <1> QED BY <1>2, <1>3

\* The sum of the partial tallies is inductive.
LEMMA RunsInvariant == ChunkedSpec => []RunsInv
  <1>1. ChunkedInit => RunsInv
    BY DEF ChunkedInit, RunsInv, RunsAddUp
  <1>2. RunsInv /\ [ChunkedNext]_chunkedVars => RunsInv'
    <2> SUFFICES ASSUME RunsInv, [ChunkedNext]_chunkedVars
                 PROVE  RunsInv'
      OBVIOUS
    <2>1. CASE claim = NoClaim /\ (\E com \in Com : Admit(com)) /\ UNCHANGED claimVars
      BY <2>1 DEF RunsInv, RunsAddUp, claimVars, NoClaim, NoVotes
    <2>2. ASSUME NEW c \in ChunkSizes, Build(c)
          PROVE  RunsInv'
      BY <2>2, ClaimKeepsRuns DEF Build
    <2>3. ASSUME NEW c \in ChunkSizes, NEW sorted, Tamper(c, sorted)
          PROVE  RunsInv'
      BY <2>3, ClaimKeepsRuns DEF Tamper
    <2>4. CASE BeginCheck
      BY <2>4 DEF BeginCheck, RunsInv, RunsAddUp
    <2>5. CASE CheckRun
      BY <2>5, CheckRunKeepsRuns
    <2>6. CASE Conclude
      BY <2>6 DEF Conclude, RunsInv, RunsAddUp
    <2>7. CASE UNCHANGED chunkedVars
      BY <2>7 DEF chunkedVars, claimVars, RunsInv, RunsAddUp
    <2> QED BY <2>1, <2>2, <2>3, <2>4, <2>5, <2>6, <2>7 DEF ChunkedNext
  <1> QED BY <1>1, <1>2, PTL DEF ChunkedSpec

\* However the sorted records are cut, and whatever they are, the partial
\* tallies that chunked_relation_check_native adds up are those of one pass.
THEOREM RunsAlwaysAddUp == ChunkedSpec => []RunsAddUp
  <1>1. RunsInv => RunsAddUp
    BY DEF RunsInv
  <1> QED BY RunsInvariant, <1>1, PTL

-----------------------------------------------------------------------------
(* The invariant of the checker.                                            *)

\* What has been checked so far, and that it is of the board's own slots.
ExactInv ==
  /\ RunsInv
  /\ admitted \in Seq(Com)
  /\ claim # NoClaim => /\ claim.chunk \in ChunkSizes
                        /\ DOMAIN claim.sorted = 0..(Padded(claim.chunk) - 1)
                        /\ ChecksOut(claim.sorted, run * claim.chunk)
  /\ verdict = "checking" => NumVoters < IdLimit /\ RowsFetchable(admitted)
  /\ AcceptedIsExact

\* The chunks of a board hold it.
LEMMA BoardFits ==
  ASSUME admitted \in Seq(Com), NEW c \in ChunkSizes
  PROVE  Padded(c) \in Nat /\ Len(admitted) <= Padded(c) /\ Chunks(c) \in Nat
  <1> DEFINE L == Len(admitted)
  <1>1. L \in Nat /\ c \in Nat \ {0}
    BY ChunkedBounds
  <1>2. CASE admitted = <<>>
    BY <1>1, <1>2 DEF Padded, Chunks
  <1>3. CASE admitted # <<>>
    <2> DEFINE q == (L + c - 1) \div c
    <2>1. q \in Nat /\ L + c - 1 < q * c + c
      BY <1>1
    <2>2. q * c \in Nat
      BY <1>1, <2>1
    <2>3. Chunks(c) = q
      BY <1>3 DEF Chunks
    <2> HIDE DEF q
    <2> QED BY <1>1, <2>1, <2>2, <2>3 DEF Padded
  <1> QED BY <1>2, <1>3

\* A new claim, honest or not, keeps the invariant.
LEMMA ClaimKeepsExact ==
  ASSUME ExactInv, NEW c \in ChunkSizes, NEW sorted, NEW cs, Claim(c, sorted, cs),
         DOMAIN sorted = 0..(Padded(c) - 1)
  PROVE  ExactInv'
  <1>1. RunsInv'
    BY ClaimKeepsRuns DEF ExactInv
  <1>2. /\ run = 0 /\ run' = 0 /\ verdict = "none" /\ verdict' = "none"
        /\ admitted' = admitted
    BY DEF ExactInv, RunsInv, Claim, vars
  <1>3. claim'.chunk = c /\ claim'.sorted = sorted
    BY DEF Claim
  <1>4. Padded(c)' = Padded(c)
    BY <1>2 DEF Padded, Chunks
  <1>5. ChecksOut(sorted, 0 * c)
    BY ChunkedBounds DEF ChecksOut
  <1> QED BY <1>1, <1>2, <1>3, <1>4, <1>5 DEF ExactInv, AcceptedIsExact

\* A run that is sorted extends what checks out, the boundary to the run
\* before it included.
LEMMA RunExtends ==
  ASSUME NEW s, NEW k \in Nat, NEW c \in Nat \ {0},
         claim.sorted = s, claim.chunk = c,
         ChecksOut(s, k * c), RunIsSorted(k)
  PROVE  ChecksOut(s, (k + 1) * c)
  <1> DEFINE first == k * c
  <1>1. /\ first \in Nat /\ (k + 1) * c = first + c
        /\ first = 0 <=> k = 0
    <2>1. k * c \in Nat /\ (k + 1) * c = k * c + c
      OBVIOUS
    <2>2. k # 0 => k * c # 0
      OBVIOUS
    <2> QED BY <2>1, <2>2
  <1>2. \A j \in first..(first + c - 1) :
          /\ s[j].pos < PosLimit
          /\ (IF j = first THEN BoundaryKey(k) ELSE KeyWide(s[j - 1])) <= KeyWide(s[j])
    BY DEF RunIsSorted
  <1>3. k # 0 => \/ s[first - 1].id = IdLimit
                 \/ BoundaryKey(k) = KeyWide(s[first - 1])
    BY DEF BoundaryKey, BoundaryIn
  <1>4. ChecksOut(s, first)
    OBVIOUS
  <1> HIDE DEF first
  <1>5. ChecksOut(s, first + c)
    <2>1. ASSUME NEW j \in 0..((first + c) - 1)
          PROVE  s[j].pos < PosLimit
      <3>1. j \in 0..(first - 1) \/ j \in first..(first + c - 1)
        BY <1>1
      <3> QED BY <1>2, <1>4, <3>1 DEF ChecksOut
    <2>2. ASSUME NEW j \in 1..((first + c) - 1)
          PROVE  s[j - 1].id = IdLimit \/ KeyWide(s[j - 1]) <= KeyWide(s[j])
      <3>1. CASE j \in 1..(first - 1)
        BY <1>4, <3>1 DEF ChecksOut
      <3>2. CASE j = first
        BY <1>1, <1>2, <1>3, <3>2
      <3>3. CASE j \in (first + 1)..(first + c - 1)
        BY <1>1, <1>2, <3>3
      <3>4. \/ j \in 1..(first - 1)
            \/ j = first
            \/ j \in (first + 1)..(first + c - 1)
        BY <1>1
      <3> QED BY <3>1, <3>2, <3>3, <3>4, Zenon
    <2>3. first + c \in Nat
      BY <1>1
    <2> QED BY <2>1, <2>2, <2>3, Zenon DEF ChecksOut
  <1> QED BY <1>1, <1>5

\* So does the check of a run.
LEMMA CheckRunKeepsExact ==
  ASSUME ExactInv, CheckRun
  PROVE  ExactInv'
  <1>1. RunsInv'
    BY CheckRunKeepsRuns DEF ExactInv
  <1>2. /\ verdict = "checking" /\ claim # NoClaim /\ claim' = claim /\ admitted' = admitted
        /\ verdict' \in {"checking", "rejected"}
        /\ run \in Nat /\ claim.chunk \in ChunkSizes /\ claim.chunk \in Nat \ {0}
    BY DEF ExactInv, RunsInv, CheckRun, vars
  <1>3. Padded(claim.chunk)' = Padded(claim.chunk)
    BY <1>2 DEF Padded, Chunks
  <1>4. ChecksOut(claim.sorted, run * claim.chunk)
    BY <1>2 DEF ExactInv
  <1>5. CASE RunIsSorted(run)
    <2>1. run' = run + 1 /\ verdict' = verdict
      BY <1>5 DEF CheckRun
    <2>2. ChecksOut(claim.sorted, (run + 1) * claim.chunk)
      BY <1>2, <1>4, <1>5, RunExtends
    <2> QED BY <1>1, <1>2, <1>3, <2>1, <2>2 DEF ExactInv, AcceptedIsExact
  <1>6. CASE ~RunIsSorted(run)
    <2>1. run' = run /\ verdict' = "rejected"
      BY <1>6 DEF CheckRun
    <2> QED BY <1>1, <1>2, <1>3, <1>4, <2>1 DEF ExactInv, AcceptedIsExact
  <1> QED BY <1>5, <1>6

\* And the conclusion, where the product and the counts are compared.
LEMMA ConcludeKeepsExact ==
  ASSUME ExactInv, Conclude
  PROVE  ExactInv'
  <1> DEFINE c == claim.chunk
             s == claim.sorted
             n == Padded(c)
  <1>1. /\ verdict = "checking" /\ claim # NoClaim /\ run = Chunks(c)
        /\ claim' = claim /\ admitted' = admitted /\ run' = run /\ total' = total
        /\ c \in ChunkSizes /\ admitted \in Seq(Com) /\ counts' = counts
    BY DEF ExactInv, RunsInv, Conclude, vars
  <1>2. /\ verdict' \in {"accepted", "rejected"}
        /\ verdict' = "accepted" => SameRecords(s, BoardRecords(c)) /\ total = claim.counts
    BY DEF Conclude
  <1>3. Padded(c)' = Padded(c)
    BY <1>1 DEF Padded, Chunks
  <1>4. ASSUME SameRecords(s, BoardRecords(c))
        PROVE  total = FilterAndTally(admitted)
    <2>1. n \in Nat /\ Len(admitted) <= n /\ run * c = n
      BY <1>1, BoardFits DEF Padded
    <2>2. /\ DOMAIN s = 0..(n - 1) /\ ChecksOut(s, n)
          /\ NumVoters < IdLimit /\ RowsFetchable(admitted)
      BY <1>1, <2>1 DEF ExactInv
    <2>3. SameRecords(s, RowsOf(admitted, n))
      BY <1>4 DEF BoardRecords
    <2>4. total = VotesAt(s, CountedSlots(s, 0, n, IdLimit))
      BY <1>1, <2>1 DEF ExactInv, RunsInv, RunsAddUp
    <2> HIDE DEF n, s, c
    <2> DEFINE rs == RowsOf(admitted, n)
    <2>5. DOMAIN rs = 0..(n - 1) /\ \A j \in 0..(n - 1) : rs[j].pos = j
      BY DEF RowsOf, EvalRow, PaddingRow
    <2>6. HoldsBoard(rs, admitted, n)
      BY <1>1, <2>1, RowsHoldBoard
    <2> HIDE DEF rs
    <2>7. Shuffled(s, rs, n)
      BY <2>1, <2>2, <2>3, <2>5, SameIsShuffled DEF rs
    <2>8. VotesAt(s, CountedSlots(s, 0, n, IdLimit)) = FilterAndTally(admitted)
      BY <1>1, <2>1, <2>2, <2>6, <2>7, CheckedPassIsTally
    <2> QED BY <2>4, <2>8
  <1>5. AcceptedIsExact'
    BY <1>1, <1>2, <1>4 DEF AcceptedIsExact, FilterAndTally
  <1>6. RunsInv'
    BY <1>1, <1>2 DEF ExactInv, RunsInv, RunsAddUp
  <1> QED BY <1>1, <1>2, <1>3, <1>5, <1>6 DEF ExactInv

\* Before anything is claimed, nothing can be wrong.
LEMMA ExactAtStart ==
  ASSUME ChunkedInit
  PROVE  ExactInv
  <1>1. RunsInv
    BY NoSlots DEF ChunkedInit, RunsInv, RunsAddUp
  <1> QED BY <1>1 DEF ChunkedInit, Init, ExactInv, AcceptedIsExact

\* Every step keeps the invariant.
LEMMA ExactIsKept ==
  ASSUME ExactInv, [ChunkedNext]_chunkedVars
  PROVE  ExactInv'
  <1>1. ASSUME claim = NoClaim, NEW com \in Com, Admit(com), UNCHANGED claimVars
        PROVE  ExactInv'
    <2>1. admitted' \in Seq(Com)
      BY <1>1 DEF Admit, ExactInv
    <2> QED BY <1>1, <2>1
          DEF ExactInv, RunsInv, RunsAddUp, AcceptedIsExact, claimVars, NoClaim, NoVotes
  <1>2. ASSUME NEW c \in ChunkSizes, Build(c)
        PROVE  ExactInv'
    <2>1. DOMAIN GlobalSort(BoardRecords(c)) = 0..(Padded(c) - 1)
      BY DEF GlobalSort, BoardRecords, RowsOf
    <2> QED BY <1>2, <2>1, ClaimKeepsExact DEF Build
  <1>3. ASSUME NEW c \in ChunkSizes,
               NEW sorted \in [DOMAIN BoardRecords(c) -> RecordsAround(c)],
               Tamper(c, sorted)
        PROVE  ExactInv'
    <2>1. DOMAIN sorted = 0..(Padded(c) - 1)
      BY DEF BoardRecords, RowsOf
    <2> QED BY <1>3, <2>1, ClaimKeepsExact DEF Tamper
  <1>4. CASE BeginCheck
    BY <1>4 DEF BeginCheck, ExactInv, RunsInv, RunsAddUp, AcceptedIsExact, vars, Padded, Chunks
  <1>5. CASE CheckRun
    BY <1>5, CheckRunKeepsExact
  <1>6. CASE Conclude
    BY <1>6, ConcludeKeepsExact
  <1>7. CASE UNCHANGED chunkedVars
    BY <1>7 DEF chunkedVars, claimVars, vars, ExactInv, RunsInv, RunsAddUp, AcceptedIsExact,
                Padded, Chunks
  <1> QED BY <1>1, <1>2, <1>3, <1>4, <1>5, <1>6, <1>7 DEF ChunkedNext

\* The invariant holds in every reachable state.
LEMMA ExactInvariant == ChunkedSpec => []ExactInv
  <1>1. ChunkedInit => ExactInv
    BY ExactAtStart
  <1>2. ExactInv /\ [ChunkedNext]_chunkedVars => ExactInv'
    BY ExactIsKept
  <1> QED BY <1>1, <1>2, PTL DEF ChunkedSpec

\* No choice of sorted records makes chunked_relation_check_native accept
\* counts that are not those of the board, whatever the board, its padding and
\* the chunk size.
THEOREM AcceptedIsAlwaysExact == ChunkedSpec => []AcceptedIsExact
  <1>1. ExactInv => AcceptedIsExact
    BY DEF ExactInv
  <1> QED BY ExactInvariant, <1>1, PTL
-----------------------------------------------------------------------------
(* Chunks of slots.                                                         *)

\* Every slot of n chunks of c lies in one of them.
LEMMA SlotInChunk ==
  ASSUME NEW c \in Nat \ {0}, NEW n \in Nat, NEW g \in 0..(n * c - 1)
  PROVE  \E k \in 0..(n - 1) : k * c \in Nat /\ g \in (k * c)..(k * c + c - 1)
  <1> DEFINE k == g \div c
  <1>1. g \in Nat /\ n * c \in Nat /\ g < n * c
    OBVIOUS
  <1>2. k \in Nat /\ k * c \in Nat /\ k * c <= g /\ g < k * c + c
    BY <1>1
  <1> HIDE DEF k
  <1>3. ASSUME n <= k PROVE FALSE
    <2>1. PICK d \in Nat : k = n + d
      BY <1>2, <1>3
    <2>2. k * c = n * c + d * c /\ d * c \in Nat
      BY <2>1
    <2> QED BY <1>1, <1>2, <2>2
  <1>4. k \in 0..(n - 1)
    BY <1>2, <1>3
  <1>5. k * c \in Nat /\ g \in (k * c)..(k * c + c - 1)
    BY <1>1, <1>2
  <1> QED BY <1>4, <1>5, Zenon

\* A multiple of a size is divided by it.
LEMMA MultipleDivides ==
  ASSUME NEW c \in Nat \ {0}, NEW k \in Nat
  PROVE  (k * c) % c = 0 /\ (k * c) \div c = k
  <1> DEFINE q == (k * c) \div c
             r == (k * c) % c
  <1>1. k * c \in Nat
    OBVIOUS
  <1>2. q \in Int /\ r \in Int /\ k * c = q * c + r /\ 0 <= r /\ r < c
    BY <1>1
  <1> HIDE DEF q, r
  <1>3. ASSUME q < k PROVE FALSE
    <2>1. PICK d \in Nat : k = q + 1 + d
      BY <1>2, <1>3
    <2>2. k * c = q * c + c + d * c /\ d * c \in Nat
      BY <1>2, <2>1
    <2> QED BY <1>2, <2>2
  <1>4. ASSUME k < q PROVE FALSE
    <2>1. PICK d \in Nat : q = k + 1 + d
      BY <1>2, <1>4
    <2>2. q * c = k * c + c + d * c /\ d * c \in Nat
      BY <2>1
    <2> QED BY <1>2, <2>2
  <1>5. q = k /\ r = 0
    BY <1>2, <1>3, <1>4
  <1> QED BY <1>5 DEF q, r

\* Each chunk begins where the one before it ends.
LEMMA ChunkEnds ==
  ASSUME NEW c \in Nat \ {0}, NEW n \in Nat, NEW k \in 0..n
  PROVE  /\ k * c \in Nat /\ (k + 1) * c = k * c + c
         /\ k = 0 => k * c = 0
         /\ k # 0 => k - 1 \in 0..(n - 1) /\ (k - 1) * c + c = k * c /\ c <= k * c
  <1>1. k \in Nat
    OBVIOUS
  <1>2. k * c \in Nat /\ (k + 1) * c = k * c + c /\ (k = 0 => k * c = 0)
    BY <1>1
  <1>3. ASSUME k # 0 PROVE k - 1 \in 0..(n - 1) /\ (k - 1) * c + c = k * c /\ c <= k * c
    <2>1. k - 1 \in Nat /\ k - 1 \in 0..(n - 1)
      BY <1>1, <1>3
    <2>2. (k - 1) * c \in Nat /\ (k - 1) * c + c = k * c
      BY <2>1
    <2> QED BY <2>1, <2>2
  <1> QED BY <1>2, <1>3

-----------------------------------------------------------------------------
(* What the accepted proofs of a transcript state.                          *)

\* The sizes a transcript is made for.
Shaped(tr) == tr.width \in Nat \ {0} /\ tr.size \in Nat /\ tr.chunks \in Nat

\* A transcript whose structure and proofs are all accepted.
Verified(tr) ==
  StructureAccepted(tr) /\ \A i \in 0..(Items(tr) - 1) : Holds(tr, i)

\* The proofs of a verified transcript are one of each kind per chunk, and the
\* sum.
LEMMA VerifiedParts ==
  ASSUME NEW tr, Shaped(tr), Verified(tr)
  PROVE  /\ \A k \in 0..(tr.chunks - 1) : ValidityHolds(tr, k) /\ RunHolds(tr, k)
         /\ SumHolds(tr)
  <1> DEFINE n == tr.chunks
  <1>1. n \in Nat /\ Items(tr) = 2 * n + 1
    BY DEF Shaped, Items
  <1>2. \A i \in 0..(2 * n) : Holds(tr, i)
    BY <1>1 DEF Verified
  <1> HIDE DEF n
  <1>3. ASSUME NEW k \in 0..(n - 1)
        PROVE  ValidityHolds(tr, k) /\ RunHolds(tr, k)
    <2>1. k \in 0..(2 * n) /\ k < n
      BY <1>1
    <2>2. n + k \in 0..(2 * n) /\ ~(n + k < n) /\ n + k < 2 * n /\ (n + k) - n = k
      BY <1>1
    <2>3. ValidityHolds(tr, k)
      BY <1>2, <2>1, Zenon DEF Holds, n
    <2>4. RunHolds(tr, (n + k) - n)
      BY <1>2, <2>2, Zenon DEF Holds, n
    <2> QED BY <2>2, <2>3, <2>4
  <1>4. SumHolds(tr)
    <2>1. 2 * n \in 0..(2 * n) /\ ~(2 * n < n) /\ ~(2 * n < 2 * n)
      BY <1>1
    <2> QED BY <1>2, <2>1, Zenon DEF Holds, n
  <1> QED BY <1>3, <1>4 DEF n

\* The snapshots are prefixes of the admitted board, a chunk longer each.
LEMMA SnapshotIsPrefix ==
  ASSUME admitted \in Seq(Com), NEW tr, Shaped(tr), StructureAccepted(tr),
         NEW k \in 0..tr.chunks
  PROVE  /\ k * tr.size < Len(admitted) => tr.bb[k] = SubSeq(admitted, 1, k * tr.size)
         /\ ~(k * tr.size < Len(admitted)) => tr.bb[k] = admitted
  <1> DEFINE L == Len(admitted)
             m == tr.size
             n == tr.chunks
             bb == tr.bb
  <1>1. L \in Nat /\ m \in Nat \ {0} /\ n \in Nat /\ k \in Nat
    BY DEF Shaped, StructureAccepted
  <1>2. /\ bb[0] = <<>>
        /\ \A j \in 1..L : j % m = 0 => bb[j \div m] = SubSeq(admitted, 1, j)
        /\ \A l \in (L \div m + 1)..n : bb[l] = admitted
    BY DEF StructureAccepted, SnapshotsAccepted
  <1> HIDE DEF L, m, n, bb
  <1>3. k * m \in Nat /\ (k * m) % m = 0 /\ (k * m) \div m = k
    BY <1>1, MultipleDivides
  <1>4. CASE k = 0
    <2>1. k * m = 0
      BY <1>1, <1>4
    <2>2. SubSeq(admitted, 1, 0) = <<>>
      OBVIOUS
    <2>3. ~(0 < L) => admitted = <<>>
      BY <1>1 DEF L
    <2>4. bb[k] = <<>>
      BY <1>2, <1>4
    <2>5. /\ k * m < L => bb[k] = SubSeq(admitted, 1, k * m)
          /\ ~(k * m < L) => bb[k] = admitted
      BY <2>1, <2>2, <2>3, <2>4
    <2> QED BY <2>5 DEF L, m, bb
  <1>5. CASE k # 0 /\ k * m <= L
    <2>1. k * m # 0
      BY <1>1, <1>5, ChunkEnds
    <2>2. k * m \in 1..L
      BY <1>1, <1>3, <1>5, <2>1
    <2>3. bb[k] = SubSeq(admitted, 1, k * m)
      BY <1>2, <1>3, <2>2
    <2>4. SubSeq(admitted, 1, L) = admitted
      BY DEF L
    <2>5. ~(k * m < L) => k * m = L
      BY <1>1, <1>3, <1>5
    <2> QED BY <2>3, <2>4, <2>5 DEF L, m, bb
  <1>6. CASE L < k * m
    <2>1. L \div m \in Nat /\ (L \div m) * m <= L
      BY <1>1
    <2>2. ASSUME k <= L \div m PROVE FALSE
      <3> DEFINE d == (L \div m) - k
      <3>1. d \in Nat /\ L \div m = k + d
        BY <1>1, <2>1, <2>2
      <3> HIDE DEF d
      <3>2. (L \div m) * m = k * m + d * m /\ d * m \in Nat
        BY <1>1, <3>1
      <3> QED BY <1>1, <1>3, <1>6, <2>1, <3>2
    <2>3. k \in (L \div m + 1)..n
      BY <1>1, <2>1, <2>2 DEF n
    <2>4. bb[k] = admitted
      BY <1>2, <2>3
    <2>5. ~(k * m < L)
      BY <1>1, <1>3, <1>6
    <2> QED BY <2>4, <2>5 DEF L, m, bb
  <1> QED BY <1>1, <1>3, <1>4, <1>5, <1>6

\* A chunk is said to hold as many ballots as the circuit has slots, unless the
\* first chunk holds the whole board.
LEMMA ChunkFillsCircuit ==
  ASSUME admitted \in Seq(Com), NEW tr, Shaped(tr), Verified(tr)
  PROVE  \/ tr.size = tr.width
         \/ Len(admitted) <= tr.size /\ Len(admitted) <= tr.width
  <1> DEFINE L == Len(admitted)
             m == tr.size
  <1>1. /\ L \in Nat /\ m \in Nat \ {0} /\ tr.width \in Nat \ {0} /\ tr.chunks \in Nat \ {0}
        /\ tr.ballots = L
    BY DEF Shaped, Verified, StructureAccepted
  <1>2. 0 \in 0..tr.chunks /\ 1 \in 0..tr.chunks /\ 0 \in 0..(tr.chunks - 1)
    BY <1>1
  <1>3. 0 * m = 0 /\ 1 * m = m
    BY <1>1
  <1>4. StructureAccepted(tr) /\ ValidityHolds(tr, 0)
    BY <1>2, VerifiedParts DEF Verified
  <1>5. Len(tr.bb[0]) = 0
    BY <1>4 DEF StructureAccepted, SnapshotsAccepted
  <1>6. /\ m < L => tr.bb[1] = SubSeq(admitted, 1, m)
        /\ ~(m < L) => tr.bb[1] = admitted
    BY <1>2, <1>3, <1>4, SnapshotIsPrefix
  <1>7. Len(tr.bb[1]) = IF m < L THEN m ELSE L
    BY <1>1, <1>6
  <1>8. Len(tr.bb[1]) = Len(tr.bb[0]) + Active(tr, 0)
    <2>1. Len(tr.bb[0 + 1]) = Len(tr.bb[0]) + Active(tr, 0) /\ 0 + 1 = 1
      BY <1>4 DEF ValidityHolds
    <2> QED BY <2>1, Zenon
  <1>9. Active(tr, 0) = IF L <= 0 THEN 0 ELSE IF L < tr.width THEN L ELSE tr.width
    BY <1>1, <1>3 DEF Active
  <1> HIDE DEF L, m
  <1>10. Len(tr.bb[1]) = Active(tr, 0)
    <2>1. Active(tr, 0) \in Nat
      BY <1>1, <1>9
    <2> QED BY <1>5, <1>8, <2>1
  <1>11. m = tr.width \/ (L <= m /\ L <= tr.width)
    BY <1>1, <1>7, <1>9, <1>10
  <1> QED BY <1>11 DEF L, m

\* Chunk k begins at slot `lo`, and is said to begin at ballot `base`.
Begins(tr, k, lo, base) == lo = k * tr.width /\ base = k * tr.size

\* A slot of a chunk holds the row of its ballot, whose registration row can be
\* fetched, or padding.
LEMMA SlotHolds ==
  ASSUME admitted \in Seq(Com), NEW tr, Shaped(tr), Verified(tr),
         NEW k \in 0..(tr.chunks - 1), NEW lo \in Nat, NEW base \in Nat,
         Begins(tr, k, lo, base), NEW g \in lo..(lo + tr.width - 1)
  PROVE  /\ base = lo /\ g < Len(admitted) =>
              /\ tr.rc[g] = EvalRow(admitted[g + 1], g)
              /\ Opening[admitted[g + 1]].id < NumVoters =>
                   Reg[Opening[admitted[g + 1]].id].pathOk
         /\ ~(g < Len(admitted)) /\ (base = lo \/ Len(admitted) <= base) =>
              tr.rc[g] = PaddingRow(base + (g - lo))
  <1> DEFINE L == Len(admitted)
             c == tr.width
             bb == tr.bb
             j == g - lo
  <1>1. /\ L \in Nat /\ c \in Nat \ {0} /\ tr.ballots = L /\ k \in 0..tr.chunks
        /\ k + 1 \in 0..tr.chunks /\ tr.size \in Nat /\ StructureAccepted(tr)
    BY DEF Shaped, Verified, StructureAccepted
  <1>2. ValidityHolds(tr, k)
    BY VerifiedParts
  <1>3. Active(tr, k) = IF L - base <= 0 THEN 0 ELSE IF L - base < c THEN L - base ELSE c
    BY <1>1, Zenon DEF Active, Begins
  <1>4. j \in 0..(c - 1) /\ lo + j = g
    BY <1>1
  <1>5. tr.rc[lo + j] =
          IF j < Active(tr, k) THEN EvalRow(bb[k + 1][Len(bb[k]) + j + 1], base + j)
                               ELSE PaddingRow(base + j)
    <2> HIDE DEF j
    <2> QED BY <1>2, <1>4, Zenon DEF ValidityHolds, Begins
  <1>6. ASSUME ~(g < L), base = lo \/ L <= base
        PROVE  tr.rc[g] = PaddingRow(base + j)
    <2>1. ~(j < Active(tr, k))
      BY <1>1, <1>3, <1>4, <1>6
    <2> QED BY <1>4, <1>5, <2>1, Zenon
  <1>7. ASSUME g < L, base = lo
        PROVE  /\ tr.rc[g] = EvalRow(admitted[g + 1], g)
               /\ Opening[admitted[g + 1]].id < NumVoters =>
                    Reg[Opening[admitted[g + 1]].id].pathOk
    <2>1. /\ lo < L => bb[k] = SubSeq(admitted, 1, lo)
          /\ \E e \in Nat : e <= L /\ bb[k + 1] = SubSeq(admitted, 1, e)
      <3>1. (k + 1) * tr.size \in Nat
        BY <1>1
      <3>2. SubSeq(admitted, 1, L) = admitted
        OBVIOUS
      <3>3. /\ k * tr.size < L => bb[k] = SubSeq(admitted, 1, k * tr.size)
            /\ (k + 1) * tr.size < L => bb[k + 1] = SubSeq(admitted, 1, (k + 1) * tr.size)
            /\ ~((k + 1) * tr.size < L) => bb[k + 1] = admitted
        BY <1>1, SnapshotIsPrefix
      <3> DEFINE f == (k + 1) * tr.size
      <3> HIDE DEF f
      <3>4. \E e \in Nat : e <= L /\ bb[k + 1] = SubSeq(admitted, 1, e)
        <4>1. CASE f < L
          <5>1. f \in Nat /\ f <= L
            BY <1>1, <3>1, <4>1 DEF f
          <5>2. bb[k + 1] = SubSeq(admitted, 1, f)
            BY <3>3, <4>1, Zenon DEF f
          <5> QED BY <5>1, <5>2, Zenon
        <4>2. CASE ~(f < L)
          <5>1. bb[k + 1] = SubSeq(admitted, 1, L)
            BY <3>2, <3>3, <4>2, Zenon DEF f
          <5> QED BY <1>1, <5>1
        <4> QED BY <4>1, <4>2
      <3> QED BY <1>7, <3>3, <3>4, Zenon DEF Begins
    <2>2. PICK e \in Nat : e <= L /\ bb[k + 1] = SubSeq(admitted, 1, e)
      BY <2>1
    <2> HIDE DEF bb, c
    <2>3. lo < L /\ g \in Nat
      BY <1>1, <1>7
    <2>4. Len(bb[k]) = lo /\ Len(bb[k + 1]) = e
      BY <1>1, <2>1, <2>2, <2>3
    <2>5. Active(tr, k) = IF L - lo < c THEN L - lo ELSE c
      BY <1>1, <1>3, <1>7, <2>3 DEF c
    <2>6. j < Active(tr, k) /\ Active(tr, k) \in Nat
      BY <1>1, <1>4, <1>7, <2>3, <2>5 DEF c
    <2>7. e = lo + Active(tr, k)
      BY <1>2, <2>4 DEF ValidityHolds, bb
    <2>8. g + 1 \in 1..e /\ g + 1 = lo + j + 1
      BY <1>4, <2>3, <2>6, <2>7
    <2>9. bb[k + 1][g + 1] = admitted[g + 1]
      BY <1>1, <2>2, <2>8
    <2>10. tr.rc[g] = EvalRow(admitted[g + 1], g)
      BY <1>4, <1>5, <1>7, <2>4, <2>6, <2>8, <2>9, Zenon
    <2> DEFINE part == SubSeq(bb[k + 1], lo + 1, e)
    <2>11. RowsFetchable(part)
      BY <1>2, <2>4 DEF ValidityHolds, bb
    <2>12. j + 1 \in 1..Len(part) /\ part[j + 1] = admitted[g + 1]
      <3> DEFINE b == bb[k + 1]
      <3>1. b \in Seq(Com) /\ Len(b) = e
        BY <1>1, <2>2, <2>4
      <3> HIDE DEF b
      <3>2. Len(SubSeq(b, lo + 1, e)) = e - lo
        <4>1. lo + 1 \in 1..(Len(b) + 1) /\ e \in lo..Len(b) /\ (e - (lo + 1)) + 1 = e - lo
          BY <2>6, <2>7, <3>1
        <4> QED BY <3>1, <4>1, SubSeqProperties
      <3>3. j + 1 \in 1..(e - lo)
        BY <1>4, <2>6, <2>7
      <3>4. SubSeq(b, lo + 1, e)[j + 1] = b[(lo + 1) + (j + 1) - 1]
        BY <2>6, <2>7, <3>1, <3>2, <3>3
      <3>5. (lo + 1) + (j + 1) - 1 = g + 1
        BY <1>4, <2>8
      <3> QED BY <2>9, <3>2, <3>3, <3>4, <3>5, Zenon DEF b
    <2> HIDE DEF part, j
    <2>13. Opening[part[j + 1]].id < NumVoters => Reg[Opening[part[j + 1]].id].pathOk
      BY <2>11, <2>12 DEF RowsFetchable
    <2> QED BY <2>10, <2>12, <2>13, Zenon
  <1> QED BY <1>6, <1>7, Zenon

\* The records committed to in board order hold the admitted board, whose rows
\* can all be fetched.
LEMMA RecordsHoldBoard ==
  ASSUME admitted \in Seq(Com), NEW tr, Shaped(tr), Verified(tr)
  PROVE  /\ tr.chunks * tr.width \in Nat /\ Len(admitted) <= tr.chunks * tr.width
         /\ HoldsBoard(tr.rc, admitted, tr.chunks * tr.width)
         /\ RowsFetchable(admitted) /\ NumVoters < IdLimit
  <1> DEFINE L == Len(admitted)
             c == tr.width
             m == tr.size
             n == tr.chunks
  <1>1. /\ L \in Nat /\ c \in Nat \ {0} /\ m \in Nat \ {0} /\ n \in Nat \ {0} /\ L <= n * m
    BY DEF Shaped, Verified, StructureAccepted
  <1>2. m = c \/ (L <= m /\ L <= c)
    BY ChunkFillsCircuit
  <1>3. n * c \in Nat /\ L <= n * c
    <2>1. n * c \in Nat /\ n * m \in Nat /\ c <= n * c
      BY <1>1
    <2> QED BY <1>1, <1>2, <2>1
  <1>4. ASSUME NEW g \in 0..(n * c - 1)
        PROVE  \E k \in 0..(n - 1), lo \in Nat, base \in Nat :
                 /\ Begins(tr, k, lo, base)
                 /\ g \in lo..(lo + c - 1)
                 /\ base = lo \/ (L <= base /\ L <= g)
    <2>1. PICK k \in 0..(n - 1) : k * c \in Nat /\ g \in (k * c)..(k * c + c - 1)
      BY <1>1, SlotInChunk
    <2>2. k \in Nat /\ k \in 0..n
      BY <1>1
    <2>3. /\ k * m \in Nat
          /\ k = 0 => k * m = 0 /\ k * c = 0
          /\ k # 0 => m <= k * m /\ c <= k * c
      BY <1>1, <2>2, ChunkEnds
    <2> DEFINE lo == k * c
               base == k * m
    <2>4. /\ lo \in Nat /\ base \in Nat /\ g \in lo..(lo + c - 1)
          /\ k = 0 => base = lo
          /\ k # 0 => m <= base /\ c <= lo
      BY <2>1, <2>3
    <2>5. m = c => base = lo
      OBVIOUS
    <2> HIDE DEF lo, base
    <2>6. base = lo \/ (L <= base /\ L <= g)
      BY <1>1, <1>2, <2>4, <2>5
    <2> QED BY <2>4, <2>6, Zenon DEF lo, base, Begins
  <1>5. ASSUME NEW g \in 0..(n * c - 1)
        PROVE  /\ g < L => /\ tr.rc[g] = EvalRow(admitted[g + 1], g)
                           /\ Opening[admitted[g + 1]].id < NumVoters =>
                                Reg[Opening[admitted[g + 1]].id].pathOk
               /\ ~(g < L) => \E p \in Nat : tr.rc[g] = PaddingRow(p)
    <2>1. PICK k \in 0..(n - 1), lo \in Nat, base \in Nat :
                 /\ Begins(tr, k, lo, base)
                 /\ g \in lo..(lo + c - 1)
                 /\ base = lo \/ (L <= base /\ L <= g)
      BY <1>4
    <2>2. /\ base = lo /\ g < L =>
              /\ tr.rc[g] = EvalRow(admitted[g + 1], g)
              /\ Opening[admitted[g + 1]].id < NumVoters =>
                   Reg[Opening[admitted[g + 1]].id].pathOk
          /\ ~(g < L) /\ (base = lo \/ L <= base) => tr.rc[g] = PaddingRow(base + (g - lo))
      BY <2>1, SlotHolds
    <2>3. L <= g => ~(g < L)
      BY <1>1, <1>3
    <2>4. base + (g - lo) \in Nat
      BY <1>1, <2>1
    <2>5. g < L => base = lo
      BY <2>1, <2>3, Zenon
    <2>6. ~(g < L) => \E p \in Nat : tr.rc[g] = PaddingRow(p)
      BY <2>1, <2>2, <2>4, Zenon
    <2>7. ASSUME g < L
          PROVE  /\ tr.rc[g] = EvalRow(admitted[g + 1], g)
                 /\ Opening[admitted[g + 1]].id < NumVoters =>
                      Reg[Opening[admitted[g + 1]].id].pathOk
      BY <2>2, <2>5, <2>7
    <2> QED BY <2>6, <2>7
  <1>6. ASSUME NEW i \in 1..L, Opening[admitted[i]].id < NumVoters
        PROVE  Reg[Opening[admitted[i]].id].pathOk
    <2>1. i - 1 \in 0..(n * c - 1) /\ i - 1 < L /\ (i - 1) + 1 = i
      BY <1>1, <1>3
    <2> QED BY <1>5, <1>6, <2>1
  <1>7. RowsFetchable(admitted)
    BY <1>6 DEF RowsFetchable
  <1>8. NumVoters < IdLimit
    <2>1. 0 \in 0..(n - 1)
      BY <1>1
    <2>2. ValidityHolds(tr, 0)
      BY <2>1, VerifiedParts
    <2> QED BY <2>2 DEF ValidityHolds
  <1>9. HoldsBoard(tr.rc, admitted, n * c)
    <2>1. ASSUME NEW g \in 0..(n * c - 1), ~(g < L)
          PROVE  tr.rc[g].valid = FALSE /\ tr.rc[g].id = 0 /\ tr.rc[g].pos \in Nat
      <3>1. PICK p \in Nat : tr.rc[g] = PaddingRow(p)
        BY <1>5, <2>1
      <3> QED BY <3>1 DEF PaddingRow
    <2> QED BY <1>5, <2>1 DEF HoldsBoard
  <1> QED BY <1>3, <1>7, <1>8, <1>9

\* The boundary before a chunk is the sorted record before its first slot; the
\* first one is the sentinel.
LEMMA BoundaryBefore ==
  ASSUME NEW tr, Shaped(tr), Verified(tr), NEW k \in 0..(tr.chunks - 1), NEW lo \in Nat,
         lo = k * tr.width
  PROVE  /\ tr.boundary[k].id = IdBefore(tr.sc, lo, IdLimit)
         /\ lo # 0 => tr.boundary[k] = tr.sc[lo - 1]
  <1>1. tr.width \in Nat \ {0} /\ tr.chunks \in Nat /\ k \in Nat /\ k \in 0..tr.chunks
    BY DEF Shaped
  <1>2. CASE k = 0
    <2>1. lo = 0
      BY <1>1, <1>2, ChunkEnds
    <2>2. tr.boundary[0] = Sentinel
      BY DEF Verified, StructureAccepted
    <2> QED BY <1>2, <2>1, <2>2 DEF IdBefore, Sentinel
  <1>3. CASE k # 0
    <2>1. /\ k - 1 \in 0..(tr.chunks - 1) /\ (k - 1) + 1 = k
          /\ (k - 1) * tr.width + tr.width = lo /\ tr.width <= lo
      <3>1. k - 1 \in 0..(tr.chunks - 1) /\ (k - 1) + 1 = k
        BY <1>1, <1>3
      <3> QED BY <1>1, <1>3, <3>1, ChunkEnds
    <2>2. RunHolds(tr, k - 1)
      BY <2>1, VerifiedParts
    <2>3. tr.boundary[(k - 1) + 1] = tr.sc[(k - 1) * tr.width + tr.width - 1]
      BY <2>2, Zenon DEF RunHolds
    <2>4. tr.boundary[k] = tr.sc[lo - 1] /\ lo # 0
      BY <1>1, <2>1, <2>3
    <2> QED BY <2>4 DEF IdBefore
  <1> QED BY <1>2, <1>3

\* The runs of a verified transcript check out, over all its slots.
LEMMA RunsCheckOut ==
  ASSUME NEW tr, Shaped(tr), Verified(tr)
  PROVE  ChecksOut(tr.sc, tr.chunks * tr.width)
  <1> DEFINE c == tr.width
             n == tr.chunks
             s == tr.sc
  <1>1. c \in Nat \ {0} /\ n \in Nat
    BY DEF Shaped
  <1>2. ASSUME NEW j \in 0..(n * c - 1)
        PROVE  /\ s[j].pos < PosLimit
               /\ j # 0 => s[j - 1].id = IdLimit \/ KeyWide(s[j - 1]) <= KeyWide(s[j])
    <2>1. PICK k \in 0..(n - 1) : k * c \in Nat /\ j \in (k * c)..(k * c + c - 1)
      BY <1>1, SlotInChunk
    <2>2. RunHolds(tr, k)
      BY VerifiedParts
    <2>3. k * c # 0 => tr.boundary[k] = s[k * c - 1]
      BY <2>1, BoundaryBefore
    <2> DEFINE lo == k * c
    <2>4. \A i \in lo..(lo + c - 1) :
            /\ s[i].pos < PosLimit
            /\ (IF i = lo THEN KeyBefore(tr.boundary[k]) ELSE KeyWide(s[i - 1])) <= KeyWide(s[i])
      BY <2>2, Zenon DEF RunHolds
    <2>5. lo # 0 => tr.boundary[k] = s[lo - 1]
      BY <2>3
    <2>6. lo \in Nat /\ j \in lo..(lo + c - 1)
      BY <2>1
    <2> HIDE DEF lo, s, c, n
    <2>7. s[j].pos < PosLimit
      BY <2>4, <2>6
    <2>8. CASE j = lo
      BY <2>4, <2>5, <2>6, <2>7, <2>8 DEF KeyBefore
    <2>9. CASE j # lo
      BY <2>4, <2>6, <2>7, <2>9
    <2> QED BY <2>8, <2>9
  <1> HIDE DEF c, n, s
  <1>3. ASSUME NEW j \in 1..(n * c - 1)
        PROVE  s[j - 1].id = IdLimit \/ KeyWide(s[j - 1]) <= KeyWide(s[j])
    BY <1>2
  <1>4. ChecksOut(s, n * c)
    BY <1>2, <1>3 DEF ChecksOut
  <1> QED BY <1>4 DEF s, n, c

\* The partial tallies of a verified transcript add up to one pass over its
\* sorted records.
LEMMA SumsAddUp ==
  ASSUME NEW tr, Shaped(tr), Verified(tr)
  PROVE  tr.sums[tr.chunks]
           = VotesAt(tr.sc, CountedSlots(tr.sc, 0, tr.chunks * tr.width, IdLimit))
  <1> DEFINE c == tr.width
             n == tr.chunks
             s == tr.sc
             Upto(k) == VotesAt(s, CountedSlots(s, 0, k * c, IdLimit))
             S == {k \in 0..n : tr.sums[k] = Upto(k)}
  <1>1. c \in Nat \ {0} /\ n \in Nat
    BY DEF Shaped
  <1>2. SumHolds(tr)
    BY VerifiedParts
  <1>3. 0 \in S
    <2>1. 0 * c = 0
      BY <1>1
    <2>2. Upto(0) = NoVotes
      BY <2>1, NoSlots, Zenon
    <2>3. tr.sums[0] = NoVotes
      BY <1>2 DEF SumHolds
    <2> QED BY <1>1, <2>2, <2>3
  <1>4. ASSUME NEW k \in 0..(n - 1), k \in S
        PROVE  k + 1 \in S
    <2> DEFINE lo == k * c
               hi == (k + 1) * c
    <2>1. lo \in Nat /\ hi \in Nat /\ lo <= hi /\ hi = lo + c
      BY <1>1, ChunkEnds
    <2>2. RunHolds(tr, k)
      BY VerifiedParts
    <2>3. tr.boundary[k].id = IdBefore(s, lo, IdLimit)
      BY <2>1, BoundaryBefore
    <2>4. tr.tc[k] = VotesAt(s, CountedSlots(s, lo, lo + c - 1 + 1, tr.boundary[k].id))
      BY <2>2, Zenon DEF RunHolds
    <2>5. lo + c - 1 + 1 = hi
      BY <1>1, <2>1
    <2>6. tr.tc[k] = VotesAt(s, CountedSlots(s, lo, hi, IdBefore(s, lo, IdLimit)))
      BY <2>3, <2>4, <2>5, Zenon
    <2>7. tr.sums[k + 1] = [d \in Candidate |-> tr.sums[k][d] + tr.tc[k][d]]
      BY <1>2, Zenon DEF SumHolds
    <2>8. tr.sums[k] = VotesAt(s, CountedSlots(s, 0, lo, IdLimit))
      BY <1>4
    <2> HIDE DEF lo, hi, s
    <2>9. ASSUME NEW d \in Candidate
          PROVE  VotesAt(s, CountedSlots(s, 0, hi, IdLimit))[d] = tr.sums[k][d] + tr.tc[k][d]
      <3>1. VotesAt(s, CountedSlots(s, 0, hi, IdLimit))[d]
              = VotesAt(s, CountedSlots(s, 0, lo, IdLimit))[d]
                  + VotesAt(s, CountedSlots(s, lo, hi, IdBefore(s, lo, IdLimit)))[d]
        BY <2>1, VotesCut
      <3> QED BY <2>6, <2>8, <3>1, Zenon
    <2>10. tr.sums[k + 1] = VotesAt(s, CountedSlots(s, 0, hi, IdLimit))
      BY <2>7, <2>9, Zenon DEF VotesAt
    <2>11. tr.sums[k + 1] = Upto(k + 1)
      BY <2>10 DEF hi
    <2>12. k + 1 \in 0..n
      BY <1>1
    <2> QED BY <2>11, <2>12
  <1> HIDE DEF S
  <1>5. n \in S
    <2>1. n \in 0..n
      BY <1>1
    <2> QED BY <1>1, <1>3, <1>4, <2>1, ReachesAll
  <1> QED BY <1>5 DEF S

-----------------------------------------------------------------------------
(* Equal products.                                                          *)

\* How often r is in the first n slots of rs.
Occurrences(r, rs, n) == Cardinality({j \in 0..(n - 1) : rs[j] = r})

\* How often a bag holds r.
Copies(r, b) == IF r \in DOMAIN b THEN b[r] ELSE 0

\* The union of two bags holds the copies of both.
LEMMA UnionAddsCopies ==
  ASSUME NEW a, NEW b, NEW r, Copies(r, a) \in Nat, Copies(r, b) \in Nat
  PROVE  Copies(r, a (+) b) = Copies(r, a) + Copies(r, b)
  BY DEF Copies, (+)

\* A bag made of slots holds each record as often as it is in them.
LEMMA BagOfCounts ==
  ASSUME NEW rs, NEW lo \in Int, NEW hi \in Int, NEW r
  PROVE  Copies(r, BagOf(rs, lo, hi)) = Cardinality({j \in lo..(hi - 1) : rs[j] = r})
  <1> DEFINE J == {j \in lo..(hi - 1) : rs[j] = r}
             D == {rs[j] : j \in lo..(hi - 1)}
  <1>1. DOMAIN BagOf(rs, lo, hi) = D /\ (r \in D => BagOf(rs, lo, hi)[r] = Cardinality(J))
    BY DEF BagOf
  <1>2. r \notin D => J = {}
    OBVIOUS
  <1>3. Cardinality({}) = 0
    BY FS_EmptySet
  <1> HIDE DEF J, D
  <1>4. Copies(r, BagOf(rs, lo, hi)) = Cardinality(J)
    BY <1>1, <1>2, <1>3 DEF Copies
  <1> QED BY <1>4 DEF J

\* A product chain that starts empty and takes in the slots of n chunks of c.
ProductChain(acc, rs, c, n) ==
  /\ acc[0] = EmptyBag
  /\ \A k \in 0..(n - 1) : acc[k + 1] = acc[k] (+) BagOf(rs, k * c, k * c + c - 1 + 1)

\* It ends with each record as often as it is in them.
LEMMA ProductCounts ==
  ASSUME NEW acc, NEW rs, NEW c \in Nat \ {0}, NEW n \in Nat, NEW r,
         ProductChain(acc, rs, c, n)
  PROVE  Copies(r, acc[n]) = Occurrences(r, rs, n * c)
  <1> DEFINE S == {k \in 0..n : Copies(r, acc[k]) = Occurrences(r, rs, k * c)}
  <1>1. 0 \in S
    <2>1. Copies(r, acc[0]) = 0
      BY DEF ProductChain, Copies, EmptyBag, SetToBag
    <2>2. 0 * c = 0 /\ {j \in 0..(0 - 1) : rs[j] = r} = {}
      OBVIOUS
    <2>3. Occurrences(r, rs, 0 * c) = 0
      BY <2>2, FS_EmptySet, Zenon DEF Occurrences
    <2> QED BY <2>1, <2>3
  <1>2. ASSUME NEW k \in 0..(n - 1), k \in S
        PROVE  k + 1 \in S
    <2> DEFINE lo == k * c
               hi == (k + 1) * c
               A == {j \in 0..(lo - 1) : rs[j] = r}
               B == {j \in lo..(hi - 1) : rs[j] = r}
               C == {j \in 0..(hi - 1) : rs[j] = r}
    <2>1. lo \in Nat /\ hi \in Nat /\ lo <= hi /\ lo + c - 1 + 1 = hi
      BY ChunkEnds
    <2>2. acc[k + 1] = acc[k] (+) BagOf(rs, lo, hi)
      <3>1. acc[k + 1] = acc[k] (+) BagOf(rs, lo, lo + c - 1 + 1)
        BY Zenon DEF ProductChain
      <3> QED BY <2>1, <3>1, Zenon
    <2>3. Copies(r, acc[k]) = Cardinality(A)
      BY <1>2, Zenon DEF Occurrences
    <2> HIDE DEF lo, hi
    <2>4. Copies(r, BagOf(rs, lo, hi)) = Cardinality(B)
      BY <2>1, BagOfCounts
    <2>5. C = A \cup B /\ A \cap B = {}
      BY <2>1
    <2>6. IsFiniteSet(A) /\ IsFiniteSet(B)
      <3>1. IsFiniteSet(0..(lo - 1)) /\ IsFiniteSet(lo..(hi - 1))
        BY <2>1, FS_Interval
      <3>2. A \subseteq 0..(lo - 1) /\ B \subseteq lo..(hi - 1)
        OBVIOUS
      <3> QED BY <3>1, <3>2, FS_Subset
    <2> HIDE DEF A, B, C
    <2>7. /\ Cardinality(A) \in Nat /\ Cardinality(B) \in Nat
          /\ Cardinality(C) = Cardinality(A) + Cardinality(B)
      <3>1. /\ Cardinality(A) \in Nat /\ Cardinality(B) \in Nat
            /\ Cardinality(A \cup B)
                 = Cardinality(A) + Cardinality(B) - Cardinality(A \cap B)
        BY <2>6, FS_Union, FS_CardinalityType
      <3>2. Cardinality(A \cap B) = 0
        BY <2>5, FS_EmptySet
      <3> QED BY <2>5, <3>1, <3>2
    <2>8. Copies(r, acc[k + 1]) = Cardinality(C)
      BY <2>2, <2>3, <2>4, <2>7, UnionAddsCopies
    <2>9. Cardinality(C) = Occurrences(r, rs, (k + 1) * c)
      BY Zenon DEF Occurrences, C, hi
    <2>10. k + 1 \in 0..n
      OBVIOUS
    <2> QED BY <2>8, <2>9, <2>10
  <1> HIDE DEF S
  <1>3. n \in S
    BY <1>1, <1>2, ReachesAll
  <1> QED BY <1>3 DEF S

\* When every record is as often among the sorted slots as among those of the
\* board, the sorted slots hold the board's records shuffled.
LEMMA EqualProductsShuffle ==
  ASSUME NEW adm \in Seq(Com), RowsFetchable(adm), NumVoters < IdLimit,
         NEW n \in Nat, NEW s, NEW rs, HoldsBoard(rs, adm, n),
         \A r : Occurrences(r, s, n) = Occurrences(r, rs, n)
  PROVE  Shuffled(s, rs, n)
  <1> DEFINE D == 0..(n - 1)
             At(t, r) == {j \in D : t[j] = r}
  <1>1. ASSUME NEW r
        PROVE  Cardinality(At(s, r)) = Cardinality(At(rs, r))
    BY Zenon DEF Occurrences
  <1>2. ASSUME NEW t, NEW r
        PROVE  IsFiniteSet(At(t, r))
    <2>1. IsFiniteSet(D) /\ At(t, r) \subseteq D
      BY FS_Interval
    <2> QED BY <2>1, FS_Subset
  <1>3. ASSUME NEW r
        PROVE  At(s, r) = {} <=> At(rs, r) = {}
    <2> HIDE DEF At
    <2> QED BY <1>1, <1>2, FS_EmptySet
  <1>4. ASSUME NEW i \in D
        PROVE  \E j \in D : s[i] = rs[j]
    <2>1. At(s, s[i]) # {}
      OBVIOUS
    <2>2. At(rs, s[i]) # {}
      BY <1>3, <2>1
    <2> QED BY <2>2
  <1>5. ASSUME NEW j \in D
        PROVE  \E i \in D : s[i] = rs[j]
    <2>1. At(rs, rs[j]) # {}
      OBVIOUS
    <2>2. At(s, rs[j]) # {}
      BY <1>3, <2>1
    <2> QED BY <2>2
  <1>6. ASSUME NEW i \in D, NEW k \in D, s[i].valid, s[k].valid, s[i].pos = s[k].pos
        PROVE  i = k
    <2>1. PICK a \in D : s[i] = rs[a]
      BY <1>4
    <2>2. PICK b \in D : s[k] = rs[b]
      BY <1>4
    <2>3. \A j \in D : rs[j].valid => rs[j].pos = j
      BY BoardSlot
    <2>4. rs[a].pos = a /\ rs[b].pos = b /\ a = b
      BY <1>6, <2>1, <2>2, <2>3
    <2>5. At(rs, rs[a]) = {a}
      BY <1>6, <2>1, <2>3
    <2>6. i \in At(s, rs[a]) /\ k \in At(s, rs[a])
      BY <2>1, <2>2, <2>4
    <2> HIDE DEF At
    <2>7. Cardinality(At(s, rs[a])) = 1
      BY <1>1, <2>5, FS_Singleton
    <2>8. PICK x : At(s, rs[a]) = {x}
      BY <1>2, <2>7, FS_Singleton
    <2> QED BY <2>6, <2>8
  <1> QED BY <1>4, <1>5, <1>6 DEF Shuffled

\* Structure and proofs that are accepted leave no choice of the counts.
LEMMA TranscriptSound ==
  ASSUME admitted \in Seq(Com), NEW tr, Shaped(tr), Verified(tr)
  PROVE  tr.counts = FilterAndTally(admitted)
  <1> DEFINE n == tr.chunks
             c == tr.width
  <1>1. c \in Nat \ {0} /\ n \in Nat
    BY DEF Shaped
  <1>2. /\ n * c \in Nat /\ Len(admitted) <= n * c /\ HoldsBoard(tr.rc, admitted, n * c)
        /\ RowsFetchable(admitted) /\ NumVoters < IdLimit
    BY RecordsHoldBoard
  <1>3. SumHolds(tr) /\ \A k \in 0..(n - 1) : RunHolds(tr, k)
    BY VerifiedParts
  <1>4. ASSUME NEW r
        PROVE  Occurrences(r, tr.sc, n * c) = Occurrences(r, tr.rc, n * c)
    <2>1. tr.accP[0] = EmptyBag /\ tr.accQ[0] = EmptyBag
      BY DEF Verified, StructureAccepted
    <2>2. ProductChain(tr.accP, tr.sc, c, n) /\ ProductChain(tr.accQ, tr.rc, c, n)
      BY <1>3, <2>1, Zenon DEF RunHolds, ProductChain
    <2>3. tr.accP[n] = tr.accQ[n]
      BY <1>3 DEF SumHolds
    <2> HIDE DEF n, c
    <2>4. Copies(r, tr.accP[n]) = Occurrences(r, tr.sc, n * c)
      BY <1>1, <2>2, ProductCounts
    <2>5. Copies(r, tr.accQ[n]) = Occurrences(r, tr.rc, n * c)
      BY <1>1, <2>2, ProductCounts
    <2> QED BY <2>3, <2>4, <2>5
  <1>5. Shuffled(tr.sc, tr.rc, n * c)
    BY <1>2, <1>4, EqualProductsShuffle
  <1>6. ChecksOut(tr.sc, n * c)
    BY RunsCheckOut
  <1>7. VotesAt(tr.sc, CountedSlots(tr.sc, 0, n * c, IdLimit)) = FilterAndTally(admitted)
    BY <1>2, <1>5, <1>6, CheckedPassIsTally
  <1>8. tr.counts = tr.sums[n]
    BY <1>3 DEF SumHolds
  <1> QED BY <1>7, <1>8, SumsAddUp

-----------------------------------------------------------------------------
(* The invariant of the transcript.                                         *)

\* What is posted has a shape, and a proof in it is that of an item.
PostedInv ==
  /\ outcome \in {"none", "proving", "unproved", "posted", "verifying", "refused", "verified"}
  /\ outcome # "none" =>
       /\ Shaped(posted)
       /\ proofs \in [0..(Items(posted) - 1) -> (0..(Items(posted) - 1)) \cup {NoProof}]

\* A thread of the pool is handed items only.
PoolInv ==
  /\ next \in Nat
  /\ at \in [Worker -> Nat \cup {Idle, Gone}]
  /\ outcome = "none" => \A w \in Worker : at[w] = Idle
  /\ outcome = "proving" =>
       \A w \in Worker : at[w] \in (0..(Items(posted) - 1)) \cup {Idle, Gone}

\* The proofs the verifier has gone through fit.
VerifierInv ==
  /\ checked \in Nat
  /\ outcome \in {"none", "proving", "unproved", "posted"} => checked = 0
  /\ outcome \in {"verifying", "verified"} =>
       /\ StructureAccepted(posted)
       /\ checked <= Items(posted)
       /\ \A i \in 0..(checked - 1) : ProofFits(posted, i)
  /\ outcome = "verifying" => checked < Items(posted)
  /\ outcome = "verified" => checked = Items(posted)

TranscriptInv == ExactInv /\ PostedInv /\ PoolInv /\ VerifierInv


\* A proof that carries the values of a place is the proof of that place.
LEMMA FittingProofHolds ==
  ASSUME NEW tr, Shaped(tr), NEW i \in 0..(Items(tr) - 1),
         proofs[i] \in (0..(Items(tr) - 1)) \cup {NoProof}, ProofFits(tr, i)
  PROVE  Holds(tr, i)
  <1> DEFINE p == proofs[i]
             c == tr.width
             n == tr.chunks
  <1>1. /\ p \in 0..(Items(tr) - 1)
        /\ Publics(tr, p) = Publics(tr, i) /\ Holds(tr, p)
    BY DEF ProofFits
  <1>2. /\ c \in Nat \ {0} /\ n \in Nat /\ Items(tr) = 2 * n + 1
        /\ p \in 0..(2 * n) /\ i \in 0..(2 * n)
    BY <1>1 DEF Shaped, Items
  <1>3. ASSUME NEW a \in Nat, NEW b \in Nat, NEW rs, Slice(rs, a, c) = Slice(rs, b, c)
        PROVE  a = b
    <2>1. ASSUME NEW x \in Nat, NEW y \in Nat, x < y,
                 (x * c)..(x * c + c - 1) = (y * c)..(y * c + c - 1)
          PROVE  FALSE
      <3>1. PICK d \in Nat : y = x + 1 + d
        BY <2>1
      <3> DEFINE lo == x * c
                 hi == y * c
                 e  == d * c
      <3>2. hi = lo + c + e /\ lo \in Nat /\ hi \in Nat /\ e \in Nat
        BY <1>2, <3>1
      <3>3. lo..(lo + c - 1) = hi..(hi + c - 1)
        BY <2>1
      <3> HIDE DEF lo, hi, e, c
      <3>4. lo \in lo..(lo + c - 1) /\ lo \notin hi..(hi + c - 1)
        BY <1>2, <3>2
      <3> QED BY <3>3, <3>4
    <2>2. (a * c)..(a * c + c - 1) = (b * c)..(b * c + c - 1)
      <3>1. /\ DOMAIN Slice(rs, a, c) = (a * c)..(a * c + c - 1)
            /\ DOMAIN Slice(rs, b, c) = (b * c)..(b * c + c - 1)
        BY DEF Slice
      <3> QED BY <1>3, <3>1, Zenon
    <2>3. ~(a < b)
      BY <2>1, <2>2, Zenon
    <2>4. ~(b < a)
      BY <2>1, <2>2, Zenon
    <2> QED BY <2>3, <2>4
  <1>4. /\ p < n => Publics(tr, p)[1] = "validity" /\ Publics(tr, p)[6] = Slice(tr.rc, p, c)
        /\ i < n => Publics(tr, i)[1] = "validity" /\ Publics(tr, i)[6] = Slice(tr.rc, i, c)
    BY DEF Publics
  <1>5. /\ ~(p < n) /\ p < 2 * n =>
             Publics(tr, p)[1] = "run" /\ Publics(tr, p)[2] = Slice(tr.rc, p - n, c)
        /\ ~(i < n) /\ i < 2 * n =>
             Publics(tr, i)[1] = "run" /\ Publics(tr, i)[2] = Slice(tr.rc, i - n, c)
    BY DEF Publics
  <1>6. /\ ~(p < n) /\ ~(p < 2 * n) => Publics(tr, p)[1] = "sum"
        /\ ~(i < n) /\ ~(i < 2 * n) => Publics(tr, i)[1] = "sum"
    BY DEF Publics
  <1>7. "validity" # "run" /\ "run" # "sum" /\ "validity" # "sum"
    OBVIOUS
  <1> HIDE DEF p, n, c
  <1>8. CASE i < n
    <2>1. p < n
      BY <1>1, <1>2, <1>4, <1>5, <1>6, <1>7, <1>8
    <2>2. Slice(tr.rc, p, c) = Slice(tr.rc, i, c)
      BY <1>1, <1>4, <1>8, <2>1
    <2> QED BY <1>1, <1>2, <1>3, <2>2
  <1>9. CASE ~(i < n) /\ i < 2 * n
    <2>1. ~(p < n) /\ p < 2 * n
      BY <1>1, <1>2, <1>4, <1>5, <1>6, <1>7, <1>9
    <2>2. Slice(tr.rc, p - n, c) = Slice(tr.rc, i - n, c)
      BY <1>1, <1>5, <1>9, <2>1
    <2>3. p - n \in Nat /\ i - n \in Nat
      BY <1>2, <1>9, <2>1
    <2>4. p - n = i - n
      BY <1>3, <2>2, <2>3
    <2>5. p = i
      BY <1>2, <2>4
    <2> QED BY <1>1, <2>5
  <1>10. CASE ~(i < n) /\ ~(i < 2 * n)
    <2>1. ~(p < n) /\ ~(p < 2 * n)
      BY <1>1, <1>2, <1>4, <1>5, <1>6, <1>7, <1>10
    <2>2. p = i
      BY <1>2, <1>10, <2>1
    <2> QED BY <1>1, <2>2
  <1> QED BY <1>8, <1>9, <1>10

\* What is posted keeps the sizes it was made for.
LEMMA TranscriptShape ==
  ASSUME NEW ch, ch.width \in Nat \ {0}, ch.size \in Nat, ch.chunks \in Nat
  PROVE  /\ Shaped(TranscriptOf(ch))
         /\ \A k, b : Shaped([TranscriptOf(ch) EXCEPT !.bb[k] = b])
         /\ \A c, v : Shaped([TranscriptOf(ch) EXCEPT !.counts[c] = v])
  <1> DEFINE tr == TranscriptOf(ch)
  <1>1. tr.width = ch.width /\ tr.size = ch.size /\ tr.chunks = ch.chunks
    BY DEF TranscriptOf
  <1>2. DOMAIN tr = {"width", "chunks", "size", "ballots", "bb", "rc", "sc", "boundary", "tc",
                     "sums", "accP", "accQ", "counts"}
    BY DEF TranscriptOf
  <1> HIDE DEF tr
  <1>3. Shaped(tr)
    BY <1>1 DEF Shaped
  <1>4. ASSUME NEW k, NEW b
        PROVE  Shaped([tr EXCEPT !.bb[k] = b])
    BY <1>1, <1>2 DEF Shaped
  <1>5. ASSUME NEW d, NEW v
        PROVE  Shaped([tr EXCEPT !.counts[d] = v])
    BY <1>1, <1>2 DEF Shaped
  <1> QED BY <1>3, <1>4, <1>5 DEF tr


\* Whatever another prover posts in a shape is kept with proofs of its items.
LEMMA OtherPostKeeps ==
  ASSUME TranscriptInv, outcome = "none", NEW tr, Shaped(tr), PostOther(tr)
  PROVE  TranscriptInv'
  <1>1. /\ UNCHANGED chunkedVars /\ UNCHANGED <<next, at, checked>>
        /\ posted' = tr /\ outcome' = "posted" /\ proofs' = [i \in 0..(Items(tr) - 1) |-> i]
    BY DEF PostOther, poolVars
  <1>2. ExactInv'
    BY <1>1, ExactIsKept DEF TranscriptInv
  <1>3. PostedInv'
    BY <1>1 DEF PostedInv, Shaped, Items
  <1>4. PoolInv'
    BY <1>1 DEF TranscriptInv, PoolInv
  <1>5. VerifierInv'
    BY <1>1 DEF TranscriptInv, VerifierInv
  <1> QED BY <1>2, <1>3, <1>4, <1>5 DEF TranscriptInv

\* The driver and another prover choose circuits of a legal size.
LEMMA HonestSizes ==
  ASSUME ExactInv, claim # NoClaim
  PROVE  /\ HonestChoice.width \in Nat \ {0} /\ HonestChoice.size \in Nat
         /\ HonestChoice.chunks \in Nat
         /\ DOMAIN HonestChoice
              = {"width", "chunks", "size", "sorted", "first", "p0", "q0"}
  <1>1. claim.chunk \in ChunkSizes /\ claim.chunk \in Nat \ {0} /\ admitted \in Seq(Com)
    BY DEF ExactInv, RunsInv
  <1>2. Chunks(claim.chunk) \in Nat
    BY BoardFits, <1>1
  <1> QED BY <1>1, <1>2 DEF HonestChoice

\* However another prover changes what an honest one chooses, what it posts has
\* a shape.
LEMMA AnotherPostIsShaped ==
  ASSUME ExactInv, PostAnother
  PROVE  \E tr : Shaped(tr) /\ PostOther(tr)
  <1> DEFINE h      == HonestChoice
             fields == {"width", "chunks", "size", "sorted", "first", "p0", "q0"}
             Good(ch) == ch.width \in Nat \ {0} /\ ch.size \in Nat /\ ch.chunks \in Nat
             goal   == \E tr : Shaped(tr) /\ PostOther(tr)
  <1>1. Good(h) /\ DOMAIN h = fields
    BY HonestSizes DEF PostAnother
  <1>2. ASSUME NEW ch, Good(ch)
        PROVE  /\ Shaped(TranscriptOf(ch))
               /\ \A k, b : Shaped([TranscriptOf(ch) EXCEPT !.bb[k] = b])
               /\ \A c, v : Shaped([TranscriptOf(ch) EXCEPT !.counts[c] = v])
    BY <1>2, TranscriptShape
  <1>3. \/ PostOther(TranscriptOf(h))
        \/ \E r : PostOther(TranscriptOf([h EXCEPT !.first = r]))
        \/ \E m \in 1..(h.width + 1), n \in 1..h.chunks :
             PostOther(TranscriptOf([h EXCEPT !.size = m, !.chunks = n]))
        \/ \E p, q : PostOther(TranscriptOf([h EXCEPT !.p0 = p, !.q0 = q]))
        \/ \E s : PostOther(TranscriptOf([h EXCEPT !.chunks = @ + 1, !.sorted = s]))
        \/ \E k, b : PostOther([TranscriptOf(h) EXCEPT !.bb[k] = b])
        \/ \E c, v : PostOther([TranscriptOf(h) EXCEPT !.counts[c] = v])
    BY Zenon DEF PostAnother
  <1> HIDE DEF h
  <1>4. CASE PostOther(TranscriptOf(h))
    BY <1>1, <1>2, <1>4
  <1>5. ASSUME NEW r, PostOther(TranscriptOf([h EXCEPT !.first = r]))
        PROVE  goal
    <2>1. Good([h EXCEPT !.first = r])
      BY <1>1
    <2> QED BY <1>2, <1>5, <2>1
  <1>6. ASSUME NEW m \in 1..(h.width + 1), NEW n \in 1..h.chunks,
               PostOther(TranscriptOf([h EXCEPT !.size = m, !.chunks = n]))
        PROVE  goal
    <2>1. Good([h EXCEPT !.size = m, !.chunks = n])
      BY <1>1
    <2> QED BY <1>2, <1>6, <2>1
  <1>7. ASSUME NEW p, NEW q, PostOther(TranscriptOf([h EXCEPT !.p0 = p, !.q0 = q]))
        PROVE  goal
    <2>1. Good([h EXCEPT !.p0 = p, !.q0 = q])
      BY <1>1
    <2> QED BY <1>2, <1>7, <2>1
  <1>8. ASSUME NEW s, PostOther(TranscriptOf([h EXCEPT !.chunks = @ + 1, !.sorted = s]))
        PROVE  goal
    <2>1. Good([h EXCEPT !.chunks = @ + 1, !.sorted = s])
      BY <1>1
    <2> QED BY <1>2, <1>8, <2>1
  <1>9. ASSUME NEW k, NEW b, PostOther([TranscriptOf(h) EXCEPT !.bb[k] = b])
        PROVE  goal
    BY <1>1, <1>2, <1>9
  <1>10. ASSUME NEW c, NEW v, PostOther([TranscriptOf(h) EXCEPT !.counts[c] = v])
         PROVE  goal
    BY <1>1, <1>2, <1>10
  <1> QED BY <1>3, <1>4, <1>5, <1>6, <1>7, <1>8, <1>9, <1>10, Zenon


\* The checker goes on only until something is posted.
LEMMA ChunkedStepKeeps ==
  ASSUME TranscriptInv, outcome = "none", ChunkedNext, UNCHANGED publicVars
  PROVE  TranscriptInv'
  <1>1. UNCHANGED <<posted, proofs, next, at, checked, outcome>>
    BY DEF publicVars
  <1>2. ExactInv'
    BY ExactIsKept DEF TranscriptInv
  <1>3. PostedInv' /\ PoolInv' /\ VerifierInv'
    BY <1>1 DEF TranscriptInv, PostedInv, PoolInv, VerifierInv
  <1> QED BY <1>2, <1>3 DEF TranscriptInv

\* The driver posts what has a shape, with no proof in any place.
LEMMA StartPoolKeeps ==
  ASSUME TranscriptInv, StartPool
  PROVE  TranscriptInv'
  <1> DEFINE tr == TranscriptOf(HonestChoice)
  <1>1. /\ UNCHANGED chunkedVars /\ UNCHANGED <<next, at, checked>>
        /\ outcome = "none" /\ outcome' = "proving" /\ claim # NoClaim
        /\ posted' = tr /\ proofs' = [i \in 0..(Items(posted') - 1) |-> NoProof]
    BY DEF StartPool, poolVars
  <1>2. Shaped(tr)
    BY <1>1, HonestSizes, TranscriptShape DEF TranscriptInv
  <1> HIDE DEF tr
  <1>3. ExactInv'
    BY <1>1, ExactIsKept DEF TranscriptInv
  <1>4. PostedInv'
    BY <1>1, <1>2 DEF PostedInv
  <1>5. PoolInv'
    BY <1>1 DEF TranscriptInv, PoolInv
  <1>6. VerifierInv'
    BY <1>1 DEF TranscriptInv, VerifierInv
  <1> QED BY <1>3, <1>4, <1>5, <1>6 DEF TranscriptInv

\* A thread that takes an item, proves it or fails, and the last one to return,
\* leave every proof in a place an item has.
LEMMA PoolStepKeeps ==
  ASSUME TranscriptInv, (\E w \in Worker : Fetch(w) \/ Prove(w) \/ FailItem(w)) \/ Assemble
  PROVE  TranscriptInv'
  <1>1. /\ UNCHANGED chunkedVars /\ UNCHANGED <<posted, checked>>
        /\ outcome = "proving" /\ outcome' \in {"proving", "unproved", "posted"}
    BY DEF Fetch, Prove, FailItem, Assemble
  <1>2. ExactInv'
    BY <1>1, ExactIsKept DEF TranscriptInv
  <1>3. VerifierInv'
    BY <1>1 DEF TranscriptInv, VerifierInv
  <1> DEFINE items == 0..(Items(posted) - 1)
  <1>4. /\ Shaped(posted) /\ Items(posted) \in Nat
        /\ proofs \in [items -> items \cup {NoProof}]
        /\ next \in Nat /\ at \in [Worker -> Nat \cup {Idle, Gone}]
        /\ \A w \in Worker : at[w] \in items \cup {Idle, Gone}
    BY <1>1 DEF TranscriptInv, PostedInv, PoolInv, Shaped, Items
  <1>5. ASSUME NEW w \in Worker, Fetch(w)
        PROVE  PostedInv' /\ PoolInv'
    BY <1>1, <1>4, <1>5 DEF Fetch, PostedInv, PoolInv
  <1>6. ASSUME NEW w \in Worker, Prove(w)
        PROVE  PostedInv' /\ PoolInv'
    BY <1>1, <1>4, <1>6 DEF Prove, PostedInv, PoolInv
  <1>7. ASSUME NEW w \in Worker, FailItem(w)
        PROVE  PostedInv' /\ PoolInv'
    BY <1>1, <1>4, <1>7 DEF FailItem, PostedInv, PoolInv
  <1>8. CASE Assemble
    BY <1>1, <1>2, <1>3, <1>4, <1>8 DEF Assemble, poolVars, TranscriptInv, PostedInv, PoolInv
  <1> QED BY <1>2, <1>3, <1>5, <1>6, <1>7, <1>8 DEF TranscriptInv

\* What the verifier asks of a transcript changes only with the transcript, its
\* proofs and the board.
LEMMA SameTranscriptFits ==
  ASSUME UNCHANGED <<admitted, posted, proofs>>
  PROVE  /\ Items(posted)' = Items(posted)
         /\ StructureAccepted(posted)' <=> StructureAccepted(posted)
         /\ \A i : ProofFits(posted, i)' <=> ProofFits(posted, i)
  <1>1. Items(posted)' = Items(posted)
    BY DEF Items
  <1>2. StructureAccepted(posted)' <=> StructureAccepted(posted)
    BY DEF StructureAccepted, SnapshotsAccepted
  <1>3. ASSUME NEW i
        PROVE  ProofFits(posted, i)' <=> ProofFits(posted, i)
    BY DEF ProofFits, Publics, Holds, ValidityHolds, Active, RunHolds, SumHolds, Slice, Items
  <1> QED BY <1>1, <1>2, <1>3

\* The verifier goes on to the next proof only past one that fits.
LEMMA VerifierStepKeeps ==
  ASSUME TranscriptInv, BeginVerify \/ CheckProof
  PROVE  TranscriptInv'
  <1>1. /\ UNCHANGED chunkedVars /\ UNCHANGED <<posted, proofs, next, at>>
        /\ outcome \in {"posted", "verifying"}
        /\ outcome' \in {"verifying", "refused", "verified"}
    BY DEF BeginVerify, CheckProof, poolVars
  <1>2. ExactInv'
    BY <1>1, ExactIsKept DEF TranscriptInv
  <1>3. PostedInv' /\ PoolInv'
    BY <1>1 DEF TranscriptInv, PostedInv, PoolInv
  <1>4. admitted' = admitted
    BY <1>1 DEF chunkedVars, vars
  <1>5. Items(posted) \in Nat \ {0} /\ checked \in Nat
    BY <1>1 DEF TranscriptInv, PostedInv, VerifierInv, Shaped, Items
  <1>6. /\ Items(posted)' = Items(posted)
        /\ StructureAccepted(posted)' <=> StructureAccepted(posted)
    BY <1>1, <1>4, SameTranscriptFits
  <1>7. ASSUME NEW i
        PROVE  ProofFits(posted, i)' <=> ProofFits(posted, i)
    BY <1>1, <1>4, SameTranscriptFits
  <1>8. CASE BeginVerify
    <2>1. checked' = checked /\ checked = 0
      BY <1>1, <1>8 DEF BeginVerify, TranscriptInv, VerifierInv
    <2> QED BY <1>1, <1>2, <1>3, <1>5, <1>6, <1>8, <2>1 DEF BeginVerify, TranscriptInv, VerifierInv
  <1>9. CASE CheckProof
    <2>1. /\ outcome = "verifying" /\ checked' = checked + 1
          /\ outcome' = IF ~ProofFits(posted, checked) THEN "refused"
                        ELSE IF checked' = Items(posted) THEN "verified" ELSE "verifying"
      BY <1>9 DEF CheckProof
    <2>2. /\ checked < Items(posted) /\ StructureAccepted(posted)
          /\ \A i \in 0..(checked - 1) : ProofFits(posted, i)
      BY <2>1 DEF TranscriptInv, VerifierInv
    <2>3. ASSUME ProofFits(posted, checked), NEW i \in 0..checked
          PROVE  ProofFits(posted, i)
      BY <1>5, <2>2, <2>3
    <2>4. VerifierInv'
      BY <1>5, <1>6, <1>7, <2>1, <2>2, <2>3 DEF VerifierInv
    <2> QED BY <1>2, <1>3, <2>4 DEF TranscriptInv
  <1> QED BY <1>8, <1>9

\* What is posted, how it is proved and how far it is verified, at every step.
LEMMA TranscriptInvariant == TranscriptSpec => []TranscriptInv
  <1>1. TranscriptInit => TranscriptInv
    <2> SUFFICES ASSUME TranscriptInit PROVE TranscriptInv
      OBVIOUS
    <2>1. ExactInv
      BY ExactAtStart DEF TranscriptInit
    <2>2. PostedInv /\ PoolInv /\ VerifierInv
      BY DEF TranscriptInit, PostedInv, PoolInv, VerifierInv
    <2> QED BY <2>1, <2>2 DEF TranscriptInv
  <1>2. TranscriptInv /\ [TranscriptNext]_transcriptVars => TranscriptInv'
    <2> SUFFICES ASSUME TranscriptInv, [TranscriptNext]_transcriptVars
                 PROVE  TranscriptInv'
      OBVIOUS
    <2>1. CASE outcome = "none" /\ ChunkedNext /\ UNCHANGED publicVars
      BY <2>1, ChunkedStepKeeps
    <2>2. CASE StartPool
      BY <2>2, StartPoolKeeps
    <2>3. CASE (\E w \in Worker : Fetch(w) \/ Prove(w) \/ FailItem(w)) \/ Assemble
      BY <2>3, PoolStepKeeps
    <2>4. CASE PostAnother
      <3>1. outcome = "none"
        BY <2>4 DEF PostAnother
      <3>2. PICK tr : Shaped(tr) /\ PostOther(tr)
        BY <2>4, AnotherPostIsShaped DEF TranscriptInv
      <3> QED BY <3>1, <3>2, OtherPostKeeps
    <2>5. CASE BeginVerify \/ CheckProof
      BY <2>5, VerifierStepKeeps
    <2>6. CASE UNCHANGED transcriptVars
      <3>1. UNCHANGED chunkedVars /\ UNCHANGED <<posted, proofs, next, at, checked, outcome>>
            /\ admitted' = admitted
        BY <2>6 DEF transcriptVars, publicVars, chunkedVars, vars
      <3>2. ExactInv'
        BY <3>1, ExactIsKept DEF TranscriptInv
      <3>3. PostedInv' /\ PoolInv'
        BY <3>1 DEF TranscriptInv, PostedInv, PoolInv
      <3>4. /\ Items(posted)' = Items(posted)
            /\ StructureAccepted(posted)' <=> StructureAccepted(posted)
            /\ \A i : ProofFits(posted, i)' <=> ProofFits(posted, i)
        BY <3>1, SameTranscriptFits
      <3>5. VerifierInv'
        BY <3>1, <3>4 DEF TranscriptInv, VerifierInv
      <3> QED BY <3>2, <3>3, <3>5 DEF TranscriptInv
    <2> QED BY <2>1, <2>2, <2>3, <2>4, <2>5, <2>6 DEF TranscriptNext
  <1> QED BY <1>1, <1>2, PTL DEF TranscriptSpec

\* Whatever another prover posts, and whichever of the pool's threads prove what
\* in which order: what verify_chunked_public_transcript accepts is the exact
\* tally of the admitted board.
THEOREM VerifiedTranscriptIsAlwaysExact == TranscriptSpec => []VerifiedTranscriptIsExact
  <1>1. TranscriptInv => VerifiedTranscriptIsExact
    <2> SUFFICES ASSUME TranscriptInv, outcome = "verified"
                 PROVE  posted.counts = FilterAndTally(admitted)
      BY DEF VerifiedTranscriptIsExact
    <2> DEFINE items == 0..(Items(posted) - 1)
    <2>1. /\ admitted \in Seq(Com) /\ Shaped(posted)
          /\ proofs \in [items -> items \cup {NoProof}]
          /\ StructureAccepted(posted) /\ \A i \in items : ProofFits(posted, i)
      BY DEF TranscriptInv, ExactInv, PostedInv, VerifierInv
    <2>2. ASSUME NEW i \in items
          PROVE  Holds(posted, i)
      BY <2>1, FittingProofHolds
    <2>3. Verified(posted)
      BY <2>1, <2>2 DEF Verified
    <2> QED BY <2>1, <2>3, TranscriptSound
  <1> QED BY TranscriptInvariant, <1>1, PTL

-----------------------------------------------------------------------------
(* What is said of the board and of the native check holds beside a         *)
(* transcript too.                                                          *)

\* The chunked tally only reads the board it is about: every step of it is an
\* admission or leaves the board and its counts alone.
THEOREM ChunkedImplementsCounting == ChunkedSpec => Spec
  <1>1. ChunkedInit => Init
    BY DEF ChunkedInit
  <1>2. [ChunkedNext]_chunkedVars => [Next]_vars
    BY DEF ChunkedNext, chunkedVars, Next, Build, Tamper, Claim, BeginCheck, CheckRun, Conclude
  <1> QED BY <1>1, <1>2, PTL DEF ChunkedSpec, Spec

\* Posting a transcript, proving it and verifying it touch neither the board
\* nor the claim that is checked natively.
THEOREM TranscriptImplementsChunked == TranscriptSpec => ChunkedSpec
  <1>1. TranscriptInit => ChunkedInit
    BY DEF TranscriptInit
  <1>2. [TranscriptNext]_transcriptVars => [ChunkedNext]_chunkedVars
    BY DEF TranscriptNext, transcriptVars, StartPool, Fetch, Prove, FailItem, Assemble,
           PostAnother, PostOther, BeginVerify, CheckProof
  <1> QED BY <1>1, <1>2, PTL DEF TranscriptSpec, ChunkedSpec

-----------------------------------------------------------------------------
(* What is built honestly.                                                  *)

\* Below the limits of its fields no row of the padded board is out of range.
\* A chunk size that divides the limit of positions never pads beyond it.
WithinLimits ==
  /\ NumVoters < IdLimit
  /\ \A c \in ChunkSizes : \E m \in Nat : PosLimit = m * c

\* Ranking slots by distinct keys puts each of them in one place, by its key.
LEMMA GlobalSortSorts ==
  ASSUME NEW n \in Nat, NEW rs, DOMAIN rs = 0..(n - 1),
         \A j \in 0..(n - 1) : KeyWide(rs[j]) \in Nat,
         \A i, j \in 0..(n - 1) : KeyWide(rs[i]) = KeyWide(rs[j]) => i = j
  PROVE  \E order \in Bijection(0..(n - 1), 0..(n - 1)) :
           /\ GlobalSort(rs) = [i \in 0..(n - 1) |-> rs[order[i]]]
           /\ \A i, k \in 0..(n - 1) :
                i < k => KeyWide(rs[order[i]]) < KeyWide(rs[order[k]])
  <1> DEFINE D        == 0..(n - 1)
             key(j)   == KeyWide(rs[j])
             Below(j) == {l \in D : key(l) < key(j)}
             rank     == [j \in D |-> Cardinality(Below(j))]
  <1>1. IsFiniteSet(D) /\ Cardinality(D) = n
    BY FS_Interval
  <1>2. ASSUME NEW j \in D
        PROVE  IsFiniteSet(Below(j)) /\ rank[j] = Cardinality(Below(j)) /\ rank[j] \in D
    <2>1. Below(j) \in SUBSET (D \ {j})
      OBVIOUS
    <2>2. IsFiniteSet(D \ {j}) /\ Cardinality(D \ {j}) = n - 1
      BY <1>1, FS_RemoveElement
    <2> DEFINE b == Below(j)
    <2> HIDE DEF Below, D
    <2>3. IsFiniteSet(b) /\ Cardinality(b) <= n - 1 /\ Cardinality(b) \in Nat
      BY <2>1, <2>2, FS_Subset, FS_CardinalityType
    <2> QED BY <2>3 DEF D
  <1>3. ASSUME NEW i \in D, NEW j \in D, key(i) < key(j)
        PROVE  rank[i] < rank[j]
    <2>1. Below(i) \in SUBSET Below(j) /\ i \in Below(j) /\ i \notin Below(i)
      BY <1>3
    <2> DEFINE a == Below(i)
               b == Below(j)
    <2>2. a \in SUBSET b /\ a # b /\ IsFiniteSet(b)
      BY <1>2, <2>1
    <2> HIDE DEF rank
    <2>3. rank[i] = Cardinality(a) /\ rank[j] = Cardinality(b) /\ rank[i] \in Nat /\ rank[j] \in Nat
      <3> HIDE DEF Below
      <3> QED BY <1>2
    <2> HIDE DEF a, b
    <2>4. Cardinality(a) <= Cardinality(b) /\ Cardinality(b) # Cardinality(a)
      BY <2>2, FS_Subset
    <2> QED BY <2>3, <2>4
  <1> DEFINE order == [i \in D |-> CHOOSE j \in D : Cardinality(Below(j)) = i]
  <1>4. GlobalSort(rs) = [i \in D |-> rs[order[i]]]
    <2> DEFINE Ranked(S) ==
          [i \in S |-> rs[CHOOSE j \in S :
                            Cardinality({l \in S : KeyWide(rs[l]) < KeyWide(rs[j])}) = i]]
    <2>1. GlobalSort(rs) = Ranked(DOMAIN rs)
      BY DEF GlobalSort
    <2>2. Ranked(D) = [i \in D |-> rs[order[i]]]
      OBVIOUS
    <2> HIDE DEF Ranked, order
    <2> QED BY <2>1, <2>2
  <1>5. rank \in [D -> D]
    BY <1>2
  <1> HIDE DEF rank, D
  <1>6. ASSUME NEW i \in D, NEW j \in D, rank[i] = rank[j]
        PROVE  i = j
    <2>1. key(i) \in Nat /\ key(j) \in Nat
      BY DEF D
    <2>2. rank[i] \in Nat /\ rank[j] \in Nat
      BY <1>5 DEF D
    <2>3. key(i) = key(j)
      BY <1>3, <1>6, <2>1, <2>2
    <2> QED BY <2>3 DEF D
  <1>7. rank \in Surjection(D, D)
    <2>1. rank \in Injection(D, D)
      BY <1>5, <1>6 DEF Injection, IsInjective
    <2> QED BY <1>1, <2>1, FS_Injection
  <1>8. ASSUME NEW i \in D
        PROVE  order[i] \in D /\ rank[order[i]] = i
    <2>1. \E j \in D : rank[j] = i
      BY <1>7 DEF Surjection
    <2> HIDE DEF Below
    <2>2. \A j \in D : rank[j] = Cardinality(Below(j))
      BY <1>2
    <2> QED BY <2>1, <2>2
  <1>9. order \in Bijection(D, D)
    <2>1. order \in [D -> D]
      BY <1>8
    <2> HIDE DEF order
    <2>2. \A i, k \in D : order[i] = order[k] => i = k
      BY <1>8
    <2>3. \A j \in D : \E i \in D : order[i] = j
      BY <1>5, <1>6, <1>8
    <2> QED BY <2>1, <2>2, <2>3, Fun_IsBij
  <1>10. ASSUME NEW i \in D, NEW k \in D, i < k
         PROVE  key(order[i]) < key(order[k])
    <2> HIDE DEF order
    <2>1. /\ order[i] \in D /\ order[k] \in D
          /\ rank[order[i]] = i /\ rank[order[k]] = k
      BY <1>8
    <2>2. key(order[i]) \in Nat /\ key(order[k]) \in Nat
      BY <2>1 DEF D
    <2>3. i \in Int /\ k \in Int
      BY DEF D
    <2>4. key(order[k]) < key(order[i]) => k < i
      BY <1>3, <2>1
    <2>5. key(order[i]) # key(order[k])
      BY <1>10, <2>1, <2>3 DEF D
    <2> QED BY <1>10, <2>2, <2>3, <2>4, <2>5
  <1> QED BY <1>4, <1>9, <1>10 DEF D

\* Keys of records at different positions differ.
LEMMA KeysDiffer ==
  ASSUME NEW a, NEW b, a.id \in Nat, b.id \in Nat,
         a.pos \in 0..(PosLimit - 1), b.pos \in 0..(PosLimit - 1)
  PROVE  KeyWide(a) \in Nat /\ (KeyWide(a) = KeyWide(b) => a.pos = b.pos)
  <1> DEFINE High(r) == (IF r.valid THEN 0 ELSE 2 * IdLimit) + r.id
  <1>1. IdLimit \in Nat /\ PosLimit \in Nat
    BY ChunkedBounds
  <1>2. High(a) \in Nat /\ High(b) \in Nat
    BY <1>1
  <1>3. KeyWide(a) = High(a) * PosLimit + a.pos /\ KeyWide(b) = High(b) * PosLimit + b.pos
    BY <1>1 DEF KeyWide
  <1> HIDE DEF High
  <1>4. ASSUME NEW x \in Nat, NEW y \in Nat, x < y
        PROVE  x * PosLimit + PosLimit <= y * PosLimit /\ x * PosLimit \in Nat
    <2>1. PICK d \in Nat : y = x + 1 + d
      BY <1>4
    <2>2. y * PosLimit = x * PosLimit + PosLimit + d * PosLimit
      BY <1>1, <2>1
    <2>3. d * PosLimit \in Nat /\ x * PosLimit \in Nat
      BY <1>1
    <2> QED BY <1>1, <2>2, <2>3
  <1>5. High(a) * PosLimit \in Nat /\ High(b) * PosLimit \in Nat
    BY <1>1, <1>2
  <1>6. KeyWide(a) \in Nat
    BY <1>1, <1>3, <1>5
  <1>7. ASSUME KeyWide(a) = KeyWide(b)
        PROVE  a.pos = b.pos
    <2>1. CASE High(a) < High(b)
      BY <1>1, <1>2, <1>3, <1>4, <1>5, <1>7, <2>1
    <2>2. CASE High(b) < High(a)
      BY <1>1, <1>2, <1>3, <1>4, <1>5, <1>7, <2>2
    <2>3. CASE High(a) = High(b)
      BY <1>1, <1>3, <1>5, <1>7, <2>3
    <2> QED BY <1>2, <2>1, <2>2, <2>3
  <1> QED BY <1>6, <1>7

\* What GlobalSort makes of the rows of a board in a circuit of n slots: records
\* in range, by ascending key, and the same as often.
HonestSort(s, rs, n) ==
  /\ DOMAIN s = 0..(n - 1) /\ DOMAIN rs = 0..(n - 1)
  /\ \A j \in 0..(n - 1) :
       s[j].id \in 0..(IdLimit - 1) /\ s[j].pos \in 0..(PosLimit - 1) /\ KeyWide(s[j]) \in Nat
  /\ \A j \in 1..(n - 1) : KeyWide(s[j - 1]) <= KeyWide(s[j])
  /\ SameRecords(s, rs)

\* Sorting the rows of a board is an honest sort of them.
LEMMA RowsSortHonestly ==
  ASSUME NEW adm \in Seq(Com), NEW n \in Nat, n <= PosLimit,
         RowsFetchable(adm), NumVoters < IdLimit
  PROVE  HonestSort(GlobalSort(RowsOf(adm, n)), RowsOf(adm, n), n)
  <1> DEFINE D  == 0..(n - 1)
             rs == RowsOf(adm, n)
             s  == GlobalSort(rs)
  <1>1. DOMAIN rs = D /\ \A j \in D : rs[j].pos = j
    BY DEF RowsOf, EvalRow, PaddingRow
  <1>2. PosLimit \in Nat /\ IdLimit \in Nat
    BY ChunkedBounds
  <1>3. HoldsBoard(rs, adm, n)
    BY RowsHoldBoard
  <1> HIDE DEF rs
  <1>4. ASSUME NEW j \in D
        PROVE  rs[j].id \in 0..(IdLimit - 1) /\ rs[j].pos \in 0..(PosLimit - 1)
    <2>1. rs[j].id = 0 \/ rs[j].id \in Voter
      BY <1>3, BoardSlot
    <2>2. rs[j].id \in 0..(IdLimit - 1)
      BY <1>2, <2>1, VotersAssumption DEF Voter
    <2> QED BY <1>1, <1>2, <2>2
  <1>5. ASSUME NEW i \in D, NEW j \in D
        PROVE  KeyWide(rs[i]) \in Nat /\ (KeyWide(rs[i]) = KeyWide(rs[j]) => i = j)
    <2>1. rs[i].id \in Nat /\ rs[j].id \in Nat
      BY <1>2, <1>4
    <2>2. KeyWide(rs[i]) \in Nat /\ (KeyWide(rs[i]) = KeyWide(rs[j]) => rs[i].pos = rs[j].pos)
      BY <1>4, <2>1, KeysDiffer
    <2> QED BY <1>1, <2>2
  <1>6. PICK order \in Bijection(D, D) :
          /\ s = [i \in D |-> rs[order[i]]]
          /\ \A i, k \in D : i < k => KeyWide(rs[order[i]]) < KeyWide(rs[order[k]])
    <2>1. /\ \A j \in D : KeyWide(rs[j]) \in Nat
          /\ \A i, j \in D : KeyWide(rs[i]) = KeyWide(rs[j]) => i = j
      BY <1>5
    <2> QED BY <1>1, <2>1, GlobalSortSorts, Zenon
  <1> HIDE DEF s, D
  <1>7. /\ order \in [D -> D] /\ \A i, k \in D : order[i] = order[k] => i = k
        /\ \A j \in D : \E i \in D : order[i] = j
    BY <1>6, Fun_BijectionProperties
  <1>8. DOMAIN s = D /\ \A i \in D : order[i] \in D /\ s[i] = rs[order[i]]
    BY <1>6, <1>7
  <1>9. ASSUME NEW j \in D
        PROVE  /\ s[j].id \in 0..(IdLimit - 1) /\ s[j].pos \in 0..(PosLimit - 1)
               /\ KeyWide(s[j]) \in Nat
    BY <1>4, <1>5, <1>8
  <1>10. ASSUME NEW j \in 1..(n - 1)
         PROVE  KeyWide(s[j - 1]) <= KeyWide(s[j])
    <2>1. j - 1 \in D /\ j \in D /\ j - 1 < j
      BY DEF D
    <2> DEFINE i == j - 1
    <2> HIDE DEF i
    <2>2. KeyWide(s[i]) < KeyWide(s[j]) /\ KeyWide(s[i]) \in Nat /\ KeyWide(s[j]) \in Nat
      BY <1>6, <1>8, <1>9, <2>1 DEF i
    <2> QED BY <2>2 DEF i
  <1>11. ASSUME NEW r
         PROVE  Cardinality({i \in D : s[i] = r}) = Cardinality({i \in D : rs[i] = r})
    <2> DEFINE A == {i \in D : s[i] = r}
               B == {i \in D : rs[i] = r}
               f == [i \in A |-> order[i]]
    <2>1. f \in [A -> B] /\ \A i, k \in A : f[i] = f[k] => i = k
      BY <1>7, <1>8
    <2>2. \A j \in B : \E i \in A : f[i] = j
      BY <1>7, <1>8
    <2>3. A \in SUBSET D /\ IsFiniteSet(D)
      BY FS_Interval DEF D
    <2> HIDE DEF A, B, f
    <2>4. f \in Bijection(A, B)
      BY <2>1, <2>2, Fun_IsBij
    <2>5. ExistsBijection(A, B)
      BY <2>4, Fun_ExistsBij
    <2>6. IsFiniteSet(A)
      BY <2>3, FS_Subset
    <2>7. Cardinality(A) = Cardinality(B)
      BY <2>5, <2>6, FS_Bijection
    <2> QED BY <2>7 DEF A, B
  <1>12. SameRecords(s, rs)
    BY <1>1, <1>8, <1>11, Zenon DEF SameRecords
  <1> QED BY <1>1, <1>8, <1>9, <1>10, <1>12 DEF HonestSort, D, s, rs

\* No chunk is padded beyond the limit of positions.
LEMMA PaddingFits ==
  ASSUME WithinLimits, admitted \in Seq(Com), Len(admitted) < PosLimit, NEW c \in ChunkSizes
  PROVE  Padded(c) <= PosLimit
  <1> DEFINE L == Len(admitted)
  <1>1. L \in Nat /\ c \in Nat \ {0} /\ PosLimit \in Nat
    BY ChunkedBounds
  <1>2. PICK m \in Nat : PosLimit = m * c
    BY DEF WithinLimits
  <1>3. ASSUME NEW q \in Nat, ~(q <= m)
        PROVE  m * c + c <= q * c
    <2>1. PICK d \in Nat : q = m + 1 + d
      BY <1>3
    <2>2. q * c = m * c + c + d * c /\ d * c \in Nat /\ m * c \in Nat
      BY <1>1, <2>1
    <2> QED BY <1>1, <2>2
  <1>4. Chunks(c) \in Nat /\ Chunks(c) <= m
    <2>1. CASE admitted = <<>>
      <3>1. Chunks(c) = 1
        BY <2>1 DEF Chunks
      <3>2. m # 0
        BY <1>1, <1>2
      <3> QED BY <3>1, <3>2
    <2>2. CASE admitted # <<>>
      <3> DEFINE q == (L + c - 1) \div c
      <3>1. q \in Nat /\ q * c <= L + c - 1 /\ Chunks(c) = q
        BY <1>1, <2>2 DEF Chunks
      <3> HIDE DEF q
      <3>2. q * c \in Nat /\ m * c \in Nat
        BY <1>1, <3>1
      <3>3. ~(m * c + c <= q * c)
        BY <1>1, <1>2, <3>1, <3>2
      <3> QED BY <1>3, <3>1, <3>3
    <2> QED BY <2>1, <2>2
  <1>5. PICK e \in Nat : m = Chunks(c) + e
    <2>1. m - Chunks(c) \in Nat /\ m = Chunks(c) + (m - Chunks(c))
      BY <1>4
    <2> QED BY <2>1
  <1>6. m * c = Chunks(c) * c + e * c /\ e * c \in Nat /\ Chunks(c) * c \in Nat
    BY <1>1, <1>4, <1>5
  <1> QED BY <1>1, <1>2, <1>6 DEF Padded

\* What build_chunked_tally makes of a board it can be run on.
LEMMA HonestTally ==
  ASSUME WithinLimits, admitted \in Seq(Com), Len(admitted) < PosLimit,
         RowsFetchable(admitted), NEW c \in ChunkSizes
  PROVE  LET rs == BoardRecords(c)
             s  == GlobalSort(rs)
             n  == Padded(c)
         IN  /\ HonestSort(s, rs, n)
             /\ VotesAt(s, CountedSlots(s, 0, n, IdLimit)) = FilterAndTally(admitted)
  <1> DEFINE rs == BoardRecords(c)
             s  == GlobalSort(rs)
             n  == Padded(c)
  <1>1. n \in Nat /\ Len(admitted) <= n /\ n <= PosLimit /\ NumVoters < IdLimit
    BY BoardFits, PaddingFits DEF WithinLimits
  <1>2. rs = RowsOf(admitted, n)
    BY DEF BoardRecords
  <1> HIDE DEF n
  <1>3. HonestSort(s, rs, n)
    BY <1>1, <1>2, RowsSortHonestly
  <1>4. HoldsBoard(rs, admitted, n)
    BY <1>1, <1>2, RowsHoldBoard
  <1>5. \A j \in 0..(n - 1) : rs[j].pos = j
    BY <1>2 DEF RowsOf, EvalRow, PaddingRow
  <1> HIDE DEF rs, s
  <1>6. Shuffled(s, rs, n)
    BY <1>1, <1>3, <1>5, SameIsShuffled DEF HonestSort
  <1>7. ChecksOut(s, n)
    BY <1>1, <1>3, ChunkedBounds DEF HonestSort, ChecksOut
  <1>8. VotesAt(s, CountedSlots(s, 0, n, IdLimit)) = FilterAndTally(admitted)
    BY <1>1, <1>4, <1>6, <1>7, CheckedPassIsTally
  <1> QED BY <1>3, <1>8 DEF rs, s, n

\* The claim is what build_chunked_tally builds, of a board the checker takes.
HonestClaim ==
  /\ claim # NoClaim /\ Len(admitted) < PosLimit /\ RowsFetchable(admitted)
  /\ claim.sorted = GlobalSort(BoardRecords(claim.chunk))

\* An honest claim has the counts of its board and is not rejected.
HonestInv ==
  /\ counts = FilterAndTally(admitted)
  /\ HonestClaim => verdict # "rejected" /\ claim.counts = FilterAndTally(admitted)

\* Every run of an honest claim is sorted, boundary included.
LEMMA HonestRunIsSorted ==
  ASSUME WithinLimits, ExactInv, HonestClaim, NEW k \in 0..(Chunks(claim.chunk) - 1)
  PROVE  RunIsSorted(k)
  <1> DEFINE c  == claim.chunk
             s  == claim.sorted
             n  == Padded(c)
             lo == k * c
  <1>1. c \in ChunkSizes /\ c \in Nat \ {0} /\ admitted \in Seq(Com) /\ k \in Nat
    BY DEF ExactInv, RunsInv, HonestClaim
  <1>2. HonestSort(s, BoardRecords(c), n)
    BY <1>1, HonestTally DEF HonestClaim
  <1>3. lo \in Nat /\ n \in Nat /\ lo + c <= n /\ (k = 0 => lo = 0) /\ (k # 0 => lo # 0)
    <2>1. Chunks(c) \in Nat
      BY <1>1, BoardFits
    <2>2. PICK d \in Nat : Chunks(c) = k + 1 + d
      <3>1. Chunks(c) - k - 1 \in Nat /\ Chunks(c) = k + 1 + (Chunks(c) - k - 1)
        BY <1>1, <2>1
      <3> QED BY <3>1
    <2> HIDE DEF c
    <2>3. n = lo + c + d * c /\ d * c \in Nat /\ lo \in Nat
      BY <1>1, <2>2 DEF Padded
    <2>4. k # 0 => lo # 0
      <3>1. ASSUME k # 0 PROVE lo # 0
        <4>1. k - 1 \in Nat /\ k = (k - 1) + 1
          BY <1>1, <3>1
        <4>2. lo = (k - 1) * c + c /\ (k - 1) * c \in Nat
          BY <1>1, <4>1
        <4> QED BY <1>1, <4>2
      <3> QED BY <3>1
    <2> QED BY <1>1, <2>3, <2>4
  <1>4. PosLimit \in Nat /\ IdLimit \in Nat
    BY ChunkedBounds
  <1>5. BoundaryIn(k) = IF k = 0 THEN Sentinel ELSE s[lo - 1]
    BY DEF BoundaryIn
  <1>6. ASSUME NEW j \in lo..(lo + c - 1)
        PROVE  /\ s[j].id < 2 * IdLimit /\ s[j].pos < PosLimit
               /\ (IF j = lo THEN BoundaryKey(k) ELSE KeyWide(s[j - 1])) <= KeyWide(s[j])
    <2> HIDE DEF lo, n, c, s
    <2>1. j \in 0..(n - 1)
      BY <1>1, <1>3
    <2>2. s[j].id < 2 * IdLimit /\ s[j].pos < PosLimit /\ KeyWide(s[j]) \in Nat
      BY <1>2, <1>4, <2>1 DEF HonestSort
    <2>3. j # 0 => KeyWide(s[j - 1]) <= KeyWide(s[j])
      BY <1>2, <2>1 DEF HonestSort
    <2>4. j = lo => BoundaryKey(k) <= KeyWide(s[j])
      BY <1>3, <1>5, <2>2, <2>3 DEF BoundaryKey, Sentinel
    <2>5. j # lo => j # 0
      BY <1>3
    <2> QED BY <2>2, <2>3, <2>4, <2>5
  <1> QED BY <1>6, Zenon DEF RunIsSorted

\* A claim, honest or not, keeps the counts of honest ones.
LEMMA ClaimKeepsHonest ==
  ASSUME WithinLimits, ExactInv, HonestInv, NEW c \in ChunkSizes, NEW sorted, NEW cs,
         Claim(c, sorted, cs),
         cs \in {counts, VotesAt(sorted, CountedSlots(sorted, 0, Padded(c), IdLimit))}
  PROVE  HonestInv'
  <1>1. /\ claim = NoClaim /\ verdict = "none" /\ verdict' = "none" /\ claim'.chunk = c
        /\ claim'.sorted = sorted /\ claim'.counts = cs
        /\ admitted' = admitted /\ counts' = counts
    BY DEF Claim, vars, ExactInv, RunsInv
  <1>2. BoardRecords(c)' = BoardRecords(c)
    BY <1>1 DEF BoardRecords, Padded, Chunks
  <1>3. ASSUME HonestClaim'
        PROVE  cs = FilterAndTally(admitted)
    <2>1. /\ Len(admitted) < PosLimit /\ RowsFetchable(admitted)
          /\ sorted = GlobalSort(BoardRecords(c))
      BY <1>1, <1>2, <1>3 DEF HonestClaim
    <2>2. VotesAt(sorted, CountedSlots(sorted, 0, Padded(c), IdLimit)) = FilterAndTally(admitted)
      BY <2>1, HonestTally DEF ExactInv
    <2> QED BY <2>2 DEF HonestInv
  <1> QED BY <1>1, <1>3 DEF HonestInv

\* An honest claim passes every check of chunked_relation_check_native.
LEMMA HonestIsKept ==
  ASSUME WithinLimits, ExactInv, HonestInv, [ChunkedNext]_chunkedVars
  PROVE  HonestInv'
  <1>1. ASSUME claim = NoClaim, NEW com \in Com, Admit(com), UNCHANGED claimVars
        PROVE  HonestInv'
    BY <1>1 DEF Admit, HonestInv, HonestClaim, claimVars, NoClaim
  <1>2. ASSUME NEW c \in ChunkSizes, Build(c)
        PROVE  HonestInv'
    BY <1>2, ClaimKeepsHonest DEF Build
  <1>3. ASSUME NEW c \in ChunkSizes, NEW sorted, Tamper(c, sorted)
        PROVE  HonestInv'
    BY <1>3, ClaimKeepsHonest DEF Tamper
  <1>4. ASSUME UNCHANGED <<admitted, counts, claim>>, HonestClaim => verdict' # "rejected"
        PROVE  HonestInv'
    BY <1>4 DEF HonestInv, HonestClaim, BoardRecords, Padded, Chunks
  <1>5. CASE BeginCheck
    BY <1>4, <1>5 DEF BeginCheck, vars, HonestClaim, WithinLimits
  <1>6. CASE CheckRun
    <2>1. /\ UNCHANGED <<admitted, counts, claim>> /\ verdict = "checking"
          /\ run < Chunks(claim.chunk) /\ (RunIsSorted(run) => verdict' = verdict)
      BY <1>6 DEF CheckRun, vars
    <2>2. ASSUME HonestClaim
          PROVE  RunIsSorted(run)
      <3>1. run \in Nat /\ Chunks(claim.chunk) \in Nat
        BY <2>2, BoardFits DEF ExactInv, RunsInv, HonestClaim
      <3>2. run \in 0..(Chunks(claim.chunk) - 1)
        BY <2>1, <3>1
      <3> QED BY <2>2, <3>2, HonestRunIsSorted
    <2> QED BY <1>4, <2>1, <2>2
  <1>7. CASE Conclude
    <2>1. /\ UNCHANGED <<admitted, counts, claim>> /\ run = Chunks(claim.chunk)
          /\ verdict' = IF /\ SameRecords(claim.sorted, BoardRecords(claim.chunk))
                           /\ total = claim.counts
                          THEN "accepted" ELSE "rejected"
      BY <1>7 DEF Conclude, vars
    <2>2. ASSUME HonestClaim
          PROVE  SameRecords(claim.sorted, BoardRecords(claim.chunk)) /\ total = claim.counts
      <3>1. /\ HonestSort(claim.sorted, BoardRecords(claim.chunk), Padded(claim.chunk))
            /\ VotesAt(claim.sorted, CountedSlots(claim.sorted, 0, Padded(claim.chunk), IdLimit))
                 = FilterAndTally(admitted)
        BY <2>2, HonestTally DEF ExactInv, HonestClaim
      <3>2. total = VotesAt(claim.sorted,
                            CountedSlots(claim.sorted, 0, Padded(claim.chunk), IdLimit))
        BY <2>1, <2>2 DEF ExactInv, RunsInv, RunsAddUp, Padded, HonestClaim
      <3> QED BY <2>2, <3>1, <3>2 DEF HonestSort, HonestInv
    <2> QED BY <1>4, <2>1, <2>2
  <1>8. CASE UNCHANGED chunkedVars
    BY <1>4, <1>8 DEF chunkedVars, claimVars, vars, HonestInv
  <1> QED BY <1>1, <1>2, <1>3, <1>5, <1>6, <1>7, <1>8 DEF ChunkedNext

\* What build_chunked_tally builds, chunked_relation_check_native accepts: for
\* every board, and every chunk size that divides the limit of positions.
THEOREM HonestIsAlwaysAccepted == WithinLimits => (ChunkedSpec => []HonestIsAccepted)
  <1> SUFFICES ASSUME WithinLimits
               PROVE  ChunkedSpec => []HonestIsAccepted
    OBVIOUS
  <1>1. ChunkedInit => HonestInv
    BY DEF ChunkedInit, Init, HonestInv, HonestClaim
  <1>2. ExactInv /\ HonestInv /\ [ChunkedNext]_chunkedVars => HonestInv'
    BY HonestIsKept
  <1>3. HonestInv => HonestIsAccepted
    BY DEF HonestInv, HonestClaim, HonestIsAccepted
  <1> QED BY ExactInvariant, <1>1, <1>2, <1>3, PTL DEF ChunkedSpec

-----------------------------------------------------------------------------
(* What is proved of an accepted claim.                                     *)

\* The values of the transcript of sorted records s in n chunks of c slots.
HonestValues(tr, s, c, n) ==
  /\ tr.width = c /\ tr.size = c /\ tr.chunks = n /\ tr.ballots = Len(admitted) /\ tr.sc = s
  /\ \A j \in 0..(n * c - 1) : tr.rc[j] = SlotRecord(j)
  /\ \A k \in 0..n :
       /\ tr.bb[k] = SubSeq(admitted, 1, IF k * c < Len(admitted) THEN k * c ELSE Len(admitted))
       /\ tr.boundary[k] = IF k = 0 THEN Sentinel ELSE s[k * c - 1]
       /\ tr.sums[k] = VotesAt(s, CountedSlots(s, 0, k * c, IdLimit))
       /\ tr.accP[k] = EmptyBag (+) BagOf(s, 0, k * c)
       /\ tr.accQ[k] = EmptyBag (+) BagOf(tr.rc, 0, k * c)
  /\ \A k \in 0..(n - 1) :
       tr.tc[k] = VotesAt(s, CountedSlots(s, k * c, (k + 1) * c, tr.boundary[k].id))
  /\ tr.counts = tr.sums[n]

\* They are those build_chunked_tally gives the driver.
LEMMA HonestTranscript ==
  ASSUME claim.chunk \in Nat \ {0}, Chunks(claim.chunk) \in Nat
  PROVE  HonestValues(TranscriptOf(HonestChoice), claim.sorted, claim.chunk, Chunks(claim.chunk))
  <1> DEFINE ch == HonestChoice
             tr == TranscriptOf(ch)
             s  == claim.sorted
             c  == claim.chunk
             n  == Chunks(claim.chunk)
             bnd == [k \in 0..ch.chunks |->
                       IF k = 0 THEN ch.first ELSE ch.sorted[k * ch.width - 1]]
  <1>1. /\ ch.width = c /\ ch.size = c /\ ch.chunks = n /\ ch.sorted = s
        /\ ch.first = Sentinel /\ ch.p0 = EmptyBag /\ ch.q0 = EmptyBag
    BY DEF HonestChoice
  <1>2. Sentinel.id = IdLimit /\ c \in Nat \ {0}
    BY DEF Sentinel
  <1> HIDE DEF s, c, n, ch
  <1>3. /\ tr.width = ch.width /\ tr.size = ch.size /\ tr.chunks = ch.chunks
        /\ tr.ballots = Len(admitted) /\ tr.sc = ch.sorted /\ tr.counts = tr.sums[ch.chunks]
    BY Zenon DEF TranscriptOf
  <1>4. /\ tr.rc = [j \in 0..(ch.chunks * ch.width - 1) |->
                      SlotRecord(((j \div ch.width) * ch.size) + (j % ch.width))]
        /\ tr.bb = [k \in 0..ch.chunks |->
                      SubSeq(admitted, 1, IF k * ch.size < Len(admitted)
                                            THEN k * ch.size ELSE Len(admitted))]
        /\ tr.boundary = bnd
    BY Zenon DEF TranscriptOf
  <1>5. /\ tr.sums = [k \in 0..ch.chunks |->
                        VotesAt(ch.sorted,
                                CountedSlots(ch.sorted, 0, k * ch.width, ch.first.id))]
        /\ tr.tc = [k \in 0..(ch.chunks - 1) |->
                      VotesAt(ch.sorted,
                              CountedSlots(ch.sorted, k * ch.width, (k + 1) * ch.width,
                                           bnd[k].id))]
    BY Zenon DEF TranscriptOf
  <1>6. /\ tr.accP = [k \in 0..ch.chunks |->
                        ch.p0 (+) BagOf(ch.sorted, 0, k * ch.width)]
        /\ tr.accQ = [k \in 0..ch.chunks |-> ch.q0 (+) BagOf(tr.rc, 0, k * ch.width)]
    BY Zenon DEF TranscriptOf
  <1> HIDE DEF tr, bnd
  <1>7. ASSUME NEW j \in 0..(n * c - 1)
        PROVE  tr.rc[j] = SlotRecord(j)
    <2>1. ((j \div c) * c) + (j % c) = j
      <3>1. j \in Nat /\ c \in Nat \ {0}
        BY <1>2
      <3> QED BY <3>1
    <2>2. tr.rc[j] = SlotRecord(((j \div c) * c) + (j % c))
      BY <1>1, <1>4
    <2> QED BY <2>1, <2>2, Zenon
  <1>8. ASSUME NEW k \in 0..n
        PROVE  /\ tr.bb[k] = SubSeq(admitted, 1, IF k * c < Len(admitted)
                                                   THEN k * c ELSE Len(admitted))
               /\ tr.boundary[k] = IF k = 0 THEN Sentinel ELSE s[k * c - 1]
               /\ tr.sums[k] = VotesAt(s, CountedSlots(s, 0, k * c, IdLimit))
               /\ tr.accP[k] = EmptyBag (+) BagOf(s, 0, k * c)
               /\ tr.accQ[k] = EmptyBag (+) BagOf(tr.rc, 0, k * c)
    <2>1. tr.bb[k] = SubSeq(admitted, 1, IF k * c < Len(admitted) THEN k * c ELSE Len(admitted))
      BY <1>1, <1>4, Zenon
    <2>2. tr.boundary[k] = IF k = 0 THEN Sentinel ELSE s[k * c - 1]
      BY <1>1, <1>4, Zenon DEF bnd
    <2>3. tr.sums[k] = VotesAt(s, CountedSlots(s, 0, k * c, IdLimit))
      BY <1>1, <1>2, <1>5, Zenon
    <2>4. /\ tr.accP[k] = EmptyBag (+) BagOf(s, 0, k * c)
          /\ tr.accQ[k] = EmptyBag (+) BagOf(tr.rc, 0, k * c)
      BY <1>1, <1>6, Zenon
    <2> QED BY <2>1, <2>2, <2>3, <2>4
  <1>9. ASSUME NEW k \in 0..(n - 1)
        PROVE  tr.tc[k] = VotesAt(s, CountedSlots(s, k * c, (k + 1) * c, tr.boundary[k].id))
    BY <1>1, <1>4, <1>5, Zenon
  <1>10. HonestValues(tr, s, c, n)
    BY <1>1, <1>3, <1>7, <1>8, <1>9, Zenon DEF HonestValues
  <1> QED BY <1>10 DEF tr, s, c, n, ch

\* What the native check has gone through is in order.
CheckedInv ==
  /\ verdict \in {"checking", "accepted"} =>
       /\ claim # NoClaim /\ NumVoters < IdLimit
       /\ Len(admitted) < PosLimit /\ RowsFetchable(admitted)
       /\ run <= Chunks(claim.chunk)
       /\ \A k \in 0..(run - 1) : RunIsSorted(k)
  /\ verdict = "accepted" =>
       /\ run = Chunks(claim.chunk)
       /\ SameRecords(claim.sorted, BoardRecords(claim.chunk))

\* Every step of the native check keeps what it has gone through in order.
LEMMA CheckedIsKept ==
  ASSUME ExactInv, CheckedInv, [ChunkedNext]_chunkedVars
  PROVE  CheckedInv'
  <1>1. ASSUME claim = NoClaim, claim' # NoClaim \/ UNCHANGED claimVars, verdict' = verdict
        PROVE  CheckedInv'
    BY <1>1 DEF ExactInv, RunsInv, CheckedInv
  <1>2. ASSUME NEW com \in Com, Admit(com), UNCHANGED claimVars, claim = NoClaim
        PROVE  CheckedInv'
    BY <1>1, <1>2 DEF claimVars
  <1>3. ASSUME NEW c \in ChunkSizes, NEW sorted, Build(c) \/ Tamper(c, sorted)
        PROVE  CheckedInv'
    BY <1>3 DEF Build, Tamper, Claim, CheckedInv, ExactInv, RunsInv
  <1>4. ASSUME UNCHANGED <<admitted, claim>>
        PROVE  /\ Chunks(claim.chunk)' = Chunks(claim.chunk)
               /\ BoardRecords(claim.chunk)' = BoardRecords(claim.chunk)
               /\ \A k : RunIsSorted(k)' <=> RunIsSorted(k)
    BY <1>4 DEF Chunks, BoardRecords, Padded, RunIsSorted, BoundaryKey, BoundaryIn
  <1>5. claim # NoClaim => run \in Nat /\ Chunks(claim.chunk) \in Nat
    BY BoardFits DEF ExactInv, RunsInv
  <1>6. CASE BeginCheck
    <2>1. /\ UNCHANGED <<admitted, claim, run>> /\ run = 0 /\ claim # NoClaim
          /\ verdict' \in {"checking", "rejected"}
          /\ verdict' = "checking" => /\ NumVoters < IdLimit /\ Len(admitted) < PosLimit
                                      /\ RowsFetchable(admitted)
      BY <1>6 DEF BeginCheck, vars, ExactInv, RunsInv
    <2> QED BY <1>4, <1>5, <2>1 DEF CheckedInv
  <1>7. CASE CheckRun
    <2>1. /\ UNCHANGED <<admitted, claim>> /\ verdict = "checking"
          /\ run < Chunks(claim.chunk)
          /\ \/ run' = run + 1 /\ verdict' = verdict /\ RunIsSorted(run)
             \/ verdict' = "rejected"
      BY <1>7 DEF CheckRun, vars
    <2>2. /\ claim # NoClaim /\ NumVoters < IdLimit
          /\ Len(admitted) < PosLimit /\ RowsFetchable(admitted)
          /\ \A k \in 0..(run - 1) : RunIsSorted(k)
      BY <2>1 DEF CheckedInv
    <2>3. ASSUME RunIsSorted(run), NEW k \in 0..run
          PROVE  RunIsSorted(k)
      BY <1>5, <2>2, <2>3
    <2> QED BY <1>4, <1>5, <2>1, <2>2, <2>3 DEF CheckedInv
  <1>8. CASE Conclude
    <2>1. /\ UNCHANGED <<admitted, claim, run>> /\ verdict = "checking"
          /\ run = Chunks(claim.chunk) /\ verdict' \in {"accepted", "rejected"}
          /\ verdict' = "accepted" => SameRecords(claim.sorted, BoardRecords(claim.chunk))
      BY <1>8 DEF Conclude, vars
    <2> QED BY <1>4, <2>1 DEF CheckedInv
  <1>9. CASE UNCHANGED chunkedVars
    <2>1. UNCHANGED <<admitted, claim, run, verdict>>
      BY <1>9 DEF chunkedVars, claimVars, vars
    <2> QED BY <1>4, <2>1 DEF CheckedInv
  <1> QED BY <1>2, <1>3, <1>6, <1>7, <1>8, <1>9 DEF ChunkedNext

\* Every chunk begins within the board.
LEMMA ChunkBegins ==
  ASSUME admitted \in Seq(Com), NEW c \in ChunkSizes, NEW k \in 0..(Chunks(c) - 1)
  PROVE  k * c <= Len(admitted) /\ (k # 0 => k * c < Len(admitted))
  <1> DEFINE L == Len(admitted)
  <1>1. L \in Nat /\ c \in Nat \ {0} /\ Chunks(c) \in Nat /\ k \in Nat
    BY ChunkedBounds, BoardFits
  <1>2. k * c \in Nat /\ (k = 0 => k * c = 0)
    BY <1>1
  <1>3. CASE admitted = <<>>
    <2>1. Chunks(c) = 1
      BY <1>3 DEF Chunks
    <2> QED BY <1>1, <1>2, <2>1
  <1>4. CASE admitted # <<>>
    <2> DEFINE q == (L + c - 1) \div c
    <2>1. q \in Nat /\ q * c <= L + c - 1 /\ Chunks(c) = q
      BY <1>1, <1>4 DEF Chunks
    <2>2. q - k - 1 \in Nat
      BY <1>1, <2>1
    <2> HIDE DEF q, L
    <2>3. PICK d \in Nat : q = k + 1 + d
      <3>1. q = k + 1 + (q - k - 1)
        BY <1>1, <2>1
      <3> QED BY <2>2, <3>1
    <2>4. q * c = k * c + c + d * c /\ d * c \in Nat
      BY <1>1, <2>3
    <2>5. k * c < L
      BY <1>1, <1>2, <2>1, <2>4
    <2> QED BY <1>1, <1>2, <2>5 DEF L
  <1> QED BY <1>3, <1>4

\* The transcript of a claim the native check has accepted.
Accepted(tr) ==
  /\ ExactInv /\ CheckedInv /\ verdict = "accepted"
  /\ HonestValues(tr, claim.sorted, claim.chunk, Chunks(claim.chunk))

\* Its sizes.
LEMMA AcceptedSizes ==
  ASSUME NEW tr, Accepted(tr)
  PROVE  /\ tr.width = claim.chunk /\ tr.size = claim.chunk
         /\ tr.chunks = Chunks(claim.chunk) /\ tr.ballots = Len(admitted)
         /\ admitted \in Seq(Com) /\ claim.chunk \in ChunkSizes
         /\ claim.chunk \in Nat \ {0} /\ Chunks(claim.chunk) \in Nat \ {0}
         /\ Len(admitted) < PosLimit /\ NumVoters < IdLimit /\ RowsFetchable(admitted)
         /\ Chunks(claim.chunk) * claim.chunk \in Nat
         /\ Len(admitted) <= Chunks(claim.chunk) * claim.chunk
  <1>1. /\ tr.width = claim.chunk /\ tr.size = claim.chunk
        /\ tr.chunks = Chunks(claim.chunk) /\ tr.ballots = Len(admitted)
    BY Zenon DEF Accepted, HonestValues
  <1>2. /\ admitted \in Seq(Com) /\ claim.chunk \in ChunkSizes /\ claim.chunk \in Nat \ {0}
        /\ Len(admitted) < PosLimit /\ NumVoters < IdLimit /\ RowsFetchable(admitted)
    BY DEF Accepted, CheckedInv, ExactInv, RunsInv
  <1>3. /\ Chunks(claim.chunk) \in Nat
        /\ Chunks(claim.chunk) * claim.chunk \in Nat
        /\ Len(admitted) <= Chunks(claim.chunk) * claim.chunk
    BY <1>2, BoardFits DEF Padded
  <1>4. Chunks(claim.chunk) # 0
    <2>1. CASE admitted = <<>>
      BY <2>1 DEF Chunks
    <2>2. CASE admitted # <<>>
      <3>1. Len(admitted) > 0
        BY <1>2, <2>2
      <3>2. Chunks(claim.chunk) = 0 => Chunks(claim.chunk) * claim.chunk = 0
        BY <1>2
      <3> QED BY <1>2, <1>3, <3>1, <3>2
    <2> QED BY <2>1, <2>2
  <1> QED BY <1>1, <1>2, <1>3, <1>4

\* The structure of the transcript is accepted.
LEMMA AcceptedStructure ==
  ASSUME NEW tr, Accepted(tr)
  PROVE  StructureAccepted(tr)
  <1> DEFINE c  == claim.chunk
             n  == Chunks(claim.chunk)
             s  == claim.sorted
             L  == Len(admitted)
             bb == tr.bb
  <1>1. /\ tr.size = c /\ tr.chunks = n /\ tr.ballots = L /\ L < PosLimit
        /\ admitted \in Seq(Com) /\ L \in Nat /\ c \in Nat \ {0} /\ n \in Nat \ {0}
        /\ n * c \in Nat /\ L <= n * c
    BY AcceptedSizes
  <1>2. HonestValues(tr, s, c, n)
    BY DEF Accepted
  <1> HIDE DEF c, n, s, L, bb
  <1>3. ASSUME NEW k \in 0..n
        PROVE  /\ k * c \in Nat
               /\ bb[k] = SubSeq(admitted, 1, IF k * c < L THEN k * c ELSE L)
    <2>1. k * c \in Nat
      BY <1>1
    <2> QED BY <1>2, <2>1, Zenon DEF HonestValues, L, bb
  <1>4. SubSeq(admitted, 1, 0) = <<>> /\ SubSeq(admitted, 1, L) = admitted
    BY <1>1 DEF L
  <1>5. bb[0] = <<>>
    <2>1. 0 \in 0..n /\ 0 * c = 0
      BY <1>1
    <2>2. bb[0] = SubSeq(admitted, 1, IF 0 < L THEN 0 ELSE L)
      BY <1>3, <2>1
    <2> QED BY <1>1, <1>4, <2>2
  <1>6. ASSUME NEW k \in 0..n, L <= k * c
        PROVE  bb[k] = admitted
    BY <1>1, <1>3, <1>4, <1>6
  <1>7. ASSUME NEW j \in 1..L, j % c = 0
        PROVE  bb[j \div c] = SubSeq(admitted, 1, j)
    <2> DEFINE k == j \div c
    <2>1. k \in Nat /\ k * c = j /\ j \in Nat
      BY <1>1, <1>7
    <2> HIDE DEF k
    <2>2. k <= n
      <3>1. ASSUME n < k PROVE FALSE
        <4>1. k - n - 1 \in Nat /\ k = n + 1 + (k - n - 1)
          BY <1>1, <2>1, <3>1
        <4>2. PICK d \in Nat : k = n + 1 + d
          BY <4>1
        <4>3. k * c = n * c + c + d * c /\ d * c \in Nat
          BY <1>1, <4>2
        <4> QED BY <1>1, <1>7, <2>1, <4>3
      <3> QED BY <1>1, <2>1, <3>1
    <2>3. bb[k] = SubSeq(admitted, 1, IF j < L THEN j ELSE L)
      BY <1>1, <1>3, <2>1, <2>2
    <2> QED BY <1>1, <1>7, <2>1, <2>3 DEF k
  <1>8. ASSUME NEW k \in (L \div c + 1)..n
        PROVE  bb[k] = admitted
    <2> DEFINE q == L \div c
    <2>1. q \in Nat /\ L < q * c + c /\ k \in Nat /\ q + 1 <= k /\ k <= n
      BY <1>1
    <2> HIDE DEF q
    <2>2. PICK d \in Nat : k = q + 1 + d
      <3>1. k - q - 1 \in Nat /\ k = q + 1 + (k - q - 1)
        BY <2>1
      <3> QED BY <3>1
    <2>3. k * c = q * c + c + d * c /\ d * c \in Nat /\ q * c \in Nat
      BY <1>1, <2>1, <2>2
    <2> QED BY <1>1, <1>6, <2>1, <2>3
  <1>9. bb[n] = admitted
    BY <1>1, <1>6
  <1>10. tr.boundary[0] = Sentinel /\ tr.accP[0] = EmptyBag /\ tr.accQ[0] = EmptyBag
    <2>1. 0 \in 0..n /\ 0 * c = 0
      BY <1>1
    <2>2. /\ tr.boundary[0] = IF 0 = 0 THEN Sentinel ELSE s[0 * c - 1]
          /\ tr.accP[0] = EmptyBag (+) BagOf(s, 0, 0 * c)
          /\ tr.accQ[0] = EmptyBag (+) BagOf(tr.rc, 0, 0 * c)
      BY <1>2, <2>1, Zenon DEF HonestValues
    <2>3. ASSUME NEW rs
          PROVE  EmptyBag (+) BagOf(rs, 0, 0) = EmptyBag
      <3>1. 0..(0 - 1) = {}
        OBVIOUS
      <3>2. DOMAIN BagOf(rs, 0, 0) = {}
        BY <3>1 DEF BagOf
      <3> QED BY <3>2 DEF EmptyBag, SetToBag, (+)
    <2> QED BY <2>1, <2>2, <2>3
  <1>11. SnapshotsAccepted(bb, c, n)
    BY <1>5, <1>7, <1>8, <1>9, Zenon DEF SnapshotsAccepted, L
  <1> QED BY <1>1, <1>10, <1>11 DEF StructureAccepted, L, bb

\* A chunk ends before or where the last one does.
LEMMA ChunkEndsWithin ==
  ASSUME NEW c \in Nat \ {0}, NEW n \in Nat, NEW k \in 0..(n - 1)
  PROVE  k * c + c <= n * c /\ n * c \in Nat
  <1>1. k \in Nat /\ n - k - 1 \in Nat /\ n = k + 1 + (n - k - 1)
    OBVIOUS
  <1>2. PICK d \in Nat : n = k + 1 + d
    BY <1>1
  <1>3. n * c = k * c + c + d * c /\ d * c \in Nat /\ k * c \in Nat
    BY <1>1, <1>2
  <1> QED BY <1>3

\* A prefix of a prefix of a board is a prefix, and what follows it is the board's.
LEMMA PrefixesNest ==
  ASSUME NEW adm \in Seq(Com), NEW a \in Nat, NEW e \in Nat, a <= e, e <= Len(adm),
         NEW part, part = SubSeq(adm, 1, e), NEW rest, rest = SubSeq(part, a + 1, e)
  PROVE  /\ Len(SubSeq(adm, 1, a)) = a
         /\ part \in Seq(Com) /\ Len(part) = e
         /\ \A i \in 1..e : part[i] = adm[i]
         /\ SubSeq(part, 1, a) = SubSeq(adm, 1, a)
         /\ Len(rest) = e - a
         /\ \A j \in 1..(e - a) : rest[j] = adm[a + j]
  <1> DEFINE head == SubSeq(adm, 1, a)
  <1>1. Len(adm) \in Nat
    OBVIOUS
  <1>2. head \in Seq(Com) /\ Len(head) = a /\ \A i \in 1..a : head[i] = adm[i]
    BY <1>1
  <1>3. part \in Seq(Com) /\ Len(part) = e /\ \A i \in 1..e : part[i] = adm[i]
    BY <1>1
  <1> HIDE DEF head
  <1>4. /\ SubSeq(part, 1, a) \in Seq(Com) /\ Len(SubSeq(part, 1, a)) = a
        /\ \A i \in 1..a : SubSeq(part, 1, a)[i] = part[i]
    BY <1>3
  <1>5. SubSeq(part, 1, a) = head
    <2> DEFINE again == SubSeq(part, 1, a)
    <2> HIDE DEF again
    <2>1. \A i \in 1..a : again[i] = head[i]
      BY <1>2, <1>3, <1>4 DEF again
    <2> QED BY <1>2, <1>4, <2>1 DEF again
  <1>6. Len(rest) = e - a /\ \A j \in 1..(e - a) : rest[j] = part[a + j]
    BY <1>3
  <1>7. \A j \in 1..(e - a) : a + j \in 1..e
    OBVIOUS
  <1> QED BY <1>2, <1>3, <1>5, <1>6, <1>7 DEF head

\* Every validity proof can be made.
LEMMA AcceptedValidity ==
  ASSUME NEW tr, Accepted(tr), NEW k \in 0..(tr.chunks - 1)
  PROVE  ValidityHolds(tr, k)
  <1> DEFINE c    == claim.chunk
             n    == Chunks(claim.chunk)
             L    == Len(admitted)
             base == k * c
             left == IF L - base < c THEN L - base ELSE c
             end  == base + left
             part == SubSeq(admitted, 1, end)
  <1>1. /\ tr.width = c /\ tr.size = c /\ tr.chunks = n /\ tr.ballots = L /\ L < PosLimit
        /\ NumVoters < IdLimit /\ RowsFetchable(admitted) /\ c \in ChunkSizes
        /\ admitted \in Seq(Com) /\ L \in Nat /\ c \in Nat \ {0} /\ n \in Nat
        /\ PosLimit \in Nat
    BY AcceptedSizes, ChunkedBounds
  <1>2. HonestValues(tr, claim.sorted, c, n)
    BY DEF Accepted
  <1>3. /\ k \in 0..n /\ k + 1 \in 0..n /\ base \in Nat /\ (k + 1) * c = base + c
        /\ base <= L /\ k \in 0..(n - 1) /\ k \in Nat
    <2>1. k \in 0..n /\ k + 1 \in 0..n /\ k \in 0..(n - 1)
      BY <1>1
    <2>2. base \in Nat /\ (k + 1) * c = base + c
      BY <1>1, <2>1, ChunkEnds
    <2>3. base <= L
      BY <1>1, <2>1, ChunkBegins
    <2> QED BY <2>1, <2>2, <2>3
  <1>4. /\ tr.bb[k] = SubSeq(admitted, 1, IF base < L THEN base ELSE L)
        /\ tr.bb[k + 1] = SubSeq(admitted, 1, IF base + c < L THEN base + c ELSE L)
    BY <1>2, <1>3, Zenon DEF HonestValues
  <1>5. ASSUME NEW j \in 0..(c - 1)
        PROVE  tr.rc[base + j] = SlotRecord(base + j)
    <2> DEFINE all == n * c
    <2>1. base + c <= all /\ all \in Nat
      BY <1>1, <1>3, ChunkEndsWithin
    <2> HIDE DEF all, base, n, c, L
    <2>2. base + j \in 0..(all - 1)
      BY <1>1, <1>3, <2>1
    <2> QED BY <1>2, <2>2, Zenon DEF HonestValues, all, base, n, c, L
  <1> HIDE DEF base
  <1>6. left \in Nat /\ base + left <= L /\ left <= c
    BY <1>1, <1>3
  <1>7. tr.bb[k] = SubSeq(admitted, 1, base) /\ tr.bb[k + 1] = part
    <2>1. /\ (IF base < L THEN base ELSE L) = base
          /\ (IF base + c < L THEN base + c ELSE L) = base + left
      BY <1>1, <1>3
    <2> QED BY <1>4, <2>1, Zenon
  <1>8. Active(tr, k) = left
    BY <1>1, <1>3 DEF Active, base
  <1> HIDE DEF left, part, L
  <1>9. end \in Nat /\ base <= end /\ end <= Len(admitted) /\ end - base = left
    BY <1>1, <1>3, <1>6 DEF L
  <1> HIDE DEF end
  <1> DEFINE rest == SubSeq(part, base + 1, end)
  <1>10. /\ Len(tr.bb[k]) = base /\ Len(part) = end /\ SubSeq(part, 1, base) = tr.bb[k]
         /\ \A i \in 1..end : part[i] = admitted[i]
         /\ Len(rest) = left /\ \A j \in 1..left : rest[j] = admitted[base + j]
    <2> HIDE DEF rest
    <2>1. part = SubSeq(admitted, 1, end) /\ rest = SubSeq(part, base + 1, end)
      BY DEF part, rest
    <2>2. /\ Len(SubSeq(admitted, 1, base)) = base
          /\ part \in Seq(Com) /\ Len(part) = end
          /\ \A i \in 1..end : part[i] = admitted[i]
          /\ SubSeq(part, 1, base) = SubSeq(admitted, 1, base)
          /\ Len(rest) = end - base
          /\ \A j \in 1..(end - base) : rest[j] = admitted[base + j]
      <3>1. admitted \in Seq(Com) /\ base \in Nat /\ end \in Nat
        BY <1>1, <1>3, <1>9
      <3>2. base <= end /\ end <= Len(admitted)
        BY <1>9
      <3> QED BY ONLY <2>1, <3>1, <3>2, PrefixesNest
    <2> QED BY <1>7, <1>9, <2>2
  <1>11. RowsFetchable(rest)
    <2>1. \A j \in 1..left : base + j \in 1..L
      BY <1>1, <1>3, <1>6
    <2> HIDE DEF rest
    <2> QED BY <1>1, <1>10, <2>1 DEF RowsFetchable, L
  <1>12. ASSUME NEW j \in 0..(c - 1)
         PROVE  tr.rc[base + j] = IF j < left THEN EvalRow(part[base + j + 1], base + j)
                                              ELSE PaddingRow(base + j)
    <2>1. j < left => base + j + 1 \in 1..end /\ base + j < L
      BY <1>1, <1>3, <1>6 DEF end
    <2>2. ~(j < left) => ~(base + j < L)
      BY <1>1, <1>3, <1>6 DEF left
    <2>3. tr.rc[base + j] = IF base + j < L THEN EvalRow(admitted[base + j + 1], base + j)
                                            ELSE PaddingRow(base + j)
      BY <1>5 DEF SlotRecord, L
    <2> QED BY <1>10, <2>1, <2>2, <2>3
  <1>13. base < PosLimit
    BY <1>1, <1>3
  <1> HIDE DEF c, n
  <1>14. k * tr.size = base /\ k * tr.width = base
    BY <1>1 DEF base
  <1> QED BY <1>1, <1>7, <1>8, <1>10, <1>11, <1>12, <1>13, <1>14, Zenon DEF ValidityHolds, L, c, end

\* A bag is that of the copies it holds.
LEMMA BagIsCopies ==
  ASSUME NEW a, NEW b, NEW S, a = [r \in S |-> a[r]], b = [r \in S |-> b[r]],
         \A r \in S : Copies(r, a) = Copies(r, b)
  PROVE  a = b
  <1>1. DOMAIN a = S /\ DOMAIN b = S
    OBVIOUS
  <1>2. \A r \in S : a[r] = b[r]
    BY <1>1 DEF Copies
  <1>3. [r \in S |-> a[r]] = [r \in S |-> b[r]]
    BY <1>2
  <1> QED BY <1>3, Zenon

\* A set of slots is finite.
LEMMA FewHold ==
  ASSUME NEW lo \in Int, NEW hi \in Int, NEW A \in SUBSET (lo..(hi - 1))
  PROVE  IsFiniteSet(A) /\ Cardinality(A) \in Nat
  <1> DEFINE D == lo..(hi - 1)
  <1>1. IsFiniteSet(D)
    BY FS_Interval
  <1> HIDE DEF D
  <1>2. IsFiniteSet(A)
    BY <1>1, FS_Subset DEF D
  <1> QED BY <1>2, FS_CardinalityType

\* Nothing is added to a bag of slots by the empty one.
LEMMA EmptyAddsNothing ==
  ASSUME NEW rs, NEW lo \in Int, NEW hi \in Int
  PROVE  EmptyBag (+) BagOf(rs, lo, hi) = BagOf(rs, lo, hi)
  <1> DEFINE b == BagOf(rs, lo, hi)
             S == {rs[j] : j \in lo..(hi - 1)}
  <1>1. b = [r \in S |-> b[r]]
    BY DEF BagOf
  <1>2. EmptyBag (+) b = [r \in S |-> (EmptyBag (+) b)[r]]
    BY <1>1 DEF (+), EmptyBag, SetToBag
  <1>3. ASSUME NEW r \in S
        PROVE  Copies(r, EmptyBag (+) b) = Copies(r, b)
    <2>1. Copies(r, b) = Cardinality({j \in lo..(hi - 1) : rs[j] = r})
      BY BagOfCounts
    <2>2. Copies(r, b) \in Nat
      <3> DEFINE A == {j \in lo..(hi - 1) : rs[j] = r}
      <3>1. A \in SUBSET (lo..(hi - 1)) /\ Copies(r, b) = Cardinality(A)
        BY <2>1
      <3> HIDE DEF A
      <3> QED BY <3>1, FewHold
    <2>3. Copies(r, EmptyBag) = 0
      BY DEF Copies, EmptyBag, SetToBag
    <2> HIDE DEF b
    <2> QED BY <2>2, <2>3, UnionAddsCopies
  <1> HIDE DEF S, b
  <1> QED BY <1>1, <1>2, <1>3, BagIsCopies DEF b

\* The records of the slots before hi are those before lo and those from lo on.
LEMMA BagsAdd ==
  ASSUME NEW rs, NEW lo \in Nat, NEW hi \in Nat, lo <= hi
  PROVE  BagOf(rs, 0, hi) = BagOf(rs, 0, lo) (+) BagOf(rs, lo, hi)
  <1> DEFINE a == BagOf(rs, 0, lo)
             b == BagOf(rs, lo, hi)
             e == BagOf(rs, 0, hi)
             S == {rs[j] : j \in 0..(hi - 1)}
             At(r, x, y) == {j \in x..(y - 1) : rs[j] = r}
  <1>1. e = [r \in S |-> e[r]]
    BY DEF BagOf
  <1>2. a (+) b = [r \in S |-> (a (+) b)[r]]
    <2>1. DOMAIN a = {rs[j] : j \in 0..(lo - 1)} /\ DOMAIN b = {rs[j] : j \in lo..(hi - 1)}
      BY DEF BagOf
    <2>2. DOMAIN a \cup DOMAIN b = S
      <3>1. 0..(hi - 1) = 0..(lo - 1) \cup lo..(hi - 1)
        OBVIOUS
      <3> QED BY <2>1, <3>1
    <2> HIDE DEF a, b, S
    <2> QED BY <2>2 DEF (+)
  <1>3. ASSUME NEW r \in S
        PROVE  Copies(r, e) = Copies(r, a (+) b)
    <2> DEFINE A == At(r, 0, lo)
               B == At(r, lo, hi)
               E == At(r, 0, hi)
    <2>1. Copies(r, a) = Cardinality(A) /\ Copies(r, b) = Cardinality(B)
          /\ Copies(r, e) = Cardinality(E)
      BY BagOfCounts
    <2>2. E = A \cup B /\ A \cap B = {}
      OBVIOUS
    <2>3. /\ IsFiniteSet(A) /\ IsFiniteSet(B)
          /\ Cardinality(A) \in Nat /\ Cardinality(B) \in Nat
      <3>1. /\ A \in SUBSET (0..(lo - 1)) /\ B \in SUBSET (lo..(hi - 1))
            /\ lo \in Int /\ hi \in Int /\ 0 \in Int
        OBVIOUS
      <3> HIDE DEF A, B
      <3>2. IsFiniteSet(A) /\ Cardinality(A) \in Nat
        BY <3>1, FewHold
      <3>3. IsFiniteSet(B) /\ Cardinality(B) \in Nat
        BY <3>1, FewHold
      <3> QED BY <3>2, <3>3
    <2> HIDE DEF A, B, E, a, b, e, S, At
    <2>4. Cardinality(E) = Cardinality(A) + Cardinality(B) - Cardinality(A \cap B)
      BY <2>2, <2>3, FS_Union
    <2>5. Cardinality(E) = Cardinality(A) + Cardinality(B)
      BY <2>2, <2>3, <2>4, FS_EmptySet
    <2>6. Copies(r, a (+) b) = Copies(r, a) + Copies(r, b)
      BY <2>1, <2>3, UnionAddsCopies
    <2> QED BY <2>1, <2>5, <2>6
  <1> HIDE DEF S, a, b, e
  <1>4. e = a (+) b
    BY <1>1, <1>2, <1>3, BagIsCopies
  <1> QED BY <1>4 DEF a, b, e

\* Every run proof can be made.
LEMMA AcceptedRun ==
  ASSUME NEW tr, Accepted(tr), NEW k \in 0..(tr.chunks - 1)
  PROVE  RunHolds(tr, k)
  <1> DEFINE c  == claim.chunk
             n  == Chunks(claim.chunk)
             s  == claim.sorted
             lo == k * c
             hi == (k + 1) * c
  <1>1. tr.width = c /\ tr.chunks = n /\ c \in Nat \ {0} /\ n \in Nat
    BY AcceptedSizes
  <1>2. HonestValues(tr, s, c, n) /\ RunIsSorted(k)
    BY <1>1 DEF Accepted, CheckedInv
  <1>3. /\ k \in 0..n /\ k + 1 \in 0..n /\ k \in 0..(n - 1) /\ k + 1 # 0
        /\ lo \in Nat /\ hi \in Nat /\ hi = lo + c
    <2>1. k \in 0..n /\ k + 1 \in 0..n /\ k \in 0..(n - 1) /\ k + 1 # 0
      BY <1>1
    <2> QED BY <1>1, <2>1, ChunkEnds
  <1>4. /\ tr.sc = s
        /\ tr.boundary[k] = IF k = 0 THEN Sentinel ELSE s[lo - 1]
        /\ tr.boundary[k + 1] = IF k + 1 = 0 THEN Sentinel ELSE s[hi - 1]
        /\ tr.tc[k] = VotesAt(s, CountedSlots(s, lo, hi, tr.boundary[k].id))
    BY <1>2, <1>3, Zenon DEF HonestValues
  <1>5. /\ tr.accP[k] = EmptyBag (+) BagOf(s, 0, lo)
        /\ tr.accP[k + 1] = EmptyBag (+) BagOf(s, 0, hi)
        /\ tr.accQ[k] = EmptyBag (+) BagOf(tr.rc, 0, lo)
        /\ tr.accQ[k + 1] = EmptyBag (+) BagOf(tr.rc, 0, hi)
    BY <1>2, <1>3, Zenon DEF HonestValues
  <1>6. tr.boundary[k] = BoundaryIn(k)
    BY <1>4 DEF BoundaryIn
  <1>7. KeyBefore(tr.boundary[k]) = BoundaryKey(k)
    BY <1>6, Zenon DEF KeyBefore, BoundaryKey
  <1>8. \A j \in lo..(lo + c - 1) :
          /\ s[j].id < 2 * IdLimit /\ s[j].pos < PosLimit
          /\ (IF j = lo THEN BoundaryKey(k) ELSE KeyWide(s[j - 1])) <= KeyWide(s[j])
    BY <1>2, Zenon DEF RunIsSorted
  <1> HIDE DEF lo, hi, s
  <1>9. lo + c - 1 + 1 = hi /\ lo + c - 1 = hi - 1 /\ lo <= hi
    BY <1>1, <1>3
  <1>10. /\ tr.accP[k + 1] = tr.accP[k] (+) BagOf(s, lo, hi)
         /\ tr.accQ[k + 1] = tr.accQ[k] (+) BagOf(tr.rc, lo, hi)
    <2>1. ASSUME NEW rs
          PROVE  EmptyBag (+) BagOf(rs, 0, hi)
                   = (EmptyBag (+) BagOf(rs, 0, lo)) (+) BagOf(rs, lo, hi)
      BY <1>3, <1>9, EmptyAddsNothing, BagsAdd
    <2> QED BY <1>5, <2>1
  <1>11. tr.boundary[k + 1] = s[hi - 1]
    BY <1>3, <1>4
  <1>12. k * tr.width = lo
    BY <1>1 DEF lo
  <1> HIDE DEF c
  <1> QED BY <1>1, <1>4, <1>7, <1>8, <1>9, <1>10, <1>11, <1>12, Zenon DEF RunHolds

\* Slots that agree make the same bag.
LEMMA SameSlotsSameBag ==
  ASSUME NEW a, NEW b, NEW n \in Nat, \A j \in 0..(n - 1) : a[j] = b[j]
  PROVE  BagOf(a, 0, n) = BagOf(b, 0, n)
  <1>1. {a[j] : j \in 0..(n - 1)} = {b[j] : j \in 0..(n - 1)}
    OBVIOUS
  <1>2. \A r : {j \in 0..(n - 1) : a[j] = r} = {j \in 0..(n - 1) : b[j] = r}
    OBVIOUS
  <1> QED BY <1>1, <1>2, Zenon DEF BagOf

\* Sorted records that are the numbered rows, each as often, make their bag.
LEMMA SameRecordsSameBag ==
  ASSUME NEW n \in Nat, NEW s, NEW rs,
         DOMAIN s = 0..(n - 1), DOMAIN rs = 0..(n - 1),
         \A j \in 0..(n - 1) : rs[j].pos = j,
         SameRecords(s, rs)
  PROVE  BagOf(s, 0, n) = BagOf(rs, 0, n)
  <1> DEFINE a == BagOf(s, 0, n)
             b == BagOf(rs, 0, n)
             D == 0..(n - 1)
             S == {rs[j] : j \in D}
  <1>1. Rearranged(s, rs, n)
    BY SameIsRearranged
  <1>2. {s[j] : j \in D} = S
    <2> HIDE DEF a, b
    <2>1. ASSUME NEW j \in D
          PROVE  \E i \in D : s[j] = rs[i]
      <3>1. s[j].pos \in D /\ s[j] = rs[s[j].pos]
        BY <1>1, Zenon DEF Rearranged
      <3> QED BY <3>1
    <2>2. ASSUME NEW j \in D
          PROVE  \E i \in D : s[i] = rs[j]
      <3>1. PICK i \in D : s[i].pos = j
        BY <1>1, Zenon DEF Rearranged
      <3>2. s[i] = rs[s[i].pos]
        BY <1>1, Zenon DEF Rearranged
      <3> QED BY <3>1, <3>2
    <2> HIDE DEF D
    <2> QED BY <2>1, <2>2
  <1>3. a = [r \in S |-> a[r]] /\ b = [r \in S |-> b[r]]
    BY <1>2 DEF BagOf
  <1>4. ASSUME NEW r \in S
        PROVE  Copies(r, a) = Copies(r, b)
    <2>1. PICK j \in D : r = rs[j]
      OBVIOUS
    <2>2. Copies(r, a) = Cardinality({i \in D : s[i] = r})
      BY BagOfCounts
    <2>3. Copies(r, b) = Cardinality({i \in D : rs[i] = r})
      BY BagOfCounts
    <2>4. Cardinality({i \in D : s[i] = rs[j]}) = Cardinality({i \in D : rs[i] = rs[j]})
      BY Zenon DEF SameRecords
    <2> HIDE DEF a, b, D
    <2> QED BY <2>1, <2>2, <2>3, <2>4, Zenon
  <1> HIDE DEF a, b, S
  <1>5. a = b
    BY <1>3, <1>4, BagIsCopies
  <1> QED BY <1>5 DEF a, b

\* The sum proof can be made.
LEMMA AcceptedSum ==
  ASSUME NEW tr, Accepted(tr)
  PROVE  SumHolds(tr)
  <1> DEFINE c   == claim.chunk
             n   == Chunks(claim.chunk)
             s   == claim.sorted
             all == n * c
             SumTo(k) == VotesAt(s, CountedSlots(s, 0, k * c, IdLimit))
  <1>1. /\ tr.width = c /\ tr.chunks = n /\ c \in Nat \ {0} /\ n \in Nat \ {0} /\ all \in Nat
    BY AcceptedSizes
  <1>2. HonestValues(tr, s, c, n)
    BY DEF Accepted
  <1>3. ASSUME NEW k \in 0..n
        PROVE  tr.sums[k] = SumTo(k)
    BY <1>2, Zenon DEF HonestValues
  <1>4. tr.counts = tr.sums[n]
    BY <1>2, Zenon DEF HonestValues
  <1>5. tr.sums[0] = NoVotes
    <2>1. 0 \in 0..n /\ 0 * c = 0
      BY <1>1
    <2> QED BY <1>3, <2>1, NoSlots
  <1>6. ASSUME NEW k \in 0..(n - 1)
        PROVE  tr.sums[k + 1] = [d \in Candidate |-> tr.sums[k][d] + tr.tc[k][d]]
    <2> DEFINE lo == k * c
               hi == (k + 1) * c
    <2>1. k \in 0..n /\ k + 1 \in 0..n
      BY <1>1
    <2>2. /\ lo \in Nat /\ hi \in Nat /\ lo <= hi
          /\ lo = 0 <=> k = 0
      BY <1>1, <2>1, ChunkEnds
    <2>3. /\ tr.boundary[k] = IF k = 0 THEN Sentinel ELSE s[lo - 1]
          /\ tr.tc[k] = VotesAt(s, CountedSlots(s, lo, hi, tr.boundary[k].id))
      BY <1>2, <2>1, Zenon DEF HonestValues
    <2>4. tr.boundary[k].id = IdBefore(s, lo, IdLimit)
      BY <2>2, <2>3 DEF IdBefore, Sentinel
    <2>5. /\ tr.sums[k] = VotesAt(s, CountedSlots(s, 0, lo, IdLimit))
          /\ tr.sums[k + 1] = VotesAt(s, CountedSlots(s, 0, hi, IdLimit))
      BY <1>3, <2>1
    <2> HIDE DEF lo, hi, s
    <2>6. \A d \in Candidate : tr.sums[k + 1][d] = tr.sums[k][d] + tr.tc[k][d]
      BY <2>2, <2>3, <2>4, <2>5, VotesCut
    <2>7. tr.sums[k + 1] = [d \in Candidate |-> tr.sums[k + 1][d]]
      BY <2>5, Zenon DEF VotesAt
    <2> QED BY <2>6, <2>7
  <1>7. tr.accP[n] = tr.accQ[n]
    <2> DEFINE rs == BoardRecords(c)
    <2>1. /\ tr.accP[n] = EmptyBag (+) BagOf(s, 0, all)
          /\ tr.accQ[n] = EmptyBag (+) BagOf(tr.rc, 0, all)
      <3>1. n \in 0..n
        BY <1>1
      <3> QED BY <1>2, <3>1, Zenon DEF HonestValues
    <2>2. /\ DOMAIN s = 0..(all - 1) /\ SameRecords(s, rs)
      BY DEF Accepted, ExactInv, CheckedInv, Padded
    <2>3. rs = RowsOf(admitted, all)
      BY DEF BoardRecords, Padded
    <2>4. \A j \in 0..(all - 1) : tr.rc[j] = SlotRecord(j)
      BY <1>2, Zenon DEF HonestValues
    <2> HIDE DEF rs, s, all, n, c
    <2>5. /\ DOMAIN rs = 0..(all - 1)
          /\ \A j \in 0..(all - 1) : rs[j] = SlotRecord(j) /\ rs[j].pos = j
      BY <2>3 DEF RowsOf, SlotRecord, EvalRow, PaddingRow
    <2>6. BagOf(s, 0, all) = BagOf(rs, 0, all)
      BY <1>1, <2>2, <2>5, SameRecordsSameBag
    <2>7. \A j \in 0..(all - 1) : tr.rc[j] = rs[j]
      BY <2>4, <2>5
    <2>8. BagOf(tr.rc, 0, all) = BagOf(rs, 0, all)
      BY <1>1, <2>7, SameSlotsSameBag
    <2> QED BY <2>1, <2>6, <2>8
  <1> QED BY <1>1, <1>4, <1>5, <1>6, <1>7 DEF SumHolds

\* Every proof of the transcript of an accepted claim can be made.
LEMMA AcceptedHolds ==
  ASSUME NEW tr, Accepted(tr), NEW i \in 0..(Items(tr) - 1)
  PROVE  Holds(tr, i)
  <1>1. tr.chunks \in Nat
    BY AcceptedSizes
  <1>2. CASE i < tr.chunks
    <2>1. i \in 0..(tr.chunks - 1)
      BY <1>1, <1>2
    <2> QED BY <1>2, <2>1, AcceptedValidity DEF Holds
  <1>3. CASE ~(i < tr.chunks) /\ i < 2 * tr.chunks
    <2>1. i - tr.chunks \in 0..(tr.chunks - 1)
      BY <1>1, <1>3
    <2> QED BY <1>3, <2>1, AcceptedRun DEF Holds
  <1>4. CASE ~(i < tr.chunks) /\ ~(i < 2 * tr.chunks)
    BY <1>4, AcceptedSum DEF Holds
  <1> QED BY <1>2, <1>3, <1>4

-----------------------------------------------------------------------------
(* The pool proves every item of an accepted claim.                         *)

\* The pool works on the transcript of an accepted claim, and its threads have
\* returned when something is posted.
PosterInv ==
  /\ outcome = "none" => next = 0
  /\ next > 0 => Worker # {}
  /\ outcome = "proving" \/ next > 0 => Accepted(posted)
  /\ outcome \notin {"none", "proving"} => \A w \in Worker : at[w] \in {Idle, Gone}

\* A thread leaves when nothing is left, and an item that was handed out is
\* proved, has failed, or is with a thread.
HandedOutInv ==
  outcome = "proving" =>
    /\ \A w \in Worker : at[w] = Gone => Items(posted) <= next
    /\ \A i \in 0..(Items(posted) - 1) :
         /\ proofs[i] \in {i, NoProof}
         /\ i < next => proofs[i] = i \/ failed \/ \E w \in Worker : at[w] = i

\* What the pool has posted has every proof in its place and is not refused.
InPlaceInv ==
  next > 0 /\ outcome \notin {"none", "proving", "unproved"} =>
    /\ outcome # "refused"
    /\ \A i \in 0..(Items(posted) - 1) : proofs[i] = i

PlacesInv == TranscriptInv /\ CheckedInv /\ PosterInv /\ HandedOutInv /\ InPlaceInv

\* An accepted claim and its transcript stay what they are.
LEMMA StaysAccepted ==
  ASSUME CheckedInv, Accepted(posted), UNCHANGED chunkedVars, posted' = posted
  PROVE  Accepted(posted)'
  <1>1. UNCHANGED <<admitted, claim, verdict>>
    BY DEF chunkedVars, claimVars, vars
  <1>2. ExactInv' /\ CheckedInv'
    BY ExactIsKept, CheckedIsKept DEF Accepted
  <1>3. Chunks(claim.chunk)' = Chunks(claim.chunk)
    BY <1>1 DEF Chunks
  <1>4. HonestValues(posted, claim.sorted, claim.chunk, Chunks(claim.chunk))'
    <2> DEFINE s == claim.sorted
               c == claim.chunk
               n == Chunks(claim.chunk)
    <2>1. s' = s /\ c' = c /\ n' = n
      BY <1>1, <1>3
    <2>2. HonestValues(posted, s, c, n)
      BY DEF Accepted
    <2>3. \A j : SlotRecord(j)' = SlotRecord(j)
      BY <1>1 DEF SlotRecord
    <2> HIDE DEF s, c, n
    <2>4. HonestValues(posted, s, c, n)'
      BY <1>1, <2>1, <2>2, <2>3 DEF HonestValues
    <2> QED BY <2>4 DEF s, c, n
  <1> QED BY <1>1, <1>2, <1>4 DEF Accepted

\* A thread takes an item, or leaves.
LEMMA FetchKeepsPlaces ==
  ASSUME PlacesInv, NEW w \in Worker, Fetch(w)
  PROVE  PosterInv' /\ HandedOutInv' /\ InPlaceInv'
  <1>1. /\ UNCHANGED chunkedVars /\ UNCHANGED <<posted, proofs, failed, outcome>>
        /\ outcome = "proving" /\ at[w] = Idle /\ next' = next + 1
        /\ at' = [at EXCEPT ![w] = IF next < Items(posted) THEN next ELSE Gone]
    BY DEF Fetch
  <1>2. /\ next \in Nat /\ at \in [Worker -> Nat \cup {Idle, Gone}] /\ Items(posted) \in Nat
        /\ Items(posted)' = Items(posted)
    BY <1>1 DEF PlacesInv, TranscriptInv, PostedInv, PoolInv, Shaped, Items
  <1>3. Accepted(posted)'
    BY <1>1, StaysAccepted DEF PlacesInv, PosterInv
  <1>4. PosterInv' /\ InPlaceInv'
    BY <1>1, <1>2, <1>3 DEF PosterInv, InPlaceInv
  <1>5. \A u \in Worker : at'[u] = Gone => Items(posted) <= next'
    BY <1>1, <1>2, TranscriptBounds DEF PlacesInv, HandedOutInv
  <1>6. ASSUME NEW i \in 0..(Items(posted) - 1)
        PROVE  /\ proofs'[i] \in {i, NoProof}
               /\ i < next' => proofs'[i] = i \/ failed' \/ \E u \in Worker : at'[u] = i
    <2>1. /\ proofs[i] \in {i, NoProof}
          /\ i < next => proofs[i] = i \/ failed \/ \E u \in Worker : at[u] = i
      BY <1>1 DEF PlacesInv, HandedOutInv
    <2>2. ASSUME NEW u \in Worker, at[u] = i
          PROVE  at'[u] = i
      BY <1>1, <1>2, <2>2, TranscriptBounds
    <2>3. i = next => at'[w] = i
      BY <1>1, <1>2
    <2>4. i < next' => i < next \/ i = next
      BY <1>1, <1>2
    <2> QED BY <1>1, <2>1, <2>2, <2>3, <2>4
  <1>7. HandedOutInv'
    BY <1>1, <1>2, <1>5, <1>6 DEF HandedOutInv
  <1> QED BY <1>4, <1>7

\* A thread puts the proof of its item in its place.
LEMMA ProveKeepsPlaces ==
  ASSUME PlacesInv, NEW w \in Worker, Prove(w)
  PROVE  PosterInv' /\ HandedOutInv' /\ InPlaceInv'
  <1>1. /\ UNCHANGED chunkedVars /\ UNCHANGED <<posted, next, failed, outcome>>
        /\ outcome = "proving" /\ at[w] \notin {Idle, Gone}
        /\ proofs' = [proofs EXCEPT ![at[w]] = at[w]] /\ at' = [at EXCEPT ![w] = Idle]
    BY DEF Prove
  <1>2. /\ next \in Nat /\ at \in [Worker -> Nat \cup {Idle, Gone}] /\ Items(posted) \in Nat
        /\ Items(posted)' = Items(posted)
        /\ proofs \in [0..(Items(posted) - 1) -> (0..(Items(posted) - 1)) \cup {NoProof}]
    BY <1>1 DEF PlacesInv, TranscriptInv, PostedInv, PoolInv, Shaped, Items
  <1>3. Accepted(posted)'
    BY <1>1, StaysAccepted DEF PlacesInv, PosterInv
  <1>4. PosterInv' /\ InPlaceInv'
    BY <1>1, <1>2, <1>3 DEF PlacesInv, PosterInv, InPlaceInv
  <1>5. \A u \in Worker : at'[u] = Gone => Items(posted) <= next'
    BY <1>1, <1>2, TranscriptBounds DEF PlacesInv, HandedOutInv
  <1>6. ASSUME NEW i \in 0..(Items(posted) - 1)
        PROVE  /\ proofs'[i] \in {i, NoProof}
               /\ i < next' => proofs'[i] = i \/ failed' \/ \E u \in Worker : at'[u] = i
    <2>1. /\ proofs[i] \in {i, NoProof}
          /\ i < next => proofs[i] = i \/ failed \/ \E u \in Worker : at[u] = i
      BY <1>1 DEF PlacesInv, HandedOutInv
    <2>2. proofs'[i] = IF i = at[w] THEN i ELSE proofs[i]
      BY <1>1, <1>2
    <2>3. ASSUME NEW u \in Worker, at[u] = i
          PROVE  at'[u] = i \/ proofs'[i] = i
      BY <1>1, <1>2, <2>2, <2>3
    <2> QED BY <1>1, <2>1, <2>2, <2>3
  <1>7. HandedOutInv'
    BY <1>1, <1>2, <1>5, <1>6 DEF HandedOutInv
  <1> QED BY <1>4, <1>7

\* A thread whose item fails says so.
LEMMA FailKeepsPlaces ==
  ASSUME PlacesInv, NEW w \in Worker, FailItem(w)
  PROVE  PosterInv' /\ HandedOutInv' /\ InPlaceInv'
  <1>1. /\ UNCHANGED chunkedVars /\ UNCHANGED <<posted, proofs, next, outcome>>
        /\ outcome = "proving" /\ at[w] \notin {Idle, Gone} /\ failed' = TRUE
        /\ at' = [at EXCEPT ![w] = Idle]
    BY DEF FailItem
  <1>2. /\ next \in Nat /\ at \in [Worker -> Nat \cup {Idle, Gone}]
        /\ Items(posted)' = Items(posted)
    BY <1>1 DEF PlacesInv, TranscriptInv, PoolInv, Items
  <1>3. Accepted(posted)'
    BY <1>1, StaysAccepted DEF PlacesInv, PosterInv
  <1>4. PosterInv' /\ InPlaceInv'
    BY <1>1, <1>2, <1>3 DEF PlacesInv, PosterInv, InPlaceInv
  <1>5. HandedOutInv'
    BY <1>1, <1>2, TranscriptBounds DEF PlacesInv, HandedOutInv
  <1> QED BY <1>4, <1>5

\* When all threads have returned and none failed, every item is proved.
LEMMA AssembleKeepsPlaces ==
  ASSUME PlacesInv, Assemble
  PROVE  PosterInv' /\ HandedOutInv' /\ InPlaceInv'
  <1>1. /\ UNCHANGED chunkedVars /\ UNCHANGED <<posted, proofs, next, at, failed>>
        /\ outcome = "proving" /\ \A w \in Worker : at[w] = Gone
        /\ outcome' = IF failed THEN "unproved" ELSE "posted"
    BY DEF Assemble, poolVars
  <1>2. Items(posted)' = Items(posted) /\ Items(posted) \in Nat /\ next \in Nat
    BY <1>1 DEF PlacesInv, TranscriptInv, PostedInv, PoolInv, Shaped, Items
  <1>3. Accepted(posted)'
    BY <1>1, StaysAccepted DEF PlacesInv, PosterInv
  <1>4. PosterInv' /\ HandedOutInv'
    BY <1>1, <1>3 DEF PlacesInv, PosterInv, HandedOutInv
  <1>5. ASSUME next > 0, ~failed, NEW i \in 0..(Items(posted) - 1)
        PROVE  proofs[i] = i
    <2>1. Items(posted) <= next
      BY <1>1, <1>5 DEF PlacesInv, PosterInv, HandedOutInv
    <2>2. proofs[i] = i \/ \E w \in Worker : at[w] = i
      BY <1>1, <1>2, <1>5, <2>1 DEF PlacesInv, HandedOutInv
    <2>3. ASSUME NEW w \in Worker, at[w] = i
          PROVE  FALSE
      BY <1>1, <1>2, <2>3, TranscriptBounds
    <2> QED BY <2>2, <2>3
  <1>6. InPlaceInv'
    BY <1>1, <1>2, <1>5 DEF InPlaceInv
  <1> QED BY <1>4, <1>6

\* What the pool has posted, the verifier does not refuse.
LEMMA VerifierKeepsPlaces ==
  ASSUME PlacesInv, BeginVerify \/ CheckProof
  PROVE  PosterInv' /\ HandedOutInv' /\ InPlaceInv'
  <1>1. /\ UNCHANGED chunkedVars /\ UNCHANGED <<posted, proofs, next, at, failed>>
        /\ outcome \in {"posted", "verifying"}
        /\ outcome' \in {"verifying", "refused", "verified"}
    BY DEF BeginVerify, CheckProof, poolVars
  <1>2. Items(posted)' = Items(posted)
    BY <1>1 DEF Items
  <1>3. next > 0 => Accepted(posted) /\ Accepted(posted)'
    BY <1>1, StaysAccepted DEF PlacesInv, PosterInv
  <1>4. PosterInv' /\ HandedOutInv'
    BY <1>1, <1>3 DEF PlacesInv, PosterInv, HandedOutInv
  <1>5. ASSUME next > 0 PROVE outcome' # "refused"
    <2>1. CASE BeginVerify
      <3>1. StructureAccepted(posted)
        BY <1>3, <1>5, AcceptedStructure
      <3> QED BY <2>1, <3>1 DEF BeginVerify
    <2>2. CASE CheckProof
      <3>1. checked \in 0..(Items(posted) - 1) /\ Items(posted) \in Nat
        BY <2>2 DEF CheckProof, PlacesInv, TranscriptInv, PostedInv, VerifierInv, Shaped, Items
      <3>2. proofs[checked] = checked /\ checked # NoProof
        BY <1>1, <1>5, <3>1, TranscriptBounds DEF PlacesInv, InPlaceInv
      <3>3. Holds(posted, checked)
        BY <1>3, <1>5, <3>1, AcceptedHolds
      <3>4. ProofFits(posted, checked)
        BY <3>2, <3>3, Zenon DEF ProofFits
      <3> QED BY <2>2, <3>4 DEF CheckProof
    <2> QED BY <2>1, <2>2
  <1>6. InPlaceInv'
    BY <1>1, <1>2, <1>5 DEF PlacesInv, InPlaceInv
  <1> QED BY <1>4, <1>6

\* The driver starts with nothing handed out.
LEMMA StartKeepsPlaces ==
  ASSUME PlacesInv, StartPool
  PROVE  PosterInv' /\ HandedOutInv' /\ InPlaceInv'
  <1> DEFINE tr == TranscriptOf(HonestChoice)
  <1>1. /\ UNCHANGED chunkedVars /\ UNCHANGED <<next, at>>
        /\ outcome = "none" /\ outcome' = "proving" /\ claim # NoClaim /\ verdict = "accepted"
        /\ posted' = tr /\ proofs' = [i \in 0..(Items(posted') - 1) |-> NoProof]
    BY DEF StartPool, poolVars
  <1>2. claim.chunk \in Nat \ {0} /\ Chunks(claim.chunk) \in Nat
    BY <1>1, BoardFits, ChunkedBounds DEF PlacesInv, TranscriptInv, ExactInv
  <1>3. HonestValues(tr, claim.sorted, claim.chunk, Chunks(claim.chunk))
    BY <1>2, HonestTranscript
  <1> HIDE DEF tr
  <1>4. UNCHANGED <<admitted, claim, verdict>> /\ ExactInv' /\ CheckedInv'
    BY <1>1, ExactIsKept, CheckedIsKept DEF PlacesInv, TranscriptInv, chunkedVars, claimVars, vars
  <1>5. Accepted(posted)'
    <2> DEFINE s == claim.sorted
               c == claim.chunk
               n == Chunks(claim.chunk)
    <2>1. s' = s /\ c' = c /\ n' = n
      BY <1>4 DEF Chunks
    <2>2. \A j : SlotRecord(j)' = SlotRecord(j)
      BY <1>4 DEF SlotRecord
    <2>3. HonestValues(tr, s, c, n)
      BY <1>3
    <2> HIDE DEF s, c, n
    <2>4. HonestValues(posted, s, c, n)'
      BY <1>1, <1>4, <2>1, <2>2, <2>3 DEF HonestValues
    <2> QED BY <1>1, <1>4, <2>4 DEF Accepted, s, c, n
  <1>6. next = 0 /\ \A w \in Worker : at[w] = Idle
    BY <1>1 DEF PlacesInv, TranscriptInv, PoolInv, PosterInv
  <1>7. \A i \in 0..(Items(posted') - 1) : proofs'[i] = NoProof
    BY <1>1
  <1>8. Items(posted)' = Items(posted')
    BY DEF Items
  <1>9. PosterInv' /\ InPlaceInv'
    BY <1>1, <1>5, <1>6 DEF PosterInv, InPlaceInv
  <1>10. HandedOutInv'
    BY <1>1, <1>6, <1>7, <1>8, TranscriptBounds DEF HandedOutInv
  <1> QED BY <1>9, <1>10

\* Another prover posts before anything is handed out.
LEMMA AnotherPostKeepsPlaces ==
  ASSUME PlacesInv, PostAnother
  PROVE  PosterInv' /\ HandedOutInv' /\ InPlaceInv'
  <1>1. /\ next' = next /\ at' = at /\ outcome = "none" /\ outcome' = "posted"
    BY DEF PostAnother, PostOther, poolVars
  <1>2. next = 0 /\ \A w \in Worker : at[w] = Idle
    BY <1>1 DEF PlacesInv, TranscriptInv, PoolInv, PosterInv
  <1> QED BY <1>1, <1>2 DEF PosterInv, HandedOutInv, InPlaceInv

\* The native check goes on with nothing handed out; other steps change nothing.
LEMMA OthersKeepPlaces ==
  ASSUME PlacesInv, UNCHANGED publicVars, outcome = "none" \/ UNCHANGED chunkedVars
  PROVE  PosterInv' /\ HandedOutInv' /\ InPlaceInv'
  <1>1. UNCHANGED <<posted, proofs, next, at, failed, outcome>>
    BY DEF publicVars
  <1>2. Items(posted)' = Items(posted)
    BY <1>1 DEF Items
  <1>3. outcome = "none" => next = 0
    BY DEF PlacesInv, PosterInv
  <1>4. outcome = "proving" \/ next > 0 => Accepted(posted)'
    BY <1>1, <1>3, StaysAccepted DEF PlacesInv, PosterInv
  <1>5. PosterInv'
    BY <1>1, <1>4 DEF PlacesInv, PosterInv
  <1>6. HandedOutInv' /\ InPlaceInv'
    BY <1>1, <1>2 DEF PlacesInv, HandedOutInv, InPlaceInv
  <1> QED BY <1>5, <1>6

\* Where every proof of an accepted claim is, at every step.
LEMMA PlacesInvariant == TranscriptSpec => []PlacesInv
  <1>1. TranscriptInit => CheckedInv /\ PosterInv /\ HandedOutInv /\ InPlaceInv
    BY DEF TranscriptInit, ChunkedInit, CheckedInv, PosterInv, HandedOutInv, InPlaceInv
  <1>2. PlacesInv /\ [TranscriptNext]_transcriptVars
          => CheckedInv' /\ PosterInv' /\ HandedOutInv' /\ InPlaceInv'
    <2> SUFFICES ASSUME PlacesInv, [TranscriptNext]_transcriptVars
                 PROVE  CheckedInv' /\ PosterInv' /\ HandedOutInv' /\ InPlaceInv'
      OBVIOUS
    <2>1. [ChunkedNext]_chunkedVars
      BY DEF TranscriptNext, transcriptVars, StartPool, Fetch, Prove, FailItem, Assemble,
             PostAnother, PostOther, BeginVerify, CheckProof
    <2>2. CheckedInv'
      BY <2>1, CheckedIsKept DEF PlacesInv, TranscriptInv
    <2>3. CASE outcome = "none" /\ ChunkedNext /\ UNCHANGED publicVars
      BY <2>2, <2>3, OthersKeepPlaces
    <2>4. CASE StartPool
      BY <2>2, <2>4, StartKeepsPlaces
    <2>5. ASSUME NEW w \in Worker, Fetch(w) \/ Prove(w) \/ FailItem(w)
          PROVE  PosterInv' /\ HandedOutInv' /\ InPlaceInv'
      BY <2>5, FetchKeepsPlaces, ProveKeepsPlaces, FailKeepsPlaces
    <2>6. CASE Assemble
      BY <2>2, <2>6, AssembleKeepsPlaces
    <2>7. CASE PostAnother
      BY <2>2, <2>7, AnotherPostKeepsPlaces
    <2>8. CASE BeginVerify \/ CheckProof
      BY <2>2, <2>8, VerifierKeepsPlaces
    <2>9. CASE UNCHANGED transcriptVars
      BY <2>2, <2>9, OthersKeepPlaces DEF transcriptVars
    <2> QED BY <2>2, <2>3, <2>4, <2>5, <2>6, <2>7, <2>8, <2>9 DEF TranscriptNext
  <1> QED BY TranscriptInvariant, <1>1, <1>2, PTL DEF TranscriptSpec, PlacesInv

\* An honest claim is accepted, each of its items can be proved, and however the
\* threads take turns, what they post is complete and not refused: for every
\* board, every number of threads, and every chunk size that divides the limit
\* of positions.
THEOREM HonestIsAlwaysVerified == WithinLimits => (TranscriptSpec => []HonestIsVerified)
  <1> SUFFICES ASSUME WithinLimits
               PROVE  TranscriptSpec => []HonestIsVerified
    OBVIOUS
  <1>1. PlacesInv /\ HonestIsAccepted => HonestIsVerified
    <2> SUFFICES ASSUME PlacesInv, next > 0
                 PROVE  /\ outcome # "refused"
                        /\ \A w \in Worker : at[w] \notin {Idle, Gone} => Holds(posted, at[w])
                        /\ outcome = "posted" => \A i \in DOMAIN proofs : proofs[i] # NoProof
      BY DEF HonestIsVerified
    <2>1. outcome # "none" /\ Accepted(posted)
      BY DEF PlacesInv, PosterInv
    <2>2. /\ Items(posted) \in Nat
          /\ proofs \in [0..(Items(posted) - 1) -> (0..(Items(posted) - 1)) \cup {NoProof}]
      BY <2>1 DEF PlacesInv, TranscriptInv, PostedInv, Shaped, Items
    <2>3. ASSUME NEW w \in Worker, at[w] \notin {Idle, Gone}
          PROVE  Holds(posted, at[w])
      <3>1. outcome = "proving"
        BY <2>1, <2>3 DEF PlacesInv, PosterInv
      <3>2. at[w] \in 0..(Items(posted) - 1)
        BY <2>3, <3>1 DEF PlacesInv, TranscriptInv, PoolInv
      <3> QED BY <2>1, <3>2, AcceptedHolds
    <2>4. outcome # "refused"
      BY DEF PlacesInv, InPlaceInv
    <2>5. ASSUME outcome = "posted", NEW i \in DOMAIN proofs
          PROVE  proofs[i] # NoProof
      <3>1. i \in 0..(Items(posted) - 1)
        BY <2>2
      <3>2. proofs[i] = i
        BY <2>5, <3>1 DEF PlacesInv, InPlaceInv
      <3> QED BY <2>2, <3>1, <3>2, TranscriptBounds
    <2> QED BY <2>3, <2>4, <2>5
  <1> QED BY PlacesInvariant, TranscriptImplementsChunked, HonestIsAlwaysAccepted, <1>1, PTL
=============================================================================
