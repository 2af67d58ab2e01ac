---------------------------- MODULE TallyProofs ----------------------------
(***************************************************************************)
(* The tally, the circuits and the judge agree on every board.              *)
(*                                                                          *)
(* The sorted strategy counts what the reference strategy counts: the       *)
(* records can be ranked by their keys, the ranks are a permutation of the  *)
(* positions, and in key order the first valid record of an identity block  *)
(* is the earliest valid record of that identity.  Over the rows of a board *)
(* in any slots, rearranged so that their keys ascend, one pass counts the  *)
(* same.                                                                    *)
(*                                                                          *)
(* What a growing board says about one voter, and what the judge rules on a *)
(* complaint, whatever the evidence: ballots that come later change         *)
(* nothing, the ruling agrees with the tally when the nonce is the tally's  *)
(* own, and openings other than the board's own change it only to blame the *)
(* authority or to decide nothing.                                          *)
(***************************************************************************)
EXTENDS Judge, TallyRows, FiniteSetTheorems, SequenceTheorems, TLAPS

\* What the records of a board look like to the duplicate rule.
Numbered(recs, n) ==
  /\ recs \in [1..n -> Record]
  /\ \A j \in 1..n : recs[j].pos = j

-----------------------------------------------------------------------------
(* The key order on numbered records.                                       *)

\* Sort keys are a strict order: a key never precedes itself.
LEMMA KeyIrreflexive ==
  ASSUME NEW a \in Record
  PROVE  ~KeyLess(a, a)
  BY DEF KeyLess, Record

\* Sort keys are transitive.
LEMMA KeyTransitive ==
  ASSUME NEW a \in Record, NEW b \in Record, NEW c \in Record,
         KeyLess(a, b), KeyLess(b, c)
  PROVE  KeyLess(a, c)
  BY DEF KeyLess, Record

\* Two records at different positions have comparable keys.
LEMMA KeyTotal ==
  ASSUME NEW a \in Record, NEW b \in Record, a.pos # b.pos
  PROVE  KeyLess(a, b) \/ KeyLess(b, a)
  <1>1. CASE a.valid = b.valid
    <2>1. CASE a.id = b.id
      BY <1>1, <2>1 DEF KeyLess, Record
    <2>2. CASE a.id # b.id
      BY <1>1, <2>2 DEF KeyLess, Record
    <2> QED BY <2>1, <2>2
  <1>2. CASE a.valid # b.valid
    BY <1>2 DEF KeyLess, Record
  <1> QED BY <1>1, <1>2

-----------------------------------------------------------------------------
(* Ranks: the sort puts the record with k - 1 records before it k-th.       *)

\* The records before j are finitely many positions other than j.
LEMMA BeforeFinite ==
  ASSUME NEW n \in Nat, NEW recs, Numbered(recs, n), NEW j \in 1..n
  PROVE  /\ Before(recs, j) \subseteq (1..n) \ {j}
         /\ IsFiniteSet(Before(recs, j))
         /\ Cardinality(Before(recs, j)) \in 0..(n - 1)
  <1>1. /\ IsFiniteSet(1..n)
        /\ Cardinality(1..n) = n
    BY FS_Interval
  <1>2. /\ IsFiniteSet((1..n) \ {j})
        /\ Cardinality((1..n) \ {j}) = n - 1
    BY <1>1, FS_RemoveElement
  <1>3. Before(recs, j) \subseteq (1..n) \ {j}
    BY KeyIrreflexive DEF Before, Numbered
  <1>4. /\ IsFiniteSet(Before(recs, j))
        /\ Cardinality(Before(recs, j)) <= n - 1
    BY <1>2, <1>3, FS_Subset
  <1>5. Cardinality(Before(recs, j)) \in Nat
    BY <1>4, FS_CardinalityType
  <1> QED BY <1>3, <1>4, <1>5

\* A smaller key has a smaller rank.
LEMMA RankMonotone ==
  ASSUME NEW n \in Nat, NEW recs, Numbered(recs, n),
         NEW i \in 1..n, NEW j \in 1..n, KeyLess(recs[i], recs[j])
  PROVE  Cardinality(Before(recs, i)) < Cardinality(Before(recs, j))
  <1>1. Before(recs, i) \subseteq Before(recs, j)
    <2> SUFFICES ASSUME NEW h \in Before(recs, i)
                 PROVE  h \in Before(recs, j)
      OBVIOUS
    <2>1. h \in 1..n /\ KeyLess(recs[h], recs[i])
      BY DEF Before, Numbered
    <2>2. recs[h] \in Record /\ recs[i] \in Record /\ recs[j] \in Record
      BY <2>1 DEF Numbered
    <2>3. KeyLess(recs[h], recs[j])
      BY <2>1, <2>2, KeyTransitive
    <2> QED BY <2>1, <2>3 DEF Before, Numbered
  <1>2. i \in Before(recs, j)
    BY DEF Before, Numbered
  <1>3. i \notin Before(recs, i)
    BY BeforeFinite
  <1>4. IsFiniteSet(Before(recs, j))
    BY BeforeFinite
  <1>5. /\ Cardinality(Before(recs, i)) <= Cardinality(Before(recs, j))
        /\ Cardinality(Before(recs, i)) # Cardinality(Before(recs, j))
    BY <1>1, <1>2, <1>3, <1>4, FS_Subset
  <1>6. /\ Cardinality(Before(recs, i)) \in Nat
        /\ Cardinality(Before(recs, j)) \in Nat
    BY BeforeFinite
  <1> QED BY <1>5, <1>6

\* Every rank from 0 to n - 1 is taken, by one record.
LEMMA RankOnto ==
  ASSUME NEW n \in Nat, NEW recs, Numbered(recs, n), NEW r \in 0..(n - 1)
  PROVE  \E j \in 1..n : Cardinality(Before(recs, j)) = r
  <1> DEFINE rank == [j \in 1..n |-> Cardinality(Before(recs, j))]
  <1>1. rank \in [1..n -> 0..(n - 1)]
    BY BeforeFinite
  <1>2. ASSUME NEW i \in 1..n, NEW j \in 1..n, rank[i] = rank[j]
        PROVE  i = j
    <2>1. SUFFICES ASSUME i # j PROVE FALSE
      OBVIOUS
    <2>2. /\ recs[i] \in Record /\ recs[j] \in Record
          /\ recs[i].pos # recs[j].pos
      BY <2>1 DEF Numbered
    <2>3. KeyLess(recs[i], recs[j]) \/ KeyLess(recs[j], recs[i])
      BY <2>2, KeyTotal
    <2>4. rank[i] < rank[j] \/ rank[j] < rank[i]
      BY <2>3, RankMonotone
    <2>5. rank[i] \in Int /\ rank[j] \in Int
      BY <1>1
    <2> QED BY <1>2, <2>4, <2>5
  <1>3. rank \in Injection(1..n, 0..(n - 1))
    BY <1>1, <1>2 DEF Injection, IsInjective
  <1>4. /\ IsFiniteSet(1..n) /\ Cardinality(1..n) = n
        /\ IsFiniteSet(0..(n - 1)) /\ Cardinality(0..(n - 1)) = n
    BY FS_Interval
  <1>5. rank \in Surjection(1..n, 0..(n - 1))
    BY <1>3, <1>4, FS_Injection
  <1> QED BY <1>5 DEF Surjection

\* The k-th entry of the sort order is a position of rank k - 1.
LEMMA SortOrderRank ==
  ASSUME NEW n \in Nat, NEW recs, Numbered(recs, n), NEW k \in 1..n
  PROVE  /\ SortOrder(recs)[k] \in 1..n
         /\ Cardinality(Before(recs, SortOrder(recs)[k])) = k - 1
  <1>1. DOMAIN recs = 1..n
    BY DEF Numbered
  <1>2. k - 1 \in 0..(n - 1)
    OBVIOUS
  <1>3. \E j \in 1..n : Cardinality(Before(recs, j)) = k - 1
    BY <1>2, RankOnto
  <1>4. SortOrder(recs)[k] = CHOOSE j \in 1..n : Cardinality(Before(recs, j)) = k - 1
    BY <1>1 DEF SortOrder
  <1> QED BY <1>3, <1>4

\* The rank sort is a sort by the key: a permutation of the board positions
\* with strictly increasing keys.
THEOREM RankSortSorts ==
  ASSUME NEW n \in Nat, NEW recs, Numbered(recs, n)
  PROVE  IsSortOf(SortOrder(recs), recs)
  <1> DEFINE order == SortOrder(recs)
  <1>1. DOMAIN recs = 1..n
    BY DEF Numbered
  <1>2. order \in [1..n -> 1..n]
    <2>1. order = [k \in 1..n |-> order[k]]
      BY <1>1 DEF SortOrder
    <2> HIDE DEF order
    <2>2. \A k \in 1..n : order[k] \in 1..n
      BY SortOrderRank DEF order
    <2> QED BY <2>1, <2>2
  <1>3. ASSUME NEW j \in 1..n
        PROVE  \E k \in 1..n : order[k] = j
    <2> DEFINE k == Cardinality(Before(recs, j)) + 1
    <2>1. k \in 1..n
      BY BeforeFinite
    <2>2. order[k] \in 1..n /\ Cardinality(Before(recs, order[k])) = k - 1
      BY <2>1, SortOrderRank
    <2>3. Cardinality(Before(recs, order[k])) = Cardinality(Before(recs, j))
      BY <2>2, BeforeFinite
    <2>4. order[k] = j
      <3>1. SUFFICES ASSUME order[k] # j PROVE FALSE
        OBVIOUS
      <3>2. /\ recs[order[k]] \in Record /\ recs[j] \in Record
            /\ recs[order[k]].pos # recs[j].pos
        BY <2>2, <3>1 DEF Numbered
      <3>3. KeyLess(recs[order[k]], recs[j]) \/ KeyLess(recs[j], recs[order[k]])
        BY <3>2, KeyTotal
      <3>4. Cardinality(Before(recs, j)) \in Nat
        BY BeforeFinite
      <3> QED BY <2>2, <2>3, <3>3, <3>4, RankMonotone
    <2> QED BY <2>1, <2>4
  <1>4. ASSUME NEW k \in 1..n, NEW l \in 1..n, k < l
        PROVE  KeyLess(recs[order[k]], recs[order[l]])
    <2>1. /\ order[k] \in 1..n /\ Cardinality(Before(recs, order[k])) = k - 1
          /\ order[l] \in 1..n /\ Cardinality(Before(recs, order[l])) = l - 1
      BY SortOrderRank
    <2>2. order[k] # order[l]
      BY <1>4, <2>1
    <2>3. /\ recs[order[k]] \in Record /\ recs[order[l]] \in Record
          /\ recs[order[k]].pos # recs[order[l]].pos
      BY <2>1, <2>2 DEF Numbered
    <2>4. ~KeyLess(recs[order[l]], recs[order[k]])
      BY <1>4, <2>1, RankMonotone
    <2> QED BY <2>3, <2>4, KeyTotal
  <1> QED BY <1>1, <1>2, <1>3, <1>4 DEF IsSortOf

-----------------------------------------------------------------------------
(* The linear pass over any sort of the records.                            *)

\* What precedes a valid record under its own identity is a valid record of
\* an earlier position.
LEMMA BlockPredecessor ==
  ASSUME NEW a \in Record, NEW b \in Record, b.valid, a.id = b.id, KeyLess(a, b)
  PROVE  a.valid /\ a.pos < b.pos
  <1>1. a.id \in Nat /\ b.id \in Nat
    BY DEF Record
  <1>2. ~(a.id < b.id)
    BY <1>1
  <1>3. a.valid = b.valid /\ a.pos < b.pos
    BY <1>2, Zenon DEF KeyLess
  <1> QED BY <1>3, Zenon

\* Keys that precede a valid record are those of valid records with an
\* identity that is not larger.
LEMMA ValidFirst ==
  ASSUME NEW a \in Record, NEW b \in Record, b.valid, KeyLess(a, b)
  PROVE  a.valid /\ a.id <= b.id
  <1>1. a.id \in Nat /\ b.id \in Nat
    BY DEF Record
  <1>2. a.valid = b.valid /\ (a.id < b.id \/ a.id = b.id)
    BY Zenon DEF KeyLess
  <1>3. a.valid
    BY <1>2, Zenon
  <1>4. a.id <= b.id
    BY <1>1, <1>2
  <1> QED BY <1>3, <1>4

\* In key order, a record between two valid records of one identity is of
\* that identity.
LEMMA BlockIsContiguous ==
  ASSUME NEW a \in Record, NEW b \in Record, NEW c \in Record,
         c.valid, a.id = c.id, KeyLess(a, b) \/ a = b, KeyLess(b, c)
  PROVE  b.id = c.id
  <1>1. b.valid /\ b.id <= c.id
    BY ValidFirst
  <1>2. a.id <= b.id
    <2>1. CASE a = b
      BY <2>1 DEF Record
    <2>2. CASE KeyLess(a, b)
      BY <1>1, <2>2, ValidFirst
    <2> QED BY <2>1, <2>2
  <1> QED BY <1>1, <1>2 DEF Record

\* The pass counts only first valid records.
LEMMA PassCountsFirst ==
  ASSUME NEW n \in Nat, NEW recs, Numbered(recs, n), NEW order, IsSortOf(order, recs)
  PROVE  CountedInOrder(recs, order) \subseteq CountedNaive(recs)
  <1>1. DOMAIN recs = 1..n
    BY DEF Numbered
  <1>2. order \in [1..n -> 1..n]
    BY <1>1 DEF IsSortOf
  <1>3. SUFFICES ASSUME NEW k \in 1..n,
                        recs[order[k]].valid,
                        k = 1 \/ recs[order[k - 1]].id # recs[order[k]].id
                 PROVE  recs[order[k]].pos \in CountedNaive(recs)
    BY <1>1 DEF CountedInOrder
  <1> DEFINE j == order[k]
  <1>4. j \in 1..n /\ recs[j].pos = j /\ recs[j] \in Record
    BY <1>2 DEF Numbered
  <1>5. ASSUME NEW i \in 1..(j - 1), recs[i].valid, recs[i].id = recs[j].id
        PROVE  FALSE
    <2>1. i \in 1..n /\ recs[i].pos = i /\ recs[i] \in Record /\ i < j
      BY <1>4 DEF Numbered
    <2>2. PICK l \in 1..n : order[l] = i
      BY <1>1, <2>1 DEF IsSortOf
    <2>3. ~KeyLess(recs[j], recs[i])
      <3>1. SUFFICES ASSUME KeyLess(recs[j], recs[i]) PROVE FALSE
        OBVIOUS
      <3>2. recs[j].pos < recs[i].pos
        BY <1>4, <1>5, <2>1, <3>1, BlockPredecessor
      <3> QED BY <1>4, <2>1, <3>2
    <2>4. l < k
      <3>1. l # k
        BY <2>1, <2>2
      <3>2. ~(k < l)
        BY <1>1, <2>2, <2>3 DEF IsSortOf
      <3> QED BY <3>1, <3>2
    <2> DEFINE p == order[k - 1]
    <2>5. k - 1 \in 1..n /\ p \in 1..n /\ recs[p] \in Record
      BY <1>2, <2>4 DEF Numbered
    <2>6. KeyLess(recs[p], recs[j])
      <3>1. k - 1 < k
        OBVIOUS
      <3> QED BY <1>1, <2>5, <3>1 DEF IsSortOf
    <2>7. KeyLess(recs[i], recs[p]) \/ recs[i] = recs[p]
      <3>1. CASE l = k - 1
        BY <2>2, <3>1
      <3>2. CASE l < k - 1
        BY <1>1, <2>2, <2>5, <3>2 DEF IsSortOf
      <3> QED BY <2>4, <3>1, <3>2
    <2>8. recs[p].id = recs[j].id
      BY <1>3, <1>4, <1>5, <2>1, <2>5, <2>6, <2>7, BlockIsContiguous
    <2> QED BY <1>3, <2>4, <2>8
  <1> QED BY <1>1, <1>3, <1>4, <1>5 DEF CountedNaive

\* The pass counts every first valid record.
LEMMA FirstIsCounted ==
  ASSUME NEW n \in Nat, NEW recs, Numbered(recs, n), NEW order, IsSortOf(order, recs)
  PROVE  CountedNaive(recs) \subseteq CountedInOrder(recs, order)
  <1>1. DOMAIN recs = 1..n
    BY DEF Numbered
  <1>2. order \in [1..n -> 1..n]
    BY <1>1 DEF IsSortOf
  <1>3. SUFFICES ASSUME NEW j \in 1..n,
                        recs[j].valid,
                        \A i \in 1..(j - 1) : ~(recs[i].valid /\ recs[i].id = recs[j].id)
                 PROVE  j \in CountedInOrder(recs, order)
    BY <1>1 DEF CountedNaive
  <1>4. PICK k \in 1..n : order[k] = j
    BY <1>1 DEF IsSortOf
  <1>5. ASSUME k # 1, recs[order[k - 1]].id = recs[order[k]].id
        PROVE  FALSE
    <2> DEFINE p == order[k - 1]
    <2>1. k - 1 \in 1..n
      BY <1>5
    <2>2. p \in 1..n /\ recs[p].pos = p /\ recs[p] \in Record
      BY <1>2, <2>1 DEF Numbered
    <2>3. KeyLess(recs[p], recs[order[k]])
      <3>1. k - 1 < k
        OBVIOUS
      <3> QED BY <1>1, <2>1, <3>1 DEF IsSortOf
    <2>4. recs[j] \in Record /\ recs[j].pos = j
      BY DEF Numbered
    <2>5. recs[p].valid /\ p < j
      BY <1>3, <1>4, <1>5, <2>2, <2>3, <2>4, BlockPredecessor
    <2> QED BY <1>3, <1>4, <1>5, <2>2, <2>5
  <1>6. recs[order[k]].pos = j
    BY <1>4 DEF Numbered
  <1> QED BY <1>1, <1>3, <1>4, <1>5, <1>6 DEF CountedInOrder

\* duplicates.rs:64-70: strategy B, the sort and the linear pass, counts
\* exactly the records strategy A counts.
THEOREM SortedCountsNaive ==
  ASSUME NEW n \in Nat, NEW recs, Numbered(recs, n)
  PROVE  CountedSorted(recs) = CountedNaive(recs)
  BY RankSortSorts, PassCountsFirst, FirstIsCounted DEF CountedSorted

-----------------------------------------------------------------------------
(* Records are made of boards.                                              *)

\* The records of an admitted board are numbered.
LEMMA RecordsNumbered ==
  ASSUME NEW adm \in Seq(Com)
  PROVE  Len(adm) \in Nat /\ Numbered(Records(adm), Len(adm))
  <1>1. ASSUME NEW j \in 1..Len(adm)
        PROVE  /\ Records(adm)[j] \in Record
               /\ Records(adm)[j].pos = j
    <2>1. adm[j] \in Com
      OBVIOUS
    <2>2. Opening[adm[j]].id \in Nat /\ Opening[adm[j]].cand \in Nat
      BY <2>1, OpeningAssumption, IdAssumption DEF Plaintext
    <2>3. IsValid(adm[j]) \in BOOLEAN
      BY DEF IsValid
    <2> QED BY <2>2, <2>3 DEF Records, Record
  <1> QED BY <1>1 DEF Numbered, Records

\* The reference strategy counts a valid ballot when no earlier valid ballot
\* claims the same voter.
LEMMA CountedHasNoEarlier ==
  ASSUME NEW adm \in Seq(Com), NEW j \in 1..Len(adm)
  PROVE  j \in CountedNaive(Records(adm))
           <=> /\ IsValid(adm[j])
               /\ \A i \in 1..(j - 1) :
                    ~(IsValid(adm[i]) /\ Opening[adm[i]].id = Opening[adm[j]].id)
  <1> DEFINE v == Opening[adm[j]].id
             recs == Records(adm)
  <1>1. /\ DOMAIN recs = 1..Len(adm)
        /\ \A i \in 1..Len(adm) :
             /\ recs[i].valid = IsValid(adm[i])
             /\ IsValid(adm[i]) => recs[i].id = Opening[adm[i]].id
    BY DEF Records
  <1>2. Len(adm) \in Nat
    OBVIOUS
  <1> HIDE DEF recs
  <1>3. j \in CountedNaive(recs)
          <=> /\ recs[j].valid
              /\ \A i \in 1..(j - 1) : ~(recs[i].valid /\ recs[i].id = recs[j].id)
    BY <1>1 DEF CountedNaive
  <1>4. \A i \in 1..(j - 1) : i \in 1..Len(adm)
    BY <1>2
  <1>5. CASE ~IsValid(adm[j])
    BY <1>1, <1>3, <1>5, Zenon DEF recs
  <1>6. CASE IsValid(adm[j])
    <2>1. recs[j].valid /\ recs[j].id = v
      BY <1>1, <1>6, Zenon
    <2>2. \A i \in 1..(j - 1) : (recs[i].valid /\ recs[i].id = recs[j].id)
                              <=> (IsValid(adm[i]) /\ Opening[adm[i]].id = v)
      BY <1>1, <1>4, <2>1, Zenon
    <2> QED BY <1>3, <1>6, <2>1, <2>2, Zenon DEF recs
  <1> QED BY <1>5, <1>6

-----------------------------------------------------------------------------
(* Positions on a board.                                                    *)

\* Any set of positions that is not empty has a first one.
LEMMA LeastPosition ==
  ASSUME NEW V \in SUBSET Nat, V # {}
  PROVE  \E j \in V : \A i \in V : j <= i
  <1> DEFINE R == OpToRel(<, Nat)
  <1>1. \E j \in V : \A i \in V : <<i, j>> \notin R
    <2>1. IsWellFoundedOn(R, Nat)
      BY NatLessThanWellFounded
    <2> HIDE DEF R
    <2> QED BY <2>1, WFMin
  <1>2. ASSUME NEW i \in Nat, NEW j \in Nat, <<i, j>> \notin R
        PROVE  j <= i
    <2>1. i < j => <<i, j>> \in R
      BY DEF OpToRel
    <2> HIDE DEF R
    <2> QED BY <1>2, <2>1
  <1> HIDE DEF R
  <1> QED BY <1>1, <1>2

\* What holds at 0 and is handed on from each number to the next holds up to n.
LEMMA ReachesAll ==
  ASSUME NEW n \in Nat, NEW S, 0 \in S, \A k \in 0..(n - 1) : k \in S => k + 1 \in S
  PROVE  \A k \in 0..n : k \in S
  <1> DEFINE V == {k \in 0..n : k \notin S}
  <1> SUFFICES ASSUME V # {} PROVE FALSE
    OBVIOUS
  <1>1. V \in SUBSET Nat
    OBVIOUS
  <1>2. PICK k \in V : \A l \in V : k <= l
    BY <1>1, LeastPosition
  <1>3. k # 0 /\ k - 1 \in 0..(n - 1) /\ k - 1 \in 0..n /\ ~(k <= k - 1)
    BY <1>2
  <1>4. k - 1 \in S
    BY <1>2, <1>3
  <1>5. (k - 1) + 1 \in S /\ (k - 1) + 1 = k
    BY <1>3, <1>4
  <1> QED BY <1>2, <1>5

-----------------------------------------------------------------------------
(* The first vote of a voter.                                               *)

\* The first vote of a voter who has a valid ballot on the board is one, and
\* none precedes it.
LEMMA FirstVoteIsFirst ==
  ASSUME NEW adm \in Seq(Com), NEW v, VotesOf(adm, v) # {}
  PROVE  /\ FirstVote(adm, v) \in VotesOf(adm, v)
         /\ \A i \in VotesOf(adm, v) : FirstVote(adm, v) <= i
  <1>1. VotesOf(adm, v) \in SUBSET Nat
    BY DEF VotesOf
  <1>2. \E j \in VotesOf(adm, v) : \A i \in VotesOf(adm, v) : j <= i
    BY <1>1, LeastPosition
  <1> QED BY <1>2 DEF FirstVote

\* A valid ballot claims a registered identity and a candidate of the election.
LEMMA ValidBallot ==
  ASSUME NEW com \in Com, IsValid(com)
  PROVE  Opening[com].id \in Voter /\ Opening[com].cand \in Candidate
  <1> DEFINE pt == Opening[com]
  <1>1. EvaluateBallot(pt) = "Valid"
    BY DEF IsValid, Validity
  <1>2. pt.cand \in Candidate /\ TallyRegistration(pt) = "Ok"
    BY <1>1 DEF EvaluateBallot
  <1>3. RegistrationCheck(pt, AuthorityNonce[pt.id]) = "Ok"
    BY <1>2 DEF TallyRegistration
  <1>4. ~(pt.id >= NumVoters)
    BY <1>3 DEF RegistrationCheck
  <1>5. pt.id \in Nat
    BY OpeningAssumption, IdAssumption DEF Plaintext
  <1>6. pt.id \in Voter
    BY <1>4, <1>5, VotersAssumption DEF Voter
  <1> QED BY <1>2, <1>6

-----------------------------------------------------------------------------
(* One more ballot on the board.                                            *)

\* A later ballot leaves the choice of a voter who has one.
LEMMA AppendKeepsChoice ==
  ASSUME NEW adm \in Seq(Com), NEW com \in Com, NEW v \in Voter, NEW NoVote,
         VotesOf(adm, v) # {}
  PROVE  ChoiceOn(Append(adm, com), NoVote)[v] = ChoiceOn(adm, NoVote)[v]
  <1> DEFINE n == Len(adm)
             adm1 == Append(adm, com)
             j == FirstVote(adm, v)
             k == FirstVote(adm1, v)
  <1>1. /\ n \in Nat /\ adm1 \in Seq(Com) /\ Len(adm1) = n + 1
        /\ adm1[n + 1] = com
        /\ \A i \in 1..n : adm1[i] = adm[i]
    BY AppendProperties
  <1>2. /\ j \in VotesOf(adm, v)
        /\ \A i \in VotesOf(adm, v) : j <= i
    BY FirstVoteIsFirst
  <1> HIDE DEF adm1, j
  <1>3. \A i \in 1..n : i \in VotesOf(adm, v) <=> i \in VotesOf(adm1, v)
    BY <1>1 DEF VotesOf
  <1>4. j \in 1..n /\ j \in VotesOf(adm1, v)
    BY <1>2, <1>3 DEF VotesOf
  <1>5. /\ k \in VotesOf(adm1, v)
        /\ \A i \in VotesOf(adm1, v) : k <= i
    BY <1>1, <1>4, FirstVoteIsFirst
  <1> HIDE DEF k
  <1>6. k \in 1..(n + 1) /\ k <= j
    BY <1>1, <1>4, <1>5 DEF VotesOf
  <1>7. k \in VotesOf(adm, v)
    BY <1>1, <1>3, <1>4, <1>5, <1>6
  <1>8. k = j
    BY <1>1, <1>2, <1>4, <1>6, <1>7
  <1>9. Opening[adm1[k]].cand = Opening[adm[j]].cand
    BY <1>1, <1>4, <1>8
  <1> QED BY <1>4, <1>9 DEF ChoiceOn, j, k, adm1

\* A later ballot fills the choice of a voter who has none only when it is
\* valid and claims that voter's identity.
LEMMA AppendFillsChoice ==
  ASSUME NEW adm \in Seq(Com), NEW com \in Com, NEW v \in Voter, NEW NoVote,
         VotesOf(adm, v) = {}
  PROVE  ChoiceOn(Append(adm, com), NoVote)[v]
           = IF IsValid(com) /\ Opening[com].id = v THEN Opening[com].cand ELSE NoVote
  <1> DEFINE n == Len(adm)
             adm1 == Append(adm, com)
  <1>1. /\ n \in Nat /\ adm1 \in Seq(Com) /\ Len(adm1) = n + 1
        /\ adm1[n + 1] = com
        /\ \A i \in 1..n : adm1[i] = adm[i]
    BY AppendProperties
  <1> HIDE DEF adm1
  <1>2. \A i \in 1..n : i \notin VotesOf(adm1, v)
    BY <1>1 DEF VotesOf
  <1>3. n + 1 \in VotesOf(adm1, v) <=> IsValid(com) /\ Opening[com].id = v
    BY <1>1 DEF VotesOf
  <1>4. VotesOf(adm1, v) \subseteq {n + 1}
    BY <1>1, <1>2 DEF VotesOf
  <1>5. CASE IsValid(com) /\ Opening[com].id = v
    <2>1. VotesOf(adm1, v) # {}
      BY <1>3, <1>5
    <2>2. FirstVote(adm1, v) = n + 1
      BY <1>1, <1>4, <2>1, FirstVoteIsFirst
    <2> QED BY <1>1, <1>5, <2>1, <2>2 DEF ChoiceOn, adm1
  <1>6. CASE ~(IsValid(com) /\ Opening[com].id = v)
    <2>1. VotesOf(adm1, v) = {}
      BY <1>3, <1>4, <1>6
    <2> QED BY <1>6, <2>1 DEF ChoiceOn, adm1
  <1> QED BY <1>5, <1>6

-----------------------------------------------------------------------------
(* Counted ballots.                                                        *)

\* The counted records of a board are positions of the board, finitely many.
LEMMA CountedFinite ==
  ASSUME NEW adm \in Seq(Com), NEW c,
         NEW A, A = {j \in CountedNaive(Records(adm)) : Records(adm)[j].cand = c}
  PROVE  A \subseteq 1..Len(adm) /\ IsFiniteSet(A)
  <1>1. DOMAIN Records(adm) = 1..Len(adm)
    BY DEF Records
  <1>2. A \in SUBSET (1..Len(adm))
    BY <1>1 DEF CountedNaive
  <1>3. IsFiniteSet(1..Len(adm))
    BY FS_Interval
  <1> QED BY <1>2, <1>3, FS_Subset

\* The counted slots are finitely many.
LEMMA SlotsFinite ==
  ASSUME NEW rows, NEW first \in Int, NEW last \in Int, NEW before
  PROVE  IsFiniteSet(CountedSlots(rows, first, last, before))
  <1>1. CountedSlots(rows, first, last, before) \subseteq first..(last - 1)
    BY DEF CountedSlots
  <1>2. IsFiniteSet(first..(last - 1))
    BY FS_Interval
  <1> QED BY <1>1, <1>2, FS_Subset

-----------------------------------------------------------------------------
(* The rows of a board are the records the tally keeps of it.               *)

\* Validity in the circuit, where the registration row is a hard constraint,
\* is validity in the tally.
LEMMA RowIsRecord ==
  ASSUME NEW com \in Com, NEW j,
         Opening[com].id < NumVoters => Reg[Opening[com].id].pathOk
  PROVE  LET r == EvalRow(com, j)
         IN  /\ r.valid \in BOOLEAN
             /\ r.pos = j
             /\ r.valid <=> IsValid(com)
             /\ r.valid => /\ r.id = Opening[com].id /\ r.id \in Voter
                           /\ r.cand = Opening[com].cand
             /\ ~r.valid => r.id = 0
  <1> DEFINE pt == Opening[com]
             r  == EvalRow(com, j)
  <1>1. /\ pt \in Plaintext /\ pt.id \in Id /\ pt.id \in Nat
        /\ pt.parses \in BOOLEAN /\ pt.sigOk \in BOOLEAN
    BY OpeningAssumption, IdAssumption DEF Plaintext
  <1>2. IsValid(com) <=> /\ pt.parses /\ pt.eid = Eid /\ pt.cand \in Candidate /\ pt.sigOk
                         /\ TallyRegistration(pt) = "Ok"
    BY Zenon DEF IsValid, Validity, EvaluateBallot
  <1>3. TallyRegistration(pt) = "Ok"
          <=> /\ AuthorityNonce[pt.id] # NoNonce
              /\ pt.id < NumVoters
              /\ Reg[pt.id].vk = pt.vk
              /\ Reg[pt.id].h = HCom(pt.eid, pt.id, pt.vk, pt.r, AuthorityNonce[pt.id])
    <2>1. pt.id >= NumVoters <=> ~(pt.id < NumVoters)
      BY <1>1, VotersAssumption
    <2> QED BY <2>1 DEF TallyRegistration, RegistrationCheck
  <1>4. pt.id < NumVoters => pt.id \in Voter
    BY <1>1, VotersAssumption DEF Voter
  <1>5. ASSUME pt.id \in Voter,
               Reg[pt.id].h = HCom(pt.eid, pt.id, pt.vk, pt.r, AuthorityNonce[pt.id])
        PROVE  AuthorityNonce[pt.id] # NoNonce
    <2>1. Reg[pt.id].h \in EidHash \X Id \X Key \X Nonce \X Nonce
      BY <1>5, RegAssumption DEF Row
    <2>2. Reg[pt.id].h[5] \in Nonce
      BY <2>1
    <2>3. Reg[pt.id].h[5] = AuthorityNonce[pt.id]
      BY <1>5 DEF HCom
    <2> QED BY <2>2, <2>3, AuthorityAssumption
  <1>6. /\ r.pos = j
        /\ r.valid <=> /\ pt.eid = Eid /\ pt.parses /\ pt.cand \in Candidate /\ pt.sigOk
                       /\ pt.id < NumVoters
                       /\ Reg[pt.id].vk = pt.vk
                       /\ Reg[pt.id].h = HCom(pt.eid, pt.id, pt.vk, pt.r, AuthorityNonce[pt.id])
        /\ r.valid \in BOOLEAN
        /\ r.valid => r.id = pt.id /\ r.cand = pt.cand
        /\ ~r.valid => r.id = 0
    BY <1>1 DEF EvalRow
  <1>7. r.valid <=> IsValid(com)
    BY <1>2, <1>3, <1>4, <1>5, <1>6
  <1> QED BY <1>4, <1>6, <1>7

-----------------------------------------------------------------------------
(* The order of the pass.                                                   *)

\* What the pass needs of the order of two slots: valid records come first, by
\* identity and then by position.
InOrder(a, b) ==
  b.valid => /\ a.valid
             /\ a.id < b.id \/ (a.id = b.id /\ a.pos <= b.pos)

\* Records of the slots before n, whatever their keys are.
NumberedSlots(s, n) ==
  \A i \in 0..(n - 1) : s[i].valid \in BOOLEAN /\ s[i].id \in Nat /\ s[i].pos \in Nat

SlotsInOrder(s, n) == \A j \in 1..(n - 1) : InOrder(s[j - 1], s[j])

\* A key that packs validity, identity and position into one number, and the
\* room it needs for ids below `ids` and positions below `width`.
Packed(width, invalid, r) == (IF r.valid THEN 0 ELSE invalid) + r.id * width + r.pos

HasRoom(ids, width, invalid) == ids * width <= invalid

\* A packed key with room sorts into the order of the pass.
LEMMA PackedOrders ==
  ASSUME NEW ids \in Nat, NEW width \in Nat, NEW invalid \in Nat,
         HasRoom(ids, width, invalid),
         NEW a, NEW b,
         a.valid \in BOOLEAN, a.id \in 0..(ids - 1), a.pos \in 0..(width - 1),
         b.valid \in BOOLEAN, b.id \in 0..(ids - 1), b.pos \in 0..(width - 1),
         Packed(width, invalid, a) <= Packed(width, invalid, b)
  PROVE  InOrder(a, b)
  <1>1. /\ a.id \in Nat /\ a.pos \in Nat /\ a.pos < width /\ a.id < ids
        /\ b.id \in Nat /\ b.pos \in Nat /\ b.pos < width /\ b.id < ids
    OBVIOUS
  <1>2. ASSUME NEW x \in Nat, NEW y \in Nat, x < y
        PROVE  x * width + width <= y * width
    <2>1. PICK d \in Nat : y = x + 1 + d
      BY <1>2
    <2>2. y * width = x * width + width + d * width
      BY <2>1
    <2>3. d * width \in Nat /\ x * width \in Nat
      OBVIOUS
    <2> QED BY <2>2, <2>3
  <1>3. /\ a.id * width \in Nat /\ b.id * width \in Nat
        /\ a.id < b.id => a.id * width + width <= b.id * width
        /\ b.id < a.id => b.id * width + width <= a.id * width
        /\ b.id * width + width <= invalid
    <2>1. b.id * width + width <= ids * width
      BY <1>1, <1>2
    <2>2. a.id * width \in Nat /\ b.id * width \in Nat
      BY <1>1
    <2>3. /\ a.id < b.id => a.id * width + width <= b.id * width
          /\ b.id < a.id => b.id * width + width <= a.id * width
      BY <1>1, <1>2
    <2>4. b.id * width + width <= invalid
      <3> DEFINE bw == b.id * width
                 iw == ids * width
      <3>1. bw \in Nat /\ iw \in Nat /\ bw + width <= iw /\ iw <= invalid
        BY <2>1, <2>2 DEF HasRoom
      <3> HIDE DEF bw, iw
      <3>2. bw + width <= invalid
        BY <3>1
      <3> QED BY <3>2 DEF bw
    <2> QED BY <2>2, <2>3, <2>4
  <1> DEFINE aw == a.id * width
             bw == b.id * width
  <1>4. Packed(width, invalid, a) = (IF a.valid THEN 0 ELSE invalid) + aw + a.pos
    BY Zenon DEF Packed
  <1>5. Packed(width, invalid, b) = (IF b.valid THEN 0 ELSE invalid) + bw + b.pos
    BY Zenon DEF Packed
  <1>6. /\ aw \in Nat /\ bw \in Nat
        /\ a.id < b.id => aw + width <= bw
        /\ b.id < a.id => bw + width <= aw
        /\ bw + width <= invalid
    BY <1>3, Zenon
  <1>7. (IF a.valid THEN 0 ELSE invalid) + aw + a.pos
          <= (IF b.valid THEN 0 ELSE invalid) + bw + b.pos
    BY <1>4, <1>5, Zenon
  <1> HIDE DEF aw, bw
  <1>8. b.valid => a.valid
    BY <1>1, <1>6, <1>7
  <1>9. ASSUME a.valid, b.valid
        PROVE  a.id < b.id \/ (a.id = b.id /\ a.pos <= b.pos)
    <2>1. 0 + aw + a.pos <= 0 + bw + b.pos
      BY <1>7, <1>9, Zenon
    <2>2. aw + a.pos <= bw + b.pos
      BY <1>1, <1>6, <2>1
    <2>3. CASE a.id = b.id
      <3>1. aw = bw
        BY <2>3 DEF aw, bw
      <3> QED BY <1>1, <1>6, <2>2, <2>3, <3>1
    <2> QED BY <1>1, <1>6, <2>2, <2>3
  <1> QED BY <1>8, <1>9 DEF InOrder

\* Records in order from each slot to the next are in order from any slot to a
\* later one.
LEMMA OrderReachesFar ==
  ASSUME NEW s, NEW n \in Nat, NumberedSlots(s, n), SlotsInOrder(s, n),
         NEW i \in 0..(n - 1), NEW j \in 0..(n - 1), i < j
  PROVE  InOrder(s[i], s[j])
  <1> DEFINE V == {m \in 0..(n - 1) : i < m /\ ~InOrder(s[i], s[m])}
  <1>1. ASSUME V # {} PROVE FALSE
    <2>1. V \in SUBSET Nat
      OBVIOUS
    <2>2. PICK m \in V : \A l \in V : m <= l
      BY <1>1, <2>1, LeastPosition
    <2>3. m \in 1..(n - 1) /\ m - 1 \in 0..(n - 1) /\ i <= m - 1
      BY <2>2
    <2>4. i = m - 1 \/ InOrder(s[i], s[m - 1])
      BY <2>2, <2>3
    <2>5. InOrder(s[m - 1], s[m])
      BY <2>3 DEF SlotsInOrder
    <2>6. ~InOrder(s[i], s[m])
      BY <2>2
    <2> QED BY <2>3, <2>4, <2>5, <2>6 DEF InOrder, NumberedSlots
  <1> QED BY <1>1

\* In ordered slots whose valid records have distinct positions, the pass counts
\* exactly the valid records of which no other of the same identity comes
\* earlier; the identity it begins with is no voter's.
LEMMA PassCountsLeast ==
  ASSUME NEW s, NEW n \in Nat, NumberedSlots(s, n), SlotsInOrder(s, n),
         \A i, m \in 0..(n - 1) : s[i].valid /\ s[m].valid /\ s[i].pos = s[m].pos => i = m,
         NEW before, \A i \in 0..(n - 1) : s[i].valid => s[i].id # before,
         NEW j \in 0..(n - 1)
  PROVE  j \in CountedSlots(s, 0, n, before)
           <=> /\ s[j].valid
               /\ \A i \in 0..(n - 1) : s[i].valid /\ s[i].id = s[j].id => s[j].pos <= s[i].pos
  <1> DEFINE D == 0..(n - 1)
             prior == IF j = 0 THEN before ELSE s[j - 1].id
  <1>1. j \in CountedSlots(s, 0, n, before) <=> s[j].valid /\ s[j].id # prior
    BY DEF CountedSlots
  <1>2. \A i \in D : s[i].valid \in BOOLEAN /\ s[i].id \in Nat /\ s[i].pos \in Nat
    BY DEF NumberedSlots
  <1>3. ASSUME NEW i \in D, NEW m \in D, i <= m, s[m].valid
        PROVE  s[i].valid /\ (s[i].id < s[m].id \/ (s[i].id = s[m].id /\ s[i].pos <= s[m].pos))
    <2>1. i = m \/ InOrder(s[i], s[m])
      BY <1>3, OrderReachesFar
    <2> QED BY <1>2, <1>3, <2>1 DEF InOrder
  <1>4. j # 0 => j - 1 \in D /\ j - 1 <= j
    OBVIOUS
  <1>5. ASSUME s[j].valid, s[j].id # prior, NEW i \in D, s[i].valid, s[i].id = s[j].id,
               ~(s[j].pos <= s[i].pos)
        PROVE  FALSE
    <2>1. ~(j <= i)
      BY <1>2, <1>3, <1>5
    <2>2. j # 0 /\ i <= j - 1
      BY <2>1
    <2>3. s[j - 1].valid /\ s[j - 1].id <= s[j].id
      BY <1>2, <1>3, <1>4, <1>5, <2>2
    <2>4. s[i].id <= s[j - 1].id
      BY <1>2, <1>3, <1>4, <2>2, <2>3
    <2> QED BY <1>2, <1>4, <1>5, <2>2, <2>3, <2>4
  <1>6. ASSUME s[j].valid, s[j].id = prior,
               \A i \in D : s[i].valid /\ s[i].id = s[j].id => s[j].pos <= s[i].pos
        PROVE  FALSE
    <2>1. j # 0 /\ j - 1 \in D /\ s[j - 1].id = s[j].id
      BY <1>2, <1>4, <1>6
    <2>2. s[j - 1].valid /\ s[j - 1].pos <= s[j].pos
      BY <1>2, <1>3, <1>4, <1>6, <2>1
    <2>3. s[j].pos <= s[j - 1].pos
      BY <1>6, <2>1, <2>2
    <2>4. s[j - 1].pos = s[j].pos
      BY <1>2, <2>1, <2>2, <2>3
    <2>5. j - 1 = j
      BY <1>6, <2>1, <2>2, <2>4
    <2> QED BY <2>5
  <1> QED BY <1>1, <1>5, <1>6

-----------------------------------------------------------------------------
(* Sorted records of a board.                                               *)

\* The first n slots of rs hold the board adm: its rows in order, then records
\* that are not valid.
HoldsBoard(rs, adm, n) ==
  /\ \A j \in 0..(n - 1) : j < Len(adm) => rs[j] = EvalRow(adm[j + 1], j)
  /\ \A j \in 0..(n - 1) : ~(j < Len(adm)) =>
       rs[j].valid = FALSE /\ rs[j].id = 0 /\ rs[j].pos \in Nat

\* Every slot of s holds a record of rs, and every valid record of rs is in one
\* slot of s.
Shuffled(s, rs, n) ==
  /\ \A i \in 0..(n - 1) : \E j \in 0..(n - 1) : s[i] = rs[j]
  /\ \A i, k \in 0..(n - 1) : s[i].valid /\ s[k].valid /\ s[i].pos = s[k].pos => i = k
  /\ \A j \in 0..(n - 1) : rs[j].valid => \E i \in 0..(n - 1) : s[i] = rs[j]

\* The slots of s hold the rows rs, each once, wherever they are.
Rearranged(s, rs, n) ==
  /\ \A i \in 0..(n - 1) : s[i].pos \in 0..(n - 1) /\ s[i] = rs[s[i].pos]
  /\ \A i, k \in 0..(n - 1) : s[i].pos = s[k].pos => i = k
  /\ \A j \in 0..(n - 1) : \E i \in 0..(n - 1) : s[i].pos = j

\* Rearranged rows are shuffled ones.
LEMMA RearrangedIsShuffled ==
  ASSUME NEW n \in Nat, NEW s, NEW rs, Rearranged(s, rs, n)
  PROVE  Shuffled(s, rs, n)
  <1>1. ASSUME NEW j \in 0..(n - 1)
        PROVE  \E i \in 0..(n - 1) : s[i] = rs[j]
    <2>1. PICK i \in 0..(n - 1) : s[i].pos = j
      BY DEF Rearranged
    <2>2. s[i] = rs[s[i].pos]
      BY DEF Rearranged
    <2>3. s[i] = rs[j]
      BY <2>1, <2>2, Zenon
    <2> QED BY <2>3
  <1> QED BY <1>1 DEF Rearranged, Shuffled

\* The rows of a circuit hold the board.
LEMMA RowsHoldBoard ==
  ASSUME NEW adm \in Seq(Com), NEW n \in Nat
  PROVE  HoldsBoard(RowsOf(adm, n), adm, n)
  BY DEF HoldsBoard, RowsOf, PaddingRow

\* Of slots that hold a board: positions are numbers, and a valid record is that
\* of the ballot at its position, which is valid.
LEMMA BoardSlot ==
  ASSUME NEW adm \in Seq(Com), NEW n \in Nat, RowsFetchable(adm),
         NEW rs, HoldsBoard(rs, adm, n), NEW j \in 0..(n - 1)
  PROVE  /\ rs[j].valid \in BOOLEAN /\ rs[j].pos \in Nat /\ (rs[j].id = 0 \/ rs[j].id \in Voter)
         /\ rs[j].valid <=> j + 1 \in 1..Len(adm) /\ IsValid(adm[j + 1])
         /\ rs[j].valid => /\ rs[j].pos = j
                           /\ rs[j].id = Opening[adm[j + 1]].id /\ rs[j].id \in Voter
                           /\ rs[j].cand = Opening[adm[j + 1]].cand
  <1>1. /\ Len(adm) \in Nat
        /\ j \in Nat /\ (j < Len(adm) <=> j + 1 \in 1..Len(adm))
    OBVIOUS
  <1>2. CASE j < Len(adm)
    <2>1. adm[j + 1] \in Com /\ rs[j] = EvalRow(adm[j + 1], j)
      BY <1>1, <1>2 DEF HoldsBoard
    <2>2. Opening[adm[j + 1]].id < NumVoters => Reg[Opening[adm[j + 1]].id].pathOk
      BY <1>1, <1>2 DEF RowsFetchable
    <2>3. /\ rs[j].valid \in BOOLEAN
          /\ rs[j].pos = j
          /\ rs[j].valid <=> IsValid(adm[j + 1])
          /\ rs[j].valid => /\ rs[j].id = Opening[adm[j + 1]].id /\ rs[j].id \in Voter
                            /\ rs[j].cand = Opening[adm[j + 1]].cand
          /\ ~rs[j].valid => rs[j].id = 0
      BY <2>1, <2>2, RowIsRecord
    <2> QED BY <1>1, <1>2, <2>3
  <1>3. CASE ~(j < Len(adm))
    BY <1>1, <1>3 DEF HoldsBoard
  <1> QED BY <1>2, <1>3

-----------------------------------------------------------------------------
(* One pass over shuffled rows in ascending order is the tally.             *)

\* Counted slots and counted ballots correspond one to one: a slot to the
\* board position its record carries.
LEMMA SlotsMatchBallots ==
  ASSUME NEW adm \in Seq(Com), NEW n \in Nat, Len(adm) <= n,
         RowsFetchable(adm),
         NEW rs, HoldsBoard(rs, adm, n),
         NEW s, Shuffled(s, rs, n), SlotsInOrder(s, n),
         NEW before, before \notin Voter,
         NEW c \in Candidate,
         NEW A, A = {j \in CountedSlots(s, 0, n, before) : s[j].cand = c},
         NEW B, B = {j \in CountedNaive(Records(adm)) : Records(adm)[j].cand = c}
  PROVE  ExistsBijection(A, B)
  <1> DEFINE D  == 0..(n - 1)
             recs == Records(adm)
             v(k) == Opening[adm[k]].id
             q(i) == s[i].pos + 1
  <1>1. Len(adm) \in Nat /\ Voter \subseteq Nat
    BY VotersAssumption DEF Voter
  <1>2. ASSUME NEW i \in D
        PROVE  /\ s[i].valid \in BOOLEAN /\ s[i].id \in Nat /\ s[i].pos \in Nat
               /\ s[i].valid => /\ q(i) \in 1..Len(adm) /\ IsValid(adm[q(i)]) /\ s[i].id \in Voter
                                /\ s[i].id = v(q(i)) /\ s[i].cand = Opening[adm[q(i)]].cand
    <2>1. PICK j \in D : s[i] = rs[j]
      BY DEF Shuffled
    <2>3. /\ rs[j].valid \in BOOLEAN /\ rs[j].pos \in Nat /\ (rs[j].id = 0 \/ rs[j].id \in Voter)
          /\ rs[j].valid => /\ j + 1 \in 1..Len(adm) /\ IsValid(adm[j + 1])
                            /\ rs[j].pos = j
                            /\ rs[j].id = Opening[adm[j + 1]].id /\ rs[j].id \in Voter
                            /\ rs[j].cand = Opening[adm[j + 1]].cand
      BY BoardSlot
    <2>4. s[i].valid \in BOOLEAN /\ s[i].id \in Nat /\ s[i].pos \in Nat
      <3>1. rs[j].id \in Nat
        <4>1. (rs[j].id = 0 \/ rs[j].id \in Voter)
          BY <2>3, Zenon
        <4>2. Voter \subseteq Nat
          BY <1>1
        <4> QED BY ONLY <4>1, <4>2
      <3>2. s[i].valid = rs[j].valid /\ s[i].id = rs[j].id /\ s[i].pos = rs[j].pos
        BY <2>1
      <3> QED BY <2>3, <3>1, <3>2, Zenon
    <2>5. ASSUME s[i].valid PROVE q(i) = j + 1
      BY <2>1, <2>3, <2>5
    <2> HIDE DEF q
    <2> QED BY <2>1, <2>3, <2>4, <2>5
  <1>3. ASSUME NEW k \in 1..Len(adm), IsValid(adm[k])
        PROVE  \E i \in D : s[i].valid /\ q(i) = k
    <2>1. k - 1 \in D /\ (k - 1) + 1 = k
      BY <1>1
    <2>2. rs[k - 1].valid /\ rs[k - 1].pos = k - 1
      BY <1>3, <2>1, BoardSlot
    <2>3. PICK i \in D : s[i] = rs[k - 1]
      BY <2>1, <2>2 DEF Shuffled
    <2> QED BY <2>1, <2>2, <2>3
  <1>4. \A i, k \in D : s[i].valid /\ s[k].valid /\ s[i].pos = s[k].pos => i = k
    BY DEF Shuffled
  <1>5. NumberedSlots(s, n)
    BY <1>2 DEF NumberedSlots
  <1>6. \A i \in D : s[i].valid => s[i].id # before
    BY <1>2
  <1>8. ASSUME NEW k \in 1..Len(adm)
        PROVE  k \in CountedNaive(recs)
                 <=> /\ IsValid(adm[k])
                     /\ \A i \in 1..(k - 1) : ~(IsValid(adm[i]) /\ v(i) = v(k))
    BY CountedHasNoEarlier
  <1>9. ASSUME NEW j \in D, s[j].valid
        PROVE  j \in CountedSlots(s, 0, n, before) <=> q(j) \in CountedNaive(recs)
    <2> DEFINE k == q(j)
    <2> HIDE DEF recs, v
    <2>1. j \in CountedSlots(s, 0, n, before)
            <=> \A i \in D : s[i].valid /\ s[i].id = s[j].id => s[j].pos <= s[i].pos
      BY <1>4, <1>5, <1>6, <1>9, PassCountsLeast
    <2>2. k \in 1..Len(adm) /\ IsValid(adm[k]) /\ s[j].id = v(k)
      BY <1>2, <1>9
    <2>3. ASSUME \A i \in 1..(k - 1) : ~(IsValid(adm[i]) /\ v(i) = v(k)),
                 NEW i \in D, s[i].valid, s[i].id = s[j].id
          PROVE  s[j].pos <= s[i].pos
      <3>1. q(i) \in 1..Len(adm) /\ IsValid(adm[q(i)]) /\ v(q(i)) = v(k)
        BY <1>2, <2>2, <2>3
      <3>2. q(i) \notin 1..(k - 1)
        BY <2>3, <3>1
      <3> QED BY <1>1, <1>2, <3>1, <3>2
    <2>4. ASSUME \A i \in D : s[i].valid /\ s[i].id = s[j].id => s[j].pos <= s[i].pos,
                 NEW l \in 1..(k - 1), IsValid(adm[l]), v(l) = v(k)
          PROVE  FALSE
      <3>1. l \in 1..Len(adm)
        BY <1>1, <2>2
      <3>2. PICK i \in D : s[i].valid /\ q(i) = l
        BY <1>3, <2>4, <3>1
      <3>3. s[i].id = s[j].id
        BY <1>2, <2>2, <2>4, <3>2
      <3>4. s[j].pos <= s[i].pos
        BY <2>4, <3>2, <3>3
      <3> QED BY <1>1, <1>2, <3>2, <3>4
    <2> QED BY <1>8, <2>1, <2>2, <2>3, <2>4
  <1>10. ASSUME NEW j \in A
         PROVE  j \in D /\ s[j].valid /\ q(j) \in B
    <2>1. j \in D /\ j \in CountedSlots(s, 0, n, before) /\ s[j].cand = c /\ s[j].valid
      BY DEF CountedSlots
    <2>2. /\ q(j) \in 1..Len(adm) /\ q(j) \in CountedNaive(recs)
          /\ IsValid(adm[q(j)]) /\ Opening[adm[q(j)]].cand = c
      BY <1>2, <1>9, <2>1
    <2>3. recs[q(j)].cand = c
      BY <2>2 DEF Records
    <2> QED BY <2>1, <2>2, <2>3
  <1>11. ASSUME NEW k \in B
         PROVE  \E j \in A : q(j) = k
    <2>1. k \in CountedNaive(recs) /\ recs[k].cand = c /\ k \in 1..Len(adm)
      BY CountedFinite
    <2>2. IsValid(adm[k]) /\ Opening[adm[k]].cand = c
      BY <1>8, <2>1 DEF Records
    <2>3. PICK j \in D : s[j].valid /\ q(j) = k
      BY <1>3, <2>1, <2>2
    <2>4. j \in CountedSlots(s, 0, n, before) /\ s[j].cand = c
      BY <1>2, <1>9, <2>1, <2>2, <2>3
    <2> QED BY <2>3, <2>4
  <1> DEFINE f == [j \in A |-> q(j)]
  <1>12. f \in [A -> B]
    BY <1>10
  <1>13. \A i, j \in A : f[i] = f[j] => i = j
    <2> SUFFICES ASSUME NEW i \in A, NEW j \in A, f[i] = f[j] PROVE i = j
      OBVIOUS
    <2>1. i \in D /\ j \in D /\ s[i].pos + 1 = s[j].pos + 1 /\ s[i].valid /\ s[j].valid
      BY <1>10
    <2>2. s[i].pos = s[j].pos
      BY <1>2, <2>1
    <2> QED BY <1>4, <2>1, <2>2
  <1>14. \A k \in B : \E j \in A : f[j] = k
    BY <1>11
  <1>15. f \in Bijection(A, B)
    <2> HIDE DEF f
    <2> QED BY <1>12, <1>13, <1>14 DEF Bijection, Injection, Surjection, IsInjective
  <1> QED BY <1>15 DEF ExistsBijection

\* Hence the votes of a pass over shuffled rows of a board, in ascending order,
\* are those filter_and_tally publishes.
THEOREM PassIsTally ==
  ASSUME NEW adm \in Seq(Com), NEW n \in Nat, Len(adm) <= n,
         RowsFetchable(adm),
         NEW rs, HoldsBoard(rs, adm, n),
         NEW s, Shuffled(s, rs, n), SlotsInOrder(s, n),
         NEW before, before \notin Voter
  PROVE  VotesAt(s, CountedSlots(s, 0, n, before)) = FilterAndTally(adm)
  <1> DEFINE A(c) == {j \in CountedSlots(s, 0, n, before) : s[j].cand = c}
             B(c) == {j \in CountedNaive(Records(adm)) : Records(adm)[j].cand = c}
  <1>1. FilterAndTally(adm) = [c \in Candidate |-> Cardinality(B(c))]
    <2>1. CountedSorted(Records(adm)) = CountedNaive(Records(adm))
      BY RecordsNumbered, SortedCountsNaive
    <2> QED BY <2>1 DEF FilterAndTally, TallyFromCounted
  <1>2. VotesAt(s, CountedSlots(s, 0, n, before)) = [c \in Candidate |-> Cardinality(A(c))]
    BY DEF VotesAt
  <1>3. ASSUME NEW c \in Candidate
        PROVE  IsFiniteSet(A(c)) /\ ExistsBijection(A(c), B(c))
    <2>1. IsFiniteSet(CountedSlots(s, 0, n, before))
      BY SlotsFinite
    <2>2. A(c) \subseteq CountedSlots(s, 0, n, before)
      OBVIOUS
    <2>3. IsFiniteSet(A(c))
      BY <2>1, <2>2, FS_Subset
    <2> QED BY <2>3, SlotsMatchBallots
  <1> HIDE DEF A, B
  <1>4. \A c \in Candidate : Cardinality(A(c)) = Cardinality(B(c))
    BY <1>3, FS_Bijection
  <1> QED BY <1>1, <1>2, <1>4

\* adm is an earlier state of the board later.
Precedes(adm, later) ==
  Len(adm) <= Len(later) /\ \A j \in 1..Len(adm) : adm[j] = later[j]

CountedComs(adm) == {adm[j] : j \in CountedSorted(Records(adm))}

-----------------------------------------------------------------------------
(* The slot of the complained-of ballot.                                    *)

\* The complained-of commitment is found where it first stands.
LEMMA FirstAtIsFirst ==
  ASSUME NEW adm \in Seq(Com), NEW com \in Range(adm)
  PROVE  /\ FirstAt(adm, com) \in 1..Len(adm)
         /\ adm[FirstAt(adm, com)] = com
         /\ \A i \in 1..(FirstAt(adm, com) - 1) : adm[i] # com
  <1> DEFINE V == {j \in 1..Len(adm) : adm[j] = com}
  <1>1. V \in SUBSET Nat /\ V # {}
    BY DEF Range
  <1>2. PICK j \in V : \A i \in V : j <= i
    BY <1>1, LeastPosition
  <1>3. \A i \in 1..(j - 1) : adm[i] # com
    BY <1>2
  <1>4. \E k \in DOMAIN adm : adm[k] = com /\ \A i \in 1..(k - 1) : adm[i] # com
    BY <1>2, <1>3
  <1> HIDE DEF V
  <1> QED BY <1>4 DEF FirstAt

\* It stands at the same slot of every later board.
LEMMA FirstAtKept ==
  ASSUME NEW adm \in Seq(Com), NEW later \in Seq(Com), Precedes(adm, later),
         NEW com \in Range(adm)
  PROVE  com \in Range(later) /\ FirstAt(later, com) = FirstAt(adm, com)
  <1> DEFINE m == FirstAt(adm, com)
             n == FirstAt(later, com)
  <1>1. m \in 1..Len(adm) /\ adm[m] = com /\ \A i \in 1..(m - 1) : adm[i] # com
    BY FirstAtIsFirst
  <1>2. Len(adm) \in Nat /\ Len(later) \in Nat /\ Len(adm) <= Len(later)
    BY DEF Precedes
  <1> HIDE DEF m
  <1>3. m \in 1..Len(later) /\ later[m] = com
    BY <1>1, <1>2 DEF Precedes
  <1>4. com \in Range(later)
    BY <1>3 DEF Range
  <1>5. n \in 1..Len(later) /\ later[n] = com /\ \A i \in 1..(n - 1) : later[i] # com
    BY <1>4, FirstAtIsFirst
  <1> HIDE DEF n
  <1>6. n <= m
    BY <1>2, <1>3, <1>5
  <1>7. n \in 1..Len(adm) /\ adm[n] = com
    BY <1>1, <1>2, <1>5, <1>6 DEF Precedes
  <1>8. m <= n
    BY <1>1, <1>2, <1>5, <1>7
  <1> QED BY <1>2, <1>4, <1>1, <1>5, <1>6, <1>8 DEF m, n

-----------------------------------------------------------------------------
(* The walk over the slots before it.                                       *)

\* The status of the walk is that of the first slot it stops at.
LEMMA StatusOfFirstStop ==
  ASSUME NEW adm, NEW ev, NEW id, NEW n \in Nat
  PROVE  \/ /\ Stops(adm, ev, id, n) = {}
            /\ DuplicateStatus(adm, ev, id, n) = "First"
         \/ \E j \in Stops(adm, ev, id, n) :
              /\ \A i \in Stops(adm, ev, id, n) : j <= i
              /\ DuplicateStatus(adm, ev, id, n)
                   = IF ev.openings[j] # adm[j] THEN "Fabricated" ELSE "Duplicate"
  <1> DEFINE S == Stops(adm, ev, id, n)
             j == CHOOSE k \in S : \A i \in S : k <= i
  <1>1. CASE S = {}
    BY <1>1 DEF DuplicateStatus
  <1>2. CASE S # {}
    <2>1. S \in SUBSET Nat
      BY DEF Stops
    <2>2. \E k \in S : \A i \in S : k <= i
      <3> HIDE DEF S
      <3> QED BY <1>2, <2>1, LeastPosition
    <2>3. j \in S /\ \A i \in S : j <= i
      <3> HIDE DEF S
      <3> QED BY <2>2
    <2>4. DuplicateStatus(adm, ev, id, n)
            = IF ev.openings[j] # adm[j] THEN "Fabricated" ELSE "Duplicate"
      BY <1>2 DEF DuplicateStatus
    <2> HIDE DEF j
    <2> QED BY <2>3, <2>4
  <1> QED BY <1>1, <1>2

\* A ruling on the same complaint and evidence stands on every later board.
LEMMA RulingStands ==
  ASSUME NEW adm \in Seq(Com), NEW later \in Seq(Com), Precedes(adm, later),
         NEW complaint, complaint.com \in Range(adm), NEW ev
  PROVE  JudgeTalliedAsRecorded(later, complaint, ev)
           = JudgeTalliedAsRecorded(adm, complaint, ev)
  <1> DEFINE n == FirstAt(adm, complaint.com)
             id == Opening[complaint.com].id
  <1>1. complaint.com \in Range(later) /\ FirstAt(later, complaint.com) = n
    BY FirstAtKept
  <1>2. n \in 1..Len(adm)
    BY FirstAtIsFirst
  <1>3. \A j \in 1..(n - 1) : later[j] = adm[j]
    BY <1>2 DEF Precedes
  <1> HIDE DEF n, id
  <1>4. Stops(later, ev, id, n) = Stops(adm, ev, id, n)
    BY <1>3 DEF Stops
  <1>5. DuplicateStatus(later, ev, id, n) = DuplicateStatus(adm, ev, id, n)
    <2>1. CASE Stops(adm, ev, id, n) = {}
      BY <1>4, <2>1 DEF DuplicateStatus
    <2>2. CASE Stops(adm, ev, id, n) # {}
      <3> DEFINE S == Stops(adm, ev, id, n)
                 j == CHOOSE k \in S : \A i \in S : k <= i
      <3>1. S \in SUBSET Nat /\ S \subseteq 1..(n - 1)
        BY <1>2 DEF Stops
      <3>2. j \in S
        <4> HIDE DEF S
        <4>1. \E k \in S : \A i \in S : k <= i
          BY <2>2, <3>1, LeastPosition DEF S
        <4> QED BY <4>1
      <3>3. later[j] = adm[j]
        BY <1>3, <3>1, <3>2
      <3> QED BY <1>4, <3>3 DEF DuplicateStatus
    <2> QED BY <2>1, <2>2
  <1>6. RulingOnDuplicates(later, ev, id, n) = RulingOnDuplicates(adm, ev, id, n)
    BY <1>5 DEF RulingOnDuplicates
  <1>7. RulingOnRegistration(later, ev, Opening[complaint.com], n)
          = RulingOnRegistration(adm, ev, Opening[complaint.com], n)
    BY <1>6 DEF RulingOnRegistration, id
  <1> QED BY <1>1, <1>7 DEF JudgeTalliedAsRecorded, n

-----------------------------------------------------------------------------
(* The judge and the tally.                                                 *)

\* Under the tally's own nonce the judge's stages accept what the tally finds
\* valid, and its mirror sees the valid ballots of the identity.
LEMMA JudgeSeesValid ==
  ASSUME NEW com \in Com, AuthorityNonce[Opening[com].id] # NoNonce
  PROVE  /\ /\ WellFormedBallot(Opening[com])
            /\ RegistrationCheck(Opening[com], AuthorityNonce[Opening[com].id]) = "Ok"
            <=> IsValid(com)
         /\ \A id : BallotIsValidForId(Opening[com], id, AuthorityNonce[id])
                      <=> IsValid(com) /\ Opening[com].id = id
  BY DEF WellFormedBallot, IsValid, Validity, EvaluateBallot, TallyRegistration, BallotIsValidForId

\* A position counts when its ballot is valid and no earlier one of the
\* identity is.
LEMMA CountedPositions ==
  ASSUME NEW adm \in Seq(Com), NEW j
  PROVE  j \in CountedSorted(Records(adm)) <=>
           /\ j \in 1..Len(adm) /\ IsValid(adm[j])
           /\ \A i \in 1..(j - 1) :
                ~(IsValid(adm[i]) /\ Opening[adm[i]].id = Opening[adm[j]].id)
  <1>1. CountedSorted(Records(adm)) = CountedNaive(Records(adm))
    BY RecordsNumbered, SortedCountsNaive
  <1>2. j \in CountedNaive(Records(adm)) => j \in 1..Len(adm)
    BY DEF CountedNaive, Records
  <1> QED BY <1>1, <1>2, CountedHasNoEarlier

\* Cleared under the tally's own nonce: the proof verifies and the ballot counts.
LEMMA ClearedBallot ==
  ASSUME NEW adm \in Seq(Com), NEW com \in Com, NEW ev,
         ev.proof \in ProofStatus, ev.nonce = AuthorityNonce[Opening[com].id],
         JudgeTalliedAsRecorded(adm, [com |-> com, opening |-> com], ev) = "NoAuthorityFault"
  PROVE  ev.proof = "Verified" /\ com \in CountedComs(adm)
  <1> DEFINE pt == Opening[com]
             n == FirstAt(adm, com)
  <1>1. /\ com \in Range(adm) /\ WellFormedBallot(pt) /\ ev.nonce # NoNonce
        /\ RulingOnRegistration(adm, ev, pt, n) = "NoAuthorityFault"
    BY DEF JudgeTalliedAsRecorded
  <1>2. /\ RegistrationCheck(pt, ev.nonce) = "Ok"
        /\ RulingOnDuplicates(adm, ev, pt.id, n) = "NoAuthorityFault"
    BY <1>1 DEF RulingOnRegistration
  <1>3. n \in 1..Len(adm) /\ adm[n] = com
    BY <1>1, FirstAtIsFirst
  <1> HIDE DEF n
  <1>4. DuplicateStatus(adm, ev, pt.id, n) = "First" /\ RulingOnProof(ev.proof) = "NoAuthorityFault"
    BY <1>2, <1>3, StatusOfFirstStop DEF RulingOnDuplicates
  <1>5. ev.proof = "Verified"
    BY <1>4 DEF RulingOnProof, ProofStatus
  <1>6. Stops(adm, ev, pt.id, n) = {}
    BY <1>3, <1>4, StatusOfFirstStop
  <1>7. IsValid(com)
    BY <1>1, <1>2, JudgeSeesValid
  <1>8. ASSUME NEW i \in 1..(n - 1) PROVE ~(IsValid(adm[i]) /\ Opening[adm[i]].id = pt.id)
    <2>1. adm[i] \in Com
      BY <1>3
    <2>2. ~BallotIsValidForId(Opening[adm[i]], pt.id, ev.nonce)
      BY <1>6 DEF Stops
    <2> QED BY <1>1, <2>1, <2>2, JudgeSeesValid
  <1>9. n \in CountedSorted(Records(adm))
    BY <1>3, <1>7, <1>8, CountedPositions
  <1> QED BY <1>3, <1>5, <1>9 DEF CountedComs

\* Found at fault under the tally's own nonce: the ballot counts nowhere on the
\* board.
LEMMA FaultedBallot ==
  ASSUME NEW adm \in Seq(Com), NEW com \in Com, NEW ev,
         ev.proof \in ProofStatus, ev.nonce = AuthorityNonce[Opening[com].id],
         JudgeTalliedAsRecorded(adm, [com |-> com, opening |-> com], ev) = "VoterFaulty"
  PROVE  com \notin CountedComs(adm)
  <1> DEFINE pt == Opening[com]
             n == FirstAt(adm, com)
  <1> SUFFICES ASSUME NEW k \in CountedSorted(Records(adm)), adm[k] = com
               PROVE  FALSE
    BY DEF CountedComs
  <1>1. /\ k \in 1..Len(adm) /\ IsValid(com)
        /\ \A i \in 1..(k - 1) : ~(IsValid(adm[i]) /\ Opening[adm[i]].id = pt.id)
    BY CountedPositions
  <1>2. AuthorityNonce[pt.id] # NoNonce
    BY <1>1 DEF IsValid, Validity, EvaluateBallot, TallyRegistration
  <1>3. WellFormedBallot(pt) /\ RegistrationCheck(pt, ev.nonce) = "Ok"
    BY <1>1, <1>2, JudgeSeesValid
  <1>4. com \in Range(adm) /\ RulingOnRegistration(adm, ev, pt, n) = "VoterFaulty"
    BY <1>2, <1>3 DEF JudgeTalliedAsRecorded
  <1>5. RulingOnDuplicates(adm, ev, pt.id, n) = "VoterFaulty"
    BY <1>3, <1>4 DEF RulingOnRegistration
  <1>6. /\ n \in 1..Len(adm) /\ adm[n] = com
        /\ \A i \in 1..(n - 1) : adm[i] # com
    BY <1>4, FirstAtIsFirst
  <1> HIDE DEF n
  <1>7. RulingOnProof(ev.proof) # "VoterFaulty"
    BY DEF RulingOnProof, ProofStatus
  <1>8. \E j \in Stops(adm, ev, pt.id, n) : ev.openings[j] = adm[j]
    BY <1>5, <1>6, <1>7, StatusOfFirstStop DEF RulingOnDuplicates
  <1>9. PICK j \in 1..(n - 1) : BallotIsValidForId(Opening[adm[j]], pt.id, ev.nonce)
    BY <1>8 DEF Stops
  <1>10. n <= k
    BY <1>1, <1>6
  <1>11. j \in 1..(k - 1) /\ adm[j] \in Com
    BY <1>1, <1>6, <1>10
  <1>12. Opening[adm[j]].id = pt.id
    BY <1>9 DEF BallotIsValidForId
  <1>13. IsValid(adm[j])
    BY <1>2, <1>9, <1>11, <1>12, JudgeSeesValid
  <1> QED BY <1>1, <1>11, <1>12, <1>13

-----------------------------------------------------------------------------
(* The judge and the evidence.                                              *)

\* Evidence of an honest authority: the openings are the board's own.
Honest(adm, ev) == [ev EXCEPT !.openings = adm]

\* Whatever openings are sent, the ruling is the one the board's own openings
\* give, or it blames the authority or decides nothing.
LEMMA OpeningsOnlyBlame ==
  ASSUME NEW adm \in Seq(Com), NEW complaint, NEW ev \in Evidence
  PROVE  JudgeTalliedAsRecorded(adm, complaint, ev)
           \in {JudgeTalliedAsRecorded(adm, complaint, Honest(adm, ev)),
                "AuthorityFaulty", "Undetermined"}
  <1> DEFINE n == FirstAt(adm, complaint.com)
             id == Opening[complaint.com].id
             hev == Honest(adm, ev)
  <1>1. hev.nonce = ev.nonce /\ hev.proof = ev.proof /\ hev.openings = adm
    BY DEF Honest, Evidence
  <1>2. CASE complaint.com \notin Range(adm)
    BY <1>2 DEF JudgeTalliedAsRecorded
  <1>3. CASE complaint.com \in Range(adm)
    <2>1. n \in 1..Len(adm)
      BY <1>3, FirstAtIsFirst
    <2> HIDE DEF n, id, hev
    <2>2. \/ DuplicateStatus(adm, ev, id, n) = "Fabricated"
          \/ DuplicateStatus(adm, ev, id, n) = DuplicateStatus(adm, hev, id, n)
      <3>1. Stops(adm, hev, id, n) \subseteq Stops(adm, ev, id, n)
        BY <1>1 DEF Stops
      <3>2. CASE Stops(adm, ev, id, n) = {}
        BY <2>1, <3>1, <3>2, StatusOfFirstStop
      <3>3. ASSUME NEW j \in Stops(adm, ev, id, n), ev.openings[j] = adm[j]
            PROVE  j \in Stops(adm, hev, id, n)
        BY <1>1, <3>3 DEF Stops
      <3>4. \A j \in Stops(adm, hev, id, n) : hev.openings[j] = adm[j]
        BY <1>1
      <3> QED BY <2>1, <3>2, <3>3, <3>4, StatusOfFirstStop
    <2>3. Len(hev.openings) >= n - 1
      BY <1>1, <2>1
    <2>4. RulingOnDuplicates(adm, ev, id, n)
            \in {RulingOnDuplicates(adm, hev, id, n), "AuthorityFaulty", "Undetermined"}
      <3>1. CASE Len(ev.openings) < n - 1
        BY <3>1 DEF RulingOnDuplicates
      <3>2. CASE DuplicateStatus(adm, ev, id, n) = "Fabricated"
        BY <3>2 DEF RulingOnDuplicates
      <3>3. CASE /\ ~(Len(ev.openings) < n - 1)
                 /\ DuplicateStatus(adm, ev, id, n) = DuplicateStatus(adm, hev, id, n)
        <4>1. ~(Len(hev.openings) < n - 1)
          BY <1>1, <2>1
        <4>2. DuplicateStatus(adm, ev, id, n) \in {"First", "Fabricated", "Duplicate"}
          BY <2>1, StatusOfFirstStop
        <4>3. RulingOnDuplicates(adm, ev, id, n) = RulingOnDuplicates(adm, hev, id, n)
          BY <1>1, <3>3, <4>1, <4>2 DEF RulingOnDuplicates
        <4> QED BY <4>3
      <3> QED BY <2>2, <3>1, <3>2, <3>3
    <2>5. RulingOnRegistration(adm, ev, Opening[complaint.com], n)
            \in {RulingOnRegistration(adm, hev, Opening[complaint.com], n),
                 "AuthorityFaulty", "Undetermined"}
      BY <1>1, <2>4 DEF RulingOnRegistration, id
    <2> DEFINE Passes == /\ complaint.opening = complaint.com
                         /\ WellFormedBallot(Opening[complaint.com])
                         /\ ev.nonce # NoNonce
    <2>6. CASE Passes
      <3>1. /\ JudgeTalliedAsRecorded(adm, complaint, ev)
                 = RulingOnRegistration(adm, ev, Opening[complaint.com], n)
            /\ JudgeTalliedAsRecorded(adm, complaint, hev)
                 = RulingOnRegistration(adm, hev, Opening[complaint.com], n)
        BY <1>1, <1>3, <2>6 DEF JudgeTalliedAsRecorded, n
      <3> QED BY <2>5, <3>1 DEF hev
    <2>7. CASE ~Passes
      <3>1. JudgeTalliedAsRecorded(adm, complaint, ev) = JudgeTalliedAsRecorded(adm, complaint, hev)
        BY <1>1, <1>3, <2>7 DEF JudgeTalliedAsRecorded
      <3> QED BY <3>1 DEF hev
    <2> QED BY <2>6, <2>7
  <1> QED BY <1>2, <1>3

\* With the board's own openings and a verifying proof, a complaint that opens
\* its own commitment is released as NoAuthorityFault whatever its ballot is
\* worth, unless the row of the claimed identity contradicts the root.
LEMMA ReleasedAlike ==
  ASSUME NEW adm \in Seq(Com), NEW com \in Range(adm), NEW ev,
         ev.openings = adm, ev.proof = "Verified", ev.nonce # NoNonce,
         RegistrationCheck(Opening[com], ev.nonce) # "LeafInconsistent"
  PROVE  ExternalVerdict(JudgeTalliedAsRecorded(adm, [com |-> com, opening |-> com], ev))
           = "NoAuthorityFault"
  <1> DEFINE n == FirstAt(adm, com)
             pt == Opening[com]
  <1>1. n \in 1..Len(adm)
    BY FirstAtIsFirst
  <1> HIDE DEF n
  <1>2. ~(Len(ev.openings) < n - 1)
    BY <1>1
  <1>3. DuplicateStatus(adm, ev, pt.id, n) \in {"First", "Duplicate"}
    BY <1>1, StatusOfFirstStop
  <1>4. RulingOnDuplicates(adm, ev, pt.id, n) \in {"NoAuthorityFault", "VoterFaulty"}
    BY <1>2, <1>3 DEF RulingOnDuplicates, RulingOnProof
  <1>5. RulingOnRegistration(adm, ev, pt, n) \in {"NoAuthorityFault", "VoterFaulty"}
    BY <1>4 DEF RulingOnRegistration
  <1>6. JudgeTalliedAsRecorded(adm, [com |-> com, opening |-> com], ev)
          \in {"NoAuthorityFault", "VoterFaulty"}
    BY <1>5 DEF JudgeTalliedAsRecorded, n
  <1> QED BY <1>6 DEF ExternalVerdict
=============================================================================
