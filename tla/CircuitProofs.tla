--------------------------- MODULE CircuitProofs ---------------------------
(***************************************************************************)
(* Batcher's network sorts: for every number of slots, a power of two or    *)
(* not, every level merges its blocks, so the circuit counts exactly what   *)
(* FilterAndTally counts of the board it was loaded with.                   *)
(*                                                                          *)
(* Within a level of blocks of q = 2p rows, once the stage of stride s has  *)
(* been applied, two rows of a block are in order unless they are less than *)
(* s apart and lie in different sub-blocks of s rows.  The next stage       *)
(* halves s, and at s = 1 every pair is in order.                           *)
(***************************************************************************)
EXTENDS TallyCircuit, TallyProofs

-----------------------------------------------------------------------------
(* Blocks of rows.                                                          *)

\* The first row of the block of q rows that row a lies in.
BlockOf(a, q) == (a \div q) * q

\* A row lies in its block.
LEMMA InItsBlock ==
  ASSUME NEW a \in Nat, NEW q \in Nat \ {0}
  PROVE  /\ BlockOf(a, q) \in Nat
         /\ BlockOf(a, q) <= a /\ a < BlockOf(a, q) + q
         /\ a % q = a - BlockOf(a, q)
  BY DEF BlockOf

\* Two multiples of q are the same or q apart.
LEMMA MultiplesApart ==
  ASSUME NEW u \in Nat, NEW v \in Nat, NEW q \in Nat \ {0}
  PROVE  /\ u * q \in Nat /\ v * q \in Nat
         /\ u < v <=> u * q + q <= v * q
         /\ u = v <=> u * q = v * q
  <1>1. ASSUME NEW x \in Nat, NEW y \in Nat, x < y
        PROVE  x * q + q <= y * q
    <2>1. PICK d \in Nat : y = x + 1 + d
      BY <1>1
    <2>2. y * q = x * q + q + d * q
      BY <2>1
    <2>3. d * q \in Nat /\ x * q \in Nat
      OBVIOUS
    <2> QED BY <2>2, <2>3
  <1> DEFINE uq == u * q
             vq == v * q
  <1>2. uq \in Nat /\ vq \in Nat
    OBVIOUS
  <1>3. u < v => uq + q <= vq
    BY <1>1
  <1>4. v < u => vq + q <= uq
    BY <1>1
  <1>5. u = v => uq = vq
    OBVIOUS
  <1> HIDE DEF uq, vq
  <1>6. /\ u < v <=> uq + q <= vq
        /\ u = v <=> uq = vq
    BY <1>2, <1>3, <1>4, <1>5
  <1> QED BY <1>2, <1>6 DEF uq, vq

\* Two blocks of the same size are the same or apart.
LEMMA BlocksApart ==
  ASSUME NEW a \in Nat, NEW b \in Nat, NEW q \in Nat \ {0}
  PROVE  /\ \/ BlockOf(a, q) = BlockOf(b, q)
            \/ BlockOf(a, q) + q <= BlockOf(b, q)
            \/ BlockOf(b, q) + q <= BlockOf(a, q)
         /\ BlockOf(a, q) = BlockOf(b, q) <=> a \div q = b \div q
  <1>1. a \div q \in Nat /\ b \div q \in Nat
    OBVIOUS
  <1>2. \/ a \div q = b \div q \/ a \div q < b \div q \/ b \div q < a \div q
    BY <1>1
  <1>3. a \div q < b \div q => BlockOf(a, q) + q <= BlockOf(b, q)
    BY <1>1, MultiplesApart, Zenon DEF BlockOf
  <1>4. b \div q < a \div q => BlockOf(b, q) + q <= BlockOf(a, q)
    BY <1>1, MultiplesApart, Zenon DEF BlockOf
  <1>5. a \div q = b \div q <=> BlockOf(a, q) = BlockOf(b, q)
    BY <1>1, MultiplesApart, Zenon DEF BlockOf
  <1> QED BY <1>2, <1>3, <1>4, <1>5, Zenon

\* A multiple of s is at or below the block of a row, or a block above it.
LEMMA MultipleBelow ==
  ASSUME NEW a \in Nat, NEW s \in Nat \ {0}, NEW u \in Nat
  PROVE  /\ u * s \in Nat
         /\ u * s <= a => u * s <= BlockOf(a, s)
         /\ a < u * s => BlockOf(a, s) + s <= u * s
  <1> DEFINE x == a \div s
             us == u * s
             xs == x * s
  <1>1. x \in Nat
    OBVIOUS
  <1>2. /\ us \in Nat /\ xs \in Nat
        /\ u < x <=> us + s <= xs
        /\ x < u <=> xs + s <= us
        /\ u = x <=> us = xs
    BY <1>1, MultiplesApart, Zenon
  <1>3. xs = BlockOf(a, s) /\ xs <= a /\ a < xs + s
    <2>1. xs = BlockOf(a, s)
      BY Zenon DEF BlockOf
    <2> QED BY <2>1, InItsBlock, Zenon
  <1> HIDE DEF x, us, xs
  <1>4. u < x \/ x < u \/ u = x
    BY <1>1
  <1>5. /\ us <= a => us <= xs
        /\ a < us => xs + s <= us
    BY <1>2, <1>3, <1>4
  <1> QED BY <1>2, <1>3, <1>5, Zenon DEF us

\* A block of 2s rows is two blocks of s rows.
LEMMA BlockHalves ==
  ASSUME NEW a \in Nat, NEW s \in Nat \ {0}, NEW q, q = 2 * s
  PROVE  \/ BlockOf(a, s) = BlockOf(a, q) /\ a < BlockOf(a, q) + s
         \/ BlockOf(a, s) = BlockOf(a, q) + s /\ BlockOf(a, q) + s <= a
  <1> DEFINE x == a \div (2 * s)
             B == BlockOf(a, 2 * s)
             C == BlockOf(a, s)
  <1>1. x \in Nat /\ 2 * s \in Nat \ {0}
    OBVIOUS
  <1>2. B \in Nat /\ B <= a /\ a < B + 2 * s
    BY <1>1, InItsBlock
  <1>3. C \in Nat /\ C <= a /\ a < C + s
    BY InItsBlock
  <1>4. (2 * x) * s = B /\ (2 * x + 1) * s = B + s /\ (2 * x + 2) * s = B + 2 * s
    <2>1. \A y \in Nat : /\ (2 * y) * s = y * (2 * s)
                         /\ (2 * y + 1) * s = y * (2 * s) + s
                         /\ (2 * y + 2) * s = y * (2 * s) + 2 * s
      OBVIOUS
    <2> QED BY <1>1, <2>1, Zenon DEF BlockOf
  <1>5. 2 * x \in Nat /\ 2 * x + 1 \in Nat /\ 2 * x + 2 \in Nat
    BY <1>1
  <1>6. B <= a => B <= C
    BY <1>4, <1>5, MultipleBelow
  <1>7. /\ B + s <= a => B + s <= C
        /\ a < B + s => C + s <= B + s
        /\ a < B + 2 * s => C + s <= B + 2 * s
    BY <1>4, <1>5, MultipleBelow
  <1> HIDE DEF x, B, C
  <1>8. C <= B + s
    BY <1>2, <1>3, <1>6, <1>7
  <1>9. \/ C = B /\ a < B + s
        \/ C = B + s /\ B + s <= a
    BY <1>2, <1>3, <1>6, <1>7, <1>8
  <1> QED BY <1>9 DEF B, C

\* q is a multiple of r.
IsMultiple(q, r) == \E m \in Nat \ {0} : q = m * r

\* A block of m times s rows is cut into blocks of s rows.
LEMMA BlocksNest ==
  ASSUME NEW a \in Nat, NEW s \in Nat \ {0}, NEW m \in Nat \ {0}
  PROVE  /\ BlockOf(a, m * s) <= BlockOf(a, s)
         /\ BlockOf(a, s) + s <= BlockOf(a, m * s) + m * s
  <1> DEFINE x == a \div (m * s)
             u == x * m
             v == x * m + m
             B == BlockOf(a, m * s)
             C == BlockOf(a, s)
             ms == m * s
  <1>1. ms \in Nat \ {0}
    OBVIOUS
  <1>2. x \in Nat
    BY <1>1
  <1>3. B \in Nat /\ B <= a /\ a < B + ms
    BY <1>1, InItsBlock
  <1>4. u \in Nat /\ v \in Nat
    BY <1>2
  <1>5. u * s = B /\ v * s = B + ms
    <2>1. \A y \in Nat : (y * m) * s = y * (m * s) /\ (y * m + m) * s = y * (m * s) + m * s
      OBVIOUS
    <2> QED BY <1>2, <2>1, Zenon DEF BlockOf
  <1>6. /\ B <= a => B <= C
        /\ a < B + ms => C + s <= B + ms
    BY <1>4, <1>5, MultipleBelow, Zenon
  <1> HIDE DEF B, C, ms
  <1> QED BY <1>3, <1>6 DEF B, C, ms

\* A row between the first row of a block and the next block is in the block.
LEMMA RowsOfBlock ==
  ASSUME NEW q \in Nat \ {0}, NEW a \in Nat, NEW b \in Nat,
         BlockOf(a, q) <= b, b < BlockOf(a, q) + q
  PROVE  BlockOf(b, q) = BlockOf(a, q)
  <1>1. /\ BlockOf(a, q) \in Nat
        /\ BlockOf(b, q) \in Nat /\ BlockOf(b, q) <= b /\ b < BlockOf(b, q) + q
    BY InItsBlock
  <1>2. \/ BlockOf(a, q) = BlockOf(b, q)
        \/ BlockOf(a, q) + q <= BlockOf(b, q)
        \/ BlockOf(b, q) + q <= BlockOf(a, q)
    BY BlocksApart
  <1> QED BY <1>1, <1>2

\* A block above another is the next one or a further one.
LEMMA NextBlock ==
  ASSUME NEW q \in Nat \ {0}, NEW a \in Nat, NEW b \in Nat,
         BlockOf(a, q) < BlockOf(b, q)
  PROVE  BlockOf(b, q) = BlockOf(a, q) + q \/ BlockOf(b, q) >= BlockOf(a, q) + 2 * q
  <1> DEFINE x == a \div q
             y == b \div q
             A == BlockOf(a, q)
             B == BlockOf(b, q)
  <1>1. x \in Nat /\ y \in Nat /\ x + 1 \in Nat
    OBVIOUS
  <1>2. A = x * q /\ B = y * q
    BY DEF BlockOf
  <1>3. (x + 1) * q = A + q
    <2>1. \A u \in Nat : (u + 1) * q = u * q + q
      OBVIOUS
    <2> QED BY <1>1, <1>2, <2>1, Zenon
  <1> DEFINE xq == x * q
             yq == y * q
             zq == (x + 1) * q
  <1>4. /\ xq \in Nat /\ yq \in Nat
        /\ x < y <=> xq + q <= yq
        /\ x = y <=> xq = yq
        /\ y < x <=> yq + q <= xq
        /\ x + 1 < y <=> zq + q <= yq
        /\ x + 1 = y <=> zq = yq
    BY <1>1, MultiplesApart, Zenon
  <1>5. A < B
    OBVIOUS
  <1> HIDE DEF x, y, A, B, xq, yq, zq
  <1>6. B = A + q \/ B >= A + 2 * q
    <2>1. A = xq /\ B = yq /\ zq = A + q
      BY <1>2, <1>3 DEF xq, yq, zq
    <2> QED BY <1>1, <1>4, <1>5, <2>1
  <1> QED BY <1>6 DEF A, B

-----------------------------------------------------------------------------
(* One stage of a level.                                                    *)

\* The keys f of n rows, in blocks of q rows: two rows of a block are in order
\* when they are at least s rows apart or in one sub-block of s rows.
Merged(f, n, s, q) ==
  \A a, b \in 0..(n - 1) :
    /\ a < b /\ BlockOf(a, q) = BlockOf(b, q)
    /\ b - a >= s \/ BlockOf(a, s) = BlockOf(b, s)
    => f[a] <= f[b]

\* The keys g are f after the comparators (a, a + s) for a in upper.
Exchanged(f, g, n, s, upper) ==
  \A a \in 0..(n - 1) :
    /\ a \in upper => g[a] = IF f[a] <= f[a + s] THEN f[a] ELSE f[a + s]
    /\ a \notin upper /\ a - s \in upper =>
         g[a] = IF f[a - s] <= f[a] THEN f[a] ELSE f[a - s]
    /\ a \notin upper /\ a - s \notin upper => g[a] = f[a]

\* The first stage of a level compares the rows of the first halves of blocks
\* with those of the second halves; from two sorted halves it leaves two sorted
\* halves, each row of the first at most every row of the second from its own
\* place on.
LEMMA FirstStageMerges ==
  ASSUME NEW n \in Nat, NEW s \in Nat \ {0}, NEW q, q = 2 * s,
         NEW f \in [0..(n - 1) -> Int], NEW g,
         Merged(f, n, 1, s),
         NEW upper, upper = {a \in 0..(n - s - 1) : BlockOf(a, s) = BlockOf(a, q)},
         Exchanged(f, g, n, s, upper)
  PROVE  Merged(g, n, s, q)
  <1> DEFINE D == 0..(n - 1)
  <1> SUFFICES ASSUME NEW a \in D, NEW b \in D, a < b,
                      BlockOf(a, q) = BlockOf(b, q),
                      b - a >= s \/ BlockOf(a, s) = BlockOf(b, s)
               PROVE  g[a] <= g[b]
    BY DEF Merged
  <1> DEFINE B == BlockOf(a, q)
  <1>1. B \in Nat /\ B <= a /\ b < B + q /\ q \in Nat \ {0}
    BY InItsBlock
  <1>2. ASSUME NEW x \in D, NEW y \in D, x <= y,
               \/ B <= x /\ y < B + s
               \/ B + s <= x /\ y < B + q
        PROVE  f[x] <= f[y]
    <2>0. /\ x \in Nat /\ y \in Nat /\ a \in Nat /\ s \in Nat \ {0} /\ q \in Nat \ {0}
          /\ BlockOf(a, q) <= x /\ x < BlockOf(a, q) + q
          /\ BlockOf(a, q) <= y /\ y < BlockOf(a, q) + q
      <3>1. B <= x /\ x < B + q /\ B <= y /\ y < B + q
        <4> HIDE DEF B
        <4>1. q = s + s
          OBVIOUS
        <4> QED BY <1>1, <1>2, <4>1
      <3> QED BY <1>1, <3>1
    <2>1. BlockOf(x, q) = B /\ BlockOf(y, q) = B
      BY ONLY <2>0, RowsOfBlock
    <2>2. BlockOf(x, s) = BlockOf(y, s)
      <3>1. /\ (BlockOf(x, s) = B /\ x < B + s) \/ (BlockOf(x, s) = B + s /\ B + s <= x)
            /\ (BlockOf(y, s) = B /\ y < B + s) \/ (BlockOf(y, s) = B + s /\ B + s <= y)
        BY ONLY <2>0, <2>1, q = 2 * s, BlockHalves
      <3> HIDE DEF B
      <3> QED BY <1>1, <1>2, <2>0, <3>1
    <2>3. x < y => f[x] <= f[y]
      BY <2>2 DEF Merged
    <2>4. f[x] \in Int
      OBVIOUS
    <2> QED BY <1>2, <2>3, <2>4
  <1>3. ASSUME NEW x \in D, B <= x, x < B + q
        PROVE  /\ x < B + s => (x \in upper <=> x + s \in D) /\ x - s \notin upper
               /\ B + s <= x => x \notin upper /\ x - s \in upper
    <2>0. /\ x \in Nat /\ a \in Nat /\ s \in Nat \ {0} /\ q \in Nat \ {0}
          /\ BlockOf(a, q) <= x /\ x < BlockOf(a, q) + q
      BY <1>1, <1>3
    <2>1. BlockOf(x, q) = B
      BY ONLY <2>0, RowsOfBlock
    <2>2. (BlockOf(x, s) = B /\ x < B + s) \/ (BlockOf(x, s) = B + s /\ B + s <= x)
      BY ONLY <2>0, <2>1, q = 2 * s, BlockHalves
    <2>3. ASSUME x < B + s, x - s \in upper PROVE FALSE
      <3> DEFINE z == x - s
      <3>1. z \in Nat /\ BlockOf(z, s) = BlockOf(z, q)
        BY <2>3
      <3>2. /\ BlockOf(z, q) \in Nat /\ BlockOf(z, q) <= z /\ z < BlockOf(z, q) + q
            /\ z < BlockOf(z, s) + s
        BY ONLY <2>0, <3>1, InItsBlock
      <3>3. \/ BlockOf(z, q) = BlockOf(a, q)
            \/ BlockOf(z, q) + q <= BlockOf(a, q)
            \/ BlockOf(a, q) + q <= BlockOf(z, q)
        BY ONLY <2>0, <3>1, BlocksApart
      <3> HIDE DEF B
      <3>4. \/ BlockOf(z, q) = B
            \/ BlockOf(z, q) + q <= B
            \/ B + q <= BlockOf(z, q)
        BY <3>3 DEF B
      <3>5. z = x - s /\ q = s + s
        OBVIOUS
      <3>6. x \in Nat /\ s \in Nat /\ B \in Nat /\ B <= x /\ x < B + s
        BY <1>1, <1>3, <2>0, <2>3
      <3> DEFINE Z == BlockOf(z, q)
      <3>7. Z \in Nat /\ Z <= z /\ z < Z + s
        BY <3>1, <3>2
      <3>8. Z = B \/ Z + q <= B \/ B + q <= Z
        BY <3>4
      <3> HIDE DEF z, Z
      <3> QED BY ONLY <3>1, <3>5, <3>6, <3>7, <3>8
    <2>4. ASSUME B + s <= x PROVE x - s \in upper
      <3> DEFINE z == x - s
      <3>1. z \in Nat /\ BlockOf(a, q) <= z /\ z < BlockOf(a, q) + q /\ z < B + s
        BY <1>1, <1>3, <2>4
      <3>2. BlockOf(z, q) = B
        BY ONLY <2>0, <3>1, RowsOfBlock
      <3>3. (BlockOf(z, s) = B /\ z < B + s) \/ (BlockOf(z, s) = B + s /\ B + s <= z)
        BY ONLY <2>0, <3>1, <3>2, q = 2 * s, BlockHalves
      <3>4. BlockOf(z, s) = BlockOf(z, q)
        BY <1>1, <2>0, <3>1, <3>2, <3>3
      <3>5. z \in 0..(n - s - 1)
        BY <2>0, <3>1
      <3> QED BY <3>4, <3>5
    <2>5. x \in upper <=> x \in 0..(n - s - 1) /\ BlockOf(x, s) = BlockOf(x, q)
      OBVIOUS
    <2> HIDE DEF B
    <2>6. x < B + s => (x \in upper <=> x + s \in D)
      BY <1>1, <2>0, <2>1, <2>2, <2>5
    <2>7. B + s <= x => x \notin upper
      BY <1>1, <2>0, <2>1, <2>2, <2>5
    <2> QED BY <2>3, <2>4, <2>6, <2>7
  <1>4. /\ B <= a /\ a < B + q /\ B <= b /\ b < B + q
        /\ a < B + s /\ B + s <= b => b - a >= s
    <2>1. /\ (BlockOf(a, s) = B /\ a < B + s) \/ (BlockOf(a, s) = B + s /\ B + s <= a)
          /\ (BlockOf(b, s) = B /\ b < B + s) \/ (BlockOf(b, s) = B + s /\ B + s <= b)
      BY BlockHalves
    <2> QED BY <1>1, <2>1
  <1> HIDE DEF B
  <1>5. ASSUME NEW x \in D, B <= x, x < B + q
        PROVE  /\ f[x] \in Int
               /\ x < B + s /\ x + s \in D =>
                    g[x] = IF f[x] <= f[x + s] THEN f[x] ELSE f[x + s]
               /\ x < B + s /\ x + s \notin D => g[x] = f[x]
               /\ B + s <= x => g[x] = IF f[x - s] <= f[x] THEN f[x] ELSE f[x - s]
    BY <1>3, <1>5 DEF Exchanged
  <1>6. CASE b < B + s
    <2>1. f[a] <= f[b]
      BY <1>2, <1>4, <1>6
    <2>2. b + s \in D => a + s \in D /\ f[a + s] <= f[b + s] /\ f[a + s] \in Int /\ f[b + s] \in Int
      BY <1>1, <1>2, <1>4, <1>6
    <2> QED BY <1>1, <1>4, <1>5, <1>6, <2>1, <2>2
  <1>7. CASE B + s <= a
    <2>1. f[a] <= f[b]
      BY <1>2, <1>4, <1>7
    <2>2. a - s \in D /\ b - s \in D /\ f[a - s] <= f[b - s] /\ f[a - s] \in Int /\ f[b - s] \in Int
      BY <1>1, <1>2, <1>4, <1>7
    <2> QED BY <1>1, <1>4, <1>5, <1>7, <2>1, <2>2
  <1>8. CASE a < B + s /\ B + s <= b
    <2>1. b - s \in D /\ f[a] <= f[b - s] /\ f[b - s] \in Int
      BY <1>1, <1>2, <1>4, <1>8
    <2>2. g[a] <= f[a] /\ g[a] \in Int
      <3>1. a + s \in D => f[a + s] \in Int
        OBVIOUS
      <3> QED BY <1>4, <1>5, <1>8, <3>1
    <2>3. f[b - s] <= g[b] /\ g[b] \in Int
      BY <1>4, <1>5, <1>8, <2>1
    <2> QED BY <1>5, <2>1, <2>2, <2>3
  <1> QED BY <1>1, <1>4, <1>6, <1>7, <1>8

\* Bases of sub-blocks of r rows in a block of m times r rows: where they begin
\* and end, and how they lie to each other.
LEMMA SubBlocks ==
  ASSUME NEW r \in Nat \ {0}, NEW q \in Nat \ {0}, IsMultiple(q, r),
         NEW c \in Nat, NEW B, B = BlockOf(c, q),
         NEW x \in Nat, B <= x, x < B + q
  PROVE  /\ BlockOf(x, r) \in Nat
         /\ B <= BlockOf(x, r) /\ BlockOf(x, r) <= x
         /\ x < BlockOf(x, r) + r /\ BlockOf(x, r) + r <= B + q
         /\ BlockOf(x, q) = B
  <1>2. BlockOf(x, q) = B
    BY RowsOfBlock
  <1>3. BlockOf(x, q) <= BlockOf(x, r) /\ BlockOf(x, r) + r <= BlockOf(x, q) + q
    BY BlocksNest DEF IsMultiple
  <1>4. BlockOf(x, r) \in Nat /\ BlockOf(x, r) <= x /\ x < BlockOf(x, r) + r
    BY InItsBlock
  <1> QED BY <1>2, <1>3, <1>4

\* How the sub-blocks of two rows lie to each other.
LEMMA SubBlocksApart ==
  ASSUME NEW r \in Nat \ {0}, NEW x \in Nat, NEW y \in Nat
  PROVE  LET X == BlockOf(x, r)
             Y == BlockOf(y, r)
         IN  X = Y \/ Y = X + r \/ X = Y + r \/ Y >= X + 2 * r \/ X >= Y + 2 * r
  <1>1. BlockOf(x, r) \in Nat /\ BlockOf(y, r) \in Nat
    BY InItsBlock
  <1> QED BY <1>1, NextBlock

\* How far two rows in order are apart, from the halves of their sub-blocks of
\* r = 2s rows (u and v are where those begin) that they lie in.
LEMMA PairsOfHalves ==
  ASSUME NEW s \in Nat \ {0}, NEW r \in Nat, r = s + s,
         NEW a \in Nat, NEW b \in Nat, a < b,
         NEW u \in Nat, u <= a, a < u + r,
         NEW v \in Nat, v <= b, b < v + r,
         \/ u = v \/ v = u + r \/ u = v + r \/ v >= u + 2 * r \/ u >= v + 2 * r,
         u < v => b - a >= s,
         u = v /\ a < u + s /\ v + s <= b => b - a >= s
  PROVE  /\ u = v \/ u < v
         /\ a < u + s /\ b < v + s =>
              /\ u = v \/ b - a >= r \/ (a <= b - s /\ u <= b - s /\ b - s < u + r)
              /\ u < v => b - (a - s) >= r
         /\ a < u + s /\ v + s <= b =>
              /\ u = v \/ b - a >= r
              /\ (b + s) - a >= r /\ b - (a - s) >= r /\ (b + s) - (a - s) >= r
         /\ u + s <= a /\ b < v + s =>
              /\ a <= b - s /\ a + s <= b
              /\ b - a >= r \/ (u <= b - s /\ b - s < u + r)
         /\ u + s <= a /\ v + s <= b =>
              /\ u = v \/ b - a >= r \/ (a + s <= b /\ v <= a + s /\ a + s < v + r)
              /\ u < v => (b + s) - a >= r
  <1>1. u = v \/ v = u + r \/ v >= u + 2 * r
    OBVIOUS
  <1>2. CASE a < u + s /\ b < v + s
    BY <1>1, <1>2
  <1>3. CASE a < u + s /\ v + s <= b
    BY <1>1, <1>3
  <1>4. CASE u + s <= a /\ b < v + s
    BY <1>1, <1>4
  <1>5. CASE u + s <= a /\ v + s <= b
    BY <1>1, <1>5
  <1> QED BY <1>1, <1>2, <1>3, <1>4, <1>5

\* The rows s below two rows of one first half lie in one sub-block, and so do
\* the rows s above two rows of one second half.
LEMMA HalvesMove ==
  ASSUME NEW s \in Nat \ {0}, NEW r \in Nat, r = s + s,
         NEW a \in Nat, NEW b \in Nat, NEW u \in Nat,
         u <= a, a < u + r, u <= b, b < u + r,
         NEW e \in Nat,
         \/ e = u \/ u = e + r \/ e = u + r \/ u >= e + 2 * r \/ e >= u + 2 * r
  PROVE  /\ a < u + s /\ b < u + s /\ e <= a - s /\ a - s < e + r =>
              e <= b - s /\ b - s < e + r
         /\ u + s <= a /\ u + s <= b /\ e <= a + s /\ a + s < e + r =>
              e <= b + s /\ b + s < e + r
  <1>1. ASSUME a < u + s, b < u + s, e <= a - s, a - s < e + r
        PROVE  e <= b - s /\ b - s < e + r
    <2>1. u = e + r
      BY <1>1
    <2> QED BY <1>1, <2>1
  <1>2. ASSUME u + s <= a, u + s <= b, e <= a + s, a + s < e + r
        PROVE  e <= b + s /\ b + s < e + r
    <2>1. e = u + r
      BY <1>2
    <2> QED BY <1>2, <2>1
  <1> QED BY <1>1, <1>2

\* A later stage, of stride s, compares the second half of each sub-block of 2s
\* rows with the first half of the next: rows at least s apart, or in one
\* sub-block of s rows, are then in order.
LEMMA LaterStageMerges ==
  ASSUME NEW n \in Nat, NEW s \in Nat \ {0}, NEW r, r = 2 * s,
         NEW q \in Nat \ {0}, IsMultiple(q, r),
         NEW f \in [0..(n - 1) -> Int], NEW g,
         Merged(f, n, r, q),
         NEW upper, upper = {a \in 0..(n - s - 1) : /\ BlockOf(a, s) # BlockOf(a, r)
                                                    /\ BlockOf(a, q) = BlockOf(a + s, q)},
         Exchanged(f, g, n, s, upper)
  PROVE  Merged(g, n, s, q)
  <1> DEFINE D == 0..(n - 1)
  <1> SUFFICES ASSUME NEW a \in D, NEW b \in D, a < b,
                      BlockOf(a, q) = BlockOf(b, q),
                      b - a >= s \/ BlockOf(a, s) = BlockOf(b, s)
               PROVE  g[a] <= g[b]
    BY DEF Merged
  <1> DEFINE B == BlockOf(a, q)
             In(x) == x \in Nat /\ B <= x /\ x < B + q
             E(x) == BlockOf(x, r)
  <1>1. r \in Nat \ {0} /\ q \in Nat \ {0} /\ r = s + s /\ s \in Nat /\ 1 <= s
    OBVIOUS
  <1>2. B \in Nat /\ In(a) /\ In(b) /\ a \in Nat
    <2>1. a \in Nat /\ b \in Nat
      OBVIOUS
    <2>2. BlockOf(a, q) \in Nat /\ BlockOf(a, q) <= a /\ a < BlockOf(a, q) + q
      BY ONLY <1>1, <2>1, InItsBlock
    <2>3. BlockOf(b, q) <= b /\ b < BlockOf(b, q) + q
      BY ONLY <1>1, <2>1, InItsBlock
    <2>4. BlockOf(b, q) = B
      OBVIOUS
    <2> QED BY <2>1, <2>2, <2>3, <2>4, Zenon
  <1>3. ASSUME NEW x, In(x)
        PROVE  /\ E(x) \in Nat /\ B <= E(x) /\ E(x) <= x
               /\ x < E(x) + r /\ E(x) + r <= B + q
               /\ BlockOf(x, q) = B
    <2>1. x \in Nat /\ B <= x /\ x < B + q
      BY <1>3
    <2> QED BY ONLY <1>1, <1>2, <2>1, IsMultiple(q, r), SubBlocks
  <1>4. ASSUME NEW x, NEW y, In(x), In(y)
        PROVE  E(x) = E(y) \/ E(y) = E(x) + r \/ E(x) = E(y) + r
               \/ E(y) >= E(x) + 2 * r \/ E(x) >= E(y) + 2 * r
    BY <1>1, <1>4, SubBlocksApart
  <1>5. ASSUME NEW x, In(x)
        PROVE  \/ BlockOf(x, s) = E(x) /\ x < E(x) + s
               \/ BlockOf(x, s) = E(x) + s /\ E(x) + s <= x
    BY <1>5, BlockHalves
  <1>6. ASSUME NEW x \in D, NEW y \in D, In(x), In(y), x <= y, y - x >= r \/ E(x) = E(y)
        PROVE  f[x] <= f[y]
    <2>1. BlockOf(x, q) = BlockOf(y, q)
      BY <1>3, <1>6
    <2>2. f[x] \in Int
      OBVIOUS
    <2>3. x < y => f[x] <= f[y]
      BY <1>6, <2>1 DEF Merged
    <2> QED BY <1>6, <2>2, <2>3
  <1>7. ASSUME NEW x \in D, In(x)
        PROVE  /\ E(x) + s <= x =>
                    /\ x - s \notin upper
                    /\ x \in upper <=> x + s \in D /\ x + s < B + q
               /\ x < E(x) + s =>
                    /\ x \notin upper
                    /\ x - s \in upper <=> B <= x - s
    <2> DEFINE e == E(x)
    <2>1. e \in Nat /\ B <= e /\ e <= x /\ x < e + r /\ e + r <= B + q /\ BlockOf(x, q) = B
      BY <1>3, <1>7
    <2>2. (BlockOf(x, s) = e /\ x < e + s) \/ (BlockOf(x, s) = e + s /\ e + s <= x)
      BY <1>5, <1>7
    <2>3. x \in upper <=>
            /\ x \in 0..(n - s - 1) /\ BlockOf(x, s) # e
            /\ BlockOf(x + s, q) = B
      BY <2>1
    <2>4. x - s \in upper =>
            /\ x - s \in Nat
            /\ BlockOf(x - s, s) # E(x - s) /\ BlockOf(x - s, q) = B
      <3>1. (x - s) + s = x
        BY <1>1
      <3> QED BY <2>1, <3>1
    <2>5. ASSUME x - s \in Nat, BlockOf(x - s, s) # E(x - s), BlockOf(x - s, q) = B
          PROVE  x - s \in upper
      <3>1. (x - s) + s = x /\ x - s \in 0..(n - s - 1)
        BY <1>1, <2>5
      <3> QED BY <2>1, <2>5, <3>1
    <2>6. x \in Nat /\ x < n
      OBVIOUS
    <2>7. ASSUME x + s < B + q PROVE BlockOf(x + s, q) = B
      <3>1. In(x + s)
        BY <1>1, <1>2, <1>7, <2>7
      <3> QED BY <1>3, <3>1
    <2>8. BlockOf(x + s, q) = B => x + s < B + q
      <3>1. x + s \in Nat
        BY <1>1, <2>6
      <3>2. x + s < BlockOf(x + s, q) + q
        BY ONLY <1>1, <3>1, InItsBlock
      <3> QED BY <3>2
    <2>9. x - s \in Nat /\ BlockOf(x - s, q) = B => B <= x - s
      <3>1. x - s \in Nat => BlockOf(x - s, q) <= x - s
        BY ONLY <1>1, InItsBlock
      <3> QED BY <3>1
    <2>10. ASSUME B <= x - s
           PROVE  /\ In(x - s) /\ x - s \in Nat /\ BlockOf(x - s, q) = B
                  /\ e + s <= x => BlockOf(x - s, s) = E(x - s)
                  /\ x < e + s => BlockOf(x - s, s) # E(x - s)
      <3> DEFINE z == x - s
                 d == E(z)
      <3>1. In(z)
        BY <1>1, <1>2, <1>7, <2>10
      <3>2. d \in Nat /\ d <= z /\ z < d + r /\ BlockOf(z, q) = B
        BY <1>3, <3>1
      <3>3. (BlockOf(z, s) = d /\ z < d + s) \/ (BlockOf(z, s) = d + s /\ d + s <= z)
        BY <1>5, <3>1
      <3>4. d = e \/ e = d + r \/ d = e + r \/ e >= d + 2 * r \/ d >= e + 2 * r
        BY <1>4, <1>7, <3>1
      <3>5. z = x - s /\ z \in Nat
        BY <3>1
      <3> HIDE DEF z, d, e, In, E, B
      <3>6. e + s <= x => BlockOf(z, s) = d
        BY ONLY <1>1, <2>1, <2>6, <3>2, <3>3, <3>4, <3>5
      <3>7. x < e + s => BlockOf(z, s) # d
        BY ONLY <1>1, <2>1, <2>6, <3>2, <3>3, <3>4, <3>5
      <3> QED BY <3>1, <3>2, <3>5, <3>6, <3>7 DEF z, d
    <2>11. e + s <= x => x - s \in Nat /\ B <= x - s
      BY <1>1, <1>2, <2>1, <2>6
    <2>12. x \in 0..(n - s - 1) <=> x + s \in D
      BY <1>1, <2>6
    <2> HIDE DEF e, E, In, B
    <2>13. ASSUME e + s <= x
           PROVE  x - s \notin upper /\ (x \in upper <=> x + s \in D /\ x + s < B + q)
      <3>1. BlockOf(x, s) # e
        BY <1>1, <2>1, <2>2, <2>6, <2>13
      <3> QED BY <2>3, <2>4, <2>7, <2>8, <2>10, <2>11, <2>12, <2>13, <3>1, Zenon
    <2>14. ASSUME x < e + s
           PROVE  x \notin upper /\ (x - s \in upper <=> B <= x - s)
      <3>1. BlockOf(x, s) = e
        BY <1>1, <2>1, <2>2, <2>6, <2>14
      <3> QED BY <2>3, <2>4, <2>5, <2>9, <2>10, <2>14, <3>1, Zenon
    <2> QED BY <2>13, <2>14 DEF e
  <1>8. ASSUME NEW x \in D, In(x)
        PROVE  /\ f[x] \in Int
               /\ E(x) + s <= x /\ x + s \in D /\ x + s < B + q =>
                    g[x] = IF f[x] <= f[x + s] THEN f[x] ELSE f[x + s]
               /\ E(x) + s <= x /\ ~(x + s \in D /\ x + s < B + q) => g[x] = f[x]
               /\ x < E(x) + s /\ B <= x - s =>
                    g[x] = IF f[x - s] <= f[x] THEN f[x] ELSE f[x - s]
               /\ x < E(x) + s /\ ~(B <= x - s) => g[x] = f[x]
    <2> HIDE DEF E, In, B
    <2>1. f[x] \in Int
      OBVIOUS
    <2>2. /\ x \in upper => g[x] = IF f[x] <= f[x + s] THEN f[x] ELSE f[x + s]
          /\ x \notin upper /\ x - s \in upper =>
               g[x] = IF f[x - s] <= f[x] THEN f[x] ELSE f[x - s]
          /\ x \notin upper /\ x - s \notin upper => g[x] = f[x]
      BY DEF Exchanged
    <2> QED BY <1>7, <1>8, <2>1, <2>2, Zenon
  \* A row of a second half ends up at most either key; one of a first half at
  \* least either key.
  <1>9. ASSUME NEW x \in D, In(x), E(x) + s <= x
        PROVE  /\ g[x] \in Int /\ g[x] <= f[x]
               /\ x + s \in D /\ x + s < B + q => In(x + s) /\ g[x] <= f[x + s]
               /\ \A v \in Int :
                    /\ v <= f[x]
                    /\ x + s \in D /\ x + s < B + q => v <= f[x + s]
                    => v <= g[x]
    <2>1. x + s \in D => f[x + s] \in Int
      OBVIOUS
    <2>2. x + s < B + q => In(x + s)
      BY <1>1, <1>2, <1>9
    <2> HIDE DEF E, In, B
    <2> QED BY <1>8, <1>9, <2>1, <2>2
  <1>10. ASSUME NEW x \in D, In(x), x < E(x) + s
         PROVE  /\ g[x] \in Int /\ f[x] <= g[x]
                /\ B <= x - s => x - s \in D /\ In(x - s) /\ f[x - s] <= g[x]
                /\ \A v \in Int : f[x] <= v /\ (B <= x - s => f[x - s] <= v) => g[x] <= v
    <2>1. B <= x - s => x - s \in D /\ In(x - s) /\ f[x - s] \in Int
      <3>1. B <= x - s => x - s \in D
        BY <1>1, <1>2
      <3>2. x - s \in D => f[x - s] \in Int
        OBVIOUS
      <3>3. B <= x - s => In(x - s)
        BY <1>1, <1>2, <1>10
      <3> QED BY <3>1, <3>2, <3>3
    <2> HIDE DEF E, In, B
    <2> QED BY <1>8, <1>10, <2>1
  <1>11. ASSUME NEW x, In(x)
         PROVE  x \in Nat /\ B <= x /\ x < B + q
    BY <1>11
  <1>12. ASSUME NEW x \in D, NEW y \in D, In(x), In(y), BlockOf(x, r) <= y, y < BlockOf(x, r) + r
         PROVE  E(y) = E(x)
    <2>1. x \in Nat /\ y \in Nat
      OBVIOUS
    <2> QED BY ONLY <1>1, <1>12, <2>1, RowsOfBlock
  <1> DEFINE u == E(a)
             v == E(b)
  <1>13. /\ a \in Nat /\ b \in Nat /\ a < b
         /\ u \in Nat /\ B <= u /\ u <= a /\ a < u + r /\ u + r <= B + q
         /\ v \in Nat /\ B <= v /\ v <= b /\ b < v + r /\ v + r <= B + q
         /\ \/ u = v \/ v = u + r \/ u = v + r
            \/ v >= u + 2 * r \/ u >= v + 2 * r
    BY <1>2, <1>3, <1>4
  <1>14. /\ u = v /\ a < u + s /\ v + s <= b => b - a >= s
         /\ u < v => b - a >= s
    <2>1. /\ (BlockOf(a, s) = u /\ a < u + s) \/ (BlockOf(a, s) = u + s /\ u + s <= a)
          /\ (BlockOf(b, s) = v /\ b < v + s) \/ (BlockOf(b, s) = v + s /\ v + s <= b)
      BY <1>2, <1>5
    <2>2. b - a >= s \/ BlockOf(a, s) = BlockOf(b, s)
      OBVIOUS
    <2> DEFINE x == BlockOf(a, s)
               y == BlockOf(b, s)
    <2> HIDE DEF u, v, E, In, B, x, y
    <2>3. x = y \/ b - a >= s
      BY <2>2 DEF x, y
    <2>4. (x = u /\ a < u + s) \/ (x = u + s /\ u + s <= a)
      BY <2>1 DEF x
    <2>5. (y = v /\ b < v + s) \/ (y = v + s /\ v + s <= b)
      BY <2>1 DEF y
    <2> QED BY ONLY <1>1, <1>13, <2>3, <2>4, <2>5
  <1> HIDE DEF E, In, B, u, v
  <1>15. /\ u = v \/ u < v
         /\ a < u + s /\ b < v + s =>
              /\ u = v \/ b - a >= r \/ (a <= b - s /\ u <= b - s /\ b - s < u + r)
              /\ u < v => b - (a - s) >= r
         /\ a < u + s /\ v + s <= b =>
              /\ u = v \/ b - a >= r
              /\ (b + s) - a >= r /\ b - (a - s) >= r /\ (b + s) - (a - s) >= r
         /\ u + s <= a /\ b < v + s =>
              /\ a <= b - s /\ a + s <= b
              /\ b - a >= r \/ (u <= b - s /\ b - s < u + r)
         /\ u + s <= a /\ v + s <= b =>
              /\ u = v \/ b - a >= r \/ (a + s <= b /\ v <= a + s /\ a + s < v + r)
              /\ u < v => (b + s) - a >= r
    BY ONLY <1>1, <1>13, <1>14, s \in Nat \ {0}, PairsOfHalves
  <1>16. /\ a <= b /\ a - s <= b /\ a <= b + s /\ a - s <= b - s /\ a + s <= b + s
         /\ a - s <= b + s
         /\ B <= a - s => B <= b - s
         /\ u <= b - s => B <= b - s
         /\ a + s <= b => a + s \in D /\ a + s < B + q
         /\ b + s \in D => a + s \in D
         /\ b + s < B + q => a + s < B + q
    <2>1. b \in 0..(n - 1) /\ n \in Nat
      OBVIOUS
    <2> QED BY ONLY <1>1, <1>2, <1>13, <2>1
  \* The rows of the sub-block of a, and of that of b.
  <1>17. ASSUME NEW y \in D, In(y)
         PROVE  /\ u <= y /\ y < u + r => E(y) = u
                /\ v <= y /\ y < v + r => E(y) = v
    BY <1>2, <1>12, <1>17 DEF u, v, E
  \* The sub-blocks of the rows s away from the two.
  <1>18. ASSUME u = v
         PROVE  /\ /\ a < u + s /\ b < v + s
                   /\ a - s \in D /\ In(a - s) /\ b - s \in D /\ In(b - s)
                   => E(a - s) = E(b - s)
                /\ /\ u + s <= a /\ v + s <= b
                   /\ a + s \in D /\ In(a + s) /\ b + s \in D /\ In(b + s)
                   => E(a + s) = E(b + s)
    <2>1. ASSUME NEW x \in D, In(x)
          PROVE  /\ E(x) \in Nat /\ E(x) <= x /\ x < E(x) + r
                 /\ \/ E(x) = u \/ u = E(x) + r \/ E(x) = u + r
                    \/ u >= E(x) + 2 * r \/ E(x) >= u + 2 * r
      BY <1>2, <1>3, <1>4, <2>1 DEF u
    <2>2. ASSUME a < u + s, b < v + s, a - s \in D, In(a - s), b - s \in D, In(b - s)
          PROVE  E(a - s) = E(b - s)
      <3> DEFINE e == E(a - s)
      <3>1. /\ e \in Nat /\ e <= a - s /\ a - s < e + r
            /\ \/ e = u \/ u = e + r \/ e = u + r
               \/ u >= e + 2 * r \/ e >= u + 2 * r
        BY <2>1, <2>2
      <3> HIDE DEF e
      <3>2. e <= b - s /\ b - s < e + r
        BY ONLY <1>1, <1>13, <1>18, <2>2, <3>1, s \in Nat \ {0}, HalvesMove
      <3> QED BY <1>12, <2>2, <3>2 DEF e, E
    <2>3. ASSUME u + s <= a, v + s <= b, a + s \in D, In(a + s), b + s \in D, In(b + s)
          PROVE  E(a + s) = E(b + s)
      <3> DEFINE e == E(a + s)
      <3>1. /\ e \in Nat /\ e <= a + s /\ a + s < e + r
            /\ \/ e = u \/ u = e + r \/ e = u + r
               \/ u >= e + 2 * r \/ e >= u + 2 * r
        BY <2>1, <2>3
      <3> HIDE DEF e
      <3>2. e <= b + s /\ b + s < e + r
        BY ONLY <1>1, <1>13, <1>18, <2>3, <3>1, s \in Nat \ {0}, HalvesMove
      <3> QED BY <1>12, <2>3, <3>2 DEF e, E
    <2> QED BY <2>2, <2>3
  <1>19. u = E(a) /\ v = E(b) /\ a \in D /\ b \in D /\ In(a) /\ In(b)
    BY <1>2 DEF u, v
  <1>20. CASE a < u + s /\ b < v + s
    <2>0. f[a] \in Int /\ f[b] \in Int /\ g[b] \in Int /\ f[b] <= g[b]
      BY <1>8, <1>10, <1>19, <1>20
    <2>1. f[a] <= g[b]
      <3>1. CASE u = v \/ b - a >= r
        <4>1. f[a] <= f[b]
          BY <1>6, <1>16, <1>19, <3>1
        <4> QED BY <2>0, <4>1
      <3>2. CASE ~(u = v \/ b - a >= r)
        <4>1. a <= b - s /\ B <= b - s /\ u <= b - s /\ b - s < u + r
          BY <1>15, <1>16, <1>20, <3>2
        <4>2. b - s \in D /\ In(b - s) /\ f[b - s] <= g[b]
          BY <1>10, <1>19, <1>20, <4>1
        <4>3. f[b - s] \in Int /\ E(b - s) = u
          BY <1>8, <1>17, <4>1, <4>2
        <4>4. f[a] <= f[b - s]
          BY <1>6, <1>19, <4>1, <4>2, <4>3
        <4> QED BY <2>0, <4>2, <4>3, <4>4
      <3> QED BY <3>1, <3>2
    <2>2. ASSUME B <= a - s PROVE f[a - s] <= g[b]
      <3>1. a - s \in D /\ In(a - s) /\ f[a - s] \in Int
        BY <1>8, <1>10, <1>19, <1>20, <2>2
      <3>2. CASE u = v
        <4>1. b - s \in D /\ In(b - s) /\ f[b - s] <= g[b]
          BY <1>10, <1>16, <1>19, <1>20, <2>2
        <4>2. f[b - s] \in Int
          BY <1>8, <4>1
        <4>3. E(a - s) = E(b - s)
          BY <1>18, <1>20, <3>1, <3>2, <4>1
        <4>4. f[a - s] <= f[b - s]
          BY <1>6, <1>16, <3>1, <4>1, <4>3
        <4> QED BY <2>0, <3>1, <4>1, <4>2, <4>4
      <3>3. CASE u < v
        <4>1. f[a - s] <= f[b]
          BY <1>6, <1>15, <1>16, <1>19, <1>20, <3>1, <3>3
        <4> QED BY <2>0, <3>1, <4>1
      <3> QED BY <1>15, <3>2, <3>3
    <2> QED BY <1>10, <1>19, <1>20, <2>0, <2>1, <2>2
  <1>21. CASE a < u + s /\ v + s <= b
    <2>1. /\ u = v \/ b - a >= r
          /\ (b + s) - a >= r /\ b - (a - s) >= r /\ (b + s) - (a - s) >= r
      BY <1>15, <1>21
    <2>2. f[a] \in Int /\ f[a] <= f[b]
      BY <1>6, <1>8, <1>16, <1>19, <2>1
    <2>3. b + s \in D /\ b + s < B + q => f[a] <= f[b + s]
      BY <1>6, <1>9, <1>16, <1>19, <1>21, <2>1
    <2>4. f[a] <= g[b] /\ g[b] \in Int
      BY <1>9, <1>19, <1>21, <2>2, <2>3
    <2>5. ASSUME B <= a - s PROVE f[a - s] <= g[b]
      <3>1. a - s \in D /\ In(a - s) /\ f[a - s] \in Int
        BY <1>8, <1>10, <1>19, <1>21, <2>5
      <3>2. f[a - s] <= f[b]
        BY <1>6, <1>16, <1>19, <2>1, <3>1
      <3>3. b + s \in D /\ b + s < B + q => f[a - s] <= f[b + s]
        BY <1>6, <1>9, <1>16, <1>19, <1>21, <2>1, <3>1
      <3> QED BY <1>9, <1>19, <1>21, <3>1, <3>2, <3>3
    <2> QED BY <1>10, <1>19, <1>21, <2>4, <2>5
  <1>22. CASE u + s <= a /\ b < v + s
    <2>1. a <= b - s /\ a + s <= b /\ (b - a >= r \/ (u <= b - s /\ b - s < u + r))
      BY <1>15, <1>22
    <2>2. a + s \in D /\ a + s < B + q
      BY <1>16, <2>1
    <2>3. g[a] \in Int /\ g[a] <= f[a] /\ f[a] \in Int
      BY <1>8, <1>9, <1>19, <1>22
    <2>4. g[b] \in Int /\ f[b] <= g[b] /\ f[b] \in Int
      BY <1>8, <1>10, <1>19, <1>22
    <2>5. CASE b - a >= r
      <3>1. f[a] <= f[b]
        BY <1>6, <1>16, <1>19, <2>5
      <3> QED BY <2>3, <2>4, <3>1
    <2>6. CASE u <= b - s /\ b - s < u + r
      <3>1. b - s \in D /\ In(b - s) /\ f[b - s] <= g[b]
        BY <1>10, <1>16, <1>19, <1>22, <2>6
      <3>2. f[b - s] \in Int /\ E(b - s) = u
        BY <1>8, <1>17, <2>6, <3>1
      <3>3. f[a] <= f[b - s]
        BY <1>6, <1>19, <2>1, <3>1, <3>2
      <3> QED BY <2>3, <2>4, <3>1, <3>2, <3>3
    <2> QED BY <2>1, <2>5, <2>6
  <1>23. CASE u + s <= a /\ v + s <= b
    <2>0. g[a] \in Int /\ g[a] <= f[a] /\ f[a] \in Int /\ f[b] \in Int
      BY <1>8, <1>9, <1>19, <1>23
    <2>1. g[a] <= f[b]
      <3>1. CASE u = v \/ b - a >= r
        <4>1. f[a] <= f[b]
          BY <1>6, <1>16, <1>19, <3>1
        <4> QED BY <2>0, <4>1
      <3>2. CASE a + s <= b /\ v <= a + s /\ a + s < v + r
        <4>1. a + s \in D /\ In(a + s) /\ g[a] <= f[a + s]
          BY <1>9, <1>16, <1>19, <1>23, <3>2
        <4>2. f[a + s] \in Int /\ E(a + s) = v
          BY <1>8, <1>17, <3>2, <4>1
        <4>3. f[a + s] <= f[b]
          BY <1>6, <1>19, <3>2, <4>1, <4>2
        <4> QED BY <2>0, <4>1, <4>2, <4>3
      <3> QED BY <1>15, <1>23, <3>1, <3>2
    <2>2. ASSUME b + s \in D, b + s < B + q PROVE g[a] <= f[b + s]
      <3>1. In(b + s) /\ f[b + s] \in Int
        BY <1>8, <1>9, <1>19, <1>23, <2>2
      <3>2. CASE u < v
        <4>1. f[a] <= f[b + s]
          BY <1>6, <1>15, <1>16, <1>19, <1>23, <2>2, <3>1, <3>2
        <4> QED BY <2>0, <3>1, <4>1
      <3>3. CASE u = v
        <4>1. a + s \in D /\ In(a + s) /\ g[a] <= f[a + s]
          BY <1>9, <1>16, <1>19, <1>23, <2>2
        <4>2. f[a + s] \in Int
          BY <1>8, <4>1
        <4>3. E(a + s) = E(b + s)
          BY <1>18, <1>23, <2>2, <3>1, <3>3, <4>1
        <4>4. f[a + s] <= f[b + s]
          BY <1>6, <1>16, <2>2, <3>1, <4>1, <4>3
        <4> QED BY <2>0, <3>1, <4>1, <4>2, <4>4
      <3> QED BY <1>15, <3>2, <3>3
    <2> QED BY <1>9, <1>19, <1>23, <2>0, <2>1, <2>2
  <1>24. (a < u + s \/ u + s <= a) /\ (b < v + s \/ v + s <= b)
    BY ONLY <1>1, <1>13
  <1> QED BY <1>20, <1>21, <1>22, <1>23, <1>24

-----------------------------------------------------------------------------
(* The schedule of stages.                                                  *)

\* The numbers that doubling reaches from one.
PowersOfTwo ==
  {x \in Nat : \A S \in SUBSET Nat : 1 \in S /\ (\A y \in S : 2 * y \in S) => x \in S}

\* One is a power of two, and so is the double of one.
LEMMA Doubles ==
  /\ 1 \in PowersOfTwo
  /\ \A x \in PowersOfTwo : x \in Nat /\ 2 * x \in PowersOfTwo
  <1>1. 1 \in PowersOfTwo
    BY DEF PowersOfTwo
  <1>2. ASSUME NEW x \in PowersOfTwo
        PROVE  x \in Nat /\ 2 * x \in PowersOfTwo
    <2>1. x \in Nat /\ 2 * x \in Nat
      BY DEF PowersOfTwo
    <2>2. ASSUME NEW S \in SUBSET Nat, 1 \in S, \A y \in S : 2 * y \in S
          PROVE  2 * x \in S
      <3>1. x \in S
        BY <2>2 DEF PowersOfTwo
      <3> QED BY <2>2, <3>1
    <2> QED BY <2>1, <2>2 DEF PowersOfTwo
  <1> QED BY <1>1, <1>2

\* A power of two is one or the double of one.
LEMMA Halves ==
  ASSUME NEW x \in PowersOfTwo
  PROVE  /\ x \in Nat \ {0}
         /\ x = 1 \/ \E y \in PowersOfTwo : x = 2 * y /\ y < x /\ x \div 2 = y
  <1> DEFINE S == {1} \cup {2 * y : y \in PowersOfTwo}
  <1>1. S \in SUBSET PowersOfTwo
    BY Doubles
  <1>2. PowersOfTwo \subseteq Nat
    BY DEF PowersOfTwo
  <1>3. \A y \in S : 2 * y \in S
    BY <1>1
  <1>4. \A T \in SUBSET Nat : 1 \in T /\ (\A y \in T : 2 * y \in T) => x \in T
    BY DEF PowersOfTwo
  <1>5. x \in S
    <2>1. 1 \in S /\ S \in SUBSET Nat
      BY <1>1, <1>2
    <2> HIDE DEF S
    <2> QED BY <1>3, <1>4, <2>1, Zenon
  <1>6. \A y \in Nat \ {0} : 2 * y \in Nat \ {0}
    OBVIOUS
  <1>7. x \in Nat \ {0}
    <2>1. 1 \in Nat \ {0} /\ Nat \ {0} \in SUBSET Nat
      OBVIOUS
    <2> QED BY <1>4, <1>6, <2>1, Zenon
  <1>8. ASSUME NEW y \in PowersOfTwo, x = 2 * y
        PROVE  y < x /\ x \div 2 = y
    <2>1. y \in Nat
      BY <1>2
    <2> QED BY <1>7, <1>8, <2>1
  <1> QED BY <1>5, <1>7, <1>8

\* Halving the stride keeps it a divisor of the level.
LEMMA HalfDivides ==
  ASSUME NEW x \in Nat, NEW y \in Nat, IsMultiple(x, 2 * y)
  PROVE  IsMultiple(x, y) /\ IsMultiple(2 * x, 2 * y)
  <1>1. PICK m \in Nat \ {0} : x = m * (2 * y)
    BY DEF IsMultiple
  <1>2. m * (2 * y) = (2 * m) * y /\ 2 * (m * (2 * y)) = (2 * m) * (2 * y)
    OBVIOUS
  <1>3. 2 * m \in Nat \ {0}
    OBVIOUS
  <1> QED BY <1>1, <1>2, <1>3 DEF IsMultiple

\* Twice a multiple is a multiple of twice the number.
LEMMA DoubleDivides ==
  ASSUME NEW x \in Nat, NEW y \in Nat, IsMultiple(x, y)
  PROVE  IsMultiple(2 * x, 2 * y)
  <1>1. PICK m \in Nat \ {0} : x = m * y
    BY DEF IsMultiple
  <1>2. 2 * (m * y) = m * (2 * y)
    OBVIOUS
  <1> QED BY <1>1, <1>2 DEF IsMultiple

-----------------------------------------------------------------------------
(* The comparators of batcher_schedule are those of the lemmas.             *)

\* What a level and a stride are to the stages.
Strides == p \in Nat \ {0} /\ k \in Nat \ {0} /\ k <= p /\ IsMultiple(2 * p, 2 * k)

\* The place of a row in its block, and in which half of it that is.
LEMMA HalfOfBlock ==
  ASSUME NEW a \in Nat, NEW s \in Nat \ {0}
  PROVE  a % (2 * s) < s <=> BlockOf(a, s) = BlockOf(a, 2 * s)
  <1> DEFINE B == BlockOf(a, 2 * s)
             C == BlockOf(a, s)
             t == a % (2 * s)
  <1>1. 2 * s \in Nat \ {0} /\ 2 * s = s + s
    OBVIOUS
  <1>2. B \in Nat /\ B <= a /\ a < B + 2 * s /\ t = a - B
    BY <1>1, InItsBlock
  <1>3. (C = B /\ a < B + s) \/ (C = B + s /\ B + s <= a)
    BY <1>1, BlockHalves
  <1> HIDE DEF B, C, t
  <1>4. t < s <=> C = B
    BY <1>2, <1>3
  <1> QED BY <1>4 DEF B, C, t

\* A row a stride above a row of a first half is in the second half of the same
\* block, and one of a second half is a stride above a row of the first half.
LEMMA HalfMoves ==
  ASSUME NEW a \in Nat, NEW s \in Nat \ {0}
  PROVE  /\ a % (2 * s) < s =>
              /\ ~((a + s) % (2 * s) < s)
              /\ BlockOf(a + s, 2 * s) = BlockOf(a, 2 * s)
         /\ ~(a % (2 * s) < s) => s <= a /\ (a - s) % (2 * s) < s
  <1> DEFINE q == 2 * s
             B == BlockOf(a, q)
             t == a % q
  <1>1. q \in Nat \ {0} /\ q = s + s
    OBVIOUS
  <1>2. B \in Nat /\ B <= a /\ a < B + q /\ t = a - B
    BY <1>1, InItsBlock
  <1> HIDE DEF q
  <1>3. ASSUME NEW b \in Nat, B <= b, b < B + q
        PROVE  BlockOf(b, q) = B /\ b % q = b - B
    <2>1. BlockOf(b, q) = B
      BY ONLY <1>1, <1>3, a \in Nat, RowsOfBlock
    <2>2. b % q = b - BlockOf(b, q)
      BY ONLY <1>1, <1>3, InItsBlock
    <2> QED BY <2>1, <2>2
  <1> HIDE DEF B, t
  <1>4. ASSUME t < s
        PROVE  ~((a + s) % q < s) /\ BlockOf(a + s, q) = B
    <2>1. a + s \in Nat /\ B <= a + s /\ a + s < B + q
      BY <1>1, <1>2, <1>4
    <2>2. BlockOf(a + s, q) = B /\ (a + s) % q = (a + s) - B
      BY <1>3, <2>1
    <2> QED BY <1>1, <1>2, <2>1, <2>2
  <1>5. ASSUME ~(t < s)
        PROVE  s <= a /\ (a - s) % q < s
    <2>1. a - s \in Nat /\ B <= a - s /\ a - s < B + q
      BY <1>1, <1>2, <1>5
    <2>2. (a - s) % q = (a - s) - B
      BY <1>3, <2>1
    <2> QED BY <1>1, <1>2, <2>1, <2>2
  <1> QED BY <1>4, <1>5 DEF B, t, q

\* At the first stage of a level the comparators join the halves of the blocks.
LEMMA FirstComparators ==
  ASSUME Strides, k = p, NEW n \in Nat
  PROVE  Comparators(n) = {a \in 0..(n - k - 1) : BlockOf(a, k) = BlockOf(a, 2 * k)}
  <1>1. k \in Nat \ {0} /\ 2 * k \in Nat \ {0} /\ k % p = 0
    BY DEF Strides
  <1>2. ASSUME NEW a \in 0..(n - k - 1)
        PROVE  /\ (a - (k % p)) % (2 * k) < k
               /\ a \div (2 * p) = (a + k) \div (2 * p)
               <=> BlockOf(a, k) = BlockOf(a, 2 * k)
    <2>1. a \in Nat /\ a + k \in Nat /\ a - (k % p) = a
      BY <1>1
    <2>2. a % (2 * k) < k <=> BlockOf(a, k) = BlockOf(a, 2 * k)
      BY ONLY <1>1, <2>1, HalfOfBlock
    <2>3. a % (2 * k) < k => BlockOf(a + k, 2 * k) = BlockOf(a, 2 * k)
      BY ONLY <1>1, <2>1, HalfMoves
    <2>4. BlockOf(a, 2 * k) = BlockOf(a + k, 2 * k) <=> a \div (2 * k) = (a + k) \div (2 * k)
      BY ONLY <1>1, <2>1, BlocksApart
    <2> QED BY <2>1, <2>2, <2>3, <2>4, Zenon
  <1>3. Comparators(n) = {a \in 0..(n - k - 1) :
                            /\ (a - (k % p)) % (2 * k) < k
                            /\ a \div (2 * p) = (a + k) \div (2 * p)}
    BY <1>1, Zenon DEF Comparators
  <1> QED BY <1>2, <1>3, Zenon

\* At a later stage they join the second half of each sub-block to the first
\* half of the next.
LEMMA LaterComparators ==
  ASSUME Strides, k < p, NEW n \in Nat
  PROVE  Comparators(n) =
           {a \in 0..(n - k - 1) : /\ BlockOf(a, k) # BlockOf(a, 2 * k)
                                   /\ BlockOf(a, 2 * p) = BlockOf(a + k, 2 * p)}
  <1>1. k \in Nat \ {0} /\ 2 * k \in Nat \ {0} /\ 2 * p \in Nat \ {0} /\ k % p = k
    BY DEF Strides
  <1>2. ASSUME NEW a
        PROVE  a \in k..(n - k - 1) /\ (a - k) % (2 * k) < k
               <=> a \in 0..(n - k - 1) /\ BlockOf(a, k) # BlockOf(a, 2 * k)
    <2>1. ASSUME a \in k..(n - k - 1), (a - k) % (2 * k) < k
          PROVE  a \in 0..(n - k - 1) /\ BlockOf(a, k) # BlockOf(a, 2 * k)
      <3>1. a \in Nat /\ a - k \in Nat /\ (a - k) + k = a
        BY <1>1, <2>1
      <3>2. ~(a % (2 * k) < k)
        BY ONLY <1>1, <2>1, <3>1, HalfMoves
      <3>3. BlockOf(a, k) # BlockOf(a, 2 * k)
        BY ONLY <1>1, <3>1, <3>2, HalfOfBlock
      <3> QED BY <1>1, <2>1, <3>3
    <2>2. ASSUME a \in 0..(n - k - 1), BlockOf(a, k) # BlockOf(a, 2 * k)
          PROVE  a \in k..(n - k - 1) /\ (a - k) % (2 * k) < k
      <3>1. a \in Nat
        BY <2>2
      <3>2. ~(a % (2 * k) < k)
        BY ONLY <1>1, <2>2, <3>1, HalfOfBlock
      <3>3. k <= a /\ (a - k) % (2 * k) < k
        BY ONLY <1>1, <3>1, <3>2, HalfMoves
      <3> QED BY <1>1, <2>2, <3>3
    <2> QED BY <2>1, <2>2
  <1>3. ASSUME NEW a \in 0..(n - k - 1)
        PROVE  BlockOf(a, 2 * p) = BlockOf(a + k, 2 * p) <=> a \div (2 * p) = (a + k) \div (2 * p)
    <2>1. a \in Nat /\ a + k \in Nat
      BY <1>1
    <2> QED BY ONLY <1>1, <2>1, BlocksApart
  <1>4. Comparators(n) = {a \in k..(n - k - 1) :
                            /\ (a - k) % (2 * k) < k
                            /\ a \div (2 * p) = (a + k) \div (2 * p)}
    BY <1>1, Zenon DEF Comparators
  <1> QED BY <1>2, <1>3, <1>4, Zenon

\* Comparators touch disjoint pairs of rows of the network.
LEMMA PairsDisjoint ==
  ASSUME Strides, NEW n \in Nat, NEW a \in Comparators(n)
  PROVE  /\ a \in 0..(n - 1) /\ a + k \in 0..(n - 1) /\ (a + k) - k = a
         /\ a + k \notin Comparators(n)
         /\ a - k \notin Comparators(n)
  <1> DEFINE o == k % p
  <1>1. k \in Nat \ {0} /\ o \in Nat
    BY DEF Strides
  <1>2. \A b \in Comparators(n) : b \in Nat /\ o <= b /\ b <= n - k - 1 /\ (b - o) % (2 * k) < k
    BY <1>1 DEF Comparators
  <1>3. ASSUME NEW b \in Comparators(n)
        PROVE  b + k \notin Comparators(n)
    <2>1. b - o \in Nat /\ (b - o) + k = (b + k) - o /\ (b - o) % (2 * k) < k
      BY <1>1, <1>2
    <2>2. ~(((b - o) + k) % (2 * k) < k)
      BY ONLY <1>1, <2>1, HalfMoves
    <2> QED BY <1>2, <2>1, <2>2
  <1>4. a \in Nat /\ a <= n - k - 1
    BY <1>2
  <1>5. (a - k) + k = a
    BY <1>1, <1>4
  <1> QED BY <1>1, <1>3, <1>4, <1>5

-----------------------------------------------------------------------------
(* What a stage does to the rows.                                           *)

\* The keys of n rows.
KeysOf(rs, n) == [a \in 0..(n - 1) |-> PackedKey(rs[a])]

\* The keys of records are numbers.
LEMMA KeyIsNumber ==
  ASSUME NEW r \in Record
  PROVE  PackedKey(r) \in Nat
  <1>1. r.id \in Nat /\ r.pos \in Nat
    BY DEF Record
  <1>2. KeyWidth * KeyWidth \in Nat /\ r.id * KeyWidth \in Nat
    BY <1>1, CircuitBounds
  <1> QED BY <1>1, <1>2 DEF PackedKey

\* A stage exchanges the keys of each comparator that are not in order.
LEMMA StageExchanges ==
  ASSUME Strides, NEW n \in Nat, NEW rs \in [0..(n - 1) -> Record]
  PROVE  Exchanged(KeysOf(rs, n), KeysOf(CompareAndSwap(rs), n), n, k, Comparators(n))
  <1> DEFINE D == 0..(n - 1)
             C == Comparators(n)
             f == KeysOf(rs, n)
             t == CompareAndSwap(rs)
             swapped == {a \in C : PackedKey(rs[a]) > PackedKey(rs[a + k])}
  <1>1. DOMAIN rs = D /\ Cardinality(D) = n
    <2>1. Cardinality(D) = n
      BY FS_Interval
    <2> QED BY <2>1
  <1>2. \A a \in D : t[a] = IF a \in swapped THEN rs[a + k]
                            ELSE IF (a - k) \in swapped THEN rs[a - k]
                            ELSE rs[a]
    BY <1>1 DEF CompareAndSwap
  <1>3. \A a \in D : f[a] = PackedKey(rs[a]) /\ f[a] \in Nat
    BY KeyIsNumber DEF KeysOf
  <1>4. \A a \in D : KeysOf(t, n)[a] = PackedKey(t[a])
    BY DEF KeysOf
  <1>5. \A a \in C : /\ a \in D /\ a + k \in D /\ (a + k) - k = a
                     /\ a + k \notin C /\ a - k \notin C
    BY PairsDisjoint
  <1>6. \A a \in D : (a - k) + k = a
    BY DEF Strides
  <1> HIDE DEF f, t, C, D
  <1>7. ASSUME NEW a \in D
        PROVE  /\ a \in C => KeysOf(t, n)[a] = IF f[a] <= f[a + k] THEN f[a] ELSE f[a + k]
               /\ a \notin C /\ a - k \in C =>
                    KeysOf(t, n)[a] = IF f[a - k] <= f[a] THEN f[a] ELSE f[a - k]
               /\ a \notin C /\ a - k \notin C => KeysOf(t, n)[a] = f[a]
    <2>1. CASE a \in C
      <3>1. a + k \in D /\ a - k \notin C
        BY <1>5, <2>1
      <3>2. /\ f[a] \in Nat /\ f[a] = PackedKey(rs[a])
            /\ f[a + k] \in Nat /\ f[a + k] = PackedKey(rs[a + k])
        BY <1>3, <3>1
      <3>3. t[a] = IF PackedKey(rs[a]) > PackedKey(rs[a + k]) THEN rs[a + k] ELSE rs[a]
        BY <1>2, <2>1, <3>1
      <3>4. KeysOf(t, n)[a] = IF f[a] > f[a + k] THEN f[a + k] ELSE f[a]
        BY <1>4, <3>2, <3>3
      <3>5. KeysOf(t, n)[a] = IF f[a] <= f[a + k] THEN f[a] ELSE f[a + k]
        BY <3>2, <3>4
      <3> QED BY <2>1, <3>5
    <2>2. CASE a \notin C /\ a - k \in C
      <3>1. a - k \in D /\ (a - k) + k = a
        BY <1>5, <1>6, <2>2
      <3>2. /\ f[a] \in Nat /\ f[a] = PackedKey(rs[a])
            /\ f[a - k] \in Nat /\ f[a - k] = PackedKey(rs[a - k])
        BY <1>3, <3>1
      <3>3. t[a] = IF PackedKey(rs[a - k]) > PackedKey(rs[a]) THEN rs[a - k] ELSE rs[a]
        BY <1>2, <2>2, <3>1
      <3>4. KeysOf(t, n)[a] = IF f[a - k] > f[a] THEN f[a - k] ELSE f[a]
        BY <1>4, <3>2, <3>3
      <3>5. KeysOf(t, n)[a] = IF f[a - k] <= f[a] THEN f[a] ELSE f[a - k]
        BY <3>2, <3>4
      <3> QED BY <2>2, <3>5
    <2>3. CASE a \notin C /\ a - k \notin C
      BY <1>2, <1>3, <1>4, <2>3
    <2> QED BY <2>1, <2>2, <2>3
  <1> QED BY <1>7 DEF Exchanged, f, t, C, D

\* Rows in other places are still the rows, each once.
LEMMA StillRearranged ==
  ASSUME NEW n \in Nat, NEW s, NEW rs, Rearranged(s, rs, n),
         NEW place \in [0..(n - 1) -> 0..(n - 1)], \A a \in 0..(n - 1) : place[place[a]] = a,
         NEW t, \A a \in 0..(n - 1) : t[a] = s[place[a]]
  PROVE  Rearranged(t, rs, n)
  <1> DEFINE D == 0..(n - 1)
  <1>1. \A i \in D : place[i] \in D
    OBVIOUS
  <1>2. /\ \A i \in D : s[i].pos \in D /\ s[i] = rs[s[i].pos]
        /\ \A i, m \in D : s[i].pos = s[m].pos => i = m
        /\ \A j \in D : \E i \in D : s[i].pos = j
    BY DEF Rearranged
  <1> HIDE DEF D
  <1>3. ASSUME NEW i \in D
        PROVE  t[i].pos \in D /\ t[i] = rs[t[i].pos]
    <2>1. t[i] = s[place[i]] /\ place[i] \in D
      BY <1>1 DEF D
    <2>2. s[place[i]].pos \in D /\ s[place[i]] = rs[s[place[i]].pos]
      BY <1>2, <2>1
    <2> QED BY <2>1, <2>2, Zenon
  <1>4. ASSUME NEW i \in D, NEW m \in D, t[i].pos = t[m].pos
        PROVE  i = m
    <2>1. s[place[i]].pos = s[place[m]].pos
      BY <1>4 DEF D
    <2>2. place[i] = place[m]
      BY <1>1, <1>2, <2>1
    <2> QED BY <2>2 DEF D
  <1>5. ASSUME NEW j \in D
        PROVE  \E i \in D : t[i].pos = j
    <2>1. PICK i \in D : s[i].pos = j
      BY <1>2
    <2>2. t[place[i]] = s[i] /\ place[i] \in D
      BY <1>1 DEF D
    <2> QED BY <2>1, <2>2
  <1> QED BY <1>3, <1>4, <1>5 DEF Rearranged, D

\* A stage puts the rows in other places.
LEMMA StageRearranges ==
  ASSUME Strides, NEW n \in Nat, NEW rs \in [0..(n - 1) -> Record],
         NEW board, Rearranged(rs, board, n)
  PROVE  /\ CompareAndSwap(rs) \in [0..(n - 1) -> Record]
         /\ Rearranged(CompareAndSwap(rs), board, n)
  <1> DEFINE D == 0..(n - 1)
             C == Comparators(n)
             t == CompareAndSwap(rs)
             swapped == {a \in C : PackedKey(rs[a]) > PackedKey(rs[a + k])}
             place == [a \in D |-> IF a \in swapped THEN a + k
                                   ELSE IF (a - k) \in swapped THEN a - k
                                   ELSE a]
  <1>1. DOMAIN rs = D /\ Cardinality(D) = n
    <2>1. Cardinality(D) = n
      BY FS_Interval
    <2> QED BY <2>1
  <1>2. t = [a \in D |-> IF a \in swapped THEN rs[a + k]
                         ELSE IF (a - k) \in swapped THEN rs[a - k]
                         ELSE rs[a]]
    BY <1>1 DEF CompareAndSwap
  <1>3. \A a \in C : /\ a \in D /\ a + k \in D /\ (a + k) - k = a
                     /\ a + k \notin C /\ a - k \notin C
    BY PairsDisjoint
  <1>4. \A a \in D : (a - k) + k = a
    BY DEF Strides
  <1>5. \A a \in D : rs[a] \in Record
    OBVIOUS
  <1>6. swapped \subseteq C
    OBVIOUS
  <1> HIDE DEF C, D, swapped
  <1>7. place \in [D -> D]
    BY <1>3, <1>6
  <1>8. ASSUME NEW a \in D
        PROVE  place[place[a]] = a /\ t[a] = rs[place[a]]
    <2>1. CASE a \in swapped
      <3>1. a + k \in D /\ a + k \notin swapped /\ (a + k) - k = a
        BY <1>3, <1>6, <2>1
      <3> QED BY <1>2, <2>1, <3>1
    <2>2. CASE a \notin swapped /\ (a - k) \in swapped
      <3>1. a - k \in D /\ (a - k) + k = a
        BY <1>3, <1>4, <1>6, <2>2
      <3> QED BY <1>2, <2>2, <3>1
    <2>3. CASE a \notin swapped /\ (a - k) \notin swapped
      BY <1>2, <2>3
    <2> QED BY <2>1, <2>2, <2>3
  <1> HIDE DEF place, t
  <1>9. \A a \in D : t[a] \in Record
    BY <1>5, <1>7, <1>8
  <1>10. t \in [D -> Record]
    BY <1>2, <1>9
  <1>11. Rearranged(t, board, n)
    BY <1>7, <1>8, StillRearranged DEF D
  <1> QED BY <1>10, <1>11 DEF t, D

-----------------------------------------------------------------------------
(* The invariant of the network.                                            *)

\* What the network was loaded with, and how far it has merged.
NetworkInv ==
  /\ admitted \in Seq(Com)
  /\ p \in PowersOfTwo /\ k \in PowersOfTwo
  /\ k <= p /\ IsMultiple(2 * p, 2 * k)
  /\ ~Loaded => p = 1 /\ k = 1
  /\ Loaded =>
       /\ NumVoters < KeyWidth /\ RowsFetchable(admitted)
       /\ Width \in Slots /\ Len(admitted) <= Width
       /\ rows \in [0..(Width - 1) -> Record]
       /\ Rearranged(rows, RowsOf(admitted, Width), Width)
       /\ k < p => p < Width
       /\ k = p => Merged(KeysOf(rows, Width), Width, 1, p)
       /\ k < p => Merged(KeysOf(rows, Width), Width, 2 * k, 2 * p)

\* Rows of a circuit are records, each at its own position.
LEMMA RowsAreRecords ==
  ASSUME NEW adm \in Seq(Com), NEW n \in Nat, RowsFetchable(adm)
  PROVE  /\ RowsOf(adm, n) \in [0..(n - 1) -> Record]
         /\ Rearranged(RowsOf(adm, n), RowsOf(adm, n), n)
  <1> DEFINE R == RowsOf(adm, n)
  <1>1. ASSUME NEW j \in 0..(n - 1)
        PROVE  R[j] \in Record /\ R[j].pos = j
    <2>1. CASE j < Len(adm)
      <3>1. adm[j + 1] \in Com /\ j \in Nat /\ R[j] = EvalRow(adm[j + 1], j)
        BY <2>1 DEF RowsOf
      <3>2. Opening[adm[j + 1]].id < NumVoters => Reg[Opening[adm[j + 1]].id].pathOk
        BY <2>1 DEF RowsFetchable
      <3>3. /\ R[j].valid \in BOOLEAN /\ R[j].pos = j
            /\ R[j].valid => R[j].id \in Voter
            /\ ~R[j].valid => R[j].id = 0
        BY <3>1, <3>2, RowIsRecord
      <3>4. R[j].id \in Nat
        BY <3>3, VotersAssumption DEF Voter
      <3>5. R[j].cand \in Nat
        BY <3>1, VotersAssumption DEF EvalRow, Candidate
      <3>6. R[j] = [valid |-> R[j].valid, id |-> R[j].id, pos |-> R[j].pos, cand |-> R[j].cand]
        BY <3>1 DEF EvalRow
      <3> QED BY <3>1, <3>3, <3>4, <3>5, <3>6 DEF Record
    <2>2. CASE ~(j < Len(adm))
      BY <2>2 DEF RowsOf, PaddingRow, Record
    <2> QED BY <2>1, <2>2
  <1>2. R \in [0..(n - 1) -> Record]
    BY <1>1 DEF RowsOf
  <1> HIDE DEF R
  <1>3. Rearranged(R, R, n)
    BY <1>1 DEF Rearranged
  <1> QED BY <1>2, <1>3 DEF R

\* A loaded network has a row.
LEMMA WidthOf ==
  ASSUME NEW n \in Nat \ {0}, NEW rs, DOMAIN rs = 0..(n - 1)
  PROVE  rs # NotLoaded /\ Cardinality(DOMAIN rs) = n
  <1>1. Cardinality(0..(n - 1)) = n
    BY FS_Interval
  <1>2. 0 \in DOMAIN rs
    OBVIOUS
  <1>3. DOMAIN NotLoaded = {}
    BY DEF NotLoaded
  <1> QED BY <1>1, <1>2, <1>3

\* Blocks of one row are merged.
LEMMA OneRowMerged ==
  ASSUME NEW f, NEW n \in Nat
  PROVE  Merged(f, n, 1, 1)
  <1>1. \A a \in 0..(n - 1) : BlockOf(a, 1) = a
    BY DEF BlockOf
  <1> QED BY <1>1 DEF Merged

\* It holds before anything is admitted.
LEMMA NetworkAtStart ==
  ASSUME Init
  PROVE  NetworkInv
  <1>1. 1 \in PowersOfTwo
    BY Doubles
  <1>2. IsMultiple(2 * 1, 2 * 1)
    BY DEF IsMultiple
  <1>3. admitted \in Seq(Com)
    BY DEF Init
  <1> QED BY <1>1, <1>2, <1>3 DEF Init, NetworkInv, Loaded

\* The loop variables of batcher_schedule are always a level and a stride.
LEMMA StridesInNetwork ==
  ASSUME NetworkInv
  PROVE  Strides
  BY Halves DEF NetworkInv, Strides

\* The board grows only before the network is loaded.
LEMMA AdmitKeepsNetwork ==
  ASSUME NetworkInv, NEW com \in Com, Admit(com)
  PROVE  NetworkInv'
  <1>1. ~Loaded /\ ~Loaded' /\ p' = p /\ k' = k /\ p = 1 /\ k = 1
    BY DEF Admit, NetworkInv, Loaded
  <1>2. admitted' \in Seq(Com)
    BY DEF Admit, NetworkInv
  <1> QED BY <1>1, <1>2 DEF NetworkInv

\* Loading puts each row of the board, and each padding row, in its own slot.
LEMMA LoadKeepsNetwork ==
  ASSUME NetworkInv, NEW n \in Slots, Load(n)
  PROVE  NetworkInv'
  <1>1. /\ p' = p /\ k' = k /\ p = 1 /\ k = 1 /\ admitted' = admitted
        /\ admitted \in Seq(Com) /\ RowsFetchable(admitted) /\ NumVoters < KeyWidth
        /\ Len(admitted) <= n /\ rows' = RowsOf(admitted, n)
        /\ n \in Nat \ {0}
    BY CircuitBounds DEF Load, NetworkInv, Loaded
  <1>2. /\ rows' \in [0..(n - 1) -> Record]
        /\ Rearranged(rows', RowsOf(admitted, n), n)
    BY <1>1, RowsAreRecords
  <1>3. rows' # NotLoaded /\ Width' = n
    <2>1. DOMAIN rows' = 0..(n - 1)
      BY <1>2
    <2> QED BY <1>1, <2>1, WidthOf DEF Width
  <1>4. Merged(KeysOf(rows', n), n, 1, 1)
    BY <1>1, OneRowMerged
  <1>5. RowsFetchable(admitted)'
    BY <1>1 DEF RowsFetchable
  <1>6. /\ (Rearranged(rows, RowsOf(admitted, Width), Width))'
        /\ (Merged(KeysOf(rows, Width), Width, 1, p))'
    <2>1. Rearranged(rows', RowsOf(admitted', Width'), Width')
      BY <1>1, <1>2, <1>3
    <2>2. Merged(KeysOf(rows', Width'), Width', 1, p')
      BY <1>1, <1>3, <1>4
    <2> QED BY <2>1, <2>2
  <1> QED BY <1>1, <1>2, <1>3, <1>5, <1>6 DEF NetworkInv

\* A stage merges further, and hands the next one what it needs.
LEMMA SortKeepsNetwork ==
  ASSUME NetworkInv, Sort
  PROVE  NetworkInv'
  <1> DEFINE n == Width
             f == KeysOf(rows, n)
             g == KeysOf(CompareAndSwap(rows), n)
  <1>1. /\ Loaded /\ p < n /\ admitted' = admitted /\ rows' = CompareAndSwap(rows) /\ NextStage
        /\ NumVoters < KeyWidth /\ RowsFetchable(admitted) /\ n \in Slots /\ Len(admitted) <= n
        /\ rows \in [0..(n - 1) -> Record]
        /\ Rearranged(rows, RowsOf(admitted, n), n)
        /\ k = p => Merged(f, n, 1, p)
        /\ k < p => Merged(f, n, 2 * k, 2 * p)
        /\ admitted \in Seq(Com)
        /\ p \in PowersOfTwo /\ k \in PowersOfTwo /\ k <= p /\ IsMultiple(2 * p, 2 * k)
    BY DEF NetworkInv, Sort, Sorting
  <1>2. n \in Nat \ {0}
    BY <1>1, CircuitBounds
  <1>3. Strides /\ p \in Nat \ {0} /\ k \in Nat \ {0}
    BY StridesInNetwork DEF Strides
  <1>4. /\ rows' \in [0..(n - 1) -> Record]
        /\ Rearranged(rows', RowsOf(admitted, n), n)
    BY <1>1, <1>2, <1>3, StageRearranges
  <1>5. rows' # NotLoaded /\ Width' = n
    <2>1. DOMAIN rows' = 0..(n - 1)
      BY <1>4
    <2> QED BY <1>2, <2>1, WidthOf DEF Width
  <1>6. f \in [0..(n - 1) -> Int]
    <2>1. \A a \in 0..(n - 1) : PackedKey(rows[a]) \in Int
      BY <1>1, KeyIsNumber
    <2> QED BY <2>1 DEF KeysOf
  <1>7. Exchanged(f, g, n, k, Comparators(n))
    BY <1>1, <1>2, <1>3, StageExchanges
  <1> HIDE DEF n, f, g
  <1>8. Merged(g, n, k, 2 * p)
    <2>1. CASE k = p
      <3>1. Comparators(n) = {a \in 0..(n - k - 1) : BlockOf(a, k) = BlockOf(a, 2 * k)}
        BY <1>2, <1>3, <2>1, FirstComparators
      <3>2. n \in Nat /\ Merged(f, n, 1, k)
        BY <1>1, <1>2, <2>1
      <3> DEFINE upper == Comparators(n)
                 q == 2 * k
      <3>3. upper = {a \in 0..(n - k - 1) : BlockOf(a, k) = BlockOf(a, q)}
        BY <3>1
      <3>4. Exchanged(f, g, n, k, upper)
        BY <1>7
      <3>5. q = 2 * k
        OBVIOUS
      <3> HIDE DEF upper, q
      <3>6. Merged(g, n, k, q)
        BY ONLY <1>3, <1>6, <3>2, <3>3, <3>4, <3>5, FirstStageMerges
      <3> QED BY <2>1, <3>6 DEF q
    <2>2. CASE k < p
      <3>1. Comparators(n) =
              {a \in 0..(n - k - 1) : /\ BlockOf(a, k) # BlockOf(a, 2 * k)
                                      /\ BlockOf(a, 2 * p) = BlockOf(a + k, 2 * p)}
        BY <1>2, <1>3, <2>2, LaterComparators
      <3>2. /\ n \in Nat /\ Merged(f, n, 2 * k, 2 * p)
            /\ IsMultiple(2 * p, 2 * k) /\ 2 * p \in Nat \ {0}
        BY <1>1, <1>2, <1>3, <2>2
      <3> DEFINE upper == Comparators(n)
                 r == 2 * k
                 q == 2 * p
      <3>3. /\ upper = {a \in 0..(n - k - 1) : /\ BlockOf(a, k) # BlockOf(a, r)
                                               /\ BlockOf(a, q) = BlockOf(a + k, q)}
            /\ Exchanged(f, g, n, k, upper)
            /\ r = 2 * k /\ q \in Nat \ {0} /\ IsMultiple(q, r) /\ Merged(f, n, r, q)
        BY <1>7, <3>1, <3>2
      <3> HIDE DEF upper, r, q
      <3>4. Merged(g, n, k, q)
        BY ONLY <1>3, <1>6, <3>2, <3>3, LaterStageMerges
      <3> QED BY <3>4 DEF q
    <2> QED BY <1>1, <1>3, <2>1, <2>2
  <1>9. RowsFetchable(admitted)'
    BY <1>1 DEF RowsFetchable
  <1>10. (Rearranged(rows, RowsOf(admitted, Width), Width))'
    <2>1. Rearranged(rows', RowsOf(admitted', Width'), Width')
      BY <1>1, <1>4, <1>5
    <2> QED BY <2>1
  <1>11. g = KeysOf(rows', Width')
    BY <1>1, <1>5 DEF g, n
  <1>12. CASE k > 1
    <2>1. PICK h \in PowersOfTwo : k = 2 * h /\ h < k /\ k \div 2 = h
      BY <1>1, <1>12, Halves
    <2>2. k' = h /\ p' = p
      BY <1>1, <1>12, <2>1 DEF NextStage
    <2>3. h \in Nat \ {0}
      BY <2>1, Halves
    <2>4. IsMultiple(2 * p', 2 * k')
      <3>1. IsMultiple(2 * p, 2 * (2 * h))
        BY <1>1, <2>1
      <3>2. 2 * p \in Nat /\ 2 * h \in Nat
        BY <1>3, <2>3
      <3>3. IsMultiple(2 * p, 2 * h)
        BY ONLY <3>1, <3>2, HalfDivides
      <3> QED BY <2>2, <3>3
    <2>5. k' < p' /\ p' < Width' /\ 2 * k' = k
      BY <1>1, <1>3, <1>5, <2>1, <2>2, <2>3 DEF n
    <2>6. (Merged(KeysOf(rows, Width), Width, 2 * k, 2 * p))'
      <3>1. Merged(KeysOf(rows', Width'), Width', 2 * k', 2 * p')
        BY <1>5, <1>8, <1>11, <2>2, <2>5
      <3> QED BY <3>1
    <2> QED BY <1>1, <1>3, <1>4, <1>5, <1>9, <1>10, <2>1, <2>2, <2>3, <2>4, <2>5, <2>6
        DEF NetworkInv, Loaded
  <1>13. CASE ~(k > 1)
    <2>1. k = 1 /\ p' = 2 * p /\ k' = 2 * p
      BY <1>1, <1>3, <1>13 DEF NextStage
    <2>2. 2 * p \in PowersOfTwo
      BY <1>1, Doubles
    <2>3. IsMultiple(2 * p', 2 * k')
      BY <2>1 DEF IsMultiple
    <2>4. (Merged(KeysOf(rows, Width), Width, 1, p))'
      <3>1. Merged(KeysOf(rows', Width'), Width', 1, p')
        BY <1>5, <1>8, <1>11, <2>1
      <3> QED BY <3>1
    <2>5. k' = p' /\ k' <= p' /\ ~(k' < p')
      BY <1>3, <2>1
    <2> QED BY <1>1, <1>3, <1>4, <1>5, <1>9, <1>10, <2>1, <2>2, <2>3, <2>4, <2>5
        DEF NetworkInv, Loaded
  <1> QED BY <1>3, <1>12, <1>13

\* What the network was loaded with, and how far it has merged, is so in every
\* state.
LEMMA NetworkInvariant == Spec => []NetworkInv
  <1>1. NetworkInv /\ [Next]_vars => NetworkInv'
    <2> SUFFICES ASSUME NetworkInv, [Next]_vars PROVE NetworkInv'
      OBVIOUS
    <2>1. CASE \E com \in Com : Admit(com)
      BY <2>1, AdmitKeepsNetwork
    <2>2. CASE \E n \in Slots : Load(n)
      BY <2>2, LoadKeepsNetwork
    <2>3. CASE Sort
      BY <2>3, SortKeepsNetwork
    <2>4. CASE UNCHANGED vars
      <3>1. admitted' = admitted /\ rows' = rows /\ p' = p /\ k' = k
        BY <2>4 DEF vars
      <3> QED BY <3>1 DEF NetworkInv, Loaded, Width, RowsFetchable
    <2> QED BY <2>1, <2>2, <2>3, <2>4 DEF Next
  <1> QED BY <1>1, NetworkAtStart, PTL DEF Spec

-----------------------------------------------------------------------------
(* What the network guarantees.                                             *)

\* mock_backend.rs batcher_schedule, Rec: the rows of the network are records
\* throughout, and a stage is never wider than its level.
THEOREM CircuitTypeOK == Spec => []TypeOK
  <1>1. ASSUME NetworkInv
        PROVE  TypeOK
    <2>1. p \in Nat \ {0} /\ k \in Nat \ {0} /\ k <= p
      BY <1>1, StridesInNetwork DEF Strides
    <2>2. admitted \in Seq(Com) /\ (Loaded => rows \in [0..(Width - 1) -> Record])
      BY <1>1 DEF NetworkInv
    <2> HIDE DEF Loaded, Width
    <2>3. k \in 1..p
      BY <2>1
    <2> QED BY <2>1, <2>2, <2>3, Zenon DEF TypeOK
  <1> QED BY <1>1, NetworkInvariant, PTL

\* Keys of rearranged rows differ: positions differ, and fit in their digit.
LEMMA KeysDiffer ==
  ASSUME NEW n \in Nat, n <= KeyWidth,
         NEW rs \in [0..(n - 1) -> Record], NEW board, Rearranged(rs, board, n),
         NEW a \in 0..(n - 1), NEW b \in 0..(n - 1), a # b
  PROVE  PackedKey(rs[a]) # PackedKey(rs[b])
  <1> DEFINE x == rs[a]
             y == rs[b]
             W == KeyWidth
             u == (IF x.valid THEN 0 ELSE KeyWidth) + x.id
             v == (IF y.valid THEN 0 ELSE KeyWidth) + y.id
             uW == u * W
             vW == v * W
  <1>1. /\ x.id \in Nat /\ x.pos \in Nat /\ x.pos < W
        /\ y.id \in Nat /\ y.pos \in Nat /\ y.pos < W
        /\ x.pos # y.pos /\ W \in Nat \ {0}
    <2>1. x.pos \in 0..(n - 1) /\ y.pos \in 0..(n - 1) /\ x.pos # y.pos
      BY DEF Rearranged
    <2>2. x \in Record /\ y \in Record
      OBVIOUS
    <2>3. x.id \in Nat /\ y.id \in Nat
      BY <2>2 DEF Record
    <2>4. W \in Nat
      BY CircuitBounds
    <2> QED BY <2>1, <2>3, <2>4
  <1>2. u \in Nat /\ v \in Nat
    BY <1>1
  <1>3. PackedKey(x) = uW + x.pos /\ PackedKey(y) = vW + y.pos
    <2>1. \A i \in Nat : (KeyWidth + i) * W = KeyWidth * W + i * W /\ (0 + i) * W = 0 + i * W
      BY <1>1
    <2>2. KeyWidth * W \in Nat /\ x.id * W \in Nat /\ y.id * W \in Nat
      BY <1>1
    <2> HIDE DEF x, y
    <2> QED BY <1>1, <2>1, <2>2 DEF PackedKey
  <1>4. W \in Nat \ {0}
    BY <1>1
  <1> HIDE DEF x, y, u, v, W
  <1>5. /\ uW \in Nat /\ vW \in Nat
        /\ u < v <=> uW + W <= vW
        /\ v < u <=> vW + W <= uW
        /\ u = v <=> uW = vW
    BY <1>2, <1>4, MultiplesApart, Zenon
  <1> HIDE DEF uW, vW
  <1>6. uW + x.pos # vW + y.pos
    BY ONLY <1>1, <1>2, <1>5
  <1>7. PackedKey(x) # PackedKey(y)
    BY ONLY <1>3, <1>6
  <1> QED BY <1>7 DEF x, y

\* mock_backend.rs batcher_schedule: for every number of slots, a power of two
\* or not, every level of the network leaves its blocks sorted.
THEOREM BlocksAreAlwaysMerged == Spec => []BlocksAreMerged
  <1>1. ASSUME NetworkInv
        PROVE  BlocksAreMerged
    <2> SUFFICES ASSUME Loaded, k = p, NEW a \in DOMAIN rows, NEW b \in DOMAIN rows,
                        a < b, a \div p = b \div p
                 PROVE  PackedKey(rows[a]) < PackedKey(rows[b])
      BY DEF BlocksAreMerged
    <2> DEFINE n == Width
    <2>1. /\ n \in Slots /\ rows \in [0..(n - 1) -> Record]
          /\ Rearranged(rows, RowsOf(admitted, n), n)
          /\ Merged(KeysOf(rows, n), n, 1, p)
      BY <1>1 DEF NetworkInv
    <2>2. n \in Nat \ {0} /\ n <= KeyWidth
      BY <2>1, CircuitBounds
    <2> HIDE DEF n
    <2>3. p \in Nat \ {0}
      BY <1>1, StridesInNetwork DEF Strides
    <2>4. a \in 0..(n - 1) /\ b \in 0..(n - 1) /\ a \in Nat /\ b \in Nat
      BY <2>1, <2>2
    <2>5. BlockOf(a, p) = BlockOf(b, p)
      BY <2>3, <2>4, BlocksApart
    <2>6. b - a >= 1
      BY <2>4
    <2>7. PackedKey(rows[a]) <= PackedKey(rows[b])
      BY <2>1, <2>4, <2>5, <2>6 DEF Merged, KeysOf
    <2>8. PackedKey(rows[a]) # PackedKey(rows[b])
      BY <2>1, <2>2, <2>4, KeysDiffer
    <2>9. PackedKey(rows[a]) \in Nat /\ PackedKey(rows[b]) \in Nat
      BY <2>1, <2>4, KeyIsNumber
    <2> QED BY <2>7, <2>8, <2>9
  <1> QED BY <1>1, NetworkInvariant, PTL

\* mock_backend.rs:1-3, witness.rs build_tally_witness: once sorted, the circuit
\* counts exactly what FilterAndTally counts of the board that was loaded.
THEOREM CircuitIsAlwaysExact == Spec => []CircuitIsExact
  <1>1. ASSUME NetworkInv
        PROVE  CircuitIsExact
    <2> SUFFICES ASSUME Loaded, ~Sorting
                 PROVE  CircuitCounts(rows) = FilterAndTally(admitted)
      BY DEF CircuitIsExact
    <2> DEFINE n == Width
               board == RowsOf(admitted, n)
    <2>1. /\ n \in Slots /\ rows \in [0..(n - 1) -> Record]
          /\ NumVoters < KeyWidth /\ RowsFetchable(admitted) /\ Len(admitted) <= n
          /\ admitted \in Seq(Com)
          /\ Rearranged(rows, board, n)
          /\ p \in Nat \ {0} /\ ~(p < n) /\ k <= p /\ (k < p => p < n)
          /\ k = p => Merged(KeysOf(rows, n), n, 1, p)
      BY <1>1, Halves DEF NetworkInv, Sorting
    <2>2. n \in Nat \ {0} /\ n <= KeyWidth /\ KeyWidth \in Nat /\ NumVoters \in Nat
      BY <2>1, CircuitBounds, VotersAssumption
    <2>3. Merged(KeysOf(rows, n), n, 1, p)
      <3>1. k \in Nat
        BY <1>1, StridesInNetwork DEF Strides
      <3> QED BY <2>1, <3>1
    <2>4. HoldsBoard(board, admitted, n)
      BY <2>1, <2>2, RowsHoldBoard
    <2> HIDE DEF n, board
    <2>5. ASSUME NEW i \in 0..(n - 1)
          PROVE  /\ rows[i].valid \in BOOLEAN /\ rows[i].id \in 0..(KeyWidth - 1)
                 /\ rows[i].pos \in 0..(KeyWidth - 1)
      <3>1. rows[i].pos \in 0..(n - 1) /\ rows[i] = board[rows[i].pos]
        BY <2>1 DEF Rearranged
      <3> DEFINE j == rows[i].pos
      <3>2. j \in 0..(n - 1) /\ rows[i] = board[j]
        BY <3>1
      <3> HIDE DEF j
      <3>3. board[j].valid \in BOOLEAN /\ (board[j].id = 0 \/ board[j].id \in Voter)
        BY <2>1, <2>2, <2>4, <3>2, BoardSlot
      <3>4. \A v \in Voter : v \in 0..(KeyWidth - 1)
        BY <2>1, <2>2 DEF Voter
      <3>5. board[j].id \in 0..(KeyWidth - 1)
        BY <2>1, <2>2, <3>3, <3>4
      <3> QED BY <2>2, <3>1, <3>2, <3>3, <3>5
    <2>6. SlotsInOrder(rows, n)
      <3> SUFFICES ASSUME NEW j \in 1..(n - 1) PROVE InOrder(rows[j - 1], rows[j])
        BY DEF SlotsInOrder
      <3>1. j \in 0..(n - 1) /\ j - 1 \in 0..(n - 1) /\ j - 1 < j /\ j - (j - 1) >= 1
        BY <2>2
      <3>2. j \in Nat /\ j - 1 \in Nat /\ j < p
        BY <2>1, <2>2
      <3>3. BlockOf(j, p) = BlockOf(j - 1, p)
        <4>1. \A a \in Nat : a < p => a \div p = 0
          BY <2>1
        <4> QED BY <2>1, <3>2, <4>1 DEF BlockOf
      <3>4. PackedKey(rows[j - 1]) <= PackedKey(rows[j])
        BY <2>3, <3>1, <3>3 DEF Merged, KeysOf
      <3> DEFINE top == KeyWidth * KeyWidth
      <3>5. top \in Nat /\ HasRoom(KeyWidth, KeyWidth, top)
        BY <2>2 DEF HasRoom
      <3>6. \A r : Packed(KeyWidth, top, r) = PackedKey(r)
        BY DEF Packed, PackedKey
      <3> HIDE DEF top
      <3>7. Packed(KeyWidth, top, rows[j - 1]) <= Packed(KeyWidth, top, rows[j])
        BY <3>4, <3>6
      <3>8. /\ rows[j].valid \in BOOLEAN /\ rows[j].id \in 0..(KeyWidth - 1)
            /\ rows[j].pos \in 0..(KeyWidth - 1)
            /\ rows[j - 1].valid \in BOOLEAN /\ rows[j - 1].id \in 0..(KeyWidth - 1)
            /\ rows[j - 1].pos \in 0..(KeyWidth - 1)
        BY <2>5, <3>1
      <3> QED BY ONLY <2>2, <3>5, <3>7, <3>8, PackedOrders
    <2>7. Shuffled(rows, board, n)
      BY <2>1, <2>2, RearrangedIsShuffled
    <2>8. NumVoters \notin Voter
      BY <2>2 DEF Voter
    <2>9. VotesAt(rows, CountedSlots(rows, 0, n, NumVoters)) = FilterAndTally(admitted)
      BY ONLY <2>1, <2>2, <2>4, <2>6, <2>7, <2>8, PassIsTally
    <2>10. Cardinality(DOMAIN rows) = n
      BY DEF n, Width
    <2> QED BY <2>9, <2>10 DEF CircuitCounts
  <1> QED BY <1>1, NetworkInvariant, PTL
=============================================================================
