--------------------------- MODULE ProviderInputs ---------------------------
(***************************************************************************)
(* What the three input providers of collaborative proving (zk/tier3.rs)    *)
(* hand in: the opening provider the claimed identities and their public    *)
(* rows, two authorities one Shamir share each of every ballot's R_EA.  The *)
(* circuit combines the two shares of a slot itself (LagrangeCombineT2).    *)
(*                                                                          *)
(* A board is the sequence of the identities its openings claim; one of     *)
(* NumVoters or more is no voter's.  Slots are numbered from 0.             *)
(***************************************************************************)
EXTENDS Integers, SequencesExt

CONSTANTS
  FieldOrder,   \* the order of the prime field
  NumVoters,
  NonceShares,  \* k of (t, k): shares dealt per voter
  NoncePoly     \* NoncePoly[id]: coefficients of the sharing polynomial of R_EA

ASSUME SharesAssumption ==
  /\ FieldOrder \in Nat \ {0} /\ NumVoters \in Nat /\ NonceShares \in Nat
  /\ \A id \in 0..(NumVoters - 1) : NoncePoly[id] \in Seq(0..(FieldOrder - 1))

\* authority.r_ea(id): the value at 0.
REa(id) == NoncePoly[id][1]

\* sec.r_ea_shares[x - 1]: the value at x.
Share(id, x) == FoldRight(LAMBDA c, acc : (c + x * acc) % FieldOrder, NoncePoly[id], 0)

\* A faulty variant: the second and the third share.
LaterShares(id) ==
  IF id < NumVoters /\ NonceShares >= 2 THEN <<Share(id, 2), Share(id, 3)>> ELSE <<0, 0>>

\* The two shares a claimed identity selects.
SharesOf(id) ==
  IF id < NumVoters /\ NonceShares >= 2 THEN <<Share(id, 1), Share(id, 2)>> ELSE <<0, 0>>

\* LagrangeCombineT2: the value at 0 of the line through the two shares.
Combine(shares) == (2 * shares[1] - shares[2]) % FieldOrder

\* The R_EA of the single prover's witness rows: that of the claimed voter, and
\* 0 where there is no such voter and in padding rows.
WitnessNonce(board, j) ==
  IF j < Len(board) /\ board[j + 1] < NumVoters THEN REa(board[j + 1]) ELSE 0

\* The identity field of a witness row; the dummy plaintext of padding has 0.
ClaimedId(board, j) == IF j < Len(board) THEN board[j + 1] ELSE 0

ChunkSlots(width, k) == (k * width)..((k + 1) * width - 1)

\* chunk_shares: the shares of the slots of chunk k.
ChunkShares(board, width, k) ==
  [j \in ChunkSlots(width, k) |-> SharesOf(ClaimedId(board, j))]

\* and its assertion: what the circuit will combine is the witness's R_EA.
ChunkProvidable(board, width, k) ==
  \A j \in ChunkSlots(width, k) :
    Combine(ChunkShares(board, width, k)[j]) = WitnessNonce(board, j)

\* full_providers: the shares of a circuit of nb slots; nothing is asserted
\* but that the board fits.
FullShares(board, nb) ==
  [j \in 0..(nb - 1) |-> IF j < Len(board) THEN SharesOf(board[j + 1]) ELSE <<0, 0>>]

FullProvidable(board, nb) == Len(board) <= nb
=============================================================================
