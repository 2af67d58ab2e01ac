----------------------------- MODULE Admission -----------------------------
(***************************************************************************)
(* How commitments reach the admitted board BB_adm: the anonymous channel,  *)
(* the raw board and Clean (Path 1), and EA-mediated private submission     *)
(* with receipts (Path 2), as the CLI runs them over the election           *)
(* directory.                                                               *)
(*                                                                          *)
(* The state is the directory: one variable per JSON file.  A command is a  *)
(* process of its own: it reads its files (one action, the command's guard  *)
(* and all of its computation), then writes its output files one after the  *)
(* other (WriteFile), in the order of the code.  Nothing locks the          *)
(* directory and nothing makes the writes of a command atomic, so other     *)
(* terminals interleave between them and a crash can fall between any two.  *)
(*                                                                          *)
(* An opening is named by the commitment it opens and a cast proof by the   *)
(* commitment it proves: opening_opens and verify_cast_entry are equality.  *)
(***************************************************************************)
EXTENDS Duplicates, SequencesExt

CONSTANTS
  Terminal,      \* shells in which commands of the CLI run
  PublicBallot,  \* commitments whose owner uses Path 1
  PrivateBallot, \* commitments whose owner uses Path 2
  NoProof,       \* a raw submission without pi_cast
  NoVote,
  MaxSubmitted,  \* bound: a ballot is submitted while channel and BB_raw hold fewer
  MaxEntries,    \* bound: entries on each board
  MaxCrashes     \* bound: crashes in one behaviour

ASSUME PathsAssumption == PublicBallot \subseteq Com /\ PrivateBallot \subseteq Com
ASSUME BoundsAssumption == MaxSubmitted \in Nat /\ MaxEntries \in Nat /\ MaxCrashes \in Nat
ASSUME NoProofAssumption == NoProof \notin Com
ASSUME NoVoteAssumption == NoVote \notin Candidate

VARIABLES
  channel,   \* channel.json: pending raw submissions
  board,     \* public/board.json: BB_raw
  proofs,    \* the pi_cast of each BB_raw entry
  admitted,  \* public/admitted.json: BB_adm
  openings,  \* authority/openings.json: the EA-private openings store
  receipts,  \* receipt files handed to voters
  job,       \* job[p]: the command terminal p is running
  crashes

files == <<channel, board, proofs, admitted, openings, receipts>>
vars == <<channel, board, proofs, admitted, openings, receipts, job, crashes>>

Proof == Com \cup {NoProof}
Submission == [entry : Com, pi : Proof]

File == {"channel", "board", "proofs", "admitted", "openings", "receipt"}

\* Two faulty variants: the channel emptied before its entries are posted; the
\* receipt handed out before the admission is recorded.
ChannelFirst ==
  [ submit |-> <<"channel">>,
    flush  |-> <<"channel", "board", "proofs">>,
    admit  |-> <<"admitted", "openings">>,
    ea     |-> <<"admitted", "openings", "receipt">> ]

ReceiptFirst ==
  [ submit |-> <<"channel">>,
    flush  |-> <<"board", "proofs", "channel">>,
    admit  |-> <<"admitted", "openings">>,
    ea     |-> <<"receipt", "admitted", "openings">> ]

\* The order in which each command writes its files.
WriteOrder ==
  [ submit |-> <<"channel">>,
    flush  |-> <<"board", "proofs", "channel">>,
    admit  |-> <<"admitted", "openings">>,
    ea     |-> <<"admitted", "openings", "receipt">> ]

Command == DOMAIN WriteOrder

\* What a command has computed and not yet written.
Output ==
  [ channel  : Seq(Submission),
    board    : Seq(Com),
    proofs   : Seq(Proof),
    admitted : Seq(Com),
    openings : Seq(Com),
    receipt  : SUBSET Com ]

Nothing ==
  [ channel |-> <<>>, board |-> <<>>, proofs |-> <<>>,
    admitted |-> <<>>, openings |-> <<>>, receipt |-> {} ]

Idle == [cmd |-> "none", done |-> 0, out |-> Nothing]

Job == [cmd : Command \cup {"none"}, done : 0..2, out : Output]

Init ==
  /\ channel = <<>> /\ board = <<>> /\ proofs = <<>>
  /\ admitted = <<>> /\ openings = <<>> /\ receipts = {}
  /\ job = [p \in Terminal |-> Idle]
  /\ crashes = 0

\* Terminal p starts cmd and has computed out.
Start(p, cmd, out) ==
  /\ job[p] = Idle
  /\ job' = [job EXCEPT ![p] = [cmd |-> cmd, done |-> 0, out |-> out]]
  /\ UNCHANGED <<files, crashes>>

-----------------------------------------------------------------------------
(* Path 1: public anonymous cast-ZK.                                        *)

\* `submit`: the ballot with its cast proof joins the channel.  Through the
\* library a submission may also carry no proof.
Submit(p, com, pi) ==
  /\ pi \in {com, NoProof}
  /\ Len(channel) + Len(board) < MaxSubmitted
  /\ Start(p, "submit",
           [Nothing EXCEPT !.channel = Append(channel, [entry |-> com, pi |-> pi])])

Shuffles(s) ==
  {[i \in DOMAIN s |-> s[f[i]]] : f \in {g \in [DOMAIN s -> DOMAIN s] : IsInjective(g)}}

\* Three faulty variants: the proofs queued in submission order, the entries
\* posted in front of the older ones, the proofs forgotten.
FlushUnpaired(p) ==
  /\ Len(board) + Len(channel) <= MaxEntries
  /\ \E subs \in Shuffles(channel) :
       Start(p, "flush",
             [Nothing EXCEPT
                !.board  = board \o [i \in DOMAIN subs |-> subs[i].entry],
                !.proofs = proofs \o [i \in DOMAIN channel |-> channel[i].pi]])

FlushPrepends(p) ==
  /\ Len(board) + Len(channel) <= MaxEntries
  /\ \E subs \in Shuffles(channel) :
       Start(p, "flush",
             [Nothing EXCEPT
                !.board  = [i \in DOMAIN subs |-> subs[i].entry] \o board,
                !.proofs = [i \in DOMAIN subs |-> subs[i].pi] \o proofs])

FlushDropsProofs(p) ==
  /\ Len(board) + Len(channel) <= MaxEntries
  /\ \E subs \in Shuffles(channel) :
       Start(p, "flush",
             [Nothing EXCEPT
                !.board  = board \o [i \in DOMAIN subs |-> subs[i].entry],
                !.proofs = proofs \o [i \in DOMAIN subs |-> NoProof]])

\* `flush-channel`: release every pending submission in a random order, post
\* the entries on BB_raw and the proofs beside it, empty the channel.
FlushChannel(p) ==
  /\ Len(board) + Len(channel) <= MaxEntries
  /\ \E subs \in Shuffles(channel) :
       Start(p, "flush",
             [Nothing EXCEPT
                !.board  = board \o [i \in DOMAIN subs |-> subs[i].entry],
                !.proofs = proofs \o [i \in DOMAIN subs |-> subs[i].pi]])

\* Clean keeps, in board order, the entries whose proof verifies.
Verifies(raw, pis, i) == pis[i] = raw[i]

\* A faulty variant: the proofs' own commitments, verified or not.
CleanUnverified(raw, pis) == pis

Kept(raw, pis) == {i \in DOMAIN raw : Verifies(raw, pis, i)}

\* Of a set of positions, those up to i, and the k-th.
UpTo(S, i) == {j \in S : j <= i}
NthOf(S, k) == CHOOSE i \in S : Cardinality(UpTo(S, i)) = k

Clean(raw, pis) ==
  [k \in 1..Cardinality(Kept(raw, pis)) |-> raw[NthOf(Kept(raw, pis), k)]]

\* Two faulty variants: openings decrypted from the first entries of BB_raw
\* instead of the kept ones; Clean's result appended to the old BB_adm.
AdmitFirstOpenings(p) ==
  /\ Len(proofs) = Len(board)
  /\ LET adm == Clean(board, proofs)
     IN  Start(p, "admit", [Nothing EXCEPT !.admitted = adm,
                                           !.openings = SubSeq(board, 1, Len(adm))])

AdmitAppends(p) ==
  /\ Len(proofs) = Len(board)
  /\ LET adm == admitted \o Clean(board, proofs)
     IN  Start(p, "admit", [Nothing EXCEPT !.admitted = adm, !.openings = adm])

\* `admit-board`: BB_adm := Clean(BB_raw) and the openings decrypted from the
\* kept entries, both REPLACING the files.  Fails when the raw board and the
\* proofs differ in length.
AdmitBoard(p) ==
  /\ Len(proofs) = Len(board)
  /\ LET adm == Clean(board, proofs)
     IN  Start(p, "admit", [Nothing EXCEPT !.admitted = adm, !.openings = adm])

-----------------------------------------------------------------------------
(* Path 2: EA-mediated private submission.                                  *)

\* Two faulty variants: the opening check dropped; the stored state not read
\* back before the admission.
EaUnchecked(p, com, opening) ==
  /\ Len(admitted) < MaxEntries
  /\ Start(p, "ea",
           [Nothing EXCEPT !.admitted = Append(admitted, com),
                           !.openings = Append(openings, opening),
                           !.receipt  = {com}])

EaFromScratch(p, com, opening) ==
  /\ opening = com
  /\ Start(p, "ea",
           [Nothing EXCEPT !.admitted = <<com>>, !.openings = <<opening>>, !.receipt = {com}])

\* `ea-submit`: com and its opening are appended to what the files hold, and
\* a receipt is signed.  An opening that does not open com is refused.
EaSubmit(p, com, opening) ==
  /\ opening = com
  /\ Len(admitted) < MaxEntries
  /\ Start(p, "ea",
           [Nothing EXCEPT !.admitted = Append(admitted, com),
                           !.openings = Append(openings, opening),
                           !.receipt  = {com}])

-----------------------------------------------------------------------------
(* The judge's rulings on a ballot that is said not to be recorded          *)
(* (recorded_as_cast.rs); they read the files and write none.               *)

\* Path 1, from the raw board: is there a matching entry with a proof that
\* verifies?  A proof that the proofs file lacks is no proof.
AdjudicateRecordedAsCast(com) ==
  IF \E i \in DOMAIN board : /\ board[i] = com
                            /\ i \in DOMAIN proofs
                            /\ Verifies(board, proofs, i)
    THEN "VoterFaulty"
    ELSE "Undetermined"

\* Path 2, from the admitted board, for the holder of a genuine receipt.
AdjudicateAdmissionReceipt(com) ==
  IF com \in Range(admitted) THEN "VoterFaulty" ELSE "AuthorityFaulty"

-----------------------------------------------------------------------------
(* The writes of a running command, and its death between two of them.      *)

NextFile(p) == WriteOrder[job[p].cmd][job[p].done + 1]

Advance(j) ==
  IF j.done + 1 = Len(WriteOrder[j.cmd]) THEN Idle ELSE [j EXCEPT !.done = j.done + 1]

WriteFile(p) ==
  /\ job[p] # Idle
  /\ LET f == NextFile(p)
         out == job[p].out
     IN  /\ channel'  = IF f = "channel"  THEN out.channel  ELSE channel
         /\ board'    = IF f = "board"    THEN out.board    ELSE board
         /\ proofs'   = IF f = "proofs"   THEN out.proofs   ELSE proofs
         /\ admitted' = IF f = "admitted" THEN out.admitted ELSE admitted
         /\ openings' = IF f = "openings" THEN out.openings ELSE openings
         /\ receipts' = IF f = "receipt"  THEN receipts \cup out.receipt ELSE receipts
  /\ job' = [job EXCEPT ![p] = Advance(job[p])]
  /\ UNCHANGED crashes

Crash(p) ==
  /\ job[p] # Idle
  /\ crashes < MaxCrashes
  /\ crashes' = crashes + 1
  /\ job' = [job EXCEPT ![p] = Idle]
  /\ UNCHANGED files

-----------------------------------------------------------------------------

PublicCommand(p) ==
  \/ \E com \in PublicBallot, pi \in Proof : Submit(p, com, pi)
  \/ FlushChannel(p)
  \/ AdmitBoard(p)

PrivateCommand(p) ==
  \E com \in PrivateBallot, opening \in Com : EaSubmit(p, com, opening)

\* Which path an election has begun to use.
PublicInUse ==
  \/ channel # <<>> \/ board # <<>>
  \/ \E p \in Terminal : job[p].cmd \in {"submit", "flush", "admit"}

PrivateInUse ==
  \/ admitted # <<>> /\ board = <<>>
  \/ \E p \in Terminal : job[p].cmd = "ea"

\* An election that admits through Path 1, through Path 2, through the path
\* its first command opened, or through whichever command is typed next.
PublicNext  == \E p \in Terminal : PublicCommand(p) \/ WriteFile(p) \/ Crash(p)
PrivateNext == \E p \in Terminal : PrivateCommand(p) \/ WriteFile(p) \/ Crash(p)
OnePathNext == \E p \in Terminal :
                 \/ ~PrivateInUse /\ PublicCommand(p)
                 \/ ~PublicInUse /\ PrivateCommand(p)
                 \/ WriteFile(p)
                 \/ Crash(p)
MixedNext   == \E p \in Terminal :
                 PublicCommand(p) \/ PrivateCommand(p) \/ WriteFile(p) \/ Crash(p)

PublicSpec  == Init /\ [][PublicNext]_vars
PrivateSpec == Init /\ [][PrivateNext]_vars
OnePathSpec == Init /\ [][OnePathNext]_vars
MixedSpec   == Init /\ [][MixedNext]_vars

\* A command that runs finishes; the operator keeps flushing and admitting.
PublicFairSpec ==
  /\ PublicSpec
  /\ \A p \in Terminal :
       /\ WF_vars(WriteFile(p))
       /\ SF_vars(FlushChannel(p))
       /\ SF_vars(AdmitBoard(p))

\* The same of an election that may also turn out to use Path 2: SF of
\* FlushChannel(p) and of AdmitBoard(p), with the states that enable them
\* written out.
Starts(p, cmd) == job[p] = Idle /\ job'[p].cmd = cmd

OnePathFairSpec ==
  /\ OnePathSpec
  /\ \A p \in Terminal :
       /\ WF_vars(WriteFile(p))
       /\ []<>(job[p] = Idle /\ ~PrivateInUse /\ Len(board) + Len(channel) <= MaxEntries)
            => []<><<Starts(p, "flush")>>_vars
       /\ []<>(job[p] = Idle /\ ~PrivateInUse /\ Len(board) = Len(proofs))
            => []<><<Starts(p, "admit")>>_vars

-----------------------------------------------------------------------------

TypeOK ==
  /\ channel \in Seq(Submission)
  /\ board \in Seq(Com)
  /\ proofs \in Seq(Proof)
  /\ admitted \in Seq(Com)
  /\ openings \in Seq(Com)
  /\ receipts \subseteq Com
  /\ job \in [Terminal -> Job]
  /\ crashes \in 0..MaxCrashes

-----------------------------------------------------------------------------
(* Properties of both paths.                                                *)

\* admission.rs:38-39: "openings[j] opens admitted.coms[j]".  Between commands
\* the openings store is aligned with the admitted board, until a crash.
StoreAligned == crashes = 0 /\ (\A p \in Terminal : job[p] = Idle) => openings = admitted

\* filter_and_tally compares only the two lengths before it opens entry by
\* entry: whenever that check passes, every stored opening opens its
\* commitment, so a torn pair of files is refused at once and never opened.
TallyableMeansAligned == Len(admitted) = Len(openings) => openings = admitted

\* The first valid ballot of a voter decides, once and for all: admission
\* implements FirstValidCounts, whose cells are read off the admitted board.
Cells == INSTANCE FirstValidCounts WITH choice <- ChoiceOn(admitted, NoVote)

ImplementsFirstValidCounts == Cells!Spec

(* Path 1.                                                                  *)

\* A pending submission leaves the channel only for the boards: no step, a
\* crash between two of the flush's writes included, loses a ballot or its
\* proof.
ChannelNeverLoses ==
  [][\A s \in Range(channel) :
       \/ s \in Range(channel')
       \/ s.entry \in Range(board') /\ s.pi \in Range(proofs')]_vars

\* admission.rs:7-8: anyone recomputes BB_adm = Clean(BB_raw).  The admitted
\* board of Path 1 is Clean of the raw board as it stood at some earlier moment.
PubliclyRecomputable ==
  ~PrivateInUse =>
  \E n \in 0..Len(board) :
    /\ n <= Len(proofs)
    /\ admitted = Clean(SubSeq(board, 1, n), SubSeq(proofs, 1, n))

\* Clean accepts the raw board when the two lengths agree: whenever they do,
\* every proof stands beside the entry it was submitted with, so that no
\* entry is dropped because of another's proof.
CleanableMeansAligned ==
  Len(board) = Len(proofs) => \A i \in DOMAIN board : proofs[i] \in {board[i], NoProof}

\* Every proven submission that reached the channel is eventually admitted,
\* whatever crashes, unless a crash has left a raw board and proofs that Clean
\* refuses for good (admission.rs:73-79).
EventuallyAdmitted ==
  \A com \in PublicBallot :
    [entry |-> com, pi |-> com] \in Range(channel) ~>
      com \in Range(admitted) \/ [](Len(board) # Len(proofs))

\* recorded_as_cast.rs:129-130: a complaint is unfounded because "public Clean
\* admits it".  What is ruled unfounded is eventually admitted.
UnfoundedIsAdmitted ==
  \A com \in PublicBallot :
    AdjudicateRecordedAsCast(com) = "VoterFaulty" ~> com \in Range(admitted)

(* Path 2.                                                                  *)

\* A receipt is never issued for a commitment that BB_adm does not hold, and
\* the commitment never leaves it: this EA admits what it receipts, and no
\* receipt holder can have it ruled faulty (recorded_as_cast.rs:75-98).
ReceiptedIsAdmitted ==
  \A com \in receipts : AdjudicateAdmissionReceipt(com) # "AuthorityFaulty"
=============================================================================
