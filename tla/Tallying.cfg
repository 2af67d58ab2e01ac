SPECIFICATION TranscriptSpec
CONSTANTS
  Com <- MCCom
  Opening <- MCOpening
  EidHash <- MCEidHash
  Eid = "eid"
  Id <- MCId
  NumVoters = 2
  NumCandidates = 2
  CandidateField <- MCId
  Key <- MCKey
  Nonce <- MCNonce
  NoNonce = "none"
  Reg <- MCReg
  AuthorityNonce <- MCAuthorityNonce
  NoVote = NoVote
  MaxBoard = 4
  ChunkSizes = {1, 2, 4}
  IdLimit = 4
  PosLimit = 4
  MaxTampered = 3
  Worker = {w1, w2}
  NoTranscript = NoTranscript
  NoProof = NoProof
  Idle = Idle
  Gone = Gone
  MaxPosted = 2
SYMMETRY MCSymmetry
INVARIANT TypeOK
INVARIANT SortedIsNaive
INVARIANT TallyIsOfFirstChoices
PROPERTY AdmissionAddsAtMostOne
INVARIANT RunsAddUp
INVARIANT HonestIsVerified
INVARIANT AcceptedIsExact
INVARIANT VerifiedTranscriptIsExact
CHECK_DEADLOCK FALSE
