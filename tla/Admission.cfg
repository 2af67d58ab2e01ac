SPECIFICATION OnePathFairSpec
CONSTANTS
  Com <- PathBallots
  Opening <- PathOpening
  EidHash <- MCEidHash
  Eid = "eid"
  Id <- MCId
  NumVoters = 2
  NumCandidates = 2
  CandidateField <- MCId
  Key <- MCKey
  Nonce <- MCNonce
  NoNonce = "none"
  Reg <- MCReg
  AuthorityNonce <- MCAuthorityNonce
  Terminal = {t1}
  PublicBallot = {"real0", "again0", "fake0", "real1"}
  PrivateBallot = {"real0", "again0", "fake0", "real1"}
  NoProof = NoProof
  NoVote = NoVote
  MaxSubmitted = 3
  MaxEntries = 5
  MaxCrashes = 2
INVARIANT TypeOK
INVARIANT StoreAligned
INVARIANT TallyableMeansAligned
INVARIANT PubliclyRecomputable
INVARIANT CleanableMeansAligned
INVARIANT ReceiptedIsAdmitted
PROPERTY ChannelNeverLoses
PROPERTY ImplementsFirstValidCounts
PROPERTY EventuallyAdmitted
CHECK_DEADLOCK FALSE
