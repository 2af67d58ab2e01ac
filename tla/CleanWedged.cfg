SPECIFICATION PublicFairSpec
CONSTANTS
  Com <- PathBallots
  Opening <- PathOpening
  EidHash <- MCEidHash
  Eid = "eid"
  Id <- MCId
  NumVoters = 2
  NumCandidates = 2
  CandidateField <- MCId
  Key <- MCKey
  Nonce <- MCNonce
  NoNonce = "none"
  Reg <- MCReg
  AuthorityNonce <- MCAuthorityNonce
  Terminal = {t1}
  PublicBallot = {"real0"}
  PrivateBallot = {}
  NoProof = NoProof
  NoVote = NoVote
  MaxSubmitted = 2
  MaxEntries = 4
  MaxCrashes = 1
PROPERTY UnfoundedIsAdmitted
CHECK_DEADLOCK FALSE
