SPECIFICATION MixedSpec
CONSTANTS
  Com <- PathBallots
  Opening <- PathOpening
  EidHash <- MCEidHash
  Eid = "eid"
  Id <- MCId
  NumVoters = 2
  NumCandidates = 2
  CandidateField <- MCId
  Key <- MCKey
  Nonce <- MCNonce
  NoNonce = "none"
  Reg <- MCReg
  AuthorityNonce <- MCAuthorityNonce
  Terminal = {t1}
  PublicBallot = {"real0"}
  PrivateBallot = {"real1"}
  NoProof = NoProof
  NoVote = NoVote
  MaxSubmitted = 2
  MaxEntries = 2
  MaxCrashes = 0
INVARIANT ReceiptedIsAdmitted
CHECK_DEADLOCK FALSE
