SPECIFICATION Spec
CONSTANTS
  Com <- DisputeCom
  Opening <- DisputeOpening
  EidHash <- MCEidHash
  Eid = "eid"
  Id <- MCId
  NumVoters = 2
  NumCandidates = 2
  CandidateField <- MCId
  Key <- MCKey
  Nonce <- MCNonce
  NoNonce = "none"
  Reg <- DisputeReg
  AuthorityNonce <- MCAuthorityNonce
  Forged = Forged
  MaxBoard = 2
INVARIANT NonceTestHiddenBeforeProof
CHECK_DEADLOCK FALSE
