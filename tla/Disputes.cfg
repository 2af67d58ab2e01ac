SPECIFICATION Spec
CONSTANTS
  Com <- DisputeCom
  Opening <- DisputeOpening
  EidHash <- MCEidHash
  Eid = "eid"
  Id <- MCId
  NumVoters = 2
  NumCandidates = 2
  CandidateField <- MCId
  Key <- MCKey
  Nonce <- MCNonce
  NoNonce = "none"
  Reg <- DisputeReg
  AuthorityNonce <- MCAuthorityNonce
  Forged = Forged
  MaxBoard = 3
INVARIANT TypeOK
INVARIANT OpeningsCannotSteer
INVARIANT JudgeAgreesWithTally
INVARIANT NonceTestHiddenWhenVerified
CHECK_DEADLOCK FALSE
