SPECIFICATION Spec
CONSTANTS
  Com <- CircuitCom
  Opening <- CircuitOpening
  EidHash <- MCEidHash
  Eid = "eid"
  Id <- MCId
  NumVoters = 2
  NumCandidates = 2
  CandidateField <- MCId
  Key <- MCKey
  Nonce <- MCNonce
  NoNonce = "none"
  Reg <- MCReg
  AuthorityNonce <- MCAuthorityNonce
  MaxBoard = 8
  Slots = {5, 7, 8}
  KeyWidth = 8
INVARIANT TypeOK
INVARIANT BlocksAreMerged
INVARIANT CircuitIsExact
CHECK_DEADLOCK FALSE
