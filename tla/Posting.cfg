SPECIFICATION FairSpec
CONSTANTS
  Com <- PostedCom
  Opening <- PostedOpening
  EidHash <- MCEidHash
  Eid = "eid"
  Id <- MCId
  NumVoters = 2
  NumCandidates = 2
  CandidateField <- MCId
  Key <- MCKey
  Nonce <- MCNonce
  NoNonce = "none"
  Reg <- MCReg
  AuthorityNonce <- MCAuthorityNonce
  Forged = Forged
  Terminal = {t1}
  NoFile = NoFile
  MaxBallots = 2
  MaxBoard = 2
  MaxCrashes = 1
INVARIANT TypeOK
INVARIANT VerifiedIsExact
INVARIANT ClearedIsCounted
PROPERTY OnlyAdmissionUnverifies
PROPERTY EventuallyVerifiable
