CONSTANTS
  NONE = NONE
  m1 = m1
  m2 = m2
  Raw = Raw
  Opaque = Opaque
  Pgp = Pgp
  X509Type = X509Type
  alg1 = alg1
  fmtMethod = fmtMethod
  uid1 = uid1
  n1 = n1
  enc1 = enc1
  sdt1 = sdt1
  odt1 = odt1
  skm1 = skm1
  mEnc = mEnc
  mVer = mVer
  Algorithms = {alg1}
  Lengths = {128}
  Materials <- MCMaterials
  Formats <- MCFormats
  SymFormat = Raw
  OpaqueFormat = Opaque
  CertTypes <- MCCertTypes
  X509 = X509Type
  SecretTypes = {sdt1}
  OpaqueTypes = {odt1}
  SplitMethods = {skm1}
  SplitNumbers <- MCSplitNumbers
  WrapMethods = {fmtMethod}
  UIDs = {uid1}
  Nonces = {n1}
  EncodingOptions = {enc1}
  ParamValues <- MCParamValues
  Params <- MCParams
  Masks <- MCMasks
  MaskLists <- MCMaskLists
  NameLists <- MCNameLists
  MaxHops = 4
INIT Init
NEXT Next
CHECK_DEADLOCK FALSE
INVARIANTS
  NoAttributeError
