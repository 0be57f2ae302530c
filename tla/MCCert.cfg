SPECIFICATION FairSpec
CONSTANTS
  x = x  y = y  z = z
  Certs = {x, y, z}
  Includes <- MCIncludes
  Witness <- MCWitness
  Roots <- MCRoots
  Threads = {t1, t2}
  NoCert = NoCert
INVARIANTS NoPanic NothingMissed
PROPERTIES CertifiesNothingElse CertificationSpreads
CHECK_DEADLOCK FALSE
