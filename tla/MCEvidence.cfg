SPECIFICATION EvidenceSpec
CONSTANTS
  Peers = {a, p1, p2, p3}
  Author = a
  Versions = {v1, v2}
SYMMETRY PeerSymmetry
CHECK_DEADLOCK FALSE
INVARIANTS
  OneCertified
  CertifiedIsSeen
