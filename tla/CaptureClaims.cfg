SPECIFICATION Spec
CONSTANTS
  sa = sa
  Launch = {a1, a2}
  Session <- MCSession
  SessionOf <- MCSessionOf
  Creator = {c1, c2}
  Capture = {k1, k2}
  Mend = mend
  None = None
  MaxEpoch = 3
SYMMETRY ChainSymmetry
CONSTRAINT Bounded
INVARIANTS ChainIsLinear AckedIsLanded SealsNameTheirCapture LandedByGrantee HandedOverOnlyReleased ReleasedHadEnded
PROPERTIES SealsMoveForward IsFencedLog
