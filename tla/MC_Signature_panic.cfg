\* Expected violation: a forged signature shorter than 65 bytes.
CONSTANTS
  k1 = k1
  p1 = p1
  b1 = b1
  b2 = b2
  none = none
  stranger = stranger
  Keys <- MC_Keys
  Pubs <- MC_Pubs
  Bodies <- MC_Bodies
  SigLens <- MC_SigLens
  Vs <- MC_Vs
  None <- none
  Stranger <- stranger
  MaxRelay = 2
SPECIFICATION Spec
INVARIANT
  CheckNoPanic
