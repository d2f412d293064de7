\* One producer key, a caller-set PubKey, two bodies and two relay slots.
CONSTANTS
  k1 = k1
  p1 = p1
  b1 = b1
  b2 = b2
  none = none
  stranger = stranger
  Keys <- MC_Keys
  Pubs <- MC_Pubs
  Bodies <- MC_Bodies
  SigLens <- MC_SigLens
  Vs <- MC_Vs
  None <- none
  Stranger <- stranger
  MaxRelay = 2
SPECIFICATION Spec
INVARIANTS
  TypeOK
  Sound
  Complete
