SPECIFICATION Spec
CONSTANTS
  a1 = a1  a2 = a2  hfp = hfp  A2dp = A2dp
  Address = {a1, a2}
  Service = {A2dp, hfp}
  NoRequest = NoRequest
  CallFaults = {"enumerate","set","acl","observe"}
  Inputs = {"crash", "user"}
INVARIANTS Recoverable SettlingIsOn RestoreHasLastWord
SYMMETRY AddressSymmetry
