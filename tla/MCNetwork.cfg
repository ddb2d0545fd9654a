SPECIFICATION Spec
CONSTANTS
  Macs = {m1, m2}
  MaxEvents = 3
SYMMETRY Alike
INVARIANTS AddressesAreReal
