SPECIFICATION Spec
CONSTANTS
  n1 = n1
  n2 = n2
  n3 = n3
  n4 = n4
  Keys = {1, 2, 4}
  HashSize = 2
  Nodes <- FourNodes
  Nil = Nil
  Stale = Stale
  Dicts = {1, 2}
  Ops = {"install", "first", "itMove", "inner"}
SYMMETRY FourAddresses
INVARIANT CountIsRight
