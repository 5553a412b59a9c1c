CONSTANTS
  Users = {1, 2}
  w1 = w1
  w2 = w2
  Workers <- TwoWorkers
  MayCrash = TRUE
  Strays = {0}
SYMMETRY Symmetry
SPECIFICATION Spec
INVARIANTS PairConsistent ConsentOfBoth
