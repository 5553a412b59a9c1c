CONSTANTS
  u1 = u1
  u2 = u2
  u3 = u3
  w1 = w1
  w2 = w2
  Users <- ThreeUsers
  MaxGroup = 1
  Workers <- TwoWorkers
  MaxCopies = 2
  FreeChoice = FALSE
  MayCrash = TRUE
SPECIFICATION Spec
SYMMETRY Symmetry
  
PROPERTY JoinsByRequest
CHECK_DEADLOCK FALSE
