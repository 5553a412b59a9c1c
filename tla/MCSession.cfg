CONSTANTS
  Users = {1, 2}
  c1 = c1
  c2 = c2
  w1 = w1
  w2 = w2
  Conns <- MCConns
  Workers <- MCWorkers
  NoConn = NoConn
SYMMETRY MCSymmetry
SPECIFICATION Spec
INVARIANTS RoutedToOwner SenderAttributed 
PROPERTY HeardNotDropped
CONSTRAINT SecondQuiet
