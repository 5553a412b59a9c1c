CONSTANTS
  Users = {1}
  c1 = c1
  c2 = c2
  w1 = w1
  w2 = w2
  Conns <- MCConns
  Workers <- OneWorker
  NoConn = NoConn
SPECIFICATION FairSpec
PROPERTIES SilentPeerDropped LateLoginRepaired
