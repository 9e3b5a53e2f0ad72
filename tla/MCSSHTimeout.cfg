\* The same batches: a command may go on for ever, whatever the timeout is.
CONSTANTS
  t1 = t1
  t2 = t2
  server = server
  h1 = h1
  h2 = h2
  NoKey = NoKey
  NoConn = NoConn
  Threads <- MCThreads
  Straggler = server
  Keys = {h1, h2}
  Conns = {c1, c2, c3, c4}
  Batches <- MCBatches
  MaxBatches = 2
SPECIFICATION FairSpec
PROPERTIES
  TimeoutEndsCalls
