SPECIFICATION Spec
CONSTANTS
  IPC_GET_UDP_PORT_TRIALS = 3
  QueueSize = 3
  PORT = PORT
  GARBAGE = GARBAGE
  MaxLines = 6
  MaxDgrams = 2
INVARIANTS TypeOK HandshakeSound LinesInOrder ReceiverUnchoked
PROPERTIES PrintReturns LinesShown ReceiverEnds
CHECK_DEADLOCK FALSE
