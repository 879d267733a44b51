SPECIFICATION Spec
CONSTANTS
  ConnFd <- MCConnFd
  tcp_socket_fd = 3
  udp_socket_fd = 4
  MAX_CONTROL_SESSIONS = 3
  sweep_int = 3
  HEARTBEAT = 2
  MaxBacklog = 1
  MaxDgrams = 1
INVARIANTS NeverExits
CHECK_DEADLOCK FALSE
