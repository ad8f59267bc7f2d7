CONSTANTS
  c1 = c1
  c2 = c2
  Conn <- MCConn
  MaxConns = 1
SPECIFICATION Spec
INVARIANTS CleanExit PoolOutlivesRequests GaugesSeeOpenPool ShutdownOrder
PROPERTIES SignalEnds DrainCompletes
