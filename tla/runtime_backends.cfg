\* Two allocations, one port, an IPv4 and an IPv6 host, both runtimes.
SPECIFICATION Spec
CONSTANTS
  MaxId = 2
  Hosts = {h4, h6}
  V6Hosts = {h6}
  MaxPort = 2
  PortRange = {1}
  TargetPorts = {2}
  ProxyIds = {1}
  None = None
INVARIANTS
  BackendsInv OkExact SnapshotWitnessed DispatchExact
PROPERTIES
  Implements
