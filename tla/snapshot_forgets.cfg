\* One allocation and the proxy runtime's calls, each of which may be dropped.
SPECIFICATION Spec
CONSTANTS
  MaxId = 1
  Hosts = {h4}
  V6Hosts = {}
  MaxPort = 2
  PortRange = {1}
  TargetPorts = {2}
  ProxyIds = {1}
  None = None
INVARIANTS
  OkReported
