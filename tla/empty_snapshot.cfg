CONSTANTS
  Targets = {t1}
  Hosts = {h1}
  Ports = {p1}
  b1 = b1
  b2 = b2
  Banners = {Unnamed}
  Version <- MCVersion
  Unnamed = Unnamed
  Threads = {th1}
  MaxScans = 3
SPECIFICATION InventorySpec
INVARIANTS ReturnsReported
