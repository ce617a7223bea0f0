CONSTANTS
  Targets = {t1, t2}
  Hosts = {h1, h2}
  Ports = {p1}
  b1 = b1
  b2 = b2
  Banners = {b1, b2, Unnamed}
  Version <- MCVersion
  Unnamed = Unnamed
  Threads = {th1, th2}
  MaxScans = 3
SPECIFICATION InventorySpec
SYMMETRY Symmetry
INVARIANTS InventoryTypeOK OpenIsLastSeen ComparedWithStored LogTellsNewest
