SPECIFICATION CatalogRunSpec
CONSTANTS
  n1 = n1
  n2 = n2
  r1 = r1  r2 = r2  r3 = r3
  Names = {n1, n2}
  Releases <- MCReleases
  OwnText = OwnText
  Absent = Absent
  MaxDeploys = 2
  MaxEdits = 1
  MaxSyncFaults = 1
  Imports = {i1, i2}
  RowIds = {r1, r2, r3}
  Specs <- MCSpecs
  NoRow = NoRow
  InitialTools <- MCInitialTools
  MaxTouches = 1
  MaxImports = 2
  MaxImportFaults = 1
  e1 = e1  e2 = e2
  l1 = l1  l2 = l2
  Entities = {e1, e2}
  Own = {e1, e2}
  Links = {l1, l2}
  FromOf <- MCFromOf
  ToOf <- MCToOf
  Suggesting = {l2}
  Surfaces <- MCSurfaces
  Writers = {w1}
  Syncs = {y1}
  MaxCurations = 2
  NoNode = NoNode
  NoEdge = NoEdge
  NotBusy = NotBusy
  PageTools = {a1, a2}
  PageTexts = {x1, x2}
  MaxClicks = 2
  MaxPageFaults = 1
  Gone = Gone
  NoTool = NoTool
  Servers = {s1, s2}
  Home = s1
  Linkable = {c1, c2}
  Keys = {k1, k2}
  OwnKeys = {k1}
  c1 = c1  c2 = c2  v1 = v1
  Words = {v1, v2}
  Blank = Blank
  MaxSteps = 3
  MaxServerFaults = 1
  Deleted = Deleted
  Anywhere = Anywhere
INVARIANTS
  CatalogRunTypeOK
  StampIsTrue
  ManualDisableKept
  ImportIsComplete
  PageIsTrue
  AssignmentsAdd
PROPERTIES
  VerdictKept
SYMMETRY MCSymmetry
CHECK_DEADLOCK FALSE
