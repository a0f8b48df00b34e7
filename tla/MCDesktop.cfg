CONSTANTS
  Host = {h1, h2}
  Secret = {s1, s2}
  MaxAsks = 2
  MaxMounts = 2
  MaxSaves = 2
  Text = {t1, t2}
  MaxEntries = 2
  MaxActs = 4
  MaxCrashes = 1
  Dir = {root, d1, d2}
  Root = root
  MaxListings = 5
  None = None
SPECIFICATION DesktopSpec
SYMMETRY Symmetry
INVARIANTS DesktopTypesOK LabelIsHost SavedWasConfirmed CalmListsAreKept PanesShowTheirPlace
CHECK_DEADLOCK FALSE
