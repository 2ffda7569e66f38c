CONSTANTS
  Procs = {p1, p2}
  NRoles = 2
  MaxKeys = 2
  MaxDeks = 3
  MaxMasters = 2
SYMMETRY Symmetry
SPECIFICATION Spec
INVARIANTS
  StoredKeysStayReadable
  SettledRevocationIsFinal
  SingleFlightRefresh
