\* Two resources, an administrator and a relayed request, with refused
\* writes: the two writers overlap in every order.
SPECIFICATION Spec
CONSTANTS
  Resources = {k1, k2}
  NoResource = NoResource
  Admins = {a1}
  Gateways = {g1}
  DbFails = TRUE
SYMMETRY Symmetry
INVARIANTS CacheMatchesTable FinishedWriteHolds NegativeNeedsDeletion ListsAgree
