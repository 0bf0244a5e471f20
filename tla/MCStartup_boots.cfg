\* Two platforms of any earlier schema, two releases, two faults.
SPECIFICATION Spec
CONSTANTS
  Platforms = {p1, p2}
  Ghost = Ghost
  Formats = {"Gemini"}
  OldHealths <- MCOldHealths
  MaxRelease = 2
  MaxFaults = 2
SYMMETRY Symmetry
INVARIANTS DataInv ServingIsMigrated FrontendInv
PROPERTIES LaterStartsChangeNothing
