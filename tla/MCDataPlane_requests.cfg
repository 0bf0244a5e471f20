\* One request of every kind, errors of up to two layers.
SPECIFICATION Spec
CONSTANTS
  Shown <- MCShown
  Layers <- MCLayers
  Chains <- MCChains
  Events <- MCEvents
  ListErrors <- MCListErrors
INVARIANTS
  NativeNeedsToken
  ErrorInv
  EventErrorIsTold
CHECK_DEADLOCK FALSE
