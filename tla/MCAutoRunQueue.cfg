CONSTANTS
  a = a
  b = b
  c = c
  t = t
  u = u
  Configured <- MCConfigured
  Types <- MCTypes
  TypeOf <- MCTypeOf
  MaxOrder = 4
SPECIFICATION QueueSpec
INVARIANTS
  EffectsConverge
  SettledQueueIsTheUsersChoice
  ExcludedRunsOnlyAsFallback
PROPERTIES
  OrderKept
