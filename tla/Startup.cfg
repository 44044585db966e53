SPECIFICATION StartupSpec
CONSTANTS
  ManagedKinds <- MCManagedKinds
  ConfigKinds <- MCConfigKinds
  MaxDisruptions = 3
PROPERTIES StaysUp EverybodyServed
CHECK_DEADLOCK FALSE
