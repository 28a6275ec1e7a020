CONSTANTS
  GameIds <- MCGameIds
  UserKeys <- MCKeysViewOnly
SPECIFICATION FairSpec
PROPERTY RegistryLockReleased
INVARIANT ViewsCurrent
