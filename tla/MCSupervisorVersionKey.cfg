CONSTANTS
  GameIds <- MCGameIds
  UserKeys <- MCKeysWithVersion
SPECIFICATION FairSpec
CHECK_DEADLOCK FALSE
PROPERTY RegistryLockReleased
