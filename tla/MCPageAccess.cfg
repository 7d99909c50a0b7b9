CONSTANTS
    Rights <- MCRights
    Later <- MCLater
    MaxChanges = 1
SPECIFICATION Spec
INVARIANT SameMenu
PROPERTY SameAccess
PROPERTY ReloadReturns
PROPERTY LockedLandOnCharacters
