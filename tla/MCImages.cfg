SPECIFICATION Spec
CONSTANT IndexLimit = 64
CONSTANT Reserved = 224
CONSTANT CtorNames <- MCCtorNames
CONSTANT Databases <- MCDatabases
CHECK_DEADLOCK FALSE
INVARIANT PairsAlike
INVARIANT ManagedReferencesFollow
INVARIANT NativeReferencesFollow
