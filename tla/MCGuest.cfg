SPECIFICATION MCSpec
INVARIANTS GuestCoherent
PROPERTIES GuestPrivate DevicesPrivate
