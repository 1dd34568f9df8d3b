CONSTANTS
  Objects = {1, 2, 3}
  Null = Null
  Fields = {1}
  Zombie = 1
  Immune = {1}
  Soft = {}
  Weak = {}
  Final = {}
  Phantom = {}
  Interned = {3}
  WordSize = 2
  CardSize = 2
  PastEnd = 2
  FlushAt = 1
  Threads = {t1}
  Daemon = daemon
  Nobody = nobody
  Jobs = {"alloc"}
SPECIFICATION Spec
INVARIANTS
  TypeOK
  GrayIsDirty
PROPERTIES
  FreesOnlyGarbage
