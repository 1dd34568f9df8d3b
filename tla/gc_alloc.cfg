CONSTANTS
  Objects = {1, 2}
  Null = Null
  Fields = {1}
  Zombie = 1
  Immune = {}
  Soft = {2}
  Weak = {}
  Final = {}
  Phantom = {}
  Interned = {}
  WordSize = 2
  CardSize = 2
  PastEnd = 2
  FlushAt = 1
  Threads = {t1, t2}
  Daemon = daemon
  Nobody = nobody
  Jobs = {"alloc", "explicit"}
SPECIFICATION Spec
INVARIANTS
  WaiterHasGc
  OomHeapIsReachable
PROPERTIES
  NoRecursiveGc
  ClearsOnlyUnreachable
