CONSTANTS
  Objects = {1, 2, 3}
  Null = Null
  Fields = {1}
  Zombie = 1
  Immune = {}
  Soft = {}
  Weak = {}
  Final = {3}
  Phantom = {2}
  Interned = {1}
  WordSize = 2
  CardSize = 2
  PastEnd = 2
  FlushAt = 1
  Threads = {t1}
  Daemon = daemon
  Nobody = nobody
  Jobs = {"alloc"}
SPECIFICATION FairSpec
PROPERTIES
  PhantomIsLast
  GcCompletes
