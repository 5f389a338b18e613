SPECIFICATION OwnersSpec
CONSTANTS
  Threads = {t1, t2, t3}
  Objects = {o1, o2, o3}
  Handles = {h1, h2}
  NoHandle = NoHandle
  Nobody = Nobody
  Scopes = {a, b, c, d}
  Files = {f, g}
  FileSizes = {0, 1, 2}
  Variables = {v, w}
  Numbers = {1, 2, 3, 4, 5, 6}
INVARIANTS
  SessionsAreOwned OneResolverIsSerialized
  EnabledWhileHeld RestoredAtTheEnd ViewsShowWholeFiles ResourcesAreOwnedInOrder
