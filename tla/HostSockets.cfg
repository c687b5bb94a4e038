\* Two threads that may close descriptors under each other's calls, both
\* spellings of a family, and a counter that saturates.
CONSTANTS
  Threads = {t1, t2}
  Main = t1
  RawFds = {r1, r2, r3}
  NoRaw = NoRaw
  GuestDomains = {1, 10}
  GuestFdBase = 10000
  MaxGuestFd = 10002
  MaxOpens = 4
  NetworkAllowed = TRUE
SPECIFICATION Spec
SYMMETRY Symmetry
INVARIANT TypeOK
INVARIANT OwnedOnce
INVARIANT NoLeak
INVARIANT DropClosesAll
INVARIANT CallHitsItsSocket
INVARIANT DomainsAgree
PROPERTY ImplementsFdTable
CHECK_DEADLOCK FALSE
