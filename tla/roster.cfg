\* Rosters sent, and edits by a session and by one it replaces.
SPECIFICATION Scoped
CONSTANTS
  a = a
  b = b
  GroupIds = {1}
  General = General
  Names = {General, Work}
  Spellings = {General}
  NoName = NoName
  Peers = {p, q}
  Accounts = {p}
  Guarded = {p}
  NoContact = NoContact
  Conns = {a, b}
  MaxClock = 2
  MaxCopies = 2
CONSTRAINT BoundCopies
VIEW Dates
SYMMETRY Interchangeable
INVARIANTS TypeOK UpToDateIsCurrent
