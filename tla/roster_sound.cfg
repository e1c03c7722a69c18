\* Edits and repairs, by a session and by one it replaces.
SPECIFICATION Scoped
CONSTANTS
  a = a
  b = b
  GroupIds = {1, 2}
  General = General
  Names = {General, general, Work}
  Spellings = {General, general}
  NoName = NoName
  Peers = {p}
  Accounts = {p}
  Guarded = {}
  NoContact = NoContact
  Conns = {a, b}
  MaxClock = 1
  MaxCopies = 0
CONSTRAINT BoundEditors
VIEW Rows
SYMMETRY Interchangeable
INVARIANT RosterSound
