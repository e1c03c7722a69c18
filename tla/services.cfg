\* Three calls of Storage; a viewer and an owner; typing marks of two clients;
\* RTF; malformed TLVs; registration, adduser and a crash; two sessions with one
\* profile; a search among three accounts.
SPECIFICATION Services
CONSTANTS
  k1 = k1
  k2 = k2
  k3 = k3
  t1 = t1
  t2 = t2
  Callers = {k1, k2, k3}
  Tables = {t1, t2}
  Plans <- Plain
  Searches <- Searching
  NoCaller = NoCaller
  Initial = Initial
  Unseen = Unseen
  Modes = {2, 5}
  MaxFlying = 1
  Writers = {m1}
  Channels = {1, 2}
  MaxMarks = 2
  MaxDepth = 5
  MaxText = 3
  MaxCells = 8
  Cells = {0, 1, 2, 3}
  c1 = c1
  c2 = c2
  a1 = a1
  a2 = a2
  Clients = {c1, c2}
  Admins = {a1, a2}
  Chosen = {3, 4, 7}
  Defaults = {3}
  Factory = Factory
  NewUinFloor = 2
  WireMax = 5
  IntMax = 7
  NoOne = NoOne
  Sessions = {s1, s2}
  Fields <- SomeFields
  Values = {v1, v2}
  Uins <- UinsOfOneDigit
  Nicks <- SomeNicks
  Alphabet <- AllLetters
  Askers = {q1}
  Limit = 2
  Cap = 1
  NoAccount = NoAccount
INVARIANTS
  HiddenSeeNothing PendingSeeNothing AskedFor SkipsExactly SameTextLiveAndStored
  CreatorsKeepAccount ToldItsOwn HalfMadeOnlyWhenBroken
  LostToOverlapOnly AuthIsLatest AnswerIsRight
PROPERTY ImplementsStore
