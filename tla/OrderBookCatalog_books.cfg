\* Two processes, one committed book, room for two more, pages of one book.
CONSTANTS
  Processes = {w1, w2}
  Books = {1, 2, 3, 4, 5}
  Fixtures = {2}
  Capacity = 3
  Limit = 1
  Regimes = {{1, 2, 3, 4, 5}, {1, 3}}
  MaxCrashes = 1
  MaxFaults = 2
SPECIFICATION Spec
INVARIANTS TypeOK RefusedForKnownReasons ListingIsExact
