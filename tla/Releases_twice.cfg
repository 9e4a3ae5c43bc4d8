CONSTANTS
  e1 = e1
  e2 = e2
  r = r
  c1 = c1
  c2 = c2
  Entries = {e1, e2}
  Releases = {r}
  Clients = {c1, c2}
  MaxFailures = 0
  MaxChanges = 2
SPECIFICATION SpecWithoutDeletes
PROPERTIES
  OnlyOpenReleasesShip
CHECK_DEADLOCK FALSE
