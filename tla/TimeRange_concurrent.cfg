SPECIFICATION Spec
CONSTANTS
  c1 = c1
  c2 = c2
  o1 = o1
  o2 = o2
  day = day
  year = year
  default = default
  Calls = {c1, c2}
  Objects = {o1}
  Ranges = {day, year}
  Default = default
INVARIANTS RangeHonoured
