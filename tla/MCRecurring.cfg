SPECIFICATION Spec
CONSTANTS
  c1 = c1
  c2 = c2
  s1 = s1
  s2 = s2
  k1 = k1
  t1 = t1
  t2 = t2
  n1 = n1
  n2 = n2
  e1 = e1
  Caller <- MCCaller
  Entity <- MCEntity
  KindOf <- MCKindOf
  Initially <- MCInitially
  NameOf <- MCNameOf
  Name = {n1, n2}
  Email = {e1}
  File <- MCFile
  MaxEdits = 2
  None = None
  Missing = Missing
  Template = {t1, t2}
  Refs <- MCRefs
  Cadence <- MCCadence
  Starts <- MCStarts
  Calendar <- MCCalendar
SYMMETRY MCSymmetry
INVARIANT NothingSkipped
PROPERTY TwiceOnlyInRaces ArchivedIsFrozen ImportTakesEffect RefersToActive
