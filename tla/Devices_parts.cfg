CONSTANTS
    d1 = d1  d2 = d2  p1 = p1  o1 = o1  o2 = o2  Nobody = Nobody
    t1 = t1  t2 = t2  k1 = k1  k2 = k2  c1 = c1  c2 = c2  m1 = m1  m2 = m2  m3 = m3
    MaxSaves = 3  MaxCuts = 2  MaxFaults = 2  MaxWipes = 1
SPECIFICATION MCSpec
SYMMETRY Symmetry
CHECK_DEADLOCK FALSE
INVARIANTS CacheTellsTheTruth OpensTheNewest CachedIsTheDevices TicketsStayTrue NobodyStarves
PROPERTIES EnablingKeepsEdits OldStaysUntilFinal NeverSetBack
