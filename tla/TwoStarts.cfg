\* Two overlapping calls of Start.
SPECIFICATION TMSpec
CONSTANTS
  Agents = {a1}
  Starters = {s1, s2}
  Stoppers = {p1}
  MaxTests = 2
INVARIANT AtMostOneActive
