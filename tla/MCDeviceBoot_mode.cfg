SPECIFICATION Spec
CONSTANTS
  Configs <- MCConfigs
  Captures = {c}
  Absent = Absent
  Torn = Torn
  Whole = Whole
  Cycles = 2
INVARIANTS PassMeansSaved
