SPECIFICATION MeterSpec
CONSTANTS
  long = long
  short = short
  Keys = {long, short}
  ValuesOf <- MCValuesOf
  Null = Null
  Absent = Absent
INVARIANTS LevensteinIsEditDistance ZeroIffEnough WithinUnit
PROPERTY ProgressIsSeen
