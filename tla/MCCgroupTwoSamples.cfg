\* A second sample in a window replaces the first.
SPECIFICATION CgroupSpec
CONSTANTS
  Unit = 1
  MaxUsage = 6
  MaxWindows = 3
  UsedBefore = 0
  MaxMisses = 0
PROPERTIES
  SamplesAddUp
