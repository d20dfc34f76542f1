SPECIFICATION Spec
CONSTANTS
  n1 = n1
  n2 = n2
  n3 = n3
  Slots <- MCSlots
  DefaultBegin = 2
  DefaultEnd = 6
  TagCounts <- MCTagCounts
  Storages <- MCStorages
  Names <- MCNames
  Values = {3}
  Times = {0, 3}
  Drops <- MCDrops
  TimeMod = 4
  MaxDelta = 1
  ValueMod = 2
  MaxTears = 0
PROPERTIES
  TimestampsMatch
