\* Two ports at the end of the unsigned short, and three descriptors.
SPECIFICATION Spec
CONSTANTS
  Width = 4
  RangeStart = 2
  RangeEnd = 3
  Kernels = {{"v4", "v6"}, {"v4"}}
  FdLimit = 3
INVARIANTS TypeOK OnlyARaceCanSpoilThePort
PROPERTIES PortFound
