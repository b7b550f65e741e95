SPECIFICATION FairSpec
CONSTANTS
  None = None
  Partial = Partial
  a = a
  b = b
  c = c
  k = k
  i1 = i1
  i2 = i2
  i3 = i3
  key1 = key1
  key2 = key2
  s = s
  Versions <- TwoVersions
  SpecNames = {s}
  Toplevels <- ThreeToplevels
  Malformed = {b}
  Blobs <- AllBlobs
  Kernel <- SharedKernel
  Initrds <- SecretInitrds
  Specialisations <- OneSpecialisation
  Keys = {key1, key2}
  MaxTries = 0
  Systems = {a, b}
  Configs <- RotationConfigs
  MaxEvents = 4
  ConcurrentBless = FALSE
INVARIANTS NamesPromiseContents NoUnusedFiles MeasurementsExact
PROPERTIES BrokenProtects RunEnds
