SPECIFICATION Spec
CONSTANTS
  None = None
  Partial = Partial
  a = a
  b = b
  c = c
  k = k
  i1 = i1
  i2 = i2
  i3 = i3
  key1 = key1
  key2 = key2
  s = s
  Versions <- TwoVersions
  SpecNames = {}
  Toplevels <- ThreeToplevels
  Malformed = {}
  Blobs <- AllBlobs
  Kernel <- SharedKernel
  Initrds <- PlainInitrds
  Specialisations <- NoSpecialisations
  Keys = {key1}
  MaxTries = 1
  Systems = {a, b, c}
  Configs <- CountingConfigs
  MaxEvents = 5
  ConcurrentBless = FALSE
INVARIANTS TypeOK InstalledAfterLoop MenuIsExact
PROPERTY ImplementsContract
