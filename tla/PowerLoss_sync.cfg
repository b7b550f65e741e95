SPECIFICATION PowerSpec
CONSTANTS
  None = None
  Partial = Partial
  a = a
  b = b
  k = k
  i1 = i1
  i2 = i2
  key1 = key1
  key2 = key2
  torn = torn
  Versions <- TwoVersions
  SpecNames = {}
  Toplevels <- TwoToplevels
  Malformed = {}
  Blobs = {k, i1, i2}
  Kernel <- SharedKernel
  Initrds <- OwnInitrds
  Specialisations <- NoSpecialisations
  Keys = {key1, key2, torn}
  MaxTries = 0
  Systems = {a, b}
  Configs <- RotationConfigs
  MaxEvents = 2
  ConcurrentBless = FALSE
  TornSigner = torn
  Undetected = FALSE
  MaxLosses = 1
INVARIANTS DiskTypeOK CaNamesSurvive DurableAfterSync InstalledAfterLoop
PROPERTY SomethingBoots
