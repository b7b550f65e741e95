SPECIFICATION Spec
CONSTANTS
  Platforms <- FourBits
  Batches <- CpioBatches
  U32Max = 31
  PageSize = 4
  AddressPages = 8
  StubLayouts <- TwoStubs
  Contents <- SixLengths
  FileAlign = 2
  Kernels <- OddKernels
  Texts <- ShortTexts
  Values <- ShortValues
CHECK_DEADLOCK FALSE
INVARIANTS
  ReaderFindsEntries ArchiveIsCanonical OnlyOversizeFails
  LoadedAsLinked PagesExact SectionsReadBack
  LinesIndependent QuotedRoundTrip BareRoundTrip
