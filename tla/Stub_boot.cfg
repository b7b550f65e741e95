SPECIFICATION Spec
CONSTANTS
  None = None
  Kernel = Kernel
  Initrd = Initrd
  OtherBlob = OtherBlob
  Embedded = Embedded
  Custom = Custom
  Layouts <- FourLayouts
  Creds = {"cred"}
  SysExts = {"raw"}
  MaxFailures = 2
INVARIANTS OnlyVerifiedRuns SecureBootPinsCmdline MeasuredAsRun CustomCmdlineMeasuredByTpm VariablesTruthful ReturnsClean
CHECK_DEADLOCK FALSE
