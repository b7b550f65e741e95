SPECIFICATION Spec
CONSTANTS
  None = None
  Kernel = Kernel
  Initrd = Initrd
  OtherBlob = OtherBlob
  Embedded = Embedded
  Custom = Custom
  Layouts <- OneLayout
  Creds = {"cred"}
  SysExts = {"raw"}
  MaxFailures = 0
INVARIANT CustomCmdlineMeasured
CHECK_DEADLOCK FALSE
