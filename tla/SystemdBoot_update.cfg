SPECIFICATION Spec
CONSTANTS
  None = None
  Malformed = Malformed
  NoKey = NoKey
  key1 = key1
  key2 = key2
  Versions = {1, 2, 3}
  Keys = {key1, key2}
  Confs = {"menu", "editor"}
  Configs <- MeasuredConfigs
  MaxEvents = 6
INVARIANTS TypeOK UpToDateAfterRun MeasuredAfterRun
PROPERTY NeverWithoutBootLoader
