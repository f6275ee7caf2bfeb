SPECIFICATION CmSpec
CONSTANTS
  Node = {n1, n2}
  CmNone = CmNone
  Expiration = 6
  MinInterval = 2
  MaxInterval = 3
  MaxLag = 1
  CmMaxErrors = 4
  CmMaxRestarts = 0
PROPERTY ReleaseOnlyByHolder
