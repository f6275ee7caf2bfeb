SPECIFICATION StSpec
CONSTANTS
  StFiles <- MCStFiles
  StCopies <- MCStCopies
  StUploads <- MCStUploads
  StOthers <- MCStOthers
  StPage = 2
  StMaxLen = 9
  StMaxOps = 2
INVARIANT CopyDirWhole
CHECK_DEADLOCK FALSE
