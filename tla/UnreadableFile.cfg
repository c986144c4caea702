\* One prefix with three files: the first never loads, the second has a malformed
\* name.
CONSTANTS
  root = root  dir = dir
  Prefixes = {root}
  Allowed = {root}
  MaxFile <- ThreeOfRoot
  Malformed = {2}
  Unreadable <- FirstOfRoot
SPECIFICATION FairSpec
PROPERTIES
  UnreadableFilesAreSkipped
CHECK_DEADLOCK FALSE
