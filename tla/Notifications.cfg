\* Two threads and two messages, of which the first may be malformed.
SPECIFICATION Spec
CONSTANTS
  Threads = {t1, t2}
  Messages = {1, 2}
  Modes = {"realtime", "parameter"}
  MaxVerbosity = 1
  MaxQueues = 3
  MaxFaults = 2
PROPERTIES
  AcceptedMessagesAreApplied
  VerbosityConverges
CHECK_DEADLOCK FALSE
