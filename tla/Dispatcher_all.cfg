SPECIFICATION Spec
CONSTANTS
  Fds = {0, 1, 2}
  Builds <- MCBuilds
INVARIANT WatchesInterest
PROPERTY CallbacksAreDue
PROPERTY ReadableServed
CHECK_DEADLOCK FALSE
