\* The application posts the pong while the progress thread releases the slot of the ping.
CONSTANTS
  Ops = {ping, pong}
  Slots = 3
  None = None
SPECIFICATION Spec
CHECK_DEADLOCK FALSE
INVARIANT AllTracked
