\* Three invokes of one extension; the pool may be resized or switched off and the
\* extension reloaded, deactivated or started twice while invokes are in flight.
SPECIFICATION Spec
CONSTANTS
  Extensions = {e1}
  MaxRequests = 3
  Threads = {0, 1, 2}
  Caps = {2}
  Hanging = {}
  MaxHandles = 2
  MaxPools = 2
  MaxControl = 4
INVARIANTS TypeOK SlotAccounting AnsweredOnce OneCallPerInstance
PROPERTIES Backpressure ImplementsService AcceptedIsAnswered
