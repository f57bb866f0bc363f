\* One plugin may stop answering while its process lives.
SPECIFICATION Spec
CONSTANTS
  Extensions = {e1, e2}
  MaxRequests = 3
  Threads = {2}
  Caps = {3}
  Hanging = {e1}
  MaxHandles = 2
  MaxPools = 1
  MaxControl = 3
PROPERTIES OtherPluginsProceed
