CONSTANTS
  Receiver = {1}
  Sender = {2}
  Sig = {14, 17, 19}
  Mask = {{}, {14, 17}}
  KillAll = {17}
  ResetHand = {14}
  NoDefer = {17}
  MaxFrames = 2
SPECIFICATION Spec
INVARIANTS KillAllWakes
CHECK_DEADLOCK FALSE
