\* One port: buffers of up to three bytes, timeouts of two ticks, VMIN of two.
SPECIFICATION Spec
CONSTANTS
  Forever <- MCForever
  Timeouts <- MCTimeouts
  Lengths = {0, 1, 3}
  QueueSize = 3
  BaudRates = {9600}
  BaudArgs = {9600, 1234}
  DataBitsArgs = {7, 8, 9}
  ParityArgs = {"none", "even", "bogus"}
  StopBitsArgs = {1, 3}
  FlowArgs = {FALSE}
  VminArgs = {0, 2, 256}
  VtimeArgs <- MCVtimeArgs
INVARIANT StripsNoEighthBit
