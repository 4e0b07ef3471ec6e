CONSTANTS
  MaxPos = 1
  Groups = 2
  MediaTimeout = 2
  IdleTimeout = 1
  Frames = 1
  Streams <- MCStreams
  Codecs = {"h264", "h265"}
  Clips <- MCClips
  MaxWaiting = 1
  Channels = {c1}
  Buttons = {b1}
  c1 = c1
  b1 = b1
  MaxSaid = 2
  None = None
  Previews = {p, q}
  p = p
  q = q
  Cap = 1
  MaxSent = 3
SPECIFICATION MediaSpec
INVARIANTS Decodable ClipWhole Released
PROPERTIES GivesUp Present Hushed
CHECK_DEADLOCK FALSE
