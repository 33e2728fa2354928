SPECIFICATION Spec
CONSTANTS
  Opening <- MCOpening
  Following <- MCFollowing
  Noise <- MCNoise
  Runs <- MCRuns
  MAX_FRAME_SIZE <- MCMaxFrameSize
  Malformed = Malformed
  Ignored = Ignored
  Waiting = Waiting
  MaxSent = 2
  MaxMishaps = 1
INVARIANTS
  RequestsIntact
  OneByteOneFrame
