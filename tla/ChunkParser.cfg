SPECIFICATION Spec
CONSTANTS
  FrameLists <- MCFrameLists
  Null = Null
INVARIANTS TypeOK DeliversFrames ThrowsOnBadTrailersOnly StandsAtFrame
