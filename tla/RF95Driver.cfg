\* Frames for this node and for others, short and broken ones, at any moment.
CONSTANT
  MaxFrames = 4
SPECIFICATION FairSpec
INVARIANTS
  TypeOK
  ModesAgree
  PayloadsInOrder
  HandedWhole
PROPERTIES
  ActsAsBox
  TransmissionEnds
