\* A foreign frame meets an unread one: a violation is expected.
CONSTANT
  MaxFrames = 2
SPECIFICATION Spec
INVARIANTS
  ForThisNode
