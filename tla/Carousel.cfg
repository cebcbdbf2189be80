CONSTANT NCards = 5
SPECIFICATION Spec
INVARIANTS
  TypeOK
  LayoutFollowsWindow
  PageIsFull
PROPERTY ReleaseEndsDrag
