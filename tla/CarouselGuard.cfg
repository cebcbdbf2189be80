\* The header's drag guard, which comes too late.
CONSTANT NCards = 5
SPECIFICATION Spec
PROPERTY DragSelectsNothing
