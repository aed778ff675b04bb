SPECIFICATION Spec
CONSTANT NULL = NULL
PROPERTIES  FencedIsDeleted
CHECK_DEADLOCK FALSE
