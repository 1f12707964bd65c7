SPECIFICATION Spec
PROPERTY ReadKeepsAll
CHECK_DEADLOCK FALSE
