SPECIFICATION Spec
 
PROPERTIES ArithmeticIsC ArgumentsAreRead CdIsRight  ParserIsRight
CHECK_DEADLOCK FALSE
