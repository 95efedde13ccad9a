SPECIFICATION Spec
CONSTANT MaxConnects = 2
CHECK_DEADLOCK FALSE
PROPERTY ReconnectSurvives
