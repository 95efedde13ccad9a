SPECIFICATION FairSpec
CONSTANT MaxConnects = 2
CHECK_DEADLOCK FALSE
INVARIANTS TypeOK 
PROPERTIES ConnectReturns JoinsReturn LossNoticed
