SPECIFICATION LifeSpec
CONSTANT AgentLoops = {1, 2}
PROPERTY ShutdownExits
CHECK_DEADLOCK FALSE
