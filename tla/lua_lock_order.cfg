SPECIFICATION LwSpec
CHECK_DEADLOCK FALSE
CONSTANTS
  LuaWorkers = {"w1", "w2"}
  LuaScripts = {"s"}
PROPERTY
  ContextReleased
