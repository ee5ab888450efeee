SPECIFICATION Spec
CONSTANTS
    MaxRetries = 3
    Windows = 3
INVARIANTS NoOrphanServer MainWindowIsAlive CrashIsReported
PROPERTIES QuitExits StartupSettles
CHECK_DEADLOCK FALSE
