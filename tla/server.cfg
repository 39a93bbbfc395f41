CONSTANTS
    Conn = {p1, d1}
    Proxied = {p1}
    Platforms = {"posix", "windows"}
    MaxSignals = 2
    Requests <- UnknownThenGet
    None = None
SPECIFICATION Spec
CHECK_DEADLOCK FALSE
INVARIANTS TypeOK RepliesMatchRequests EngineOutlivesThreads HttpOkExecuted
INVARIANTS ShutdownWaitsOnlyForClients RequestsAnswered HttpSettled
