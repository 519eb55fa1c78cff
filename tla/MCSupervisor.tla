---------------------------- MODULE MCSupervisor ----------------------------
EXTENDS Supervisor

MCTopology ==
  <<"Exception", "ErrWorker", "ErrPool", "Start", "Heartbeat", "NormalizingPool", "PoolNormalized",
    "PoolReady", "WorkersAvailable", "ListWorkers", "SetWorker", "ForkWorker", "ForkingWorker",
    "WorkerConnected", "WorkerForked", "WorkerReady">>
=============================================================================
