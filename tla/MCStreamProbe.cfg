\* The numbers of deployment-worker.yaml, and outages of up to two minutes.
CONSTANTS
    ProbeDelay = 10
    ProbePeriod = 10
    FailureThreshold = 3
    MaxOutage = 120
    RestartTime = 40
SPECIFICATION ProbeSpec
INVARIANTS
    BlipCostsNoRestart
    RecoversInTime
