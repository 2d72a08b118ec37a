\* A query, a command and an update to ignore, three restarts.
CONSTANTS
    Commands = {2}
    Chats = {1}
    Others = {3}
    MaxRestarts = 3
    MaxJobs = 5
SPECIFICATION FairSpec
INVARIANTS
    ConfirmedWasHandled
    ConfirmedWasEnqueued
    PollerInOrder
PROPERTIES
    
    EveryUpdateHandled
    WebhookCommandBecomesJob
CHECK_DEADLOCK FALSE
