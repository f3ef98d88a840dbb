\* Stopping the process: closed channels against uploads and retries still in flight.
CONSTANTS
    r1 = r1
    Request <- Uploads
    Capacity = 1
    RetryCap = 1
    MaxEvents = 4
SPECIFICATION Spec
INVARIANT NoSendOnClosed
CHECK_DEADLOCK FALSE
