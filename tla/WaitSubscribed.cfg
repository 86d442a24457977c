SPECIFICATION FailoverSpec
CONSTANTS
    Node = {1, 2, 3}
    Script <- AwaitSubscription
PROPERTY WaitForEventMeans
