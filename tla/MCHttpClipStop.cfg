CONSTANTS
    r1 = r1
    r2 = r2
    Free = Free
    Requests <- MCRequests
    Pushes <- MCPushes
    Listens = {"socket", "tcp", "tailscale"}
    MaxStops = 1

SPECIFICATION Spec

INVARIANT InFlightIsAnswered
