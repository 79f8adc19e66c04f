\* The lock by itself, two processes, nobody dies.
CONSTANTS
    Pids = {1, 2}
    Dead = Dead
    None = None
SPECIFICATION LockSpec
INVARIANT
    OneAgentPerCheckout
