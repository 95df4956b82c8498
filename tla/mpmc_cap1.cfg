\* The smallest capacity create_mpmc_queue accepts.
CONSTANTS
    Nil = Nil
    Producers = {p1}
    Consumers = {c1}
    Payload = {a, b}
    Cap = 1
    MaxPos = 4
SPECIFICATION Spec
INVARIANT NeverOverfull
