\* Two producers and two consumers, fair, with one payload value.
CONSTANTS
    Nil = Nil
    Producers = {p1, p2}
    Consumers = {c1, c2}
    Payload = {a}
    Cap = 2
    MaxPos = 3
SPECIFICATION FairSpec
PROPERTIES CallsReturn EveryPositionConsumed
