\* Two producers and two consumers on a ring of two slots, over three laps.
CONSTANTS
    Nil = Nil
    Producers = {p1, p2}
    Consumers = {c1, c2}
    Payload = {a, b}
    Cap = 2
    MaxPos = 4
SPECIFICATION Spec
SYMMETRY Symmetry
INVARIANTS SlotExclusive SlotPhases IInv EntriesKept
PROPERTIES FullOrOvertakenWhenRefused EmptyWhenRefused ImplementsTicketQueue
