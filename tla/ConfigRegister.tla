---------------------------- MODULE ConfigRegister ----------------------------
(***************************************************************************)
(* What common/src/config.c promises: one configuration that changes in a  *)
(* single step, readers that keep the one they acquired until they release *)
(* it, and never more than two configurations in use: the next one is only *)
(* put in place when nobody is left with the one before.                   *)
(***************************************************************************)
CONSTANTS Readers, Contents, Initial

VARIABLES
    current,  \* the configuration in force
    held,     \* the configuration of each reader that holds one
    replaced  \* the readers that hold an earlier one

vars == <<current, held, replaced>>

Init == current = Initial /\ held = [r \in {} |-> Initial] /\ replaced = {}

Acquire(r) ==
    /\ r \notin DOMAIN held
    /\ held' = [q \in DOMAIN held \cup {r} |-> IF q = r THEN current ELSE held[q]]
    /\ UNCHANGED <<current, replaced>>

Release(r) ==
    /\ r \in DOMAIN held
    /\ held' = [q \in DOMAIN held \ {r} |-> held[q]]
    /\ replaced' = replaced \ {r}
    /\ UNCHANGED current

Replace(c) ==
    /\ replaced = {}
    /\ current' = c
    /\ replaced' = DOMAIN held
    /\ UNCHANGED held

Next ==
    \/ \E r \in Readers : Acquire(r) \/ Release(r)
    \/ \E c \in Contents : Replace(c)

Spec == Init /\ [][Next]_vars

=============================================================================
