--------------------------- MODULE MCEventConsumer ---------------------------
(***************************************************************************)
(* One event published twice, and a message that is not an event.          *)
(***************************************************************************)
EXTENDS EventConsumer, TLC

CONSTANTS m1, m2, junk,  \* messages
          e1, e0         \* the event of the first two, and none

Id == (m1 :> e1) @@ (m2 :> e1) @@ (junk :> e0)

SlotSymmetry == Permutations(Slot)
=============================================================================
