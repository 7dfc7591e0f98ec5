---------------------------- MODULE EventHandoff ----------------------------
(***************************************************************************)
(* What the event channel between an Agent and the Hub promises: an event  *)
(* the Agent issued is handed over at least once.  The Agent may let go of *)
(* it only after the Hub keeps it, or by a loss that the design names: its *)
(* memory is gone, its queue is full, or a legacy reader took the queue.   *)
(***************************************************************************)
CONSTANT Event

VARIABLES
    held,           \* events in the Agent's queue
    kept,           \* events the Hub has made durable, or accounted for
    dropped         \* events the Agent gave up

vars == <<held, kept, dropped>>

Init == held \in SUBSET Event /\ kept \in SUBSET Event /\ dropped = {}

\* A new event, and the older ones that leave a full queue for it.
Issue ==
    /\ \E e \in Event \ (held \cup kept \cup dropped) :
          e \in held' /\ held' \subseteq held \cup {e}
    /\ dropped' = dropped \cup (held \ held')
    /\ UNCHANGED kept

Lose ==
    /\ held # {} /\ held' = {}
    /\ dropped' = dropped \cup held
    /\ UNCHANGED kept

\* The Hub keeps what it was sent; the Agent may have dropped it since.
Keep ==
    /\ kept \subseteq kept' /\ kept' \subseteq kept \cup held \cup dropped
    /\ UNCHANGED <<held, dropped>>

\* An acknowledgement removes only what the Hub keeps.
Settle ==
    /\ held' \subseteq held /\ held \ held' \subseteq kept
    /\ UNCHANGED <<kept, dropped>>

Next == Issue \/ Lose \/ Keep \/ Settle

Spec == Init /\ [][Next]_vars
=============================================================================
