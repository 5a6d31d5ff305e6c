------------------------- MODULE InteractionLedger -------------------------
(***************************************************************************)
(* What the interactions pipeline promises, without streams, workers or     *)
(* failures: events come into being, the ledger records valid ones, for      *)
(* good and once, and whoever is told that an event has been taken care of   *)
(* can find it there.  InteractionConsumer implements it.                    *)
(***************************************************************************)
CONSTANTS
    Events,
    Valid     \* those that have the shape of an InteractionEvent

VARIABLES
    offered,  \* events that exist
    ledger,   \* events with a row
    settled   \* events the pipeline will not deliver again

ledgerVars == <<offered, ledger, settled>>

Init == offered = {} /\ ledger = {} /\ settled = {}

Offer(e) ==
    /\ offered' = offered \cup {e}
    /\ UNCHANGED <<ledger, settled>>

Record(e) ==
    /\ e \in offered \cap Valid
    /\ ledger' = ledger \cup {e}
    /\ UNCHANGED <<offered, settled>>

Settle(e) ==
    /\ e \in ledger
    /\ settled' = settled \cup {e}
    /\ UNCHANGED <<offered, ledger>>

Next == \E e \in Events : Offer(e) \/ Record(e) \/ Settle(e)

Spec == Init /\ [][Next]_ledgerVars

=============================================================================
