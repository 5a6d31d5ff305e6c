---------------------- MODULE MCInteractionConsumer ----------------------
(* An instance of InteractionConsumer for TLC: workers that were all started *)
(* with the default consumer name.                                           *)
EXTENDS InteractionConsumer

OneName == [w \in Workers |-> CHOOSE n \in Names : TRUE]

=============================================================================
