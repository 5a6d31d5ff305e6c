------------------------- MODULE CredentialsProofs -------------------------
(***************************************************************************)
(* Proofs about the ways into the service side by side, as MCCredentials    *)
(* runs them: each part keeps its invariant whatever the others do, and the  *)
(* focus, which says which part moves, takes no behaviour's promise away.    *)
(***************************************************************************)
EXTENDS MCCredentials, BearerProofs, SignOnProofs

\* What holds of every part at once.
WaysInInv ==
    /\ TokensInv /\ LicensesInv /\ CredentialsInv /\ FederationInv /\ SamlInv
    /\ focus \in Foci

LEMMA WaysInInit == Init => WaysInInv
BY TokensInvInit, LicensesInvInit, CredentialsInvInit, FederationInvInit, SamlInvInit, Zenon
DEF Init, WaysInInv

\* A step of the whole is a step or a stutter of each part.
LEMMA WaysInStep ==
    ASSUME [Next]_vars
    PROVE  /\ [TokensNext]_tokenVars /\ [LicensesNext]_licVars /\ [CredentialsNext]_credVars
           /\ [FederationNext]_fedVars /\ [SamlNext]_samlVars
           /\ UNCHANGED focus
<1>1. CASE Next
  BY <1>1, Zenon DEF Next
<1>2. CASE UNCHANGED vars
  BY <1>2 DEF vars
<1> QED
  BY <1>1, <1>2

LEMMA WaysInNext == WaysInInv /\ [Next]_vars => WaysInInv'
<1> SUFFICES ASSUME WaysInInv, [Next]_vars PROVE WaysInInv'
  OBVIOUS
<1>1. TokensInv' /\ LicensesInv' /\ CredentialsInv' /\ FederationInv' /\ SamlInv'
  BY WaysInStep, TokensInvNext, LicensesInvNext, CredentialsInvNext, FederationInvNext, SamlInvNext,
     Zenon
  DEF WaysInInv
<1>2. focus' \in Foci
  BY WaysInStep, Zenon DEF WaysInInv
<1> QED
  BY <1>1, <1>2, Zenon DEF WaysInInv

LEMMA WaysInInvHolds == Spec => []WaysInInv
BY WaysInInit, WaysInNext, PTL DEF Spec

\* The tables of every way in keep their shape together.
THEOREM WaysInTypeCorrect == Spec => []TypeOK
<1>1. WaysInInv => TypeOK
  BY DEF WaysInInv, TypeOK, TokensInv, LicensesInv, CredentialsInv, FederationInv, SamlInv
<1> QED
  BY <1>1, WaysInInvHolds, PTL

\* The promises of POST /auth/logout, build_user_claims, mark_used, revocation
\* and find_linked_user hold of the parts side by side, and so does what
\* _reject_if_replayed promises of every message.
THEOREM WaysInSound ==
    Spec => /\ [](LogoutHolds /\ ClaimsBoundedStale /\ UsesBounded)
            /\ [](RevocationBounded /\ TenantIsolation)
            /\ MessageUsedOnce
<1>1. WaysInInv => LogoutHolds /\ ClaimsBoundedStale /\ UsesBounded
  BY LogoutSound, ClaimsSound, UsesSound, Zenon DEF WaysInInv
<1>2. WaysInInv => RevocationBounded /\ TenantIsolation
  BY RevocationSound, IsolationSound, Zenon DEF WaysInInv
<1>3. ASSUME WaysInInv, [Next]_vars
      PROVE  [\A m \in Messages : uses'[m] # uses[m] /\ uses[m] > 0 =>
                 IF m \in Requests THEN second = RelayExp(m)
                 ELSE second >= order[m].issued + ReplayTTL]_samlVars
  BY <1>3, WaysInStep, MessageStep, Zenon DEF WaysInInv
<1> QED
  BY <1>1, <1>2, <1>3, WaysInInvHolds, PTL DEF Spec, MessageUsedOnce
=============================================================================
