-------------------------- MODULE MCMfaChallenge --------------------------
(* MfaChallenge for TLC.  `focus` says which part moves:                   *)
(*   "devices"  two management requests and no login;                       *)
(*   "factors"  one management request at a time beside two logins that answer with    *)
(*              TOTP or recovery codes;                                       *)
(*   "email"    two logins, each asked for an emailed code first.             *)
EXTENDS MfaChallenge, TLC

CONSTANTS d1, m1, r3

VARIABLE focus

vars == <<mfaVars, focus>>

Foci == {"devices", "factors", "email"}

MCInit ==
    /\ Init
    /\ focus \in Foci

\* Email switched off, one device, one new recovery code.
FactorsFocus ==
    /\ otps' = otps /\ \A l \in Logins : login'[l].pc # "issue"
    /\ \A l \in Logins : login[l].pc = "idle" /\ login'[l].pc = "verify" => enabled
    /\ \A d \in Devices \ {d1} : devices'[d] = NoDeviceRow
    /\ \A m \in Managers \ {m1} : mgmt'[m] = IdleManager
    /\ ~disturbed'
    /\ \A m \in Managers : mgmt'[m].pc \notin {"enroll", "create"}
    /\ codes'[r3] = "none"

MCNext ==
    /\ UNCHANGED focus
    /\ \/ focus = "devices" /\ DevicesNext /\ UNCHANGED challengeVars
       \/ focus = "factors" /\ Next /\ FactorsFocus
       \/ /\ focus = "email" /\ Next /\ UNCHANGED <<mgmt, codes>>
          /\ \A c \in Challenges : stage'[c] # "any"

MCSpec == MCInit /\ [][MCNext]_vars

Symmetry == Permutations(Logins) \cup Permutations(Challenges) \cup Permutations(Otps)

=============================================================================
