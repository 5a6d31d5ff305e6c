--------------------------- MODULE MCCredentials ---------------------------
(* The ways into the service, each on its own: bearer tokens, licences,     *)
(* service credentials, federated sign-in and SAML messages share no state,  *)
(* so one run explores them side by side.  `focus` says which part moves;    *)
(* each part is bounded further to what its question needs.                  *)
EXTENDS AccessTokens, Licenses, ServiceCredentials, Federation, SamlMessages, TLC

CONSTANTS l1, l2, t1, t2, c1, c2, d1, google, orgA, orgB

VARIABLE focus

vars == <<tokenVars, licVars, credVars, fedVars, samlVars, focus>>

OneTick == [k \in TokenKinds |-> 1]
Asked == {{"workflow.execute"}, {AllOrgs}, {"workflow.execute", Delegate, Register}}
OrgOfConfig == [c \in {c1, c2, d1} |-> IF c = c2 THEN orgB ELSE orgA]
AllOrNone == {{}, Emails}

Foci == {"logout", "claims", "activation", "issuance", "keys", "clients", "launch",
         "sso", "saml", "global", "messages"}

TypeOK ==
    /\ TokensTypeOK /\ LicensesTypeOK /\ CredentialsTypeOK /\ FederationTypeOK /\ SamlTypeOK
    /\ focus \in Foci

Init ==
    /\ TokensInit /\ LicensesInit /\ CredentialsInit /\ FederationInit /\ SamlInit
    /\ focus \in Foci
    /\ focus # "activation" => account

\* Logouts, with a Redis that comes and goes; claims, with facts that do.
TokensFocus ==
    \/ focus = "logout" /\ granted' = granted
    \/ focus = "claims" /\ logouts' = logouts /\ redisUp'

\* One licence is activated; two are issued.
LicensesFocus ==
    \/ focus = "activation" /\ lic'[l2] = NoRow /\ iss' = iss
    \/ focus = "issuance" /\ act' = act

\* Keys and their exchange; clients and what they delegate; launch codes.
CredentialsFocus ==
    \/ focus = "keys" /\ client' = client /\ launch' = launch /\ token'[t2] = NoToken /\ AllOrgs \in held'
    \/ focus = "clients" /\ key' = key /\ launch' = launch /\ call' = call /\ AllOrgs \in held'
    \/ focus = "launch" /\ key' = key /\ client' = client /\ call' = call

\* Two providers of two organisations; one SAML provider; a global provider
\* beside an organisation that may enforce its own.
FederationFocus ==
    /\ Cardinality({e \in Emails : person'[e] \in {"password", "guarded"}}) <= 1
    /\ Cardinality(linkTokens') <= 1
    /\ focus \in {"sso", "saml"} =>
          /\ licensed' = {}
          /\ \A c \in IdpConfigs : ~config'[c].enforced /\ ~config'[c].override /\ config'[c].covers = {}
          /\ \A f \in Flows : flow'[f].idp # google
    /\ \/ focus = "sso" /\ config'[d1] = NoConfig
       \/ focus = "saml" /\ config'[c1] = NoConfig /\ config'[c2] = NoConfig
       \/ /\ focus = "global" /\ config'[c2] = NoConfig /\ config'[d1] = NoConfig
          /\ Cardinality({f \in Flows : flow'[f] # IdleFlow}) <= 1
          /\ Cardinality(links') <= 2 /\ Cardinality(joined') <= 1
          /\ config'[c1].override => config'[c1].enforced

Next ==
    /\ UNCHANGED focus
    /\ \/ TokensNext /\ TokensFocus /\ UNCHANGED <<licVars, credVars, fedVars, samlVars>>
       \/ LicensesNext /\ LicensesFocus /\ UNCHANGED <<tokenVars, credVars, fedVars, samlVars>>
       \/ CredentialsNext /\ CredentialsFocus /\ UNCHANGED <<tokenVars, licVars, fedVars, samlVars>>
       \/ FederationNext /\ FederationFocus /\ UNCHANGED <<tokenVars, licVars, credVars, samlVars>>
       \/ focus = "messages" /\ SamlNext /\ UNCHANGED <<tokenVars, licVars, credVars, fedVars>>

Spec == Init /\ [][Next]_vars

Symmetry == Permutations(Flows) \cup Permutations(Emails)
===========================================================================
