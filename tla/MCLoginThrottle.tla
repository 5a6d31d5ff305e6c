------------------------- MODULE MCLoginThrottle -------------------------
(* An instance of LoginThrottle for TLC.  The order of the defaults is kept: *)
(* the pair limit is the lowest, the IP limit the highest, escalation has   *)
(* room for one doubling.  `focus` says what the environment does:          *)
(*   "overlap"  logins overlap, with and without a client address, while    *)
(*              Redis answers;                                              *)
(*   "outage"   logins from one address overlap while it does not;          *)
(*   "flapping" one login at a time while Redis comes and goes.             *)
EXTENDS LoginThrottle, TLC

CONSTANT Foci

VARIABLE focus

PerDimension(account, pair, ip) ==
    [d \in Dimensions |-> CASE d = "account" -> account
                            [] d = "pair" -> pair
                            [] d = "ip" -> ip]

Limits == PerDimension(2, 2, 3)
Windows == PerDimension(1, 1, 2)
Lockouts == PerDimension(2, 2, 1)

Symmetry == Permutations(Requests) \cup Permutations(Accounts)

Busy == {r \in Requests : req[r].pc # "idle"}

MCInit ==
    /\ Init
    /\ focus \in Foci
    /\ focus = "overlap" => redisUp
    /\ focus = "outage" => ~redisUp

MCNext ==
    /\ UNCHANGED focus
    /\ Next
    /\ \/ focus = "overlap" /\ UNCHANGED redisUp
       \/ /\ focus = "outage" /\ UNCHANGED redisUp
          /\ \A r \in Busy' : req'[r].ip # NoIp
       \/ /\ focus = "flapping" /\ Cardinality(Busy') <= 1
          /\ \A r \in Busy' : req'[r].ip # NoIp
          /\ \A a \in Accounts : strikes'[a].n + fstrikes'[a].n <= 1

MCSpec == MCInit /\ [][MCNext]_<<vars, focus>>

=============================================================================
