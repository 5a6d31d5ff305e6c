------------------------ MODULE MfaChallengeProofs ------------------------
(***************************************************************************)
(* Proofs about the second factors of a user (MfaDevices) and about the      *)
(* challenges they answer (MfaChallenge), for every number of requests,      *)
(* devices, codes and challenges.                                            *)
(*                                                                           *)
(* The first part is about the management requests: while none of them was   *)
(* disturbed by another, the one that runs has an accurate snapshot.  The    *)
(* second part is about logins, whose snapshots are stale as a rule: what    *)
(* protects them are the conditional writes.                                 *)
(***************************************************************************)
EXTENDS MfaChallenge, FiniteSetTheorems, TLAPS

LEMMA AtMostOne ==
    ASSUME NEW S, \A x, y \in S : x = y
    PROVE  Cardinality(S) <= 1
<1>1. CASE S = {}
  BY <1>1, FS_EmptySet
<1>2. ASSUME NEW x \in S PROVE Cardinality(S) <= 1
  <2>1. S = {x}
    BY <1>2
  <2> QED
    BY <2>1, FS_Singleton
<1> QED
  BY <1>1, <1>2

---------------------------------------------------------------------------
(* Management requests                                                     *)

\* A device is verified after it was created, and a request about a device is
\* about one that exists.
RowsSound ==
    /\ \A d \in Devices : devices[d].verified => devices[d].created
    /\ \A m \in Managers : mgmt[m].pc \in {"verify", "remove"} =>
          mgmt[m].device \in Devices /\ devices[mgmt[m].device].created

\* What a request's row r says, against mfa_enabled, the usable and the pending
\* devices and the unused codes.
Accurate(r, flag, usable, pending, unused) ==
    /\ r.pc = "enroll" => r.drop \cap usable = {}
    /\ r.pc = "verify" => r.device \in pending
    /\ r.pc = "remove" => (r.last <=> usable \subseteq {r.device})
    /\ r.pc = "reset" => usable \subseteq r.drop
    /\ r.pc \in {"verify", "remove", "reset"} => (r.wasEnabled <=> flag)
    /\ r.pc = "flags" => usable = {}
    /\ r.pc # "flags" => (flag <=> usable # {})
    /\ r.pc = "generate" => unused \subseteq r.spend
    /\ r.pc = "issue" => unused = {}
    /\ \A c, d \in unused : c = d

OthersIdle(m) == \A n \in Managers \ {m} : mgmt[n].pc = "idle"

\* While nothing overlapped and nothing died, one request runs at most, and its
\* snapshot is what the tables hold.
Undisturbed ==
    ~disturbed =>
        /\ \A m, n \in Managers : mgmt[m].pc # "idle" /\ mgmt[n].pc # "idle" => m = n
        /\ \A m \in Managers :
              OthersIdle(m) => Accurate(mgmt[m], enabled, Usable, Pending, Unused)
        /\ (\A m \in Managers : mgmt[m].pc = "idle") => (enabled <=> Usable # {})
        /\ \A c, d \in Unused : c = d

DevicesInv == DevicesTypeOK /\ RowsSound /\ Undisturbed

LEMMA DevicesInvInit == DevicesInit => DevicesInv
<1> SUFFICES ASSUME DevicesInit PROVE DevicesInv
  OBVIOUS
<1>1. VerifiedRow \in DeviceRow /\ NoDeviceRow \in DeviceRow /\ IdleManager \in Manager
  BY DEF VerifiedRow, NoDeviceRow, DeviceRow, IdleManager, Manager
<1>2. DevicesTypeOK
  BY <1>1 DEF DevicesInit, DevicesTypeOK
<1>3. Usable = Enrolled /\ Unused = Issued
  BY MfaDevicesAssumption DEF DevicesInit, Usable, Unused, VerifiedRow, NoDeviceRow
<1>4. RowsSound
  BY DEF DevicesInit, RowsSound, VerifiedRow, NoDeviceRow, IdleManager
<1>5. \A m \in Managers : mgmt[m].pc = "idle"
  BY DEF DevicesInit, IdleManager
<1>6. Undisturbed
  BY <1>3, <1>5, MfaDevicesAssumption DEF DevicesInit, Undisturbed, Accurate
<1> QED
  BY <1>2, <1>4, <1>6 DEF DevicesInv

\* The shape of every step of a request: it has its own row and nobody else's.
LEMMA ServeShape ==
    ASSUME DevicesInv, NEW m \in Managers, NEW r \in Manager, Serve(m, r)
    PROVE  /\ mgmt' \in [Managers -> Manager]
           /\ mgmt'[m] = r
           /\ \A n \in Managers \ {m} : mgmt'[n] = mgmt[n]
           /\ disturbed' \in BOOLEAN
           /\ ~disturbed' => ~disturbed /\ OthersIdle(m)
BY DEF DevicesInv, DevicesTypeOK, Serve, OthersIdle

LEMMA ServeKeepsUndisturbed ==
    ASSUME DevicesInv, NEW m \in Managers, NEW r \in Manager, Serve(m, r),
           /\ ~disturbed
           /\ Accurate(mgmt[m], enabled, Usable, Pending, Unused)
           => Accurate(r, enabled', Usable', Pending', Unused')
    PROVE  Undisturbed'
<1> SUFFICES ASSUME ~disturbed'
             PROVE  /\ \A k, n \in Managers : mgmt'[k].pc # "idle" /\ mgmt'[n].pc # "idle" => k = n
                    /\ \A k \in Managers : OthersIdle(k)' =>
                          Accurate(mgmt'[k], enabled', Usable', Pending', Unused')
                    /\ (\A k \in Managers : mgmt'[k].pc = "idle") => (enabled' <=> Usable' # {})
                    /\ \A c, d \in Unused' : c = d
  BY DEF Undisturbed
<1>1. ~disturbed /\ OthersIdle(m)
  BY ServeShape
<1>2. Accurate(r, enabled', Usable', Pending', Unused')
  BY <1>1 DEF DevicesInv, Undisturbed
<1>3. mgmt'[m] = r /\ \A n \in Managers \ {m} : mgmt'[n].pc = "idle"
  BY <1>1, ServeShape DEF OthersIdle
<1>4. \A k, n \in Managers : mgmt'[k].pc # "idle" /\ mgmt'[n].pc # "idle" => k = n
  BY <1>3
<1>5. ASSUME NEW k \in Managers, OthersIdle(k)'
      PROVE  Accurate(mgmt'[k], enabled', Usable', Pending', Unused')
  <2>1. CASE k = m
    BY <1>2, <1>3, <2>1
  <2>2. CASE k # m
    <3>1. mgmt'[k].pc = "idle" /\ r.pc = "idle"
      BY <1>3, <1>5, <2>2 DEF OthersIdle
    <3> QED
      BY <1>2, <3>1 DEF Accurate
  <2> QED
    BY <2>1, <2>2
<1>6. (\A k \in Managers : mgmt'[k].pc = "idle") => (enabled' <=> Usable' # {})
  BY <1>2, <1>3 DEF Accurate
<1>7. \A c, d \in Unused' : c = d
  BY <1>2 DEF Accurate
<1> QED
  BY <1>4, <1>5, <1>6, <1>7

LEMMA ServeKeepsRows ==
    ASSUME DevicesInv, NEW m \in Managers, NEW r \in Manager, Serve(m, r),
           \A d \in Devices : /\ devices[d].created => devices'[d].created
                              /\ devices'[d].verified => devices'[d].created,
           r.pc \in {"verify", "remove"} => r.device \in Devices /\ devices'[r.device].created
    PROVE  RowsSound'
<1>1. ASSUME NEW n \in Managers, mgmt'[n].pc \in {"verify", "remove"}
      PROVE  mgmt'[n].device \in Devices /\ devices'[mgmt'[n].device].created
  BY <1>1, ServeShape DEF DevicesInv, RowsSound
<1> QED
  BY <1>1 DEF RowsSound

\* mfa_devices rows set disabled_at, and nothing else of them.
LEMMA DisableShape ==
    ASSUME DevicesTypeOK, NEW ds, devices' = Disable(ds)
    PROVE  /\ devices' \in [Devices -> DeviceRow]
           /\ \A d \in Devices : /\ devices'[d].created = devices[d].created
                                 /\ devices'[d].verified = devices[d].verified
                                 /\ devices'[d].disabled <=> devices[d].disabled \/ d \in ds
           /\ Usable' = Usable \ ds
<1>1. \A d \in Devices : devices[d] \in DeviceRow
  BY DEF DevicesTypeOK
<1>2. ASSUME NEW d \in Devices
      PROVE  /\ devices'[d] \in DeviceRow
             /\ devices'[d].created = devices[d].created
             /\ devices'[d].verified = devices[d].verified
             /\ devices'[d].disabled <=> devices[d].disabled \/ d \in ds
  <2>1. devices'[d] = IF d \in ds THEN [devices[d] EXCEPT !.disabled = TRUE] ELSE devices[d]
    BY DEF Disable
  <2> QED
    BY <1>1, <2>1 DEF DeviceRow
<1>3. devices' = [d \in Devices |-> devices'[d]]
  BY DEF Disable
<1>4. devices' \in [Devices -> DeviceRow]
  BY <1>2, <1>3
<1>5. Usable' = Usable \ ds
  BY <1>2 DEF Usable
<1> QED
  BY <1>2, <1>4, <1>5

\* mfa_recovery_codes rows set used_at.
LEMMA SpendShape ==
    ASSUME DevicesTypeOK, NEW cs, codes' = Spend(cs)
    PROVE  /\ codes' \in [Codes -> {"none", "unused", "used"}]
           /\ Unused' = Unused \ cs
           /\ \A c \in Codes : codes[c] = "used" => codes'[c] = "used"
BY DEF DevicesTypeOK, Spend, Unused

\* The row a request keeps after it read is one of the model's rows.
LEMMA ManagerRows ==
    ASSUME NEW ds \in SUBSET Devices, NEW cs \in SUBSET Codes, NEW was \in BOOLEAN
    PROVE  /\ IdleManager \in Manager
           /\ \A pc \in {"create", "flags", "issue"} : [IdleManager EXCEPT !.pc = pc] \in Manager
           /\ [IdleManager EXCEPT !.drop = ds, !.pc = IF ds = {} THEN "create" ELSE "enroll"]
              \in Manager
           /\ \A d \in Devices :
                [IdleManager EXCEPT !.pc = "verify", !.device = d, !.wasEnabled = was] \in Manager
           /\ \A d \in Devices, last \in BOOLEAN :
                [IdleManager EXCEPT !.pc = "remove", !.device = d, !.last = last,
                                    !.wasEnabled = was] \in Manager
           /\ [IdleManager EXCEPT !.pc = "reset", !.drop = ds, !.spend = cs, !.wasEnabled = was]
              \in Manager
           /\ [IdleManager EXCEPT !.spend = cs, !.pc = IF cs = {} THEN "issue" ELSE "generate"]
              \in Manager
BY DEF IdleManager, Manager

\* The tables' types and the two parts of the invariant, for a step that serves.
LEMMA ServeKeepsInv ==
    ASSUME DevicesInv, NEW m \in Managers, NEW r \in Manager, Serve(m, r),
           enabled' \in BOOLEAN,
           devices' \in [Devices -> DeviceRow],
           codes' \in [Codes -> {"none", "unused", "used"}],
           \A d \in Devices : /\ devices[d].created => devices'[d].created
                              /\ devices'[d].verified => devices'[d].created,
           r.pc \in {"verify", "remove"} => r.device \in Devices /\ devices'[r.device].created,
           /\ ~disturbed
           /\ Accurate(mgmt[m], enabled, Usable, Pending, Unused)
           => Accurate(r, enabled', Usable', Pending', Unused')
    PROVE  DevicesInv'
<1>1. DevicesTypeOK'
  BY ServeShape DEF DevicesTypeOK
<1>2. RowsSound'
  BY ServeKeepsRows
<1>3. Undisturbed'
  BY ServeKeepsUndisturbed
<1> QED
  BY <1>1, <1>2, <1>3 DEF DevicesInv

\* The first SELECTs of a request: its row, and no other, changes.
LEMMA ReadsKeepInv ==
    ASSUME DevicesInv, NEW m \in Managers
    PROVE  \/ EnrollRead(m)
           \/ \E d \in Devices : VerifyRead(m, d) \/ RemoveRead(m, d)
           \/ ResetRead(m)
           \/ GenerateRead(m)
           => DevicesInv'
<1>t. /\ enabled \in BOOLEAN
      /\ devices \in [Devices -> DeviceRow]
      /\ codes \in [Codes -> {"none", "unused", "used"}]
      /\ \A d \in Devices : devices[d].verified => devices[d].created
  BY DEF DevicesInv, DevicesTypeOK, RowsSound
<1>s. /\ Usable \in SUBSET Devices /\ Pending \in SUBSET Devices /\ Unused \in SUBSET Codes
      /\ Usable \cap Pending = {}
  BY DEF Usable, Pending, Unused
<1>u. ASSUME UNCHANGED <<enabled, devices, codes>>
      PROVE  /\ Usable' = Usable /\ Pending' = Pending /\ Unused' = Unused
             /\ enabled' = enabled /\ devices' = devices /\ codes' = codes
  BY <1>u DEF Usable, Pending, Unused
<1>1. ASSUME EnrollRead(m) PROVE DevicesInv'
  <2> DEFINE r == [IdleManager EXCEPT !.drop = Pending,
                      !.pc = IF Pending = {} THEN "create" ELSE "enroll"]
  <2>1. /\ mgmt[m].pc = "idle" /\ Serve(m, r) /\ UNCHANGED <<enabled, devices, codes>>
    BY <1>1 DEF EnrollRead
  <2>2. r \in Manager
    BY <1>s, ManagerRows
  <2>3. r.pc \in {"create", "enroll"} /\ r.drop = Pending
    BY DEF IdleManager
  <2> HIDE DEF r
  <2>4. Accurate(mgmt[m], enabled, Usable, Pending, Unused)
        => Accurate(r, enabled', Usable', Pending', Unused')
    BY <1>s, <1>u, <2>1, <2>3 DEF Accurate
  <2> QED
    BY <1>t, <1>u, <2>1, <2>2, <2>3, <2>4, ServeKeepsInv
<1>2. ASSUME NEW d \in Devices, VerifyRead(m, d) PROVE DevicesInv'
  <2> DEFINE r == [IdleManager EXCEPT !.pc = "verify", !.device = d, !.wasEnabled = enabled]
  <2>1. /\ mgmt[m].pc = "idle" /\ d \in Pending /\ Serve(m, r)
        /\ UNCHANGED <<enabled, devices, codes>>
    BY <1>2 DEF VerifyRead
  <2>2. r \in Manager
    BY <1>t, ManagerRows
  <2>3. r.pc = "verify" /\ r.device = d /\ r.wasEnabled = enabled
    BY DEF IdleManager
  <2> HIDE DEF r
  <2>4. Accurate(mgmt[m], enabled, Usable, Pending, Unused)
        => Accurate(r, enabled', Usable', Pending', Unused')
    BY <1>t, <1>u, <2>1, <2>3 DEF Accurate
  <2>5. devices'[d].created
    BY <2>1 DEF Pending
  <2> QED
    BY <1>t, <1>u, <2>1, <2>2, <2>3, <2>4, <2>5, ServeKeepsInv
<1>3. ASSUME NEW d \in Devices, RemoveRead(m, d) PROVE DevicesInv'
  <2> DEFINE last == (Usable \ {d} = {})
             r == [IdleManager EXCEPT !.pc = "remove", !.device = d, !.last = last,
                                      !.wasEnabled = enabled]
  <2>1. /\ mgmt[m].pc = "idle" /\ devices[d].created /\ Serve(m, r)
        /\ UNCHANGED <<enabled, devices, codes>>
    BY <1>3 DEF RemoveRead
  <2>0. last \in BOOLEAN /\ (last <=> Usable \subseteq {d})
    OBVIOUS
  <2> HIDE DEF last
  <2>2. r \in Manager
    BY <1>t, <2>0, ManagerRows
  <2>3. r.pc = "remove" /\ r.device = d /\ r.wasEnabled = enabled /\ r.last = last
    BY DEF IdleManager
  <2> HIDE DEF r
  <2>4. Accurate(mgmt[m], enabled, Usable, Pending, Unused)
        => Accurate(r, enabled', Usable', Pending', Unused')
    BY <1>t, <1>u, <2>0, <2>1, <2>3 DEF Accurate
  <2> QED
    BY <1>t, <1>u, <2>1, <2>2, <2>3, <2>4, ServeKeepsInv
<1>4. ASSUME ResetRead(m) PROVE DevicesInv'
  <2> DEFINE ds == {d \in Devices : devices[d].created /\ ~devices[d].disabled}
             r == [IdleManager EXCEPT !.pc = "reset", !.drop = ds, !.spend = Unused,
                                      !.wasEnabled = enabled]
  <2>1. /\ mgmt[m].pc = "idle" /\ Serve(m, r) /\ UNCHANGED <<enabled, devices, codes>>
    BY <1>4 DEF ResetRead
  <2>0. ds \in SUBSET Devices /\ Usable \subseteq ds
    BY <1>t DEF Usable
  <2> HIDE DEF ds
  <2>2. r \in Manager
    BY <1>t, <1>s, <2>0, ManagerRows
  <2>3. r.pc = "reset" /\ r.drop = ds /\ r.wasEnabled = enabled
    BY DEF IdleManager
  <2> HIDE DEF r
  <2>4. Accurate(mgmt[m], enabled, Usable, Pending, Unused)
        => Accurate(r, enabled', Usable', Pending', Unused')
    BY <1>t, <1>u, <2>0, <2>1, <2>3 DEF Accurate
  <2> QED
    BY <1>t, <1>u, <2>1, <2>2, <2>3, <2>4, ServeKeepsInv
<1>5. ASSUME GenerateRead(m) PROVE DevicesInv'
  <2> DEFINE r == [IdleManager EXCEPT !.spend = Unused,
                      !.pc = IF Unused = {} THEN "issue" ELSE "generate"]
  <2>1. /\ mgmt[m].pc = "idle" /\ Serve(m, r) /\ UNCHANGED <<enabled, devices, codes>>
    BY <1>5 DEF GenerateRead
  <2>2. r \in Manager
    BY <1>s, ManagerRows
  <2>3. r.pc = (IF Unused = {} THEN "issue" ELSE "generate") /\ r.spend = Unused
    BY DEF IdleManager
  <2> HIDE DEF r
  <2>4. Accurate(mgmt[m], enabled, Usable, Pending, Unused)
        => Accurate(r, enabled', Usable', Pending', Unused')
    BY <1>u, <2>1, <2>3 DEF Accurate
  <2> QED
    BY <1>t, <1>u, <2>1, <2>2, <2>3, <2>4, ServeKeepsInv
<1> QED
  BY <1>1, <1>2, <1>3, <1>4, <1>5

\* Enrollment: what is disabled was pending, what is created was not there.
LEMMA EnrollKeepsInv ==
    ASSUME DevicesInv, NEW m \in Managers, EnrollDisable(m) \/ EnrollCreate(m)
    PROVE  DevicesInv'
<1>t. /\ DevicesTypeOK /\ enabled \in BOOLEAN
      /\ devices \in [Devices -> DeviceRow]
      /\ codes \in [Codes -> {"none", "unused", "used"}]
      /\ \A d \in Devices : devices[d].verified => devices[d].created
  BY DEF DevicesInv, DevicesTypeOK, RowsSound
<1>1. CASE EnrollDisable(m)
  <2> DEFINE r == [IdleManager EXCEPT !.pc = "create"]
             ds == mgmt[m].drop
  <2>1. /\ mgmt[m].pc = "enroll" /\ devices' = Disable(ds) /\ Serve(m, r)
        /\ UNCHANGED <<enabled, codes>>
    BY <1>1 DEF EnrollDisable
  <2>2. r \in Manager /\ r.pc = "create"
    BY ManagerRows DEF IdleManager
  <2> HIDE DEF r
  <2>3. /\ devices' \in [Devices -> DeviceRow]
        /\ \A d \in Devices : /\ devices'[d].created = devices[d].created
                              /\ devices'[d].verified = devices[d].verified
        /\ Usable' = Usable \ ds
    BY <1>t, <2>1, DisableShape
  <2>4. Unused' = Unused
    BY <2>1 DEF Unused
  <2>5. Accurate(mgmt[m], enabled, Usable, Pending, Unused)
        => Accurate(r, enabled', Usable', Pending', Unused')
    BY <2>1, <2>2, <2>3, <2>4 DEF Accurate
  <2> QED
    BY <1>t, <2>1, <2>2, <2>3, <2>5, ServeKeepsInv
<1>2. CASE EnrollCreate(m)
  <2>0. PICK d \in FreshDevices : devices' = [devices EXCEPT ![d].created = TRUE]
    BY <1>2 DEF EnrollCreate
  <2>1. /\ mgmt[m].pc = "create" /\ Serve(m, IdleManager) /\ UNCHANGED <<enabled, codes>>
    BY <1>2 DEF EnrollCreate, Served
  <2>2. IdleManager \in Manager /\ IdleManager.pc = "idle"
    BY ManagerRows DEF IdleManager
  <2>3. ASSUME NEW e \in Devices
        PROVE  /\ devices'[e] \in DeviceRow
               /\ devices'[e].created <=> devices[e].created \/ e = d
               /\ devices'[e].verified <=> devices[e].verified
               /\ devices'[e].disabled <=> devices[e].disabled
    BY <1>t, <2>0 DEF DeviceRow, FreshDevices
  <2>4. devices' \in [Devices -> DeviceRow]
    BY <1>t, <2>0, <2>3
  <2>5. Usable' = Usable /\ Unused' = Unused
    BY <2>1, <2>3 DEF Usable, Unused
  <2>6. Accurate(mgmt[m], enabled, Usable, Pending, Unused)
        => Accurate(IdleManager, enabled', Usable', Pending', Unused')
    BY <2>1, <2>2, <2>5 DEF Accurate
  <2> QED
    BY <1>t, <2>1, <2>2, <2>3, <2>4, <2>6, ServeKeepsInv
<1> QED
  BY <1>1, <1>2

\* verify_totp_enrollment and remove_device: the flag follows the devices.
LEMMA VerifyRemoveKeepInv ==
    ASSUME DevicesInv, NEW m \in Managers, VerifyCommit(m) \/ RemoveCommit(m)
    PROVE  DevicesInv'
<1>t. /\ DevicesTypeOK /\ enabled \in BOOLEAN
      /\ devices \in [Devices -> DeviceRow]
      /\ codes \in [Codes -> {"none", "unused", "used"}]
      /\ \A d \in Devices : devices[d].verified => devices[d].created
  BY DEF DevicesInv, DevicesTypeOK, RowsSound
<1>i. IdleManager \in Manager /\ IdleManager.pc = "idle"
  BY ManagerRows DEF IdleManager
<1>1. CASE VerifyCommit(m)
  <2> DEFINE d == mgmt[m].device
  <2>1. /\ mgmt[m].pc = "verify" /\ Serve(m, IdleManager) /\ UNCHANGED codes
        /\ devices' = [devices EXCEPT ![d].verified = TRUE]
        /\ enabled' = (enabled \/ ~mgmt[m].wasEnabled)
    BY <1>1 DEF VerifyCommit, Served
  <2>2. d \in Devices /\ devices[d].created
    BY <2>1 DEF DevicesInv, RowsSound
  <2> HIDE DEF d
  <2>3. ASSUME NEW e \in Devices
        PROVE  /\ devices'[e] \in DeviceRow
               /\ devices'[e].created <=> devices[e].created
               /\ devices'[e].verified <=> devices[e].verified \/ e = d
               /\ devices'[e].disabled <=> devices[e].disabled
    BY <1>t, <2>1 DEF DeviceRow
  <2>4. devices' \in [Devices -> DeviceRow]
    BY <1>t, <2>1, <2>3
  <2>5. Unused' = Unused
    BY <2>1 DEF Unused
  <2>6. ASSUME Accurate(mgmt[m], enabled, Usable, Pending, Unused)
        PROVE  Accurate(IdleManager, enabled', Usable', Pending', Unused')
    <3>1. d \in Pending /\ (mgmt[m].wasEnabled <=> enabled) /\ \A c, e \in Unused : c = e
      BY <2>1, <2>6 DEF Accurate, d
    <3>2. d \in Usable'
      BY <2>2, <2>3, <3>1 DEF Usable, Pending
    <3>3. enabled'
      BY <2>1, <3>1
    <3> QED
      BY <1>i, <2>5, <3>1, <3>2, <3>3 DEF Accurate
  <2>7. enabled' \in BOOLEAN
    BY <2>1
  <2> QED
    BY <1>t, <1>i, <2>1, <2>2, <2>3, <2>4, <2>6, <2>7, ServeKeepsInv
<1>2. CASE RemoveCommit(m)
  <2> DEFINE d == mgmt[m].device
  <2>1. /\ mgmt[m].pc = "remove" /\ Serve(m, IdleManager) /\ UNCHANGED codes
        /\ devices' = Disable({d})
        /\ enabled' = (enabled /\ ~(mgmt[m].last /\ mgmt[m].wasEnabled))
    BY <1>2 DEF RemoveCommit, Served
  <2> HIDE DEF d
  <2>3. /\ devices' \in [Devices -> DeviceRow]
        /\ \A e \in Devices : /\ devices'[e].created = devices[e].created
                              /\ devices'[e].verified = devices[e].verified
        /\ Usable' = Usable \ {d}
    BY <1>t, <2>1, DisableShape
  <2>5. Unused' = Unused
    BY <2>1 DEF Unused
  <2>6. ASSUME Accurate(mgmt[m], enabled, Usable, Pending, Unused)
        PROVE  Accurate(IdleManager, enabled', Usable', Pending', Unused')
    <3>1. /\ mgmt[m].last <=> Usable \subseteq {d}
          /\ mgmt[m].wasEnabled <=> enabled
          /\ enabled <=> Usable # {}
          /\ \A c, e \in Unused : c = e
      BY <2>1, <2>6 DEF Accurate, d
    <3>2. enabled' <=> Usable' # {}
      BY <2>1, <2>3, <3>1
    <3> QED
      BY <1>i, <2>5, <3>1, <3>2 DEF Accurate
  <2>7. enabled' \in BOOLEAN
    BY <2>1
  <2> QED
    BY <1>t, <1>i, <2>1, <2>3, <2>6, <2>7, ServeKeepsInv
<1> QED
  BY <1>1, <1>2

\* reset_user_mfa: between its two commits nothing is usable.
LEMMA ResetKeepsInv ==
    ASSUME DevicesInv, NEW m \in Managers, ResetCodes(m) \/ ResetFlags(m) \/ ResetAtOnce(m)
    PROVE  DevicesInv'
<1>t. /\ DevicesTypeOK /\ enabled \in BOOLEAN
      /\ devices \in [Devices -> DeviceRow]
      /\ codes \in [Codes -> {"none", "unused", "used"}]
      /\ \A d \in Devices : devices[d].verified => devices[d].created
  BY DEF DevicesInv, DevicesTypeOK, RowsSound
<1>i. IdleManager \in Manager /\ IdleManager.pc = "idle"
  BY ManagerRows DEF IdleManager
<1>1. CASE ResetCodes(m)
  <2> DEFINE r == [IdleManager EXCEPT !.pc = "flags"]
             ds == mgmt[m].drop
  <2>1. /\ mgmt[m].pc = "reset" /\ devices' = Disable(ds) /\ codes' = Spend(mgmt[m].spend)
        /\ Serve(m, r) /\ UNCHANGED enabled
    BY <1>1 DEF ResetCodes
  <2>2. r \in Manager /\ r.pc = "flags"
    BY ManagerRows DEF IdleManager
  <2> HIDE DEF r, ds
  <2>3. /\ devices' \in [Devices -> DeviceRow]
        /\ \A d \in Devices : /\ devices'[d].created = devices[d].created
                              /\ devices'[d].verified = devices[d].verified
        /\ Usable' = Usable \ ds
    BY <1>t, <2>1, DisableShape
  <2>4. codes' \in [Codes -> {"none", "unused", "used"}] /\ Unused' \subseteq Unused
    BY <1>t, <2>1, SpendShape
  <2>5. Accurate(mgmt[m], enabled, Usable, Pending, Unused)
        => Accurate(r, enabled', Usable', Pending', Unused')
    BY <2>1, <2>2, <2>3, <2>4 DEF Accurate, ds
  <2> QED
    BY <1>t, <2>1, <2>2, <2>3, <2>4, <2>5, ServeKeepsInv
<1>2. CASE ResetFlags(m)
  <2>1. /\ mgmt[m].pc = "flags" /\ Serve(m, IdleManager) /\ UNCHANGED <<devices, codes>>
        /\ enabled' = FALSE
    BY <1>2 DEF ResetFlags, Served
  <2>2. Usable' = Usable /\ Unused' = Unused
    BY <2>1 DEF Usable, Unused
  <2>3. Accurate(mgmt[m], enabled, Usable, Pending, Unused)
        => Accurate(IdleManager, enabled', Usable', Pending', Unused')
    BY <1>i, <2>1, <2>2 DEF Accurate
  <2> QED
    BY <1>t, <1>i, <2>1, <2>3, ServeKeepsInv
<1>3. CASE ResetAtOnce(m)
  <2> DEFINE ds == mgmt[m].drop
  <2>1. /\ mgmt[m].pc = "reset" /\ devices' = Disable(ds) /\ Serve(m, IdleManager)
        /\ enabled' = (enabled /\ ~mgmt[m].wasEnabled) /\ UNCHANGED codes
    BY <1>3 DEF ResetAtOnce, Served
  <2> HIDE DEF ds
  <2>3. /\ devices' \in [Devices -> DeviceRow]
        /\ \A d \in Devices : /\ devices'[d].created = devices[d].created
                              /\ devices'[d].verified = devices[d].verified
        /\ Usable' = Usable \ ds
    BY <1>t, <2>1, DisableShape
  <2>4. Unused' = Unused
    BY <2>1 DEF Unused
  <2>5. ASSUME Accurate(mgmt[m], enabled, Usable, Pending, Unused)
        PROVE  Accurate(IdleManager, enabled', Usable', Pending', Unused')
    <3>1. Usable' = {} /\ ~enabled' /\ \A c, d \in Unused : c = d
      BY <2>1, <2>3, <2>5 DEF Accurate, ds
    <3> QED
      BY <1>i, <2>4, <3>1 DEF Accurate
  <2>6. enabled' \in BOOLEAN
    BY <2>1
  <2> QED
    BY <1>t, <1>i, <2>1, <2>3, <2>5, <2>6, ServeKeepsInv
<1> QED
  BY <1>1, <1>2, <1>3

\* generate_recovery_codes: the old batch is dead before the new one exists.
LEMMA GenerateKeepsInv ==
    ASSUME DevicesInv, NEW m \in Managers, GenerateInvalidate(m) \/ GenerateIssue(m)
    PROVE  DevicesInv'
<1>t. /\ DevicesTypeOK /\ enabled \in BOOLEAN
      /\ devices \in [Devices -> DeviceRow]
      /\ codes \in [Codes -> {"none", "unused", "used"}]
      /\ \A d \in Devices : devices[d].verified => devices[d].created
  BY DEF DevicesInv, DevicesTypeOK, RowsSound
<1>1. CASE GenerateInvalidate(m)
  <2> DEFINE r == [IdleManager EXCEPT !.pc = "issue"]
  <2>1. /\ mgmt[m].pc = "generate" /\ codes' = Spend(mgmt[m].spend)
        /\ Serve(m, r) /\ UNCHANGED <<enabled, devices>>
    BY <1>1 DEF GenerateInvalidate
  <2>2. r \in Manager /\ r.pc = "issue"
    BY ManagerRows DEF IdleManager
  <2> HIDE DEF r
  <2>3. /\ codes' \in [Codes -> {"none", "unused", "used"}]
        /\ Unused' = Unused \ mgmt[m].spend
        /\ Usable' = Usable
    BY <1>t, <2>1, SpendShape DEF Usable
  <2>4. Accurate(mgmt[m], enabled, Usable, Pending, Unused)
        => Accurate(r, enabled', Usable', Pending', Unused')
    BY <2>1, <2>2, <2>3 DEF Accurate
  <2> QED
    BY <1>t, <2>1, <2>2, <2>3, <2>4, ServeKeepsInv
<1>2. CASE GenerateIssue(m)
  <2>0. PICK c \in FreshCodes : codes' = [codes EXCEPT ![c] = "unused"]
    BY <1>2 DEF GenerateIssue
  <2>1. /\ mgmt[m].pc = "issue" /\ Serve(m, IdleManager) /\ UNCHANGED <<enabled, devices>>
    BY <1>2 DEF GenerateIssue, Served
  <2>2. IdleManager \in Manager /\ IdleManager.pc = "idle"
    BY ManagerRows DEF IdleManager
  <2>3. /\ codes' \in [Codes -> {"none", "unused", "used"}]
        /\ Unused' = Unused \cup {c}
        /\ Usable' = Usable
    BY <1>t, <2>0, <2>1 DEF Usable, Unused, FreshCodes
  <2>4. Accurate(mgmt[m], enabled, Usable, Pending, Unused)
        => Accurate(IdleManager, enabled', Usable', Pending', Unused')
    BY <2>1, <2>2, <2>3 DEF Accurate
  <2> QED
    BY <1>t, <2>1, <2>2, <2>3, <2>4, ServeKeepsInv
<1> QED
  BY <1>1, <1>2

LEMMA DevicesInvNext == DevicesInv /\ DevicesNext => DevicesInv'
<1> SUFFICES ASSUME DevicesInv, NEW m \in Managers,
                    \/ EnrollRead(m) \/ EnrollDisable(m) \/ EnrollCreate(m)
                    \/ \E d \in Devices : VerifyRead(m, d) \/ RemoveRead(m, d)
                    \/ VerifyCommit(m) \/ RemoveCommit(m)
                    \/ ResetRead(m) \/ ResetCodes(m) \/ ResetFlags(m) \/ ResetAtOnce(m)
                    \/ GenerateRead(m) \/ GenerateInvalidate(m) \/ GenerateIssue(m)
                    \/ ManagerCrash(m)
             PROVE  DevicesInv'
  BY DEF DevicesNext
<1>1. CASE ManagerCrash(m)
  <2>1. IdleManager \in Manager /\ IdleManager.pc = "idle"
    BY ManagerRows DEF IdleManager
  <2>2. /\ DevicesTypeOK' /\ disturbed'
        /\ \A n \in Managers : mgmt'[n] = mgmt[n] \/ mgmt'[n] = IdleManager
    BY <1>1, <2>1 DEF ManagerCrash, DevicesInv, DevicesTypeOK
  <2> QED
    BY <1>1, <2>1, <2>2 DEF ManagerCrash, DevicesInv, RowsSound, Undisturbed
<1> QED
  BY <1>1, ReadsKeepInv, EnrollKeepsInv, VerifyRemoveKeepInv, ResetKeepsInv, GenerateKeepsInv

---------------------------------------------------------------------------
(* Logins and challenges                                                   *)

\* A request that verifies is about a challenge, and the emailed code it found
\* had been sent.
SnapshotsSound ==
    \A l \in Logins :
        /\ login[l].pc \in {"verify", "consume", "finish"} => login[l].challenge \in Challenges
        /\ login[l].row # NoOtp => otps[login[l].row].state # "none"

\* A session is minted by the one request that consumed the challenge.
MintsSound ==
    /\ \A c \in Challenges : minted[c] <= 1 /\ (minted[c] # 0 => c \in revoked)
    /\ \A l \in Logins : login[l].pc = "finish" =>
          login[l].challenge \in revoked /\ minted[login[l].challenge] = 0
    /\ \A k, l \in Logins : login[k].pc = "finish" /\ login[l].pc = "finish"
          /\ login[k].challenge = login[l].challenge => k = l

\* What was redeemed is marked as used in its table.
FactorsSound ==
    /\ \A f \in Factors : redeemed[f] <= 1
    /\ \A f \in TotpCodes : f \notin usedSteps => redeemed[f] = 0
    /\ \A c \in Codes : codes[c] # "used" => redeemed[c] = 0
    /\ \A o \in Otps : otps[o].state \in {"none", "live"} => redeemed[o] = 0

\* A live code's counter accounts for every wrong code compared with it.
GuessesSound ==
    \A o \in Otps :
        /\ otps[o].state = "none" => wrongs[o] = 0
        /\ otps[o].state = "live" /\ otps[o].attempts < MaxAttempts => wrongs[o] <= otps[o].attempts

OneLive == \A o, p \in Live : o = p

ChallengeInv ==
    /\ TypeOK /\ DevicesInv
    /\ SnapshotsSound /\ MintsSound /\ FactorsSound /\ GuessesSound /\ OneLive

LEMMA ChallengeInvInit == Init => ChallengeInv
<1> SUFFICES ASSUME Init PROVE ChallengeInv
  OBVIOUS
<1>1. DevicesInv
  BY DevicesInvInit DEF Init
<1>2. NoOtpRow \in OtpRow /\ IdleLogin \in Login
  BY MfaChallengeAssumption DEF NoOtpRow, OtpRow, IdleLogin, Login
<1>3. TypeOK
  BY <1>1, <1>2, MfaChallengeAssumption DEF DevicesInv, Init, TypeOK
<1>4. (\A l \in Logins : login[l].pc = "idle" /\ login[l].row = NoOtp)
      /\ \A o \in Otps : otps[o].state = "none"
  BY DEF Init, IdleLogin, NoOtpRow
<1>5. SnapshotsSound /\ MintsSound /\ OneLive
  BY <1>4 DEF Init, SnapshotsSound, MintsSound, OneLive, Live
<1>6. FactorsSound /\ GuessesSound
  BY <1>4 DEF Init, FactorsSound, GuessesSound, Factors
<1> QED
  BY <1>1, <1>3, <1>5, <1>6 DEF ChallengeInv

LEMMA ProceedShape ==
    ASSUME ChallengeInv, NEW l \in Logins, NEW r \in Login, Proceed(l, r)
    PROVE  /\ login' \in [Logins -> Login]
           /\ login'[l] = r
           /\ \A k \in Logins \ {l} : login'[k] = login[k]
BY DEF ChallengeInv, TypeOK, Proceed

\* A request that goes on, without consuming a challenge or minting.
LEMMA ProceedKeeps ==
    ASSUME ChallengeInv, NEW l \in Logins, NEW r \in Login, Proceed(l, r),
           r.pc # "finish",
           r.pc \in {"verify", "consume"} => r.challenge \in Challenges,
           r.row # NoOtp => otps'[r.row].state # "none",
           \A o \in Otps : otps[o].state # "none" => otps'[o].state # "none",
           UNCHANGED <<revoked, minted>>
    PROVE  SnapshotsSound' /\ MintsSound'
<1> USE ProceedShape DEF ChallengeInv
<1>1. ASSUME NEW k \in Logins
      PROVE  /\ login'[k].pc \in {"verify", "consume", "finish"} => login'[k].challenge \in Challenges
             /\ login'[k].row # NoOtp => otps'[login'[k].row].state # "none"
  <2>1. CASE k = l
    BY <2>1
  <2>2. CASE k # l
    <3>1. login'[k] = login[k] /\ login[k].row \in Otps \cup {NoOtp}
      BY <2>2 DEF TypeOK, Login
    <3> QED
      BY <3>1 DEF SnapshotsSound
  <2> QED
    BY <2>1, <2>2
<1>2. MintsSound'
  <2>1. \A k \in Logins : login'[k].pc = "finish" => k # l /\ login'[k] = login[k]
    OBVIOUS
  <2> QED
    BY <2>1 DEF MintsSound
<1> QED
  BY <1>1, <1>2 DEF SnapshotsSound

LEMMA LoginRows ==
    ASSUME NEW c \in Challenges \cup {NoChallenge}, NEW ds \in SUBSET Devices,
           NEW cs \in SUBSET Codes, NEW o \in Otps \cup {NoOtp}, NEW os \in SUBSET Otps
    PROVE  /\ IdleLogin \in Login /\ IdleLogin.pc = "idle" /\ IdleLogin.row = NoOtp
           /\ [IdleLogin EXCEPT !.pc = "issue", !.sent = os] \in Login
           /\ [IdleLogin EXCEPT !.pc = "issue", !.challenge = c, !.sent = os] \in Login
           /\ [IdleLogin EXCEPT !.pc = "verify", !.challenge = c, !.devices = ds,
                                !.codes = cs, !.row = o] \in Login
BY DEF IdleLogin, Login

\* Steps that write no factor: a challenge is handed out, a snapshot taken, a
\* request refused, a second stage asked for, time passes.
LEMMA QuietStepsKeepInv ==
    ASSUME ChallengeInv, NEW l \in Logins, NEW r \in Login, login' = [login EXCEPT ![l] = r],
           r.pc # "finish",
           r.pc \in {"verify", "consume"} => r.challenge \in Challenges,
           r.row # NoOtp => otps[r.row].state # "none",
           stage' \in [Challenges -> {"none", "any", "email", "totp"}],
           UNCHANGED <<now, revoked, usedSteps, otps, minted, redeemed, wrongs, deviceVars>>
    PROVE  ChallengeInv'
<1>0. Proceed(l, r)
  BY DEF Proceed
<1>1. SnapshotsSound' /\ MintsSound'
  BY <1>0, ProceedKeeps
<1>2. DevicesInv'
  BY DEF ChallengeInv, DevicesInv, deviceVars, DevicesTypeOK, RowsSound, Undisturbed, OthersIdle,
         Usable, Pending, Unused
<1>3. TypeOK'
  BY <1>0, <1>2, ProceedShape DEF ChallengeInv, TypeOK, DevicesInv
<1>4. FactorsSound' /\ GuessesSound' /\ OneLive'
  BY DEF ChallengeInv, FactorsSound, GuessesSound, OneLive, Live, deviceVars
<1> QED
  BY <1>1, <1>2, <1>3, <1>4 DEF ChallengeInv

LEMMA ReadingKeepsInv ==
    ASSUME ChallengeInv, NEW l \in Logins
    PROVE  \/ \E c \in Challenges : LoginChallenge(l, c) \/ ResendRead(l, c) \/ VerifyStart(l, c)
           \/ LoginEmail(l) \/ FinishNext(l) \/ LoginFails(l)
           => ChallengeInv'
<1>t. /\ login \in [Logins -> Login]
      /\ stage \in [Challenges -> {"none", "any", "email", "totp"}]
      /\ Usable \in SUBSET Devices /\ Unused \in SUBSET Codes /\ Sent \in SUBSET Otps
  BY DEF ChallengeInv, TypeOK, Usable, Unused, Sent
<1>1. ASSUME NEW c \in Challenges, LoginChallenge(l, c) PROVE ChallengeInv'
  <2>1. /\ login' = [login EXCEPT ![l] = login[l]] /\ login[l] \in Login /\ login[l].pc = "idle"
        /\ stage' \in [Challenges -> {"none", "any", "email", "totp"}]
        /\ UNCHANGED <<now, revoked, usedSteps, otps, minted, redeemed, wrongs, deviceVars>>
    BY <1>t, <1>1 DEF LoginChallenge
  <2>2. login[l].row # NoOtp => otps[login[l].row].state # "none"
    BY DEF ChallengeInv, SnapshotsSound
  <2> QED
    BY <2>1, <2>2, QuietStepsKeepInv
<1>2. ASSUME NEW c \in Challenges, ResendRead(l, c) PROVE ChallengeInv'
  <2> DEFINE r == [IdleLogin EXCEPT !.pc = "issue", !.challenge = c, !.sent = Sent]
  <2>1. /\ login' = [login EXCEPT ![l] = r]
        /\ UNCHANGED <<now, stage, revoked, usedSteps, otps, minted, redeemed, wrongs, deviceVars>>
    BY <1>2 DEF ResendRead, Proceed
  <2>2. r \in Login /\ r.pc = "issue" /\ r.row = NoOtp
    BY <1>t, LoginRows DEF IdleLogin
  <2> HIDE DEF r
  <2> QED
    BY <1>t, <2>1, <2>2, QuietStepsKeepInv
<1>3. ASSUME NEW c \in Challenges, VerifyStart(l, c) PROVE ChallengeInv'
  <2>0. PICK o \in IF Candidates(c) = {} THEN {NoOtp} ELSE Candidates(c) :
          Proceed(l, [IdleLogin EXCEPT !.pc = "verify", !.challenge = c,
                        !.devices = Usable, !.codes = Unused, !.row = o])
    BY <1>3 DEF VerifyStart
  <2> DEFINE r == [IdleLogin EXCEPT !.pc = "verify", !.challenge = c,
                     !.devices = Usable, !.codes = Unused, !.row = o]
  <2>1. /\ login' = [login EXCEPT ![l] = r]
        /\ UNCHANGED <<now, stage, revoked, usedSteps, otps, minted, redeemed, wrongs, deviceVars>>
    BY <1>3, <2>0 DEF VerifyStart, Proceed
  <2>2. o = NoOtp \/ o \in Live
    BY <2>0 DEF Candidates
  <2>3. o \in Otps \cup {NoOtp} /\ (o # NoOtp => otps[o].state # "none")
    BY <2>2 DEF Live
  <2>4. r \in Login /\ r.pc = "verify" /\ r.row = o /\ r.challenge = c
    BY <1>t, <2>3, LoginRows DEF IdleLogin
  <2> HIDE DEF r
  <2> QED
    BY <1>t, <2>1, <2>3, <2>4, QuietStepsKeepInv
<1>4. ASSUME LoginEmail(l) PROVE ChallengeInv'
  <2> DEFINE r == [IdleLogin EXCEPT !.pc = "issue", !.sent = Sent]
  <2>1. /\ login' = [login EXCEPT ![l] = r]
        /\ UNCHANGED <<now, stage, revoked, usedSteps, otps, minted, redeemed, wrongs, deviceVars>>
    BY <1>4 DEF LoginEmail, Proceed
  <2>2. r \in Login /\ r.pc = "issue" /\ r.row = NoOtp
    BY <1>t, LoginRows DEF IdleLogin
  <2> HIDE DEF r
  <2> QED
    BY <1>t, <2>1, <2>2, QuietStepsKeepInv
<1>i. IdleLogin \in Login /\ IdleLogin.pc = "idle" /\ IdleLogin.row = NoOtp
  BY LoginRows
<1>5. ASSUME FinishNext(l) PROVE ChallengeInv'
  <2>1. /\ login' = [login EXCEPT ![l] = IdleLogin]
        /\ stage' \in [Challenges -> {"none", "any", "email", "totp"}]
        /\ UNCHANGED <<now, revoked, usedSteps, otps, minted, redeemed, wrongs, deviceVars>>
    BY <1>t, <1>5 DEF FinishNext, Answer, Proceed, FreshChallenges
  <2> QED
    BY <1>i, <2>1, QuietStepsKeepInv
<1>6. ASSUME LoginFails(l) PROVE ChallengeInv'
  <2>1. /\ login' = [login EXCEPT ![l] = IdleLogin]
        /\ UNCHANGED <<now, stage, revoked, usedSteps, otps, minted, redeemed, wrongs, deviceVars>>
    BY <1>6 DEF LoginFails, Answer, Proceed
  <2> QED
    BY <1>t, <1>i, <2>1, QuietStepsKeepInv
<1> QED
  BY <1>1, <1>2, <1>3, <1>4, <1>5, <1>6

\* issue_code: every live code is superseded in the transaction that inserts
\* the new one.
LEMMA IssueKeepsInv ==
    ASSUME ChallengeInv, NEW l \in Logins, IssueCommit(l)
    PROVE  ChallengeInv'
<1> USE DEF ChallengeInv
<1>0. PICK o \in FreshOtps,
           c \in IF login[l].challenge # NoChallenge THEN {login[l].challenge} ELSE FreshChallenges :
        /\ otps' = [p \in Otps |->
              IF p = o THEN [challenge |-> c, attempts |-> 0, created |-> now, state |-> "live"]
              ELSE IF p \in Superseded(login[l].sent) THEN [otps[p] EXCEPT !.state = "invalidated"]
              ELSE otps[p]]
        /\ stage' = IF login[l].challenge # NoChallenge THEN stage ELSE [stage EXCEPT ![c] = "email"]
  BY DEF IssueCommit
<1>1. /\ Proceed(l, IdleLogin)
      /\ UNCHANGED <<now, revoked, usedSteps, minted, redeemed, wrongs, deviceVars>>
  BY DEF IssueCommit, Answer
<1>i. IdleLogin \in Login /\ IdleLogin.pc = "idle" /\ IdleLogin.row = NoOtp
  BY LoginRows
<1>2. c \in Challenges /\ o \in Otps /\ otps[o].state = "none"
  BY <1>0 DEF TypeOK, Login, FreshChallenges, FreshOtps, Sent
<1>t. /\ \A p \in Otps : otps[p] \in OtpRow
      /\ now \in 0..MaxNow /\ MaxAttempts \in Nat
  BY MfaChallengeAssumption DEF TypeOK
<1>3. ASSUME NEW p \in Otps, p # o
      PROVE  /\ otps'[p] \in OtpRow
             /\ otps'[p].attempts = otps[p].attempts
             /\ otps'[p].state = IF otps[p].state = "live" THEN "invalidated" ELSE otps[p].state
  BY <1>0, <1>3, <1>t DEF OtpRow, Superseded, Live
<1>4. /\ otps'[o] \in OtpRow /\ otps'[o].state = "live" /\ otps'[o].attempts = 0
  BY <1>0, <1>2, <1>t DEF OtpRow
<1>5. otps' \in [Otps -> OtpRow]
  BY <1>0, <1>3, <1>4
<1>6. DevicesInv'
  BY <1>1 DEF DevicesInv, deviceVars, DevicesTypeOK, RowsSound, Undisturbed, OthersIdle,
              Usable, Pending, Unused
<1>7. TypeOK'
  BY <1>0, <1>1, <1>2, <1>5, <1>6, <1>i, ProceedShape DEF TypeOK, DevicesInv
<1>8. SnapshotsSound' /\ MintsSound'
  <2>1. \A p \in Otps : otps[p].state # "none" => otps'[p].state # "none"
    BY <1>2, <1>3
  <2> QED
    BY <1>1, <1>i, <2>1, ProceedKeeps
<1>9. FactorsSound'
  BY <1>1, <1>2, <1>3, <1>4 DEF FactorsSound, deviceVars
<1>10. GuessesSound'
  BY <1>1, <1>2, <1>3, <1>4 DEF GuessesSound
<1>11. OneLive'
  BY <1>3, <1>4 DEF OneLive, Live
<1> QED
  BY <1>6, <1>7, <1>8, <1>9, <1>10, <1>11

\* The kinds of factors are told apart by the table they are in.
LEMMA FactorKinds ==
    /\ TotpCodes \subseteq Factors /\ Codes \subseteq Factors /\ Otps \subseteq Factors
    /\ Codes \cap Otps = {} /\ TotpCodes \cap Codes = {} /\ TotpCodes \cap Otps = {}
BY MfaChallengeAssumption DEF TotpCodes, Steps, Factors

LEMMA RedeemShape ==
    ASSUME ChallengeInv, NEW f \in Factors, redeemed[f] = 0, Redeem(f)
    PROVE  /\ redeemed' \in [Factors -> Nat]
           /\ redeemed'[f] = 1
           /\ \A g \in Factors \ {f} : redeemed'[g] = redeemed[g]
           /\ \A g \in Factors : redeemed'[g] <= 1
<1>1. redeemed \in [Factors -> Nat] /\ \A g \in Factors : redeemed[g] <= 1
  BY DEF ChallengeInv, TypeOK, FactorsSound
<1>2. redeemed' = [redeemed EXCEPT ![f] = redeemed[f] + 1]
  BY DEF Redeem
<1> QED
  BY <1>1, <1>2

\* A factor was accepted: the request holds on to its challenge.
LEMMA ClaimedKeeps ==
    ASSUME ChallengeInv, NEW l \in Logins, Verifying(l), Claimed(l),
           \A o \in Otps : otps[o].state # "none" => otps'[o].state # "none",
           UNCHANGED <<revoked, minted>>
    PROVE  /\ login' \in [Logins -> Login]
           /\ SnapshotsSound' /\ MintsSound'
<1> DEFINE r == [login[l] EXCEPT !.pc = "consume"]
<1>1. login[l] \in Login /\ Proceed(l, r) /\ login[l].pc = "verify"
  BY DEF ChallengeInv, TypeOK, Verifying, Claimed
<1>2. r \in Login /\ r.pc = "consume" /\ r.challenge = login[l].challenge /\ r.row = login[l].row
  BY <1>1 DEF Login
<1>3. r.challenge \in Challenges
  BY <1>1, <1>2 DEF ChallengeInv, SnapshotsSound
<1>4. r.row # NoOtp => otps'[r.row].state # "none"
  <2>1. r.row \in Otps \cup {NoOtp}
    BY <1>2 DEF Login
  <2> QED
    BY <1>2, <2>1 DEF ChallengeInv, SnapshotsSound
<1> HIDE DEF r
<1> QED
  BY <1>1, <1>2, <1>3, <1>4, ProceedShape, ProceedKeeps

LEMMA TotpKeepsInv ==
    ASSUME ChallengeInv, NEW l \in Logins, TotpClaim(l)
    PROVE  ChallengeInv'
<1> USE DEF ChallengeInv
<1>1. PICK d \in login[l].devices, s \in Steps :
        /\ <<d, s>> \notin usedSteps
        /\ usedSteps' = usedSteps \cup {<<d, s>>}
        /\ Redeem(<<d, s>>)
  BY DEF TotpClaim
<1>2. /\ Verifying(l) /\ Claimed(l)
      /\ UNCHANGED <<now, stage, revoked, otps, minted, wrongs, deviceVars>>
  BY DEF TotpClaim
<1> DEFINE f == <<d, s>>
<1>3. f \in TotpCodes
  <2>1. d \in Devices
    BY DEF TypeOK, Login
  <2> QED
    BY <2>1 DEF TotpCodes
<1> HIDE DEF f
<1>4. f \notin usedSteps /\ usedSteps' = usedSteps \cup {f} /\ Redeem(f)
  BY <1>1 DEF f
<1>5. f \in Factors /\ redeemed[f] = 0
  BY <1>3, <1>4, FactorKinds DEF FactorsSound
<1>6. DevicesInv'
  BY <1>2 DEF DevicesInv, deviceVars, DevicesTypeOK, RowsSound, Undisturbed, OthersIdle,
              Usable, Pending, Unused
<1>7. login' \in [Logins -> Login] /\ SnapshotsSound' /\ MintsSound'
  BY <1>2, ClaimedKeeps
<1>8. TypeOK'
  BY <1>2, <1>3, <1>4, <1>5, <1>6, <1>7, RedeemShape DEF TypeOK, DevicesInv
<1>9. FactorsSound'
  BY <1>2, <1>3, <1>4, <1>5, RedeemShape, FactorKinds DEF FactorsSound, deviceVars
<1>10. GuessesSound' /\ OneLive'
  BY <1>2 DEF GuessesSound, OneLive, Live
<1> QED
  BY <1>6, <1>7, <1>8, <1>9, <1>10

\* A recovery code is redeemed while management requests run: it only makes
\* their snapshots of the unused codes too large.
LEMMA RecoveryKeepsInv ==
    ASSUME ChallengeInv, NEW l \in Logins, RecoveryClaim(l)
    PROVE  ChallengeInv'
<1> USE DEF ChallengeInv
<1>1. PICK c \in login[l].codes : c \in Unused /\ codes' = Spend({c}) /\ Redeem(c)
  BY DEF RecoveryClaim
<1>2. /\ Verifying(l) /\ Claimed(l)
      /\ UNCHANGED <<now, stage, revoked, usedSteps, otps, minted, wrongs, enabled, devices, mgmt,
                     disturbed>>
  BY DEF RecoveryClaim
<1>3. /\ codes' \in [Codes -> {"none", "unused", "used"}]
      /\ Unused' = Unused \ {c}
      /\ \A x \in Codes : codes[x] = "used" => codes'[x] = "used"
  BY <1>1, SpendShape DEF DevicesInv
<1>4. c \in Codes /\ codes[c] = "unused" /\ codes'[c] = "used"
  BY <1>1 DEF Unused, Spend
<1>5. c \in Factors /\ redeemed[c] = 0
  BY <1>4, FactorKinds DEF FactorsSound
<1>6. DevicesInv'
  <2>1. DevicesTypeOK' /\ RowsSound'
    BY <1>2, <1>3 DEF DevicesInv, DevicesTypeOK, RowsSound
  <2>2. Usable' = Usable /\ Pending' = Pending
    BY <1>2 DEF Usable, Pending
  <2>3. ASSUME NEW m \in Managers, Accurate(mgmt[m], enabled, Usable, Pending, Unused)
        PROVE  Accurate(mgmt[m], enabled, Usable, Pending, Unused')
    BY <1>3, <2>3 DEF Accurate
  <2>4. Undisturbed'
    BY <1>2, <1>3, <2>2, <2>3 DEF DevicesInv, Undisturbed, OthersIdle
  <2> QED
    BY <2>1, <2>4 DEF DevicesInv
<1>7. login' \in [Logins -> Login] /\ SnapshotsSound' /\ MintsSound'
  BY <1>2, ClaimedKeeps
<1>8. TypeOK'
  BY <1>1, <1>2, <1>5, <1>6, <1>7, RedeemShape DEF TypeOK, DevicesInv
<1>9. FactorsSound'
  BY <1>1, <1>2, <1>3, <1>4, <1>5, RedeemShape, FactorKinds DEF FactorsSound
<1>10. GuessesSound' /\ OneLive'
  BY <1>2 DEF GuessesSound, OneLive, Live
<1> QED
  BY <1>6, <1>7, <1>8, <1>9, <1>10

LEMMA EmailKeepsInv ==
    ASSUME ChallengeInv, NEW l \in Logins, EmailClaim(l)
    PROVE  ChallengeInv'
<1> USE DEF ChallengeInv
<1> DEFINE o == login[l].row
<1>1. /\ Verifying(l) /\ Claimed(l) /\ o \in Live
      /\ otps' = [otps EXCEPT ![o].state = "consumed"]
      /\ Redeem(o)
      /\ UNCHANGED <<now, stage, revoked, usedSteps, minted, wrongs, deviceVars>>
  BY DEF EmailClaim
<1> HIDE DEF o
<1>2. o \in Otps /\ otps[o].state = "live" /\ \A p \in Otps : otps[p] \in OtpRow
  BY <1>1 DEF Live, TypeOK
<1>3. ASSUME NEW p \in Otps
      PROVE  /\ otps'[p] \in OtpRow
             /\ p # o => otps'[p] = otps[p]
             /\ p = o => otps'[p].state = "consumed"
  BY <1>1, <1>2 DEF TypeOK, OtpRow
<1>4. otps' \in [Otps -> OtpRow]
  BY <1>1, <1>3 DEF TypeOK
<1>5. o \in Factors /\ redeemed[o] = 0
  BY <1>2, FactorKinds DEF FactorsSound
<1>6. DevicesInv'
  BY <1>1 DEF DevicesInv, deviceVars, DevicesTypeOK, RowsSound, Undisturbed, OthersIdle,
              Usable, Pending, Unused
<1>7. login' \in [Logins -> Login] /\ SnapshotsSound' /\ MintsSound'
  BY <1>1, <1>3, ClaimedKeeps
<1>8. TypeOK'
  BY <1>1, <1>4, <1>5, <1>6, <1>7, RedeemShape DEF TypeOK, DevicesInv
<1>9. FactorsSound'
  BY <1>1, <1>2, <1>3, <1>5, RedeemShape, FactorKinds DEF FactorsSound, deviceVars
<1>10. GuessesSound' /\ OneLive'
  BY <1>1, <1>3 DEF GuessesSound, OneLive, Live
<1> QED
  BY <1>6, <1>7, <1>8, <1>9, <1>10

\* verify_code with a wrong code: the counter and the comparison move together
\* as long as the row is live.
LEMMA WrongKeepsInv ==
    ASSUME ChallengeInv, NEW l \in Logins, EmailWrong(l)
    PROVE  ChallengeInv'
<1> USE DEF ChallengeInv
<1> DEFINE o == login[l].row
<1>1. /\ o # NoOtp
      /\ otps' = IF o \in Live /\ otps[o].attempts < MaxAttempts
                 THEN [otps EXCEPT ![o] = Missed(o)] ELSE otps
      /\ wrongs' = [wrongs EXCEPT ![o] = wrongs[o] + 1]
      /\ Proceed(l, IdleLogin)
      /\ UNCHANGED <<now, stage, revoked, usedSteps, minted, redeemed, deviceVars>>
  BY DEF EmailWrong, Answer
<1>2. o \in Otps /\ otps[o].state # "none"
  BY <1>1 DEF TypeOK, Login, SnapshotsSound
<1> HIDE DEF o
<1>i. IdleLogin \in Login /\ IdleLogin.pc = "idle" /\ IdleLogin.row = NoOtp
  BY LoginRows
<1>t. /\ MaxAttempts \in Nat /\ \A p \in Otps : otps[p] \in OtpRow /\ wrongs[p] \in Nat
      /\ wrongs \in [Otps -> Nat] /\ otps \in [Otps -> OtpRow]
  BY MfaChallengeAssumption DEF TypeOK
<1>3. ASSUME o \in Live, otps[o].attempts < MaxAttempts
      PROVE  /\ Missed(o) \in OtpRow
             /\ Missed(o).attempts = otps[o].attempts + 1
             /\ Missed(o).state \in {"live", "invalidated"}
  <2> DEFINE st == IF otps[o].attempts + 1 >= MaxAttempts THEN "invalidated" ELSE otps[o].state
             n == otps[o].attempts + 1
  <2>1. /\ otps[o] \in OtpRow /\ n \in 0..MaxAttempts /\ st \in {"live", "invalidated"}
    BY <1>2, <1>3, <1>t DEF OtpRow, Live
  <2>2. Missed(o) = [otps[o] EXCEPT !.attempts = n, !.state = st]
    BY DEF Missed
  <2> HIDE DEF st, n
  <2>3. /\ Missed(o) \in OtpRow /\ Missed(o).attempts = n /\ Missed(o).state = st
    BY <2>1, <2>2 DEF OtpRow
  <2> QED
    BY <2>1, <2>3 DEF n
<1>4. ASSUME NEW p \in Otps
      PROVE  /\ otps'[p] \in OtpRow
             /\ p # o => otps'[p] = otps[p]
             /\ otps'[p].state = "none" <=> otps[p].state = "none"
             /\ otps'[p].state = "live" => otps[p].state = "live"
             /\ p = o /\ otps'[p].state = "live" /\ otps'[p].attempts < MaxAttempts =>
                   otps[p].attempts < MaxAttempts /\ otps'[p].attempts = otps[p].attempts + 1
  <2>1. CASE o \in Live /\ otps[o].attempts < MaxAttempts
    <3>1. otps' = [otps EXCEPT ![o] = Missed(o)]
      BY <1>1, <2>1
    <3>2. otps'[p] = IF p = o THEN Missed(o) ELSE otps[p]
      BY <1>t, <3>1
    <3> QED
      BY <1>3, <1>t, <2>1, <3>2 DEF Live
  <2>2. CASE ~(o \in Live /\ otps[o].attempts < MaxAttempts)
    BY <1>1, <1>2, <1>t, <2>2 DEF Live
  <2> QED
    BY <2>1, <2>2
<1>5. otps' \in [Otps -> OtpRow]
  BY <1>1, <1>4, <1>t
<1>6. DevicesInv'
  BY <1>1 DEF DevicesInv, deviceVars, DevicesTypeOK, RowsSound, Undisturbed, OthersIdle,
              Usable, Pending, Unused
<1>7. SnapshotsSound' /\ MintsSound'
  BY <1>1, <1>4, <1>i, ProceedKeeps
<1>8. TypeOK'
  <2>1. wrongs' \in [Otps -> Nat]
    BY <1>1, <1>2, <1>t
  <2> QED
    BY <1>1, <1>5, <1>6, <1>i, <2>1, ProceedShape DEF TypeOK, DevicesInv
<1>9. FactorsSound'
  BY <1>1, <1>4 DEF FactorsSound, deviceVars
<1>10. ASSUME NEW p \in Otps
       PROVE  /\ otps'[p].state = "none" => wrongs'[p] = 0
              /\ otps'[p].state = "live" /\ otps'[p].attempts < MaxAttempts =>
                    wrongs'[p] <= otps'[p].attempts
  <2>1. CASE p # o
    BY <1>1, <1>4, <1>t, <2>1 DEF GuessesSound
  <2>2. CASE p = o
    <3>1. wrongs'[p] = wrongs[p] + 1 /\ otps'[p].state # "none" /\ otps[p].attempts \in Int
      BY <1>1, <1>2, <1>4, <1>t, <2>2 DEF OtpRow
    <3> QED
      BY <1>4, <1>t, <2>2, <3>1 DEF GuessesSound
  <2> QED
    BY <2>1, <2>2
<1>11. OneLive'
  BY <1>4 DEF OneLive, Live
<1> QED
  BY <1>6, <1>7, <1>8, <1>9, <1>10, <1>11 DEF GuessesSound

\* _consume_challenge_jti: the first insert wins.
LEMMA ConsumeKeepsInv ==
    ASSUME ChallengeInv, NEW l \in Logins, ConsumeJti(l)
    PROVE  ChallengeInv'
<1> USE DEF ChallengeInv
<1> DEFINE r == [login[l] EXCEPT !.pc = "finish"]
           c == login[l].challenge
<1>1. /\ login[l].pc = "consume" /\ c \notin revoked /\ revoked' = revoked \cup {c}
      /\ Proceed(l, r)
      /\ UNCHANGED <<now, stage, usedSteps, otps, minted, redeemed, wrongs, deviceVars>>
  BY DEF ConsumeJti
<1>2. login[l] \in Login /\ c \in Challenges
  BY <1>1 DEF TypeOK, SnapshotsSound
<1>3. r \in Login /\ r.pc = "finish" /\ r.challenge = c /\ r.row = login[l].row
  BY <1>2 DEF Login
<1> HIDE DEF r, c
<1>4. /\ login' \in [Logins -> Login] /\ login'[l] = r
      /\ \A k \in Logins \ {l} : login'[k] = login[k]
  BY <1>1, <1>3, ProceedShape
<1>5. DevicesInv'
  BY <1>1 DEF DevicesInv, deviceVars, DevicesTypeOK, RowsSound, Undisturbed, OthersIdle,
              Usable, Pending, Unused
<1>6. TypeOK'
  BY <1>1, <1>2, <1>4, <1>5 DEF TypeOK, DevicesInv
<1>7. SnapshotsSound'
  BY <1>1, <1>2, <1>3, <1>4 DEF SnapshotsSound
<1>8. MintsSound'
  <2>1. minted[c] = 0 /\ \A k \in Logins : login[k].pc = "finish" => login[k].challenge # c
    BY <1>1, <1>2 DEF MintsSound
  <2>2. ASSUME NEW k \in Logins, login'[k].pc = "finish"
        PROVE  login'[k].challenge \in revoked' /\ minted'[login'[k].challenge] = 0
    BY <1>1, <1>3, <1>4, <2>1, <2>2 DEF MintsSound
  <2>3. ASSUME NEW k \in Logins, NEW n \in Logins, login'[k].pc = "finish", login'[n].pc = "finish",
               login'[k].challenge = login'[n].challenge
        PROVE  k = n
    BY <1>3, <1>4, <2>1, <2>3 DEF MintsSound
  <2>4. \A d \in Challenges : minted'[d] <= 1 /\ (minted'[d] # 0 => d \in revoked')
    BY <1>1 DEF MintsSound
  <2> QED
    BY <2>2, <2>3, <2>4 DEF MintsSound
<1>9. FactorsSound' /\ GuessesSound' /\ OneLive'
  BY <1>1 DEF FactorsSound, GuessesSound, OneLive, Live, deviceVars
<1> QED
  BY <1>5, <1>6, <1>7, <1>8, <1>9

LEMMA MintKeepsInv ==
    ASSUME ChallengeInv, NEW l \in Logins, FinishMint(l)
    PROVE  ChallengeInv'
<1> USE DEF ChallengeInv
<1> DEFINE c == login[l].challenge
<1>1. /\ login[l].pc = "finish" /\ minted' = [minted EXCEPT ![c] = minted[c] + 1]
      /\ Proceed(l, IdleLogin)
      /\ UNCHANGED <<now, stage, revoked, usedSteps, otps, redeemed, wrongs, deviceVars>>
  BY DEF FinishMint, Answer
<1>2. c \in Challenges /\ c \in revoked /\ minted[c] = 0
  BY <1>1 DEF SnapshotsSound, MintsSound
<1>n. \A k \in Logins \ {l} : login[k].pc = "finish" => login[k].challenge # c
  BY <1>1 DEF MintsSound
<1> HIDE DEF c
<1>i. IdleLogin \in Login /\ IdleLogin.pc = "idle" /\ IdleLogin.row = NoOtp
  BY LoginRows
<1>4. /\ login' \in [Logins -> Login] /\ login'[l] = IdleLogin
      /\ \A k \in Logins \ {l} : login'[k] = login[k]
  BY <1>1, <1>i, ProceedShape
<1>5. DevicesInv'
  BY <1>1 DEF DevicesInv, deviceVars, DevicesTypeOK, RowsSound, Undisturbed, OthersIdle,
              Usable, Pending, Unused
<1>3. /\ minted' \in [Challenges -> Nat] /\ minted'[c] = 1
      /\ \A d \in Challenges \ {c} : minted'[d] = minted[d]
  BY <1>1, <1>2 DEF TypeOK
<1>6. TypeOK'
  BY <1>1, <1>3, <1>4, <1>5 DEF TypeOK, DevicesInv
<1>7. SnapshotsSound'
  BY <1>1, <1>i, <1>4 DEF SnapshotsSound
<1>8. MintsSound'
  <2>1. \A k \in Logins : login'[k].pc = "finish" => k # l /\ login'[k] = login[k]
    BY <1>4, <1>i
  <2>2. ASSUME NEW k \in Logins, login'[k].pc = "finish"
        PROVE  login'[k].challenge \in revoked' /\ minted'[login'[k].challenge] = 0
    BY <1>1, <1>3, <1>n, <2>1, <2>2 DEF MintsSound, SnapshotsSound
  <2>3. \A d \in Challenges : minted'[d] <= 1 /\ (minted'[d] # 0 => d \in revoked')
    BY <1>1, <1>2, <1>3 DEF MintsSound
  <2> QED
    BY <2>1, <2>2, <2>3 DEF MintsSound
<1>9. FactorsSound' /\ GuessesSound' /\ OneLive'
  BY <1>1 DEF FactorsSound, GuessesSound, OneLive, Live, deviceVars
<1> QED
  BY <1>5, <1>6, <1>7, <1>8, <1>9

\* Management requests never bring back a device or a code.
LEMMA DevicesStepIsFinal ==
    ASSUME DevicesInv, DevicesNext
    PROVE  /\ \A d \in Devices : devices[d].disabled => devices'[d].disabled
           /\ \A c \in Codes : codes[c] = "used" => codes'[c] = "used"
<1>t. /\ DevicesTypeOK /\ devices \in [Devices -> DeviceRow]
      /\ codes \in [Codes -> {"none", "unused", "used"}]
  BY DEF DevicesInv, DevicesTypeOK
<1>1. PICK m \in Managers :
        \/ UNCHANGED devices
        \/ EnrollDisable(m) \/ EnrollCreate(m) \/ VerifyCommit(m) \/ RemoveCommit(m)
        \/ ResetCodes(m) \/ ResetAtOnce(m)
  BY DEF DevicesNext, EnrollRead, VerifyRead, RemoveRead, ResetRead, ResetFlags, GenerateRead,
         GenerateInvalidate, GenerateIssue, ManagerCrash
<1>2. \A d \in Devices : devices[d].disabled => devices'[d].disabled
  <2>1. ASSUME NEW ds, devices' = Disable(ds)
        PROVE  \A d \in Devices : devices[d].disabled => devices'[d].disabled
    BY <1>t, <2>1, DisableShape
  <2>2. CASE EnrollDisable(m) \/ RemoveCommit(m) \/ ResetCodes(m) \/ ResetAtOnce(m)
    BY <2>1, <2>2 DEF EnrollDisable, RemoveCommit, ResetCodes, ResetAtOnce
  <2>3. CASE EnrollCreate(m)
    <3>1. PICK e \in FreshDevices : devices' = [devices EXCEPT ![e].created = TRUE]
      BY <2>3 DEF EnrollCreate
    <3> QED
      BY <1>t, <3>1 DEF DeviceRow
  <2>4. CASE VerifyCommit(m)
    <3>1. devices' = [devices EXCEPT ![mgmt[m].device].verified = TRUE]
      BY <2>4 DEF VerifyCommit
    <3> QED
      BY <1>t, <3>1 DEF DeviceRow
  <2> QED
    BY <1>1, <2>2, <2>3, <2>4
<1>3. PICK n \in Managers : UNCHANGED codes \/ ResetCodes(n) \/ GenerateInvalidate(n) \/ GenerateIssue(n)
  BY DEF DevicesNext, EnrollRead, EnrollDisable, EnrollCreate, VerifyRead, VerifyCommit, RemoveRead,
         RemoveCommit, ResetRead, ResetFlags, ResetAtOnce, GenerateRead, ManagerCrash
<1>4. \A c \in Codes : codes[c] = "used" => codes'[c] = "used"
  <2>1. CASE ResetCodes(n) \/ GenerateInvalidate(n)
    BY <1>t, <2>1, SpendShape DEF ResetCodes, GenerateInvalidate
  <2>2. CASE GenerateIssue(n)
    BY <1>t, <2>2 DEF GenerateIssue, FreshCodes
  <2> QED
    BY <1>3, <2>1, <2>2
<1> QED
  BY <1>2, <1>4

LEMMA ChallengeInvNext == ChallengeInv /\ [Next]_mfaVars => ChallengeInv'
<1> SUFFICES ASSUME ChallengeInv, [Next]_mfaVars PROVE ChallengeInv'
  OBVIOUS
<1>1. ASSUME NEW l \in Logins, LoginStep(l) PROVE ChallengeInv'
  BY <1>1, ReadingKeepsInv, IssueKeepsInv, TotpKeepsInv, RecoveryKeepsInv, EmailKeepsInv,
     WrongKeepsInv, ConsumeKeepsInv, MintKeepsInv
  DEF LoginStep
<1>2. ASSUME DevicesNext, UNCHANGED challengeVars PROVE ChallengeInv'
  <2>1. DevicesInv'
    BY <1>2, DevicesInvNext DEF ChallengeInv
  <2>2. \A c \in Codes : codes[c] = "used" => codes'[c] = "used"
    BY <1>2, DevicesStepIsFinal DEF ChallengeInv
  <2>3. TypeOK'
    BY <1>2, <2>1 DEF ChallengeInv, TypeOK, DevicesInv, challengeVars
  <2>4. SnapshotsSound' /\ MintsSound' /\ GuessesSound' /\ OneLive'
    BY <1>2 DEF ChallengeInv, SnapshotsSound, MintsSound, GuessesSound, OneLive, Live, challengeVars
  <2>5. FactorsSound'
    BY <1>2, <2>2 DEF ChallengeInv, FactorsSound, challengeVars
  <2> QED
    BY <2>1, <2>3, <2>4, <2>5 DEF ChallengeInv
<1>d. ASSUME UNCHANGED deviceVars PROVE DevicesInv'
  BY <1>d DEF ChallengeInv, DevicesInv, deviceVars, DevicesTypeOK, RowsSound, Undisturbed,
              OthersIdle, Usable, Pending, Unused
<1>3. ASSUME UNCHANGED <<stage, revoked, usedSteps, otps, login, minted, redeemed, wrongs, deviceVars>>,
             now' \in 0..MaxNow
      PROVE  ChallengeInv'
  <2>1. DevicesInv'
    BY <1>3, <1>d
  <2>2. TypeOK'
    BY <1>3, <2>1 DEF ChallengeInv, TypeOK, DevicesInv
  <2>3. /\ SnapshotsSound' /\ MintsSound' /\ GuessesSound' /\ OneLive' /\ FactorsSound'
    BY <1>3 DEF ChallengeInv, SnapshotsSound, MintsSound, GuessesSound, OneLive, Live, FactorsSound,
                deviceVars
  <2> QED
    BY <2>1, <2>2, <2>3 DEF ChallengeInv
<1>4. CASE Tick
  BY <1>3, <1>4, MfaChallengeAssumption DEF Tick, ChallengeInv, TypeOK
<1>5. CASE UNCHANGED mfaVars
  BY <1>3, <1>5 DEF mfaVars, challengeVars, ChallengeInv, TypeOK
<1> QED
  BY <1>1, <1>2, <1>4, <1>5 DEF Next

LEMMA ChallengeInvHolds == Spec => []ChallengeInv
BY ChallengeInvInit, ChallengeInvNext, PTL DEF Spec

\* Only three steps redeem a factor; each redeems one that is good at that
\* moment.
LEMMA RedeemedNow ==
    ASSUME ChallengeInv, [Next]_mfaVars
    PROVE  /\ \A c \in Codes : redeemed'[c] # redeemed[c] => c \in Unused
           /\ \A o \in Otps : redeemed'[o] # redeemed[o] =>
                 o \in Live /\ otps[o].attempts < MaxAttempts
<1> USE FactorKinds
<1>t. redeemed \in [Factors -> Nat]
  BY DEF ChallengeInv, TypeOK
<1>1. CASE UNCHANGED redeemed
  BY <1>1
<1>2. ASSUME NEW l \in Logins, TotpClaim(l)
      PROVE  \A g \in Codes \cup Otps : redeemed'[g] = redeemed[g]
  <2>1. PICK d \in login[l].devices, s \in Steps : Redeem(<<d, s>>)
    BY <1>2 DEF TotpClaim
  <2>2. <<d, s>> \in TotpCodes
    BY DEF ChallengeInv, TypeOK, Login, TotpCodes
  <2> QED
    BY <1>t, <2>1, <2>2 DEF Redeem
<1>3. ASSUME NEW l \in Logins, RecoveryClaim(l)
      PROVE  /\ \A o \in Otps : redeemed'[o] = redeemed[o]
             /\ \A c \in Codes : redeemed'[c] # redeemed[c] => c \in Unused
  <2>1. PICK c \in login[l].codes : c \in Unused /\ Redeem(c)
    BY <1>3 DEF RecoveryClaim
  <2> QED
    BY <1>t, <2>1 DEF Redeem, Unused
<1>4. ASSUME NEW l \in Logins, EmailClaim(l)
      PROVE  /\ \A c \in Codes : redeemed'[c] = redeemed[c]
             /\ \A o \in Otps : redeemed'[o] # redeemed[o] =>
                   o \in Live /\ otps[o].attempts < MaxAttempts
  <2>1. /\ login[l].row \in Live /\ otps[login[l].row].attempts < MaxAttempts
        /\ Redeem(login[l].row)
    BY <1>4 DEF EmailClaim
  <2> QED
    BY <1>t, <2>1 DEF Redeem, Live
<1>5. \/ UNCHANGED redeemed
      \/ \E l \in Logins : TotpClaim(l) \/ RecoveryClaim(l) \/ EmailClaim(l)
  BY DEF Next, LoginStep, LoginChallenge, ResendRead, VerifyStart, LoginEmail, IssueCommit, EmailWrong,
         ConsumeJti, FinishNext, FinishMint, LoginFails, Tick, mfaVars, challengeVars
<1> QED
  BY <1>1, <1>2, <1>3, <1>4, <1>5

---------------------------------------------------------------------------
(* Theorems                                                                *)

\* The rows of the user's factors, of the challenges and of the requests in
\* flight keep their types.
THEOREM TypeCorrect == Spec => []TypeOK
<1>1. ChallengeInv => TypeOK
  BY DEF ChallengeInv
<1> QED
  BY <1>1, ChallengeInvHolds, PTL

\* verify_mfa_challenge: one session per challenge, however many requests
\* answer it at once and with whatever factors.
THEOREM OneSessionPerChallenge == Spec => []ChallengeMintsOnce
<1>1. ChallengeInv => ChallengeMintsOnce
  BY DEF ChallengeInv, MintsSound, ChallengeMintsOnce
<1> QED
  BY <1>1, ChallengeInvHolds, PTL

\* _try_claim_totp_step, try_consume_recovery_code and verify_code: no factor
\* is accepted twice, although every login acts on a stale snapshot.
THEOREM FactorsAreSingleUse == Spec => []FactorRedeemedOnce
<1>1. ChallengeInv => FactorRedeemedOnce
  BY DEF ChallengeInv, FactorsSound, FactorRedeemedOnce
<1> QED
  BY <1>1, ChallengeInvHolds, PTL

\* enroll, verify, remove_device and reset_user_mfa, one after the other: the
\* flag login consults says whether a device can answer.
THEOREM FlagMatchesDevices == Spec => []EnabledHasDevice
<1>1. ChallengeInv => EnabledHasDevice
  BY DEF ChallengeInv, DevicesInv, Undisturbed, EnabledHasDevice
<1> QED
  BY <1>1, ChallengeInvHolds, PTL

\* issue_code, however logins and resends overlap, and generate_recovery_codes,
\* while its requests do not: a new code leaves no older one alive.
THEOREM NewCodesSupersede == Spec => []OneLiveCode
<1>1. ChallengeInv => OneLiveCode
  <2> SUFFICES ASSUME ChallengeInv PROVE OneLiveCode
    OBVIOUS
  <2>1. Cardinality(Live) <= 1
    BY AtMostOne DEF ChallengeInv, OneLive
  <2>2. ~disturbed => Cardinality(Unused) <= 1
    BY AtMostOne DEF ChallengeInv, DevicesInv, Undisturbed
  <2> QED
    BY <2>1, <2>2 DEF OneLiveCode, OneLiveBatch
<1> QED
  BY <1>1, ChallengeInvHolds, PTL

\* try_consume_recovery_code and verify_code check again what the snapshot
\* said: a code withdrawn meanwhile is refused.
THEOREM StaleFactorsRefused == Spec => RedeemsLiveFactor
<1>1. ChallengeInv /\ [Next]_mfaVars =>
        [/\ \A c \in Codes : redeemed'[c] # redeemed[c] => c \in Unused
         /\ \A o \in Otps : redeemed'[o] # redeemed[o] => o \in Live]_mfaVars
  BY RedeemedNow
<1> QED
  BY <1>1, ChallengeInvHolds, PTL DEF Spec, RedeemsLiveFactor

\* verify_code: mfa_email_otps.attempt_count is incremented in place, so that
\* concurrent guesses cannot exceed EMAIL_MFA_MAX_ATTEMPTS.
THEOREM GuessesAreCounted == Spec => OtpGuessesBounded
<1>1. ChallengeInv /\ [Next]_mfaVars =>
        [\A o \in Otps : redeemed'[o] # redeemed[o] => wrongs[o] < MaxAttempts]_mfaVars
  <2> SUFFICES ASSUME ChallengeInv, [Next]_mfaVars, NEW o \in Otps, redeemed'[o] # redeemed[o]
               PROVE  wrongs[o] < MaxAttempts
    OBVIOUS
  <2>1. otps[o].state = "live" /\ otps[o].attempts < MaxAttempts
    BY RedeemedNow DEF Live
  <2>2. wrongs[o] <= otps[o].attempts
    BY <2>1 DEF ChallengeInv, GuessesSound
  <2>3. wrongs[o] \in Int /\ otps[o].attempts \in Int /\ MaxAttempts \in Int
    BY MfaChallengeAssumption DEF ChallengeInv, TypeOK, OtpRow
  <2> QED
    BY <2>1, <2>2, <2>3
<1> QED
  BY <1>1, ChallengeInvHolds, PTL DEF Spec, OtpGuessesBounded

\* remove_device, reset_user_mfa and the logins beside them: a device or a code
\* that was taken away never answers again, whatever a request had read.
THEOREM RemovalIsFinal == Spec => RemovedStaysRemoved
<1>1. ChallengeInv /\ [Next]_mfaVars =>
        [/\ \A d \in Devices : devices[d].disabled => d \notin Usable'
         /\ \A c \in Codes : codes[c] = "used" => c \notin Unused']_deviceVars
  <2> SUFFICES ASSUME ChallengeInv, [Next]_mfaVars
               PROVE  [/\ \A d \in Devices : devices[d].disabled => d \notin Usable'
                       /\ \A c \in Codes : codes[c] = "used" => c \notin Unused']_deviceVars
    OBVIOUS
  <2>1. ASSUME /\ \A d \in Devices : devices[d].disabled => devices'[d].disabled
               /\ \A c \in Codes : codes[c] = "used" => codes'[c] = "used"
        PROVE  /\ \A d \in Devices : devices[d].disabled => d \notin Usable'
               /\ \A c \in Codes : codes[c] = "used" => c \notin Unused'
    BY <2>1 DEF Usable, Unused
  <2>2. CASE DevicesNext
    BY <2>1, <2>2, DevicesStepIsFinal DEF ChallengeInv
  <2>3. ASSUME NEW l \in Logins, RecoveryClaim(l)
        PROVE  /\ \A d \in Devices : devices[d].disabled => devices'[d].disabled
               /\ \A c \in Codes : codes[c] = "used" => codes'[c] = "used"
    <3>1. PICK c \in login[l].codes : codes' = Spend({c})
      BY <2>3 DEF RecoveryClaim
    <3> QED
      BY <2>3, <3>1, SpendShape DEF RecoveryClaim, ChallengeInv, DevicesInv
  <2>4. UNCHANGED deviceVars \/ DevicesNext \/ \E l \in Logins : RecoveryClaim(l)
    BY DEF Next, LoginStep, LoginChallenge, ResendRead, VerifyStart, LoginEmail, IssueCommit,
           TotpClaim, EmailClaim, EmailWrong, ConsumeJti, FinishNext, FinishMint, LoginFails, Tick,
           mfaVars
  <2> QED
    BY <2>1, <2>2, <2>3, <2>4
<1> QED
  BY <1>1, ChallengeInvHolds, PTL DEF Spec, RemovedStaysRemoved

===========================================================================
