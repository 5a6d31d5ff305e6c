---------------------------- MODULE MfaDevices ----------------------------
(***************************************************************************)
(* The second factors of one user: TOTP devices, recovery codes and the     *)
(* flag users.mfa_enabled that login consults (app/services/mfa_service.py:  *)
(* enrollment, removal, recovery codes, administrator reset).                *)
(*                                                                           *)
(* As in RefreshSessions, a handler that reads rows and writes them later    *)
(* keeps its snapshot between two steps, and the ORM writes a column only if *)
(* the value assigned differs from the one that was read.  A wrong TOTP code *)
(* changes nothing here, so enrollment is verified with the right one.       *)
(***************************************************************************)
EXTENDS Integers, FiniteSets

CONSTANTS
    Managers,     \* request slots for the operations of this module
    Devices,
    Codes,        \* recovery codes; each stands for the batch it came with
    Enrolled,     \* devices verified at the start
    Issued,       \* recovery codes unused at the start
    NoDevice

ASSUME MfaDevicesAssumption ==
    /\ Enrolled \subseteq Devices
    /\ Issued \subseteq Codes
    /\ \A c, d \in Issued : c = d
    /\ NoDevice \notin Devices

VARIABLES
    enabled,   \* users.mfa_enabled
    devices,   \* mfa_devices rows
    codes,     \* mfa_recovery_codes rows: absent, used_at NULL or set
    mgmt,      \* what each management request is doing
    disturbed  \* two such requests overlapped, or one died (history)

deviceVars == <<enabled, devices, codes, mgmt, disturbed>>

DeviceRow == [created : BOOLEAN, verified : BOOLEAN, disabled : BOOLEAN]
NoDeviceRow == [created |-> FALSE, verified |-> FALSE, disabled |-> FALSE]
VerifiedRow == [created |-> TRUE, verified |-> TRUE, disabled |-> FALSE]

\* drop: devices to disable; spend: codes to invalidate; wasEnabled and last:
\* what the snapshot said of mfa_enabled and of the other devices.
Manager == [pc : {"idle", "enroll", "create", "verify", "remove", "reset",
                  "flags", "generate", "issue"},
            device : Devices \cup {NoDevice}, drop : SUBSET Devices,
            spend : SUBSET Codes, wasEnabled : BOOLEAN, last : BOOLEAN]

IdleManager == [pc |-> "idle", device |-> NoDevice, drop |-> {}, spend |-> {},
                wasEnabled |-> FALSE, last |-> FALSE]

Usable == {d \in Devices : devices[d].verified /\ ~devices[d].disabled}
Pending == {d \in Devices : devices[d].created /\ ~devices[d].verified
                              /\ ~devices[d].disabled}
Unused == {c \in Codes : codes[c] = "unused"}

Serve(m, state) ==
    /\ mgmt' = [mgmt EXCEPT ![m] = state]
    /\ disturbed' = (disturbed \/ \E n \in Managers \ {m} : mgmt[n].pc # "idle")
Served(m) == Serve(m, IdleManager)

Disable(ds) == [d \in Devices |->
    IF d \in ds THEN [devices[d] EXCEPT !.disabled = TRUE] ELSE devices[d]]

\* Mutant of Spend: a marker of its own for codes that were not redeemed.
SpendMarked(cs) == [c \in Codes |-> IF c \in cs THEN "invalidated" ELSE codes[c]]

\* used_at is set for a redeemed and for an invalidated code alike.
Spend(cs) == [c \in Codes |-> IF c \in cs THEN "used" ELSE codes[c]]

\* Bounds: an operation starts only if the row it will insert is available.
FreshDevices == {d \in Devices : ~devices[d].created}
FreshCodes == {c \in Codes : codes[c] = "none"}
Creating == {m \in Managers : mgmt[m].pc \in {"enroll", "create"}}
Issuing == {m \in Managers : mgmt[m].pc \in {"generate", "issue"}}

---------------------------------------------------------------------------
(* start_totp_enrollment                                                   *)

\* _disable_pending_totp_devices reads the pending devices ...
EnrollRead(m) ==
    /\ mgmt[m].pc = "idle"
    /\ Cardinality(Creating) < Cardinality(FreshDevices)
    /\ Serve(m, [IdleManager EXCEPT !.drop = Pending,
                    !.pc = IF Pending = {} THEN "create" ELSE "enroll"])
    /\ UNCHANGED <<enabled, devices, codes>>

\* ... and commits them disabled, before the new one exists.
EnrollDisable(m) ==
    /\ mgmt[m].pc = "enroll"
    /\ devices' = Disable(mgmt[m].drop)
    /\ Serve(m, [IdleManager EXCEPT !.pc = "create"])
    /\ UNCHANGED <<enabled, codes>>

EnrollCreate(m) ==
    /\ mgmt[m].pc = "create"
    /\ \E d \in FreshDevices : devices' = [devices EXCEPT ![d].created = TRUE]
    /\ Served(m)
    /\ UNCHANGED <<enabled, codes>>

---------------------------------------------------------------------------
(* verify_totp_enrollment                                                  *)

VerifyRead(m, d) ==
    /\ mgmt[m].pc = "idle"
    /\ d \in Pending
    /\ Serve(m, [IdleManager EXCEPT !.pc = "verify", !.device = d,
                    !.wasEnabled = enabled])
    /\ UNCHANGED <<enabled, devices, codes>>

\* Mutant of VerifyCommit: the whole row is written back as it was read.
VerifyCommitWritesRow(m) ==
    /\ mgmt[m].pc = "verify"
    /\ devices' = [devices EXCEPT ![mgmt[m].device] = VerifiedRow]
    /\ enabled' = (enabled \/ ~mgmt[m].wasEnabled)
    /\ Served(m)
    /\ UNCHANGED codes

\* Sets verified_at, and mfa_enabled unless it was read as set already.
VerifyCommit(m) ==
    /\ mgmt[m].pc = "verify"
    /\ devices' = [devices EXCEPT ![mgmt[m].device].verified = TRUE]
    /\ enabled' = (enabled \/ ~mgmt[m].wasEnabled)
    /\ Served(m)
    /\ UNCHANGED codes

---------------------------------------------------------------------------
(* remove_device                                                           *)

\* Mutant of RemoveRead: the device being removed is still counted.
RemoveReadCountsItself(m, d) ==
    /\ mgmt[m].pc = "idle"
    /\ devices[d].created /\ ~devices[d].disabled
    /\ Serve(m, [IdleManager EXCEPT !.pc = "remove", !.device = d,
                    !.last = (Usable = {}), !.wasEnabled = enabled])
    /\ UNCHANGED <<enabled, devices, codes>>

\* The device, and how many verified ones remain without it.
RemoveRead(m, d) ==
    /\ mgmt[m].pc = "idle"
    /\ devices[d].created /\ ~devices[d].disabled
    /\ Serve(m, [IdleManager EXCEPT !.pc = "remove", !.device = d,
                    !.last = (Usable \ {d} = {}), !.wasEnabled = enabled])
    /\ UNCHANGED <<enabled, devices, codes>>

RemoveCommit(m) ==
    /\ mgmt[m].pc = "remove"
    /\ devices' = Disable({mgmt[m].device})
    /\ enabled' = (enabled /\ ~(mgmt[m].last /\ mgmt[m].wasEnabled))
    /\ Served(m)
    /\ UNCHANGED codes

---------------------------------------------------------------------------
(* reset_user_mfa                                                          *)

ResetRead(m) ==
    /\ mgmt[m].pc = "idle"
    /\ Serve(m, [IdleManager EXCEPT !.pc = "reset",
                    !.drop = {d \in Devices : devices[d].created /\ ~devices[d].disabled},
                    !.spend = Unused, !.wasEnabled = enabled])
    /\ UNCHANGED <<enabled, devices, codes>>

\* invalidate_recovery_codes commits when it found codes, which publishes the
\* disabled devices while mfa_enabled is still set.
ResetCodes(m) ==
    /\ mgmt[m].pc = "reset"
    /\ mgmt[m].spend # {}
    /\ devices' = Disable(mgmt[m].drop)
    /\ codes' = Spend(mgmt[m].spend)
    /\ Serve(m, [IdleManager EXCEPT !.pc = "flags"])
    /\ UNCHANGED enabled

\* The user was expired by that commit: the flag is written unseen.
ResetFlags(m) ==
    /\ mgmt[m].pc = "flags"
    /\ enabled' = FALSE
    /\ Served(m)
    /\ UNCHANGED <<devices, codes>>

\* Without codes there is a single commit.
ResetAtOnce(m) ==
    /\ mgmt[m].pc = "reset"
    /\ mgmt[m].spend = {}
    /\ devices' = Disable(mgmt[m].drop)
    /\ enabled' = (enabled /\ ~mgmt[m].wasEnabled)
    /\ Served(m)
    /\ UNCHANGED codes

---------------------------------------------------------------------------
(* generate_recovery_codes, regenerate_recovery_codes                      *)

GenerateRead(m) ==
    /\ mgmt[m].pc = "idle"
    /\ Cardinality(Issuing) < Cardinality(FreshCodes)
    /\ Serve(m, [IdleManager EXCEPT !.spend = Unused,
                    !.pc = IF Unused = {} THEN "issue" ELSE "generate"])
    /\ UNCHANGED <<enabled, devices, codes>>

\* invalidate_recovery_codes writes the rows it read, by primary key.
GenerateInvalidate(m) ==
    /\ mgmt[m].pc = "generate"
    /\ codes' = Spend(mgmt[m].spend)
    /\ Serve(m, [IdleManager EXCEPT !.pc = "issue"])
    /\ UNCHANGED <<enabled, devices>>

GenerateIssue(m) ==
    /\ mgmt[m].pc = "issue"
    /\ \E c \in FreshCodes : codes' = [codes EXCEPT ![c] = "unused"]
    /\ Served(m)
    /\ UNCHANGED <<enabled, devices>>

---------------------------------------------------------------------------
\* The worker dies, or its connection does.
ManagerCrash(m) ==
    /\ mgmt[m].pc # "idle"
    /\ mgmt' = [mgmt EXCEPT ![m] = IdleManager]
    /\ disturbed' = TRUE
    /\ UNCHANGED <<enabled, devices, codes>>

DevicesInit ==
    /\ enabled = (Enrolled # {})
    /\ devices = [d \in Devices |-> IF d \in Enrolled THEN VerifiedRow ELSE NoDeviceRow]
    /\ codes = [c \in Codes |-> IF c \in Issued THEN "unused" ELSE "none"]
    /\ mgmt = [m \in Managers |-> IdleManager]
    /\ disturbed = FALSE

DevicesNext ==
    \E m \in Managers :
        \/ EnrollRead(m) \/ EnrollDisable(m) \/ EnrollCreate(m)
        \/ \E d \in Devices : VerifyRead(m, d) \/ RemoveRead(m, d)
        \/ VerifyCommit(m) \/ RemoveCommit(m)
        \/ ResetRead(m) \/ ResetCodes(m) \/ ResetFlags(m) \/ ResetAtOnce(m)
        \/ GenerateRead(m) \/ GenerateInvalidate(m) \/ GenerateIssue(m)
        \/ ManagerCrash(m)

DevicesSpec == DevicesInit /\ [][DevicesNext]_deviceVars

---------------------------------------------------------------------------
(* Properties                                                              *)

\* The rows of the user's factors and the running requests have their types.
DevicesTypeOK ==
    /\ enabled \in BOOLEAN
    /\ devices \in [Devices -> DeviceRow]
    /\ codes \in [Codes -> {"none", "unused", "used"}]
    /\ mgmt \in [Managers -> Manager]
    /\ disturbed \in BOOLEAN

\* A factor that was taken away stays away, whatever enrollment, removal or
\* reset had been read before: a removed device never answers a challenge
\* again and an invalidated code is never valid again.
RemovedStaysRemoved ==
    [][/\ \A d \in Devices : devices[d].disabled => d \notin Usable'
       /\ \A c \in Codes : codes[c] = "used" => c \notin Unused']_deviceVars

\* mfa_enabled says whether there is a device to answer a challenge with:
\* otherwise login asks for a code nobody can produce, or for none at all.
\* Requests that overlap or die half-way may leave it wrong.
EnabledHasDevice ==
    ~disturbed /\ (\A m \in Managers : mgmt[m].pc = "idle") => (enabled <=> Usable # {})

\* generate_recovery_codes: a user never has two live batches of codes, unless
\* two requests issued them at the same time.
OneLiveBatch == ~disturbed => Cardinality(Unused) <= 1

=============================================================================
