# Specifications of omnibioai-auth

TLA+ models of the authentication service in `src/app`, checked with TLC and proved
with TLAPS: every safety property of the passing runs is also a theorem. `PROJECT.json`
lists the runs, the source lines behind each definition, the hazards, the findings and
the theorems.

    tlc -workers 2 -config MCRefreshSessions_concurrent.cfg MCRefreshSessions
    tlapm RefreshSessionsProofs.tla

## 1. The system

A FastAPI service with MySQL (all durable state) and Redis (blacklist, rate
limits, event stream). Several workers serve requests at once; they share no
memory, so every interaction goes through rows and keys. Two facts about the
database layer decide most of what can go wrong, and all modules rest on them:

* InnoDB runs at REPEATABLE READ: a transaction's plain SELECTs see the snapshot
  of its first one, while UPDATE, INSERT, UNIQUE and FOR UPDATE see the rows as
  they are. A handler that reads, decides and writes is therefore two steps.
* SQLAlchemy runs with `autoflush=False`, writes a column only if its value
  differs from the one loaded, addresses rows by primary key, and forgets what it
  loaded at a commit. `audit_service.log_event` commits unless told not to, so
  many handlers are several transactions; a worker may die between two of them.

### Components

| Component | State | Operations | What is hard | What makes it correct |
|---|---|---|---|---|
| Refresh tokens, sessions (`auth_service`, `session_service`, `user_admin_service`) | `refresh_tokens`, `sessions`, `users.status` | login, rotate, logout, revoke one or all, suspend | unlocked read then write, commits inside loops, reuse detection, sliding expiry | a revoked session mints nothing, is never revived; timeouts hold; limits hold |
| Rate limiter (`core/rate_limit`) | Redis counters and locks, per-worker fallback | record, is_locked, clear, strikes | Redis outage, eviction, TTL rounding | attempts per lockout are bounded, locks end |
| Login and MFA throttle (`login_throttle_service`, `mfa_throttle_service`) | keys per account, address, pair | check, record failure, escalate, record success | check long before count | the same, on each dimension |
| MFA devices, recovery codes (`mfa_service`) | `mfa_devices`, `mfa_recovery_codes`, `users.mfa_enabled` | enroll, verify, remove, generate, reset | counts read from a snapshot, several commits | flag and devices agree, removed stays removed |
| MFA challenge, email codes (`mfa_service`, `email_mfa_service`) | challenge tokens, `revoked_tokens`, `mfa_used_totp_steps`, `mfa_email_otps` | challenge, answer, issue, resend | two answers at once, replay, invalidation in between | one session per challenge, one use per factor |
| Enrollment sessions (`mfa_enrollment_service`) | `mfa_enrollment_sessions` | create, consume | single use | one enrollment per capability |
| Access tokens (`core/jwt`, `token_revocation`, `rbac`) | signed claims, Redis blacklist | mint, validate, blacklist | stale claims, Redis outage at logout | a logged-out token is refused; purposes are not confused |
| Invitations (`org_invitation_service`) | `organization_invitations`, memberships, users | create, preview, accept (new, existing), revoke, expire | double acceptance, account created half way | accepted once, never after revocation, no extra role |
| Licences (`license_service`, `manual_license_service`) | `license_keys` | issue, validate, bind, use, renew, revoke | use counted without a lock, idempotency keys | uses within the limit, one licence per request |
| Interaction events (`interaction_service`, `interaction_consumer`) | Redis stream, `interactions` | publish, consume, drain, acknowledge | crash between persist and acknowledge | no event lost or stored twice |
| Organisations, teams, roles (`org_service`, `team_service`, `role_service`) | memberships, roles | invite, assign, demote, leave | last-administrator and escalation checks on snapshots | never without an administrator, no self-escalation |
| OAuth, OIDC, SAML (`oauth_service`, `org_oidc_service`, `org_sso_service`, `org_saml_service`) | links, configurations, state tokens | login, link, provision, enforce, single logout | replayed callbacks, linking races, enforcement lock-out | an identity has one owner; enforcement has a way back |
| API keys, OAuth clients, service and delegated tokens | keys, clients, authorization codes | create, exchange, revoke, mint, introspect | code redeemed twice, revocation between issue and use | single use, no more rights than the holder |
| Integration credentials, configuration, preferences | encrypted rows | set, reveal, revoke, reference | references that outlive a credential | a revoked credential resolves to nothing |
| Audit ledger | `audit_events` with a digest | append, list | commits of its own | (an insert; its commits are in the models) |
| Start-up, schema guards, administrator seeding | schema, first account | run at boot | two replicas at once | idempotent |

How they interact: login = throttle check -> password -> MFA challenge -> minted
session; every privileged request = token decode -> blacklist -> live checks;
suspension and MFA reset reach into sessions and factors while those requests
run; an invitation, a sign-in through a provider and a licence end in a
membership; a membership's roles end in the claims of a token. What is left out
is listed under "Not modelled".

## 2. The modules

**`RefreshSessions`**: one account's tokens, families and sessions. Requests on
different accounts touch disjoint rows. `req[r]` is the handler a request slot is
running, with the part of its snapshot that it uses later.

| Action | Code |
|---|---|
| `LoginAuthenticate`, `LoginCommit`, `LoginEvict`, `LoginCreate` | `authenticate_user`, `generate_tokens`, `_evict_oldest_sessions_over_limit` |
| `RotateRead`, `RotateCommit`, `RotateConflict` | `rotate_refresh_token`; the conflict is the duplicate session id of two backfills |
| `LogoutRead`, `LogoutCommit` | `revoke_token` |
| `RevokeSessionStart` | `revoke_session` |
| `DisableRead`, `DisableCommit`, `Enable` | `set_user_status` |
| `SweepFamily`, `SweepRead`, `SweepWrite` | one turn of a revocation loop: the family's commit, then the session's |
| `Crash`, `Tick` | a worker dies between two commits; time |

`LoginCommit` is one step up to the first eviction because the FOR UPDATE locks
are held until the commit inside `_revoke_family`; what follows it is not.
`acceptedAt` and `held` are history: when a mint passed its checks, and which
tokens a client received.

**`RateLimit`** (the two Lua scripts, the fallback store, their TTLs) and
**`LoginThrottle`** (the requests around the password check, one Redis call per
step). `guesses` and `lockedFor` are history. The three lock reads of
`check_throttled` are one step: a lock set between them only matters to a request
that already passed, which the bound allows for. `RATE_LIMIT_ENABLED` is taken
as on. A request that dies before it records its failure is left out.

**`MfaDevices`**: the factors of one user and the requests that manage them. One
recovery code stands for the batch of ten it came with. `disturbed` is history: two
of these requests overlapped, or one died between its commits.

**`MfaChallenge`** extends `MfaDevices`: logins answer challenges while those
requests run. A login keeps what its snapshot said of devices, codes and emailed
codes; claims are single statements on the rows as they are. `minted`, `redeemed`
and `wrongs` are history. The throttle in front is left out, so its bounds do not
hide those of the codes; a challenge that expires is one the client no longer
uses. With `FinishMint` the session passes to `LoginCommit` of `RefreshSessions`.

**`InteractionConsumer`**: producers, the Redis stream, its consumer group and the
worker processes, down to the steps between which a process can die. An entry's ID
is its position in the append-only `log`; `trimmed` is how far MAXLEN has eaten
into it. A page is a set of IDs, handled from the lowest. `parked` is history: the
entries a failure left pending and no start has read again.
**`InteractionLedger`** is the promise: events are offered, recorded for good, and
settled only once recorded. `ImplementsLedger` maps the rows to the ledger and the
entries that were delivered and are pending for nobody to the settled events.

| Action | Code |
|---|---|
| `LocalBuild`, `LocalPersist`, `LocalPublish` | the three calls of `create_interaction`; either of the last two may fail alone |
| `RemotePublish` | the RAG service's XADD (external) |
| `Start`, `DrainRead`, `DrainDone` | `ensure_group`, `_drain_own_pending` page by page |
| `ReadNew`, `ReadLost`, `ReadEmpty` | `read_new` answered; answered but not heard; empty |
| `ParseFails`, `Persist`, `PersistFails`, `Ack` | the outcomes of `handle_message` |
| `Shutdown`, `Crash` | SIGTERM between reads; a kill or an uncaught exception |

**`AccessTokens`**: the pairs of signed tokens of one user, the facts their claims
state, and the two ways of taking one back.

| Action | Code |
|---|---|
| `Login`, `Refresh`, `SwitchTeam` | `generate_tokens`, `/auth/refresh`, `/auth/switch-team`: claims are built from the database, whatever the old token said |
| `LogoutRevoke`, `LogoutBlacklist`, `LogoutFails` | `/auth/logout`: the row, then the blacklist key; without Redis the answer is 503 |
| `ChangeGrant`, `SetUserStatus` | facts and status change under tokens in use |
| `RedisTurns`, `Tick` | Redis comes and goes; time |

`Usable` is what `get_current_user` accepts. `lostAt` and `loggedOut` are history.

**`Licenses`**: the licences of one address. `GenerateLicence`, `RenewLicence`,
`RevokeLicence` are one step each; `ValidateLicence`, `PullToken` read, `MarkUsed`,
`ReadMachine`, `BindMachine` are the two commits of an activation that follow;
`IssueStart`, `IssueCommit` are the unlocked look at the idempotency key and the
locked issue. `byKey` is history.

**`ServiceCredentials`**: keys, clients and what is derived from them, for one
organisation and one of its members.

| Action | Code |
|---|---|
| `CreateKeyRead`, `CreateKeyCommit`, `RevokeApiKey` | both creation routes: the count of active keys and the insert are apart |
| `ExchangeRead`, `ExchangeSign` | `/auth/api-key/exchange`: verification, then a signed copy |
| `CreateOAuthClient`, `RevokeOAuthClient`, `ClientCredentials` | `oauth_client_service`, `/oauth/token` |
| `DelegateExecution`, `RegisterToolServer` | tokens issued to the holder of a service token |
| `MintUserToken`, `AuthorizeLaunch`, `RedeemLaunch` | tokens for a user; launch codes of first-party applications |
| `ChangeHeld`, `SuspendUser`, `CredentialsTick` | what withdraws a right; time |

Beside them stand the acceptors: who takes which token, and what is looked up again.

**`Federation`**: identity providers and where a sign-in through one ends. `StartLogin`,
`Callback`, one of `ResolveLinked`, `ResolveByEmail`, `ResolveNew`, `ResolveRefused`, then
`CreateAccount`, `AutoLink`, `JoinOrganization` are the steps of one sign-in, each a
read or a commit of its own; `LinkConfirm`, `LinkExpires` use the link tokens;
`ConfigureIdp`, `UpdateIdp`, `DeleteIdp`, `SetEnforced`, `SetOverride` are the
administration; `AccountChanges`, `LicenceChanges` are the rest of the service.

**`SamlMessages`**: AuthnRequests, assertions and LogoutRequests against the clock and
the replay keys in Redis. `SendAuthnRequest`, `ConsumeAssertion`, `CompleteChallenge`,
`SpLogout`, `HandleLogoutRequest`, `SetSamlStatus` are the service's; `IdpAsserts` and
`IdpOrdersLogout` the provider's; `StoreTurns`, `SamlTick` Redis and time. How long a
LogoutRequest is valid is the provider's choice (`Windows`), and it need not say
(`Endless`): `NotOnOrAfter` is optional, the library checks it when it is there, and
`validate_slo_logout_request` neither asks for it nor limits it.

**`Organizations`**: organisations, the role catalogue, memberships with their roles,
global assignments, and the permission claim of the token each user presents.

| Action | Code |
|---|---|
| `StartUp` | `init_admin`: roles, permissions, first administrator, default organisation |
| `IssueToken` | a login or refresh reads the permissions |
| `CreateOrg`, `SetOrgStatus` | `org_service`, founder becomes org_admin |
| `InviteMember`, `JitProvisionMembership` | memberships the two direct ways |
| `SetMemberRoles`, `AddMemberRole`, `RemoveMemberRole` | `routes_orgs` and `org_service` with `resolve_roles_for_org` |
| `CreateRole`, `UpdateRole`, `DeleteRole` | the platform, organisation and legacy role routes |
| `AssignUserRole`, `RemoveUserRole`, `SetUserRoles` | global assignments |

No operation of the service removes a membership. `authority` is history: whether the
step was taken by a platform permission.

**`Invitations`** extends `Organizations`: creation, preview, revocation, expiry, the MFA
setup and acceptance by new and existing users, beside the organisation's roles and
MFA policy. An acceptance is one step under the row lock, except where a step-up
gives the lock up (`AcceptStepUp`). After a code that was good the row is locked and
checked again (`AcceptAfterStepUp`). After a replayed one `_try_claim_totp_step` has
rolled back, which expires the row: it is read again without a lock (`AcceptReload`) and
the failure is written from what was read (`AcceptReplayed`). `CreateInvitation` makes
sure of the base role; `CreateInvitationRefused` is the refusal whose audit event commits
it. `spent` and `madeBy` are history.

**`Teams`**: one team and its roster. `StartChange`, `CommitChange` are the count of the
administrators and the commit of demotion, removal and leaving; `bulk` is history.

The ways into the service (`AccessTokens` to `SamlMessages`) share no state and are put
side by side in `MCCredentials`; `Invitations` and `Teams` in `MCTenancy`. Both, and
`MCMfaChallenge`, have a variable `focus` that is chosen at the start and says which part
moves.

Each of these modules has a specification of its own next to its actions (`Spec`, or
`TokensSpec`, `CredentialsSpec`, `LicensesSpec`, `FederationSpec`, `SamlSpec`,
`InvitationsSpec`, `SerialTeamsSpec`); a module whose name ends in `Proofs` extends the
component's modules and holds the theorems about them (section 4); `TenancyProofs` and
`CredentialsProofs` also extend the MC module that puts their components side by side. No
model depends on a proof module.

Definitions named "Mutant of X" are wrong versions of X that a property must
catch. They are used only by the mutant checks.

## 3. The runs

| Run | Properties | What it shows |
|---|---|---|
| `sessions_concurrent` | TypeOK, HeldTokenHasSession, RevokedFamilyFrozen, SessionHistory | two requests of any kind, crashes, a token from before families and sessions |
| `sessions_serial` | OneLiveToken, SessionLimit, SuspendedHasNoSession, AbsoluteCap, IdleCap, FirstReasonKept | the documented promises, one request at a time, against the clock |
| `sessions_liveness` | RevocationCompletes | revocation loops reach their end beside another request |
| `throttle` | TypeOK, GuessesBounded, LockoutBounded | logins overlap, with and without a client address, while Redis answers, and while it does not; one login at a time while it comes and goes and the fallback evicts; locks end, escalation is capped |
| `challenge` | TypeOK, ChallengeMintsOnce, FactorRedeemedOnce, EnabledHasDevice, OneLiveCode, RedeemsLiveFactor, OtpGuessesBounded, RemovedStaysRemoved | overlapping factor requests with crashes; two logins beside one factor request; emailed codes with resends and guesses |
| `interactions` | TypeOK, NothingDropped, ImplementsLedger, DrainEnds, PublishedIsStored | two workers under one name, crashes, failures, a malformed entry, a trimmed stream |
| `tenancy` | TypeOK, RolesStayHome, AttemptsLimited, NoTenantGrant, InvitationSpentOnce, LastAdminKept | roles stay in their scope, a tenant grants no platform permission, an invitation makes one member and is closed by wrong codes, a team keeps an administrator request by request |
| `credentials` | TypeOK, LogoutHolds, ClaimsBoundedStale, UsesBounded, RevocationBounded, TenantIsolation, MessageUsedOnce | what was withdrawn stops working in time, counters hold, nobody ends in another tenant's account, no SAML message counts twice within the life of its replay key |
| `rotation_single_use`, `acceptance_atomic`, `team_race`, `logout_replay` | OneLiveToken; AcceptanceIsAtomic; LastAdminKept; LogoutRequestUsedOnce | expected to fail, see below |

### Where code and documents disagree

`rotation_single_use` repeats `sessions_serial`'s OneLiveToken with two slots and
fails: two overlapping refreshes of one token both read it as live, and both
insert a successor. The repository's README calls a refresh token single-use.

`acceptance_atomic`: `accept_new_user` flushes the new account and resolves the
invitation's roles. If one of them has gained a GLOBAL permission since it was
invited, the refusal is audited by `log_event` with its default commit
(`role_service.py:305`), which commits the account too; the invitation stays
pending. `org_invitation_service.py:4` says they share one transaction.

`team_race` is `tenancy`'s LastAdminKept with requests that overlap: the last two
administrators demote or remove each other, each counts two
(`team_service.py:198`), and the team has none. `team_service.py:134` calls the count
the choke point that keeps one.

`logout_replay`: `tests/test_saml_slo.py:724` says a LogoutRequest that was accepted is
rejected when it is sent again, and `org_saml_service.py:869` calls the replay key the only
defence against that. The key lives 600 s from the first use
(`_SAML_REPLAY_TTL_SECONDS`, `org_saml_service.py:823`, where the comment speaks of
windows of "typically 2-5 minutes"), while a LogoutRequest is valid as long as its provider says, or
for ever if it carries no `NotOnOrAfter`; the requests the tests themselves send carry
none (they are built by the library's `auth.logout()`). In the run one without it is
acted on, its key expires, and it is acted on again: sessions opened in between under
that NameID are ended. MessageUsedOnce is what does hold.

Other properties that are checked with one slot state promises that hold
request by request and not for overlapping ones. A second slot in the same
configuration, or the change named, gives the counterexample:

| Property | Configuration, changed | Promise | What happens |
|---|---|---|---|
| SessionLimit | `sessions_serial`, two requests | the lock keeps two logins from exceeding the limit (`auth_service.py:276`) | the commit in the eviction loop releases the lock |
| SessionLimit | `sessions_serial`, `Legacy` two tokens | the same | the session a legacy token gets at its first rotation is not counted |
| SuspendedHasNoSession | `sessions_serial`, two requests (or `Crashes`) | every session of a suspended user is revoked (`auth_service.py:635`) | a login already past the password check adds one; a sweep that dies is not resumed |
| FirstReasonKept | `sessions_serial`, two requests | the first revocation's reason stays (`session_service.py:240`) | the later commit overwrites it |
| OneLiveBatch, part of OneLiveCode | `challenge`, without the condition `~disturbed` | never two live batches of recovery codes (`mfa_service.py:795`) | two overlapping requests leave two |
| EnabledHasDevice | `challenge`, without the condition `~disturbed` | removing the last device switches MFA off (`tests/test_mfa.py:344`) | two overlapping removals leave it on |
| GuessesBounded | `throttle`, `TicksPerSecond = 3` | a locked account's attempts do not reach the password check (`rate_limit.py:66`) | in the last half second of a lock Redis answers TTL 0, and the attempt is not counted |

PublishedIsStored has an exception for parked entries for a similar reason.
`interaction_consumer.py:195` says an entry whose write failed is "redelivered on
the next `_drain_own_pending` after a restart, or immediately retried in the same
process"; the loop only reads new entries, so a worker that keeps running never
returns to it. The same holds for entries whose XREADGROUP answer was lost, which
`interaction_consumer.py:308` calls "functionally identical to an empty response".
Without the exception the property fails.

Two more follow from the same steps and have no property of their own: the commit
in the eviction loop (`auth_service.py:315`) writes the new token before its
session exists, where `session_service.py:83` says they are persisted together;
HeldTokenHasSession shows that no client holds such a token. And `issue_code`
(`email_mfa_service.py:65`) counts the codes sent on the snapshot from before its
row lock, so overlapping requests can exceed the hourly limit by the codes they
do not see; OneLiveCode shows that the invalidation of older codes, which is an
UPDATE, does not suffer from it.

From the newer modules, also without a property of their own:

* two key creations that overlap each count the keys of before
  (`routes_apikeys.py:244`) and may exceed `MAX_ACTIVE_KEYS_PER_USER` by one;
* the unique key of `oauth_accounts` contains the configuration's id, which is NULL for
  a global provider (`models.py:182`): two first sign-ins that overlap may both insert a
  link of one subject. TenantIsolation speaks of organisations' providers, whose ids
  are not NULL;
* a launch token authorises the next launch, which copies its claims without reading
  the database (`routes_oauth_token.py:181`): a permission once held lasts as long as the
  chain is renewed. RevocationBounded leaves launch tokens out for that reason;
* the replay key of an assertion used in the second it was asked for is gone in the
  second in which its RelayState expires, and the RelayState still counts then:
  MessageUsedOnce excepts that second;
* a replayed code is counted against an invitation as it was read after the lock was
  given up (`org_invitation_service.py:484`). Two such requests can both write the same
  number, a count can be lost, the counter can pass
  `ORG_INVITATION_MAX_ACCEPT_ATTEMPTS`, and at the limit a row that was accepted in
  between becomes "revoked" again, although the membership stays. AttemptsLimited says what
  holds: no row stays open at the limit, and the counter passes it by no more than the
  requests that overlapped;
* a LogoutRequest finds sessions by the NameID stored on them; a sign-in that waits
  for its second factor has none yet and completes afterwards;
* `org_saml_service.py:854` says of the access-token blacklist check that it fails
  open; `token_revocation.py` answers 503 (and LogoutHolds needs it to);
* changing the issuer or the certificate of a configuration keeps its links and its
  enforcement.

### Bounds

* Request slots: two, where overlap matters. Every handler is a read and one or
  more commits; a violation needs one request to act between two steps of another.
* Pools of tokens, families, devices, codes, challenges and emailed codes: one to
  four, so that a family holds a rotated token, its successor and a racing one,
  and a limit of one or two is exceeded by one. Operations start only when a row
  is left for them; the guards name the pools.
* Clock: `MaxNow` 0 in the concurrent and liveness session runs, whose properties
  do not mention time, and 3 in `sessions_serial`, past the idle (1) and absolute
  (2) limits. `MaxNow` 1 in the challenge runs: the emailed codes' lifetime, the
  cooldown and the hour are one period, and a TOTP code is valid before and after
  its own. Ages and TTLs in the throttle run down and need no bound.
* `MaxStrikes`: escalation reaches its cap below it; a strike beyond it waits for
  the counter to expire.
* `throttle`: `FallbackMaxKeys` 3, so that eviction happens. While Redis comes and
  goes there is one login at a time from one address, and one strike at a time in
  the two stores together; escalation is reached with Redis steady.
* `interactions`: two entries in a stream that may be trimmed to one, pages of two
  when reading and of one when draining, one stop and one failure. That is enough
  for a crash between row and XACK, for two processes on one entry, and for a
  malformed entry in front of a good one.
* `challenge` has three foci. "devices": two factor requests, three devices and three
  codes, with crashes, and no login. "factors": two logins that answer with TOTP or
  recovery codes beside one factor request at a time. "email": two logins that are
  asked for an emailed code first. Each brings together the requests that meet in
  the same rows. `EmailMfa` is on: what the service does with it off is the part
  of its behaviour without the emailed steps.
* `tenancy`: two organisations (one of them the default), the root administrator and
  two more users, one role beyond the built-in ones, two permission lists. "orgs" and
  "founding" stay within `MaxChanges` differences (two, and two more) of the state
  after, or before, an organisation is founded: a role leaves its scope by a change of
  the role and a change of who holds it. "life" has two invitations and one request at
  a time, "overlap" one invitation and two requests, "both" one invitation while
  roles, members and tokens change, "team" three people. `View` leaves out
  `authority`, which belongs to the step that was taken and guards nothing.
  Requested names never are those of the seeded roles: `init_admin` looks those up
  by name without a scope, and would take an organisation's role of that name
  if the platform's were deleted.
* `credentials`: each part has its own foci, two of what can race and one of the rest;
  clocks run two to four ticks, one past the longest lifetime in use. In
  `ServiceCredentials` a tick is longer than a key exchange (RevocationBounded would
  otherwise hold up to the length of a request); logouts and activations may span it.
  A LogoutRequest is valid for as long as a replay key lives, for twice as long or
  without end.
* Symmetry covers slots and pools; the runs with liveness properties use none.

### Fairness

`FairSpec` of `RefreshSessions` has weak fairness of each running request's next
step. A worker that has not died runs its handler to the end, and
no modelled step waits for another request. Clients, the clock, crashes and the
administrator have none. The run excludes crashes: a dead sweep is not resumed.

`FairSpec` of `InteractionConsumer` has weak fairness of each worker's own steps:
`run()` loops without waiting for anything but Redis, and the container platform
starts a worker that ended (the one part the code does not show; the module's
recovery design assumes it). Producers, failures, stops and trimming have none.

## 4. What is proved

`RefreshSessionsProofs`, for every number of tokens and families and all limits, from
`ConstantsAssumption` (the pools' special values are not members, limits are
naturals, at least one session is allowed). The first six are about any number of
overlapping requests, with crashes and tokens from before families:

| Theorem | Property | Under |
|---|---|---|
| `TypeCorrect` | TypeOK | the assumption alone |
| `AbsoluteCapHolds` | AbsoluteCap | the assumption alone |
| `IdleCapHolds` | IdleCap | the assumption alone |
| `HeldTokensHaveSessions` | HeldTokenHasSession | the assumption alone |
| `SessionHistoryHolds` | SessionHistory | the assumption alone |
| `RevokedFamilyFrozenHolds` | RevokedFamilyFrozen | the assumption alone |
| `OneLiveTokenHolds` | OneLiveToken | `Serial` |
| `FirstReasonKeptHolds` | FirstReasonKept | `Serial` |
| `SuspendedHasNoSessionHolds` | SuspendedHasNoSession | `Serial`, no crashes |
| `SessionLimitHolds` | SessionLimit | `Serial`, no legacy tokens |

`Serial` says that there is one request slot: any two members of `Requests` are equal. Each
extra hypothesis marks where the code stops keeping its promise. Without
`Serial` the four properties fail (section 3). A suspension is committed before
its sweep, and a sweep that dies is not resumed. A legacy token without a session row gets
one when it is next rotated, and that creation does not count the sessions there are
(`auth_service.py:808`), so a user of before may hold more than the limit.

The argument has layers. `TypeInv` adds to TypeOK which fields a handler has
set at which point (`ControlInv`), that a rotated row has a family, and that a row
read with a family keeps one: without them the rows a commit writes have no type.
`SessionInv` adds

* `LoginOwns`: the family of a login in flight is its own, has no session yet and
  no token in a client's hands. This is what makes the early commit of the token
  harmless;
* `HeldInv`: held tokens exist and have sessions;
* `WriteInv`: a revocation about to be written saw a row, so it inserts none;
* `TimeInv`: a rotation in flight passed its checks within the session's
  lifetime, and `created` never moves, so the token it commits later did too.

Each has one lemma per group of actions. Two of the action properties follow from
`SessionInv` and a case per action: a frozen family stays frozen because a
rotation must read an active session first and none in flight has.

The others stand on `SessionInv` and an invariant of their own:

* `IdleInv` (IdleCap): every recorded use of a session, every time at which a rotation
  in flight passed its checks, and every time at which a token was accepted, is `Backed`:
  within the idle limit of the session's creation or of a *different* token
  of its family. IdleCap speaks of tokens and the code compares `last_activity_at`; the
  invariant is what connects them when several requests move both.
* `LiveInv` (OneLiveToken): a family has one live token and a rotation in flight holds it,
  so that its commit uses one up for the one it adds. With two requests the second half
  fails first, which is the race of `rotation_single_use`.
* `ActiveWrites` (FirstReasonKept): a revocation about to be written still finds the
  session active.
* `SuspendInv` (SuspendedHasNoSession): `SweepCovers` says that while the account is
  suspended each active session is still ahead of the sweep; it needs `GrantsNeedActive` (no
  login or rotation is under way then) and `DisableKnowsAll` (what the sweep has
  listed before the status commits is every active session).
* `LimitInv` (SessionLimit): besides the limit, `LoginFits` (a login in flight leaves
  room for its session, counting what it is about to evict as gone) and `RotationFits` (a
  session that expires and is used again was counted). `EvictionMakesRoom` is the
  arithmetic of the eviction loop.

`InteractionConsumerProofs`, from `InteractionAssumption` (sets of events and names
are what they say, page sizes and MAXLEN are positive), for any number of workers
under any names, any entries, stops and failures:

| Theorem | Property |
|---|---|
| `ConsumerImplementsLedger` | ImplementsLedger |
| `NothingIsDropped` | NothingDropped |
| `ConsumerTypeCorrect` | TypeOK |

NothingDropped is not inductive: an acknowledgement must know that its row exists.
`Inv` adds `StoredInv` (a worker about to acknowledge has the row of the first entry
of its page), `GroupInv` (pages and pending lists hold delivered entries, and those
are published, so XADD cannot change what they refer to) and `OfferedInv` (entries
and the API's unfinished events exist). The refinement follows step by step: a
producer's step is Offer, Record or a stutter, reads and the life of a worker are
stutters, `Persist` is Record and `Ack` is Settle.

`LoginThrottleProofs`, for every finite set of overlapping requests, all accounts and
addresses and all limits (`RateLimitAssumption`, `LoginAssumption`). The settings'
assumptions say that they are positive and that a base lockout, and the fallback's
window, are no longer than `MaxLockout`:

| Theorem | Property | Under |
|---|---|---|
| `TypeCorrect` | TypeOK | the assumptions |
| `LockoutsEnd` | LockoutBounded | and `Steady`: Redis is up throughout, or down throughout |
| `GuessesAreBounded` | GuessesBounded | and `TicksPerSecond <= 2`; Redis comes and goes |

Both hypotheses are about the code, not about the proof. If Redis returns between
a strike and the extension it asked for, the lock of one store and the extension of the
other add up beyond the bound. And TTL answers whole seconds: with three ticks to a second a
lock of one tick is rounded to 0, and a guess in that tick is not counted (section
3 shows this as a violated variant). `throttle` checks
both with Redis steady; where Redis comes and goes it reaches no extension, which is
what LockoutBounded needs there. The invariants are per key:

* `ThrottleTypes`: no counter, lock or strike outlives its setting, escalation included;
* `LocksTimed`: the time a key has been locked and the time left on its lock stay within
  one setting and one stretch for each request still to extend it;
* `GuessesSound`: a free key has at most as many guesses as its counter says, but for the
  requests that still owe one; any key has, together with the requests past the
  peek, fewer than the limit and the slack. Limits alone are not inductive: what a request
  will still add must be counted before it is added, which is why `Requests` is finite.

Every request step is a composition of the rate limiter's primitives, so each primitive has
one lemma about its effect on a key (`AttemptEffect`, `ExtendEffect`, `StrikeEffect`,
`ClearEffect`, `ElapseEffect`) and the actions cite those.

`MfaChallengeProofs`, for every number of devices, codes, challenges, logins and
requests, any limits and lifetimes:

| Theorem | Property |
|---|---|
| `TypeCorrect` | TypeOK |
| `OneSessionPerChallenge` | ChallengeMintsOnce |
| `FactorsAreSingleUse` | FactorRedeemedOnce |
| `FlagMatchesDevices` | EnabledHasDevice |
| `NewCodesSupersede` | OneLiveCode |
| `StaleFactorsRefused` | RedeemsLiveFactor |
| `GuessesAreCounted` | OtpGuessesBounded |
| `RemovalIsFinal` | RemovedStaysRemoved |

The assumptions say that devices' TOTP steps, recovery codes and emailed codes are
different things (three tables) and that one batch of recovery codes exists at the
start. `ChallengeInv` is about three things. `DevicesInv`: while nothing was disturbed, at most one
request is under way and its snapshot is `Accurate`, also half way between its
commits. `SnapshotsSound`, `MintsSound`, `FactorsSound`: a login's snapshot may be stale,
so what it redeems is decided by the row: a factor that was redeemed once is marked
in the row (or, for a TOTP step, in the table of used steps), a challenge that minted
is among the revoked tokens, and at most one request is past its consumption, whatever
any snapshot says. `GuessesSound` and `OneLive`: wrong guesses at a live code do
not exceed the attempts in its row, and at most one emailed code is live.

`TenancyProofs`, for every number of users, organisations, roles, invitations and
overlapping requests:

| Theorem | Property | Of |
|---|---|---|
| `TenancyTypeCorrect` | the invitations' types | `InvitationsSpec` |
| `RolesNeverStray` | RolesStayHome | `InvitationsSpec` |
| `TenantsGrantNothingGlobal` | NoTenantGrant | `InvitationsSpec` |
| `InvitationsAreSpentOnce` | InvitationSpentOnce | `InvitationsSpec` |
| `AttemptsAreLimited` | AttemptsLimited | `InvitationsSpec` |
| `TeamsKeepAnAdmin` | LastAdminKept | `SerialTeamsSpec` |

`RolesInv` adds to the types `CatalogueSound` (built-in roles are the platform's; a row
that exists has a name) and `HoldingsSound` (who holds a role holds one of the
organisation, or of the platform). One assumption is needed that is not about shapes:
the names requested for organisations' roles are not those of the seeded ones, since
`get_or_create_role` looks these up among the platform's rows. For NoTenantGrant every
step is either taken by a platform permission or `Harmless`: global assignments stay, no
role gains a global permission, and a role newly held in an organisation carries
none. `InvitationsInv` adds `RowsClosed` (what was
spent is not pending; one pending row for an organisation; fewer codes tried than
allowed while pending) and `RequestsSound`: a
request between two commits is about a row that was written, and what a replayed code
read of a row that is still pending was not "revoked" and below the limit. Nothing else
is concluded from what a request had read: an acceptance that gave up its lock checks
again when it resumes. For AttemptsLimited `CountsBounded` weighs the counter, and every
value of it that a request has read, against the requests still in flight on the row
(`InFlight`): together they stay within the limit plus the number of slots, because a
request that writes one more is no longer in flight, and none starts on a closed row. The
slots are finitely many (`InvitationsAssumption`). `SerialTeamsSpec` starts a request on the team only when none is
under way; then the count it has read still stands at the commit (`CountStands`).
Without that the property is false (`team_race`).

Two more theorems are about `MCTenancy`, where these parts run side by side from
the starts the run uses:

| Theorem | Property | Of |
|---|---|---|
| `TenancyPartsTypeCorrect` | TypeOK | `MCTenancy`'s `Spec` |
| `TenancyPartsSound` | RolesStayHome, AttemptsLimited, NoTenantGrant, InvitationSpentOnce, LastAdminKept | `MCTenancy`'s `Spec` |

`FoundedSound` shows that the state in which an organisation has been founded obeys
`RolesInv`, so starting there leaves nothing out that the invariant forbids.
`TenancyInv` joins the parts' invariants; the organisations' own requests move only beside
an invitee who has an account. Bounds and foci only restrict steps, and the proof uses none of
them: it holds for any `MaxChanges` and any lists of permissions and roles.

`BearerProofs` and `SignOnProofs`, for every number of tokens, keys, licences, accounts, providers and requests, and all lifetimes:

| Theorem | Property | Of | What the invariant adds to the types |
|---|---|---|---|
| `LogoutIsFinal` | LogoutHolds | `TokensSpec` | the blacklist key lasts as long as the token, or the token has expired (`LogoutLasts`) |
| `ClaimsAgeBounded` | ClaimsBoundedStale | `TokensSpec` | claims held when the pair was signed (`ClaimsOnceTrue`) |
| `RevocationIsBounded` | RevocationBounded | `CredentialsSpec` | a derived token's source and permissions stood at its issue (`WellDerived`), an exchange's at its verification (`ExchangeCurrent`) |
| `UsesAreBounded` | UsesBounded | `LicensesSpec` | an activation writes one more than it read below the limit (`ActivationsSound`); idempotency record and history agree (`IssuanceSound`) |
| `TenantsAreIsolated` | TenantIsolation | `FederationSpec` | what a sign-in carries from step to step (`FlowsSound`), links are unique per organisation's provider and subject (`LinksUnique`) |
| `MessagesCountOnce` | MessageUsedOnce | `SamlSpec` | a message used once has its replay key until ReplayTTL after it was sent, or longer (`RequestsRemembered`, `OrdersRemembered`) |

`TokensTypeCorrect`, `CredentialsTypeCorrect`, `LicensesTypeCorrect`,
`FederationTypeCorrect` and `SamlTypeCorrect` are the type invariants. Assumptions beyond shapes: an access token lives no longer than its
refresh token; API keys and OAuth clients are different rows; a RelayState
lives no longer than a replay key (both ten minutes:
`create_saml_relay_state_token`, `_SAML_REPLAY_TTL_SECONDS`); assertions and
logout messages have different replay keys (`saml_replay`, `saml_slo_replay`). Nothing is
assumed of how long a LogoutRequest is valid: MessageUsedOnce gives it one use within
`ReplayTTL` of its issue, hence one for good if its `NotOnOrAfter` comes by then.

`CredentialsProofs` is about the five ways in side by side, as `MCCredentials` runs them:
a step of the whole is a step or a stutter of each part (`WaysInStep`), so their
invariants hold together (`WaysInInv`), and with them `WaysInTypeCorrect` (TypeOK) and
`WaysInSound` (the five other invariants of the run, and MessageUsedOnce).

Every safety property and every action property of the passing runs is stated by a theorem.
Left to TLC is liveness: RevocationCompletes, DrainEnds and PublishedIsStored need
fairness and ENABLED, which are outside the prover's reach. So are the hypotheses'
necessity, which the failing runs and the variants of section 3 show by counterexample.

## 5. Not modelled

| Part | Why |
|---|---|
| MFA throttle | the login throttle's primitives in the same order with another key; a second instance of `RateLimit` would repeat `throttle` |
| Enrollment sessions | one row claimed by a conditional UPDATE, the pattern of `ConsumeJti`; may follow as a part of `MfaDevices` |
| Integration credentials | versions of one row under a lock; may follow |
| Token audiences, the refusal of special-purpose tokens | a test of one claim, without state |
| Two replicas seeding at once | unlocked lookups followed by inserts; `StartUp` is one step, so it says what one start after another does |
| Audit ledger | an insert beside the operation it records; where its commit ends a transaction early, it is part of the modelled action |
| Configuration, platform and identity views, research inquiries | single rows read or written, or read-only projections |
| Passwords, keys, encryption, signatures, certificates, discovery | stateless; what a provider attests is believed |
| Schema checks, tenant provisioning | I/O and a fire-and-forget call |

## 6. Plan

What would extend the models next: the enrollment sessions as a part of `MfaDevices`, and
the integration credentials with their versions.
